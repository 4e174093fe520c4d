--------------------------- MODULE MCMaterialize ---------------------------
(* A statement is a root with a WHERE (key 2) written before it is walked, *)
(* a list of expressions (key 1), and a deterministic call around one.     *)
EXTENDS Materialize

Node(shape, name, args, fields) == [shape |-> shape, name |-> name, args |-> args, fields |-> fields]
Leaf(shape, name) == Node(shape, name, FALSE, <<>>)

Calls == {Leaf("function", f) : f \in {"now", "now64", "yesterday", "rand", "rand64",
                                        "randcanonical", "generateuuidv4", "randnormal"}}
    \cup {Leaf("rand", ""), Leaf("current_date", ""), Leaf("utc_timestamp", ""),
          Leaf("column", "current_timestamp"), Node("column", "current_timestamp", TRUE, <<>>),
          Node("rand", "", TRUE, <<>>), Leaf("column", "c")}

(* a and b in the list, the second inside f(b); c in the WHERE. *)
Statement(a, b, c) ==
    <<Node("other", "", FALSE, (2 :> <<5>>) @@ (1 :> <<2, 3>>)),
      a, Node("function", "f", TRUE, <<<<4>>>>), b, c>>
LastOfPart == <<5, 2, 4, 4, 5>>

Values == [uint64 : {<<1, 2>>, <<7, 1, 2>>}, float64 : {<<0, 3>>, <<4>>},
           uuid : {<<11, 12>>, <<13>>}]
Lower == (11 :> 11) @@ (12 :> 21) @@ (13 :> 13)

Request(nodes, now, values, flag) ==
    [tree |-> nodes, last |-> LastOfPart, now |-> now, values |-> values,
     nil |-> flag = "nil", badPolicy |-> flag = "badPolicy", syntaxError |-> flag = "syntaxError",
     dropsTokens |-> flag = "dropsTokens", generateFails |-> flag = "generateFails"]

Flags == {"nil", "badPolicy", "syntaxError", "dropsTokens", "generateFails", "none"}
Plain == CHOOSE v \in Values : v.uint64 = <<1, 2>> /\ v.float64 = <<0, 3>> /\ v.uuid = <<11, 12>>

SomeRequests ==
    {Request(Statement(a, b, c), {-7}, Plain, "none") : a, b, c \in Calls}
    \cup {Request(Statement(a, b, Leaf("column", "c")), now, v, "none") :
            a, b \in Calls, now \in {{}, {15}}, v \in Values}
    \cup {Request(Statement(a, a, a), {15}, Plain, flag) : a \in Calls, flag \in Flags}
=============================================================================
