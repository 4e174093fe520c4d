--------------------------- MODULE MCCommandParse ---------------------------
(* Instances of CommandParse for TLC: the statements of each family, as the *)
(* product of their parts.                                                  *)
EXTENDS CommandParse

Plain == {<<Var("a")>>, <<Quoted(<<"a", ".", "b">>)>>, <<Kw("FINAL")>>, Parameter}
Targets == {<<n>> : n \in Plain} \cup {<<<<Var("b")>>, n>> : n \in Plain}
           \cup {<<<<Var("c")>>, <<Var("b")>>, <<Var("a")>>>>, <<Parameter, <<Var("a")>>>>,
             <<<<Var("c")>>, <<Var("b")>>, Parameter>>}

MCUses == {[verb |-> "USE", parts |-> p, tail |-> t] : p \in Targets, t \in DOMAIN Tails}

Shows(what, targets, dbs) ==
    {[verb |-> "SHOW", prefix |-> p, what |-> what, sep |-> sep, parts |-> t, db |-> d, like |-> l, tail |-> tl] :
        p \in {<<>>, <<Kw("FULL")>>}, sep \in {"FROM", "IN"}, t \in targets, d \in dbs,
        l \in DOMAIN Likes, tl \in DOMAIN Tails}

MCShows ==
    Shows(Var("COLUMNS"), Targets, {None, <<Var("d")>>, Parameter}) \cup Shows(Var("COLUMNS"), {<<>>}, {None})
    \cup Shows(Var("TABLES"), {<<n>> : n \in Plain} \cup {<<>>}, {None})

TypeWords == {<<Quoted(<<"TEMPORARY">>)>>, <<Quoted(<<"VIEW">>)>>}
Object(verb, temp, type, shape, parts, args, tail) ==
    [verb |-> verb, temporary |-> temp, objType |-> type, shape |-> shape, parts |-> parts,
     fn |-> Var("f"), args |-> args, entity |-> Kw("ROLE"), tail |-> tail]
Args == {<<Str(<<"a", ".", "b">>)>>, <<Var("c")>>, <<Var("d"), Kw("DOT"), Var("e")>>, <<Kw("NUMBER")>>,
         <<Var("g"), Kw("L_PAREN"), Var("h"), Kw("COMMA"), Str(<<"k">>), Kw("R_PAREN")>>}

MCObjects ==
    {Object(v, tmp, ty, "name", p, <<>>, tl) :
        v \in ObjectVerbs, tmp \in BOOLEAN, ty \in {"", "TABLE", "DATABASE"},
        p \in Targets \cup {<<w>> : w \in TypeWords} \cup {<<w, <<Var("a")>>>> : w \in TypeWords}, tl \in DOMAIN Tails}
    \cup {Object(v, FALSE, ty, "call", <<>>, as, tl) :
        v \in ObjectVerbs, ty \in {"", "TABLE"}, as \in {<<x>> : x \in Args} \cup (Args \X Args), tl \in {"none", "format"}}
    \cup {Object(v, FALSE, "", sh, <<>>, <<>>, "none") : v \in ObjectVerbs, sh \in {"subquery", "entity"}}

Star == <<Kw("*")>>
Securables ==
    LET names == {<<Var("a")>>, <<Quoted(<<"a", ".", "b">>)>>, <<Quoted(<<"*">>)>>, <<Quoted(<<"CLUSTER">>)>>, Star}
    IN  {<<>>} \cup {<<n>> : n \in names} \cup (names \X names) \cup {<<<<Var("c")>>, <<Var("b")>>, <<Var("a")>>>>}
Grants(securables) ==
    {[verb |-> v, cluster |-> c, parts |-> s, replace |-> r] :
        v \in GrantVerbs, c \in BOOLEAN, s \in securables, r \in BOOLEAN}
MCGrants == Grants(Securables)

MCWrote == MCUses \cup MCShows \cup MCObjects \cup MCGrants
============================================================================
