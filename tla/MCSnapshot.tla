----------------------------- MODULE MCSnapshot -----------------------------
(* A small instance of the snapshot RPCs. *)
EXTENDS SnapshotProperties

(* Widths scaled down: U8 is 0..3, I64 is -8..7. *)
MCBits ==
    [U8  |-> [width |-> 2, signed |-> FALSE], U16 |-> [width |-> 3, signed |-> FALSE],
     U64 |-> [width |-> 4, signed |-> FALSE],
     I8  |-> [width |-> 2, signed |-> TRUE],  I64 |-> [width |-> 4, signed |-> TRUE]]

MCMax32 == 6
MCProfiles == [p |-> [pinned |-> TRUE, overLimits |-> FALSE], q |-> [pinned |-> FALSE, overLimits |-> FALSE],
               r |-> [pinned |-> TRUE, overLimits |-> TRUE]]

Column(n, t) == [name |-> n, type |-> t, ordinary |-> TRUE]
Entry(id, n, cols) == [id |-> id, database |-> "d", name |-> n, columns |-> cols]
MCCatalog ==
    <<Entry(1, "x", <<Column("a", "U8"), Column("b", "U8")>>),
      Entry(2, "y", <<Column("a", "U8"), Column("b", "U8")>>),
      Entry(3, "z", <<Column("c", "U8"), Column("e", "U16")>>),
      Entry(4, "t", <<Column("a", "U8"), Column("b", "U8")>>),
      Entry(5, "u", <<Column("a", "U8"), Column("b", "U16")>>),
      Entry(6, "g", <<[Column("a", "U8") EXCEPT !.ordinary = FALSE]>>),
      Entry(7, "f", <<Column("a", "FixedString(16)")>>)>>

Table(schema, n, alias) == [kind |-> "table", schema |-> schema, name |-> n, alias |-> alias]
Sub(q, alias) == [kind |-> "subquery", query |-> q, alias |-> alias]
Col(q, n) == [kind |-> "col", qual |-> q, name |-> n]
Lit(n) == [kind |-> "lit", n |-> n]
Rand(n) == [kind |-> "rand", name |-> n]
As(e, n) == [kind |-> "alias", this |-> e, name |-> n]
Scal(q) == [kind |-> "scalar", query |-> q]
Op(l, r) == [kind |-> "op", left |-> l, right |-> r]
In(e, q) == [kind |-> "in", this |-> e, query |-> q]
Not(e) == [kind |-> "not", this |-> e]
Select(defs, exprs, from, ons, where) ==
    [kind |-> "select", with |-> defs, exprs |-> exprs, from |-> from, ons |-> ons, where |-> where]
Union(defs, l, r) == [kind |-> "union", with |-> defs, left |-> l, right |-> r]
Pair(defs, rel) == Select(defs, <<Col("", "a"), Col("", "b")>>, <<rel>>, <<>>, <<>>)
Insert(target, columns, defs, q) ==
    [target |-> Table("", target, ""), columns |-> columns, with |-> defs, query |-> q]

(* CTEs named like the tables, at the INSERT's WITH and the query's.       *)
Sources == {Table("", "x", ""), Table("", "y", ""), Table("d", "x", "")}
Defs1 == {<<[name |-> n, query |-> Pair(<<>>, r)]>> : n \in {"x", "y"}, r \in Sources}
Defs2 == {d \o f : d, f \in Defs1}
Nested == {Insert("t", <<>>, w[1], Pair(w[2], r)) :
             w \in ({<<>>} \X ({<<>>} \cup Defs1 \cup Defs2)) \cup (Defs2 \X ({<<>>} \cup Defs1))
                    \cup (Defs1 \X Defs2), r \in Sources}

(* Joins whose columns are qualified, with aliases that swap the names.    *)
Joined == {Table("", "x", ""), Table("", "y", ""), Table("", "x", "y"), Table("d", "y", "x"), Table("", "z", "")}
Joins == {Insert("t", <<>>, w, Select(<<>>, es, <<r, s>>, <<Op(Col(q, "a"), Lit(1))>>, <<>>)) :
             w \in {<<>>} \cup {<<[name |-> "x", query |-> Pair(<<>>, Table("", "y", ""))]>>},
             es \in {<<Col("x", "a"), Col("y", "b")>>, <<Col("x", "a"), Col("x", "b")>>, <<Col("", "a"), Col("", "c")>>,
                     <<Col("x", "a"), Col("", "c")>>},
             r \in Joined, s \in Joined, q \in {"", "x", "y"}}

(* Literals, scalars and comparisons, seen directly or through a CTE, a    *)
(* subquery or a UNION ALL.                                                *)
One(e) == Select(<<>>, <<e>>, <<>>, <<>>, <<>>)
Values == {Lit(-1), Lit(3), Lit(4), Lit(16), Lit(-9), Col("", "a"), Col("", "b"), Scal(One(Lit(2))), Scal(One(Lit(5))),
           Scal(Select(<<>>, <<Col("", "a")>>, <<Table("", "y", "")>>, <<>>, <<>>)),
           Scal(Pair(<<>>, Table("", "y", ""))), [kind |-> "str"], [kind |-> "other"],
           Op(Col("", "a"), Scal(One(Lit(1)))), Not(Col("", "a")), As(Lit(2), "a"), As(Lit(1), "k"),
           In(Col("", "b"), Select(<<>>, <<Col("", "c")>>, <<Table("", "z", "")>>, <<>>, <<>>)),
           In(Lit(1), Pair(<<>>, Table("", "y", "")))}
Of(v, rel) == Select(<<>>, <<As(v, "k"), Col("", "b")>>, <<rel>>, <<>>, <<>>)
Through(v) == {Of(v, Table("", "x", "")),
               Select(<<>>, <<Col("", "k"), Col("", "b")>>, <<Sub(Of(v, Table("", "x", "")), "")>>, <<>>, <<>>),
               Select(<<[name |-> "y", query |-> Of(v, Table("", "x", ""))]>>,
                      <<Col("", "k"), Col("y", "b")>>, <<Table("", "y", "")>>, <<>>, <<>>),
               Union(<<>>, Of(v, Table("", "x", "")), Of(v, Table("d", "y", "")))}
              \cup {Union(<<>>, Of(v, Table("", "x", "")), Of(w, Table("", "y", ""))) : w \in {Lit(3), Lit(4), Col("", "a")}}
Shown == {Insert(t, c, <<>>, q) : t \in {"t", "u"}, c \in {<<>>, <<"b", "a">>}, q \in UNION {Through(v) : v \in Values}}
Filtered == {Insert("t", <<>>, <<>>, Select(<<>>, <<Col("", "a"), Col("", "b")>>, <<Table("", "x", "")>>, <<>>, <<v>>)) :
               v \in Values}
Odd == {Insert(t, c, <<>>, Pair(<<>>, r)) : t \in {"t", "g", "f", "none"},
            c \in {<<>>, <<"a">>, <<"a", "a">>, <<"a", "c">>}, r \in {Table("", "x", ""), Table("", "g", ""), Table("", "f", ""), Table("", "w", "")}}
       \cup {Insert("f", <<>>, <<>>, Select(<<>>, <<v>>, <<>>, <<>>, <<>>)) : v \in {Lit(1), [kind |-> "str"]}}

(* Random calls in the places a query has for them.                        *)
Drawn == {Insert("t", <<>>, w, Select(<<>>, <<p, Col("x", "b")>>, <<Sub(One(As(j, "m")), "s"), Table("", "x", "")>>,
                                      <<Op(Col("", "m"), o)>>, <<Op(v, Lit(1))>>)) :
            w \in {<<>>, <<[name |-> "x", query |-> Select(<<>>, <<As(Rand("rand64"), "a"), As(Rand("rand"), "b")>>, <<>>, <<>>, <<>>)]>>,
                   <<[name |-> "unused", query |-> One(Rand("rand64"))]>>},
            p \in {Lit(1), Rand("rand64")}, j \in {Lit(1), Rand("rand32")}, o \in {Lit(1), Rand("rand64")},
            v \in {Lit(2), Rand("rand")}}

(* Calls: one in order, and the ways a call can be out of order. *)
Plain(rpc, materialize, pool) ==
    [rpc |-> rpc, nil |-> FALSE, contract |-> 1, profile |-> "p", sqlTooLong |-> FALSE, descriptorTooLong |-> FALSE,
     inputs |-> IF pool = <<>> THEN {} ELSE {"random"}, badCatalog |-> FALSE, ordinary |-> FALSE,
     planTooLong |-> FALSE, ungenerable |-> FALSE, preparedTooLong |-> FALSE, slow |-> FALSE,
     env |-> [materialize |-> materialize, pool |-> pool]]
Base == {[Plain(rpc, m, <<>>) EXCEPT !.slow = TRUE] : rpc \in {"analyze", "prepare"}, m \in BOOLEAN}
Flagged == UNION {{r, [r EXCEPT !.nil = TRUE], [r EXCEPT !.contract = 2], [r EXCEPT !.sqlTooLong = TRUE],
                   [r EXCEPT !.descriptorTooLong = TRUE], [r EXCEPT !.inputs = {"random"}], [r EXCEPT !.inputs = {"uuid"}],
                   [r EXCEPT !.badCatalog = TRUE], [r EXCEPT !.ordinary = TRUE], [r EXCEPT !.planTooLong = TRUE],
                   [r EXCEPT !.ungenerable = TRUE], [r EXCEPT !.preparedTooLong = TRUE],
                   [r EXCEPT !.profile = "q"], [r EXCEPT !.profile = "r"], [r EXCEPT !.profile = "none"]} : r \in Base}

(* Scratch tables have names of their own, the names of other tables, or   *)
(* all one name in databases of their own.  The caller learnt the tables   *)
(* read from an analysis; bindings of others are refused.                  *)
Bound(reads, name(_), db(_)) ==
    LET ids == SetToSortSeq(reads, <)
    IN  [i \in DOMAIN ids |-> [id |-> ids[i], database |-> db(ids[i]), table |-> name(ids[i])]]
Own(reads) == Bound(reads, LAMBDA i : <<"s1", "s2", "s3">>[i], LAMBDA i : "s")
Swapped(reads) == Bound(reads, LAMBDA i : <<"y", "x", "x1">>[i], LAMBDA i : "s")
Apart(reads) == Bound(reads, LAMBDA i : "x", LAMBDA i : <<"s1", "s2", "s3">>[i])
ReadSets == {{}, {1}, {2}, {1, 2}, {1, 3}, {2, 3}}
Schemes == {Own(r) : r \in ReadSets} \cup {Swapped(r) : r \in ReadSets} \cup {Apart(r) : r \in ReadSets}
Simple == Insert("t", <<"b", "a">>, <<>>, Pair(<<>>, Table("", "x", "")))
TwoTables == Insert("t", <<>>, <<>>, Union(<<>>, Pair(<<>>, Table("", "x", "")), Pair(<<>>, Table("", "y", ""))))
BadBindings ==
    {<<>>, <<[id |-> 1, database |-> "s", table |-> "k"]>>}
    \cup {<<[id |-> i, database |-> "s", table |-> k], [id |-> j, database |-> e, table |-> l]>> :
            i \in {1, 2, 3}, j \in {1, 2, 3}, k \in {"k", ""}, e \in {"s", "s2", ""}, l \in {"k", "l"}}
Pools == {<<>>, <<0>>, <<1, 2>>, <<3, 9, 2>>, <<9, 5, 6, 4>>, <<1, 2, 3, 4, 5>>, <<1, 2, 3, 4, 5, 6>>}

Family(calls, inserts, bindings) == [calls |-> calls, inserts |-> inserts, bindings |-> bindings]
MCRequests ==
    <<Family({Plain("prepare", FALSE, <<>>)}, Nested,
             {Own({1}), Own({2}), Own({1, 2}), Swapped({1, 2}), Apart({1, 2})}),
      Family({Plain("prepare", FALSE, <<>>)}, Joins, Schemes),
      Family({Plain("prepare", FALSE, <<>>)}, Shown \cup Filtered \cup Odd, {Own(r) : r \in ReadSets}),
      Family({Plain("analyze", TRUE, p) : p \in Pools} \cup {Plain("analyze", FALSE, <<>>)}, Drawn, {<<>>}),
      Family(Flagged, {Simple}, {<<>>, Own({1})}),
      Family({Plain("prepare", FALSE, <<>>)}, {TwoTables}, BadBindings)>>
=============================================================================
