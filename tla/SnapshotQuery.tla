--------------------------- MODULE SnapshotQuery ---------------------------
(***************************************************************************)
(* The closed profile of snapshot queries: an INSERT ... SELECT is bound   *)
(* against an authenticated catalog (AnalyzeSnapshot) and lowered onto     *)
(* scratch copies of the tables it reads (Prepare).                        *)
(*                                                                         *)
(* Queries are trees of records.  A query is a select [kind, with, from,   *)
(* ons, exprs, where] or a UNION ALL [kind, with, left, right]; a WITH is  *)
(* a sequence of [name, query]; from holds the relations, joined on ons;   *)
(* where holds at most one expression.  A relation is a table [kind,       *)
(* schema, name, alias] or a subquery [kind, query, alias].  "" stands for *)
(* a part that is not written.  What the code links by pointers, relation  *)
(* nodes and definitions, is identified by its path from the root.  Fields *)
(* outside the profile are one mark: the expression kind "other".  Paren-  *)
(* theses mean their contents.  Refusals of one code whose messages only   *)
(* differ in wording share a name.                                         *)
(***************************************************************************)
EXTENDS Integers, Sequences, FiniteSets, SequencesExt

CONSTANTS
    Bits,       \* Bits[t]: the width and sign of integer type t
    Max32,      \* the largest value of a 32-bit random call
    Database,   \* the logical database of the request
    Catalog     \* its authenticated catalog: [id, database, name, columns]

IntegerTypes == DOMAIN Bits
ColumnTypes == IntegerTypes \cup {"String", "Bool"}
LooseTypes == ColumnTypes \cup {"FixedString(16)"}   \* accepted until the last check
ComparisonType == "U8"      \* UInt8, the type of a comparison

---------------------------------------------------------------------------
(* Integers. *)

inSnapshotRange(n, t) ==
    t \in IntegerTypes /\ LET w == Bits[t].width IN
        IF Bits[t].signed THEN n \in -(2^(w - 1))..(2^(w - 1) - 1) ELSE n \in 0..(2^w - 1)

(* The narrowest type of the literal's sign. *)
smallestSnapshotInteger(n) ==
    LET fits == {t \in IntegerTypes : Bits[t].signed = (n < 0) /\ inSnapshotRange(n, t)}
    IN  CHOOSE t \in fits : \A u \in fits : Bits[t].width <= Bits[u].width

---------------------------------------------------------------------------
(* Results.  err is "" or the refusal; reach is what a part of the query   *)
(* refers to: base table ids, CTE definitions, bound relation nodes, and   *)
(* the nodes a column names by qualifier.                                  *)

Nothing == [bases |-> {}, used |-> {}, nodes |-> {}, marks |-> {}]

(* Mutant: the tables of a merged subquery are forgotten. *)
MergeWithoutBases(a, b) == [f \in DOMAIN a |-> IF f = "bases" THEN a[f] ELSE a[f] \cup b[f]]

mergeSnapshot(a, b) == [f \in DOMAIN a |-> a[f] \cup b[f]]
MergeAll(results) == FoldLeft(LAMBDA acc, r : mergeSnapshot(acc, r.reach), Nothing, results)

(* The first refusal in the order the code meets them. *)
FirstErr(results) ==
    LET bad == SelectSeq(results, LAMBDA r : r.err # "") IN IF bad = <<>> THEN "" ELSE bad[1].err

Value(typ, name) == [typ |-> typ, name |-> name, lit |-> {}, scalar |-> FALSE, nullable |-> FALSE]

(* Mutant: a derived column is taken to be never NULL. *)
DerivedNotNull(cols) ==
    [i \in DOMAIN cols |-> [cols[i] EXCEPT !.lit = {}, !.scalar = FALSE, !.nullable = FALSE]]

(* A column seen through a CTE or a subquery is no literal any more. *)
derivedSnapshotColumns(cols) ==
    [i \in DOMAIN cols |-> [cols[i] EXCEPT !.lit = {}, !.scalar = FALSE]]

NoQuery(e) == [err |-> e, columns |-> <<>>, reach |-> Nothing, leaves |-> 0]

(* base: a table of the catalog, in the current database unless qualified. *)
CatalogEntry(t, env) ==
    LET db == IF t.schema = "" THEN Database ELSE t.schema
    IN  {i \in DOMAIN Catalog : Catalog[i].database = db /\ Catalog[i].name = t.name}

(* A table is refused by the first of its columns that the profile has not. *)
columnRefused(t, i, types) ==
    LET c == t.columns[i]
    IN  IF ~c.ordinary THEN "generation"
        ELSE IF c.name = "_hg_row_id" THEN "reserved"
        ELSE IF c.name = "" \/ \E j \in 1..(i - 1) : t.columns[j].name = c.name THEN "target"
        ELSE IF types /\ c.type \notin ColumnTypes THEN "type"
        ELSE ""

eligibleSnapshotTable(t, types) ==
    FirstErr([i \in DOMAIN t.columns |-> [err |-> columnRefused(t, i, types)]])

---------------------------------------------------------------------------
(* The lexical walk.  It visits the children of a node by the rank of the  *)
(* field they are in, and within a field in order.                         *)

(* Mutant: the tables of a SELECT come before its projection. *)
FromFirst(key) ==
    CHOOSE i \in 1..11 : <<"with", "left", "from", "this", "expressions", "joins", "on",
                           "where_clause", "query", "right", "other">>[i] = key

snapshotLexicalRank(key) ==
    CHOOSE i \in 1..11 : <<"with", "left", "this", "expressions", "from", "joins", "on",
                           "where_clause", "query", "right", "other">>[i] = key

(* The children of a node: [key, step, node], step being the path's next   *)
(* element.  A join holds its relation as "this" and its condition as "on".*)
Children(n) ==
    LET field(key, base, nodes) == [i \in DOMAIN nodes |-> [key |-> key, step |-> base + i, node |-> nodes[i]]]
        defs == field("with", 0, [i \in DOMAIN n.with |-> n.with[i].query])
    IN  CASE n.kind = "select" ->
                defs \o field("from", 200, [i \in DOMAIN n.from \cap {1} |-> n.from[i]]) \o field("expressions", 400, n.exprs)
                \o field("where_clause", 500, n.where)
                \o FlattenSeq([i \in DOMAIN n.ons |->
                        <<[key |-> "joins", step |-> 201 + i, node |-> n.from[i + 1]],
                          [key |-> "joins", step |-> 300 + i, node |-> n.ons[i]]>>])
          [] n.kind = "union" -> defs \o <<[key |-> "left", step |-> 101, node |-> n.left],
                                           [key |-> "right", step |-> 102, node |-> n.right]>>
          [] n.kind \in {"alias", "not"} -> field("this", 0, <<n.this>>)
          [] n.kind = "op" -> <<[key |-> "right", step |-> 4, node |-> n.right],
                                [key |-> "left", step |-> 3, node |-> n.left]>>
          [] n.kind = "in" -> <<[key |-> "query", step |-> 2, node |-> n.query],
                                [key |-> "this", step |-> 1, node |-> n.this]>>
          [] n.kind = "scalar" -> <<[key |-> "this", step |-> 2, node |-> n.query]>>
          [] n.kind = "subquery" -> <<[key |-> "this", step |-> 1, node |-> n.query]>>
          [] OTHER -> <<>>

RECURSIVE LexicalWalk(_, _)

(* The leaves of a tree in the order the walk meets them, as [path, leaf]. *)
LexicalWalk(n, path) ==
    LET parts   == Children(n)
        indices == SortSeq([i \in DOMAIN parts |-> i],
                           LAMBDA i, j : LET a == snapshotLexicalRank(parts[i].key)
                                             b == snapshotLexicalRank(parts[j].key)
                                         IN  a < b \/ (a = b /\ i < j))
    IN  IF parts = <<>> THEN <<[path |-> path, leaf |-> n]>>
        ELSE FlattenSeq([k \in DOMAIN indices |->
                LET c == parts[indices[k]] IN LexicalWalk(c.node, path \o <<c.step>>)])

InsertWalk(ins) ==
    FlattenSeq([i \in DOMAIN ins.with |-> LexicalWalk(ins.with[i].query, <<1, i>>)])
        \o LexicalWalk(ins.query, <<2>>)

Calls(leaves) == SelectSeq(leaves, LAMBDA l : l.leaf.kind = "rand")

(* Each call of rand, rand32 or rand64 takes the next value of the pool,   *)
(* once, whether or not the query uses the definition it stands in; Max32  *)
(* is the largest value of the 32-bit calls.                               *)
materializeSnapshotAST(ins, env) ==
    LET calls == Calls(InsertWalk(ins))
        bad   == {k \in DOMAIN calls : k > Len(env.pool)
                                       \/ (calls[k].leaf.name # "rand64" /\ env.pool[k] > Max32)}
    IN  IF calls # <<>> /\ ~env.materialize THEN [err |-> "residual", random |-> <<>>]
        ELSE IF bad # {} THEN [err |-> "materialization", random |-> <<>>]
        ELSE [err |-> "", random |-> [p \in {calls[k].path : k \in DOMAIN calls} |->
                                        env.pool[CHOOSE k \in DOMAIN calls : calls[k].path = p]]]

---------------------------------------------------------------------------
(* Binding.  scope maps the names of the CTEs in force to [path, columns,  *)
(* reach]; env is the request: materialize, pool.                          *)

RECURSIVE with(_, _, _, _), query(_, _, _, _), relation(_, _, _, _), expr(_, _, _, _, _)

(* The definitions of a WITH see the outer scope and those before them.    *)
with(defs, scope, path, env) ==
    IF defs = <<>> THEN [err |-> "", scope |-> scope]
    ELSE LET n      == Len(defs)
             before == with(Front(defs), scope, path, env)
             q      == query(defs[n].query, before.scope, path \o <<n>>, env)
             twice  == \E j \in 1..(n - 1) : defs[j].name = defs[n].name
             d      == [path |-> path \o <<n>>, columns |-> q.columns, reach |-> q.reach]
         IN  IF before.err # "" THEN before
             ELSE [err |-> IF twice THEN "binding" ELSE q.err, scope |-> (defs[n].name :> d) @@ before.scope]

(* A reference to a CTE uses its definition and all that it uses.          *)
Uses(c) == [c.reach EXCEPT !.used = @ \cup {c.path}]

(* A relation: its columns, its reach, the name that qualifies it, and the *)
(* base it is bound to (bound: the base's id, or 0).                      *)
relation(r, scope, path, env) ==
    IF r.kind = "table"
    THEN LET qualifier == IF r.alias = "" THEN r.name ELSE r.alias
             bases == CatalogEntry(r, env)
         IN  IF r.schema = "" /\ r.name \in DOMAIN scope
             THEN LET c == scope[r.name]
                  IN  [err |-> "", columns |-> derivedSnapshotColumns(c.columns), reach |-> Uses(c),
                       qualifier |-> qualifier, bound |-> 0, path |-> path]
             ELSE IF bases = {}
             THEN [err |-> "catalog", columns |-> <<>>, reach |-> Nothing,
                   qualifier |-> qualifier, bound |-> 0, path |-> path]
             ELSE LET b == Catalog[CHOOSE i \in bases : TRUE]
                  IN  [err |-> "", qualifier |-> qualifier, bound |-> b.id, path |-> path,
                       columns |-> [i \in DOMAIN b.columns |->
                                      Value(b.columns[i].type, b.columns[i].name)],
                       reach |-> [Nothing EXCEPT !.bases = {b.id}]]
    ELSE LET q == query(r.query, scope, path \o <<1>>, env)
         IN  [err |-> q.err, columns |-> derivedSnapshotColumns(q.columns), reach |-> q.reach,
              qualifier |-> r.alias, bound |-> 0, path |-> path]

Scalar(err, val, reach) == [err |-> err, val |-> val, reach |-> reach]
NoValue(e) == Scalar(e, Value("", ""), Nothing)

(* The columns of rels that a name can mean. *)
Named(qual, name, rels) ==
    {ij \in UNION {{i} \X (DOMAIN rels[i].columns) : i \in DOMAIN rels} :
        /\ rels[ij[1]].columns[ij[2]].name = name
        /\ qual \in {"", rels[ij[1]].qualifier}}

(* An alias may not shadow a column unless it is that very column. *)
Shadows(e, rels) ==
    \E i \in DOMAIN rels : \E j \in DOMAIN rels[i].columns :
        /\ rels[i].columns[j].name = e.name
        /\ ~(e.this.kind = "col" /\ e.this.name = e.name /\ e.this.qual \in {"", rels[i].qualifier})

(* A subquery as a value: one column, and NULL when it has no row.         *)
ScalarSubquery(q) ==
    IF q.err # "" THEN NoValue(q.err)
    ELSE IF Len(q.columns) # 1 THEN NoValue("scalar")
    ELSE Scalar("", [q.columns[1] EXCEPT !.scalar = TRUE, !.nullable = TRUE, !.name = ""], q.reach)

(* eq neq gt gte lt lte and or, of integers. *)
Comparison(l, r) ==
    IF l.err # "" THEN l
    ELSE IF l.val.typ \notin IntegerTypes THEN NoValue("syntax")
    ELSE IF r.err # "" THEN r
    ELSE IF r.val.typ \notin IntegerTypes THEN NoValue("syntax")
    ELSE Scalar("", [Value(ComparisonType, "") EXCEPT !.nullable = l.val.nullable \/ r.val.nullable],
                mergeSnapshot(l.reach, r.reach))

Negation(x) ==
    IF x.err # "" THEN x
    ELSE IF x.val.typ \notin IntegerTypes THEN NoValue("syntax")
    ELSE Scalar("", [Value(ComparisonType, "") EXCEPT !.nullable = x.val.nullable], x.reach)

Membership(x, q) ==
    IF x.err # "" THEN x
    ELSE IF q.err # "" THEN NoValue(q.err)
    ELSE IF Len(q.columns) # 1 \/ {x.val.typ, q.columns[1].typ} \ IntegerTypes # {}
         THEN NoValue("syntax")
    ELSE Scalar("", Value(ComparisonType, ""), mergeSnapshot(x.reach, q.reach))

Renamed(e, x, rels) ==
    IF x.err # "" THEN x
    ELSE IF Shadows(e, rels) THEN NoValue("binding")
    ELSE [x EXCEPT !.val.name = e.name]

expr(e, rels, scope, path, env) ==
    CASE e.kind = "lit" ->
            IF ~inSnapshotRange(e.n, IF e.n < 0 THEN "I64" ELSE "U64")
            THEN NoValue("range")
            ELSE Scalar("", [Value(smallestSnapshotInteger(e.n), "") EXCEPT !.lit = {e.n}], Nothing)
      [] e.kind = "str" -> Scalar("", Value("String", ""), Nothing)
      [] e.kind = "col" ->
            LET found == Named(e.qual, e.name, rels)
                at    == CHOOSE ij \in found : TRUE
            IN  IF Cardinality(found) # 1 THEN NoValue("binding")
                ELSE Scalar("", [rels[at[1]].columns[at[2]] EXCEPT !.lit = {}, !.scalar = FALSE],
                            IF e.qual # "" /\ rels[at[1]].bound # 0
                            THEN [Nothing EXCEPT !.marks = {rels[at[1]].path}] ELSE Nothing)
      [] e.kind = "alias" -> Renamed(e, expr(e.this, rels, scope, path \o <<1>>, env), rels)
      [] e.kind = "scalar" -> ScalarSubquery(query(e.query, scope, path \o <<2>>, env))
      [] e.kind = "op" -> Comparison(expr(e.left, rels, scope, path \o <<3>>, env),
                                     expr(e.right, rels, scope, path \o <<4>>, env))
      [] e.kind = "not" -> Negation(expr(e.this, rels, scope, path \o <<1>>, env))
      [] e.kind = "in" -> Membership(expr(e.this, rels, scope, path \o <<1>>, env),
                                     query(e.query, scope, path \o <<2>>, env))
      [] e.kind = "rand" ->
            IF path \notin DOMAIN env.random THEN NoValue("residual")
            ELSE expr([kind |-> "lit", n |-> env.random[path]], rels, scope, path, env)
      [] OTHER -> NoValue("syntax")

(* What Prepare needs to know of a bound node: its base, and the other     *)
(* qualifiers of its select.                                               *)
BoundNodes(rels) ==
    {[path |-> rels[i].path, id |-> rels[i].bound,
      others |-> {rels[j].qualifier : j \in DOMAIN rels} \ {rels[i].qualifier}] :
        i \in {k \in DOMAIN rels : rels[k].bound # 0}}

(* Two columns of UNION ALL agree exactly and are neither literal nor      *)
(* scalar in the result.                                                   *)
UnionErr(l, r) ==
    IF Len(l.columns) # Len(r.columns) THEN "target"
    ELSE IF \E i \in DOMAIN l.columns : l.columns[i].nullable \/ r.columns[i].nullable THEN "scalar"
    ELSE IF \E i \in DOMAIN l.columns : l.columns[i].typ # r.columns[i].typ THEN "output"
    ELSE ""

UnionQuery(l, r) ==
    LET e == FirstErr(<<l, r, [err |-> IF l.err = "" /\ r.err = "" THEN UnionErr(l, r) ELSE ""]>>)
    IN  IF e # "" THEN NoQuery(e)
        ELSE [err |-> "", columns |-> derivedSnapshotColumns(l.columns),
              reach |-> mergeSnapshot(l.reach, r.reach), leaves |-> l.leaves + r.leaves]

(* A select of its bound parts: each join's condition is looked at after   *)
(* its relation, and two relations do not share a qualifier.               *)
SelectQuery(rels, ons, vals, wheres) ==
    LET joins == FlattenSeq([i \in DOMAIN rels |-> IF i = 1 THEN <<rels[i]>> ELSE <<rels[i], ons[i - 1]>>])
        twice == \E i, j \in DOMAIN rels : i # j /\ rels[i].qualifier = rels[j].qualifier /\ rels[i].qualifier # ""
        e     == FirstErr(joins \o <<[err |-> IF twice THEN "binding" ELSE ""]>> \o vals \o wheres)
    IN  IF e # "" THEN NoQuery(e)
        ELSE IF \E i \in DOMAIN wheres : wheres[i].val.typ \notin IntegerTypes \cup {"Bool"}
             THEN NoQuery("syntax")
        ELSE [err |-> "", columns |-> [i \in DOMAIN vals |-> vals[i].val], leaves |-> 1,
              reach |-> [MergeAll(rels \o ons \o vals \o wheres) EXCEPT !.nodes = @ \cup BoundNodes(rels)]]

(* The condition of a join sees the relations up to it. *)
BoundSelect(n, rels, scope, path, env) ==
    LET bind(e, k, at) == expr(e, SubSeq(rels, 1, k), scope, path \o <<at>>, env)
    IN  SelectQuery(rels,
                    [i \in DOMAIN n.ons |-> bind(n.ons[i], i + 1, 300 + i)],
                    [i \in DOMAIN n.exprs |-> bind(n.exprs[i], Len(rels), 400 + i)],
                    [i \in DOMAIN n.where |-> bind(n.where[i], Len(rels), 500 + i)])

ScopedQuery(n, w, path, env) ==
    IF w.err # "" THEN NoQuery(w.err)
    ELSE IF n.kind = "union"
    THEN UnionQuery(query(n.left, w.scope, path \o <<101>>, env), query(n.right, w.scope, path \o <<102>>, env))
    ELSE BoundSelect(n, [i \in DOMAIN n.from |-> relation(n.from[i], w.scope, path \o <<200 + i>>, env)],
                     w.scope, path, env)

query(n, outer, path, env) == ScopedQuery(n, with(n.with, outer, path, env), path, env)

---------------------------------------------------------------------------
(* AnalyzeSnapshot. *)

(* What may become a target column: a direct literal that fits, a direct   *)
(* integer scalar of exactly the type, or a value of exactly the type.     *)
checkSnapshotOutput(v, t, direct) ==
    IF v.lit # {} /\ ~v.nullable /\ direct
    THEN IF t \notin ColumnTypes THEN "type"
         ELSE IF t \notin IntegerTypes THEN "output"
         ELSE IF \E n \in v.lit : ~inSnapshotRange(n, t) THEN "range" ELSE ""
    ELSE IF v.nullable
    THEN IF v.scalar /\ direct /\ v.typ = t /\ t \in IntegerTypes THEN "" ELSE "scalar"
    ELSE IF v.typ # t THEN "output" ELSE ""

(* order[i]: where the list of columns names the i-th column of the table. *)
TargetOrder(target, names) ==
    [i \in DOMAIN target.columns |-> CHOOSE j \in DOMAIN names : names[j] = target.columns[i].name]

NamesMatch(target, names) ==
    /\ Len(names) = Len(target.columns)
    /\ Range(names) = {target.columns[i].name : i \in DOMAIN target.columns}

Unplanned(e) == [err |-> e]

(* The bound query against the target: its columns in the table's order,   *)
(* each of exactly the column's type, and the whole pool used.  The tables *)
(* read are gone through in no order: of two refused ones, either answers. *)
OutputPlan(ins, env, target, names, q) ==
    LET order   == TargetOrder(target, names)
        outputs == [i \in DOMAIN order |-> [err |-> checkSnapshotOutput(q.columns[order[i]],
                                                        target.columns[i].type, q.leaves = 1)]]
        refused == {eligibleSnapshotTable(Catalog[i], TRUE) :
                      i \in {i \in DOMAIN Catalog : Catalog[i].id \in q.reach.bases}} \ {""}
    IN  IF q.err # "" THEN Unplanned(q.err)
        ELSE IF Len(q.columns) # Len(names) THEN Unplanned("target")
        ELSE IF \E i \in DOMAIN target.columns : target.columns[i].type \notin LooseTypes
             THEN Unplanned("type")
        ELSE IF FirstErr(outputs) # "" THEN Unplanned(FirstErr(outputs))
        ELSE IF eligibleSnapshotTable(target, TRUE) # "" THEN Unplanned(eligibleSnapshotTable(target, TRUE))
        ELSE IF refused # {} THEN Unplanned(CHOOSE e \in refused : TRUE)
        ELSE IF Cardinality(DOMAIN env.random) # Len(env.pool) THEN Unplanned("materialization")
        ELSE [err |-> "", ins |-> ins, target |-> target, names |-> names, query |-> q, order |-> order,
              readIDs |-> q.reach.bases, random |-> env.random]

QueryPlan(ins, env, target, names, w) ==
    IF w.err # "" THEN Unplanned(w.err)
    ELSE OutputPlan(ins, env, target, names, query(ins.query, w.scope, <<2>>, env))

TargetPlan(ins, env, target) ==
    LET names == IF ins.columns = <<>> THEN [i \in DOMAIN target.columns |-> target.columns[i].name]
                 ELSE ins.columns
    IN  IF target.columns = <<>> THEN Unplanned("target")
        ELSE IF eligibleSnapshotTable(target, FALSE) # "" THEN Unplanned(eligibleSnapshotTable(target, FALSE))
        ELSE IF ~NamesMatch(target, names) THEN Unplanned("target")
        ELSE QueryPlan(ins, env, target, names, with(ins.with, <<>>, <<1>>, env))

AnalyzeSnapshot(ins, request) ==
    LET mat     == materializeSnapshotAST(ins, request)
        targets == CatalogEntry(ins.target, request)
    IN  IF mat.err # "" THEN Unplanned(mat.err)
        ELSE IF targets = {} THEN Unplanned("catalog")
        ELSE TargetPlan(ins, request @@ [random |-> mat.random], Catalog[CHOOSE i \in targets : TRUE])

---------------------------------------------------------------------------
(* Prepare.  bindings maps a base id to its scratch [database, table].     *)

(* Mutant: a node is aliased only when one of its columns is qualified.    *)
AliasIfMarked(r, node, plan, scratch) ==
    IF r.alias = "" /\ node.path \in plan.query.reach.marks THEN r.name ELSE r.alias

(* The written name stays as an alias where something depends on it.       *)
KeptAlias(r, node, plan, scratch) ==
    IF r.alias = "" /\ (node.path \in plan.query.reach.marks \/ scratch.table \in node.others)
    THEN r.name ELSE r.alias

Rebind(r, node, plan, bindings) ==
    LET scratch == bindings[node.id]
    IN  [r EXCEPT !.schema = scratch.database, !.name = scratch.table,
                  !.alias = KeptAlias(r, node, plan, scratch)]

(* A direct literal or scalar is cast to the target's type, inside its alias. *)
wrapSnapshotOutput(e, v, t, direct) ==
    LET cast(x) == [kind |-> "cast", this |-> x, type |-> t]
    IN  IF ~direct \/ ~(v.scalar \/ (v.lit # {} /\ ~v.nullable)) THEN e
        ELSE IF e.kind = "alias" THEN [e EXCEPT !.this = cast(@)] ELSE cast(e)

RECURSIVE lowerWith(_, _, _, _), lowerQuery(_, _, _, _, _), lowerRelation(_, _, _, _), lowerExpr(_, _, _, _)

(* Only the definitions the query uses are kept. *)
lowerWith(defs, path, plan, bindings) ==
    LET kept == SelectSeq([i \in DOMAIN defs |-> i],
                          LAMBDA i : path \o <<i>> \in plan.query.reach.used)
    IN  [j \in DOMAIN kept |->
            [defs[kept[j]] EXCEPT !.query = lowerQuery(@, path \o <<kept[j]>>, plan, bindings, FALSE)]]

lowerRelation(r, path, plan, bindings) ==
    IF r.kind = "subquery" THEN [r EXCEPT !.query = lowerQuery(@, path \o <<1>>, plan, bindings, FALSE)]
    ELSE LET bound == {node \in plan.query.reach.nodes : node.path = path}
         IN  IF bound = {} THEN r ELSE Rebind(r, CHOOSE node \in bound : TRUE, plan, bindings)

lowerExpr(e, path, plan, bindings) ==
    CASE e.kind \in {"alias", "not"} -> [e EXCEPT !.this = lowerExpr(@, path \o <<1>>, plan, bindings)]
      [] e.kind = "op" -> [e EXCEPT !.left = lowerExpr(@, path \o <<3>>, plan, bindings),
                                    !.right = lowerExpr(@, path \o <<4>>, plan, bindings)]
      [] e.kind = "scalar" -> [e EXCEPT !.query = lowerQuery(@, path \o <<2>>, plan, bindings, FALSE)]
      [] e.kind = "in" -> [e EXCEPT !.this = lowerExpr(@, path \o <<1>>, plan, bindings),
                                    !.query = lowerQuery(@, path \o <<2>>, plan, bindings, FALSE)]
      [] OTHER -> e

(* leaf: the projection feeds the target and is put into its order. *)
lowerQuery(n, path, plan, bindings, leaf) ==
    LET defs == lowerWith(n.with, path, plan, bindings)
    IN  IF n.kind = "union"
        THEN [n EXCEPT !.with = defs, !.left = lowerQuery(@, path \o <<101>>, plan, bindings, leaf),
                       !.right = lowerQuery(@, path \o <<102>>, plan, bindings, leaf)]
        ELSE LET lowered == [i \in DOMAIN n.exprs |-> lowerExpr(n.exprs[i], path \o <<400 + i>>, plan, bindings)]
                 cols    == plan.query.columns
             IN  [n EXCEPT
                    !.with  = defs,
                    !.from  = [i \in DOMAIN @ |-> lowerRelation(@[i], path \o <<200 + i>>, plan, bindings)],
                    !.ons   = [i \in DOMAIN @ |-> lowerExpr(@[i], path \o <<300 + i>>, plan, bindings)],
                    !.where = [i \in DOMAIN @ |-> lowerExpr(@[i], path \o <<500 + i>>, plan, bindings)],
                    !.exprs = IF ~leaf THEN lowered
                              ELSE [i \in DOMAIN plan.order |->
                                      wrapSnapshotOutput(lowered[plan.order[i]], cols[plan.order[i]],
                                          plan.target.columns[i].type, plan.query.leaves = 1)]]

(* The WITH of the INSERT stays an outer scope of the query's own.         *)
NestWiths(outer, body) ==
    IF outer = <<>> THEN body
    ELSE IF body.with = <<>> THEN [body EXCEPT !.with = outer]
    ELSE [kind |-> "wrap", with |-> outer, query |-> body]

Prepare(plan, bindings) ==
    NestWiths(lowerWith(plan.ins.with, <<1>>, plan, bindings),
              lowerQuery(plan.ins.query, <<2>>, plan, bindings, TRUE))
=============================================================================
