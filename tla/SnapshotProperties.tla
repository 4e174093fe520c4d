------------------------- MODULE SnapshotProperties -------------------------
(***************************************************************************)
(* What a successful snapshot RPC promises, stated against a reference     *)
(* meaning of queries: names are resolved by the rules of SQL scoping, and *)
(* a CTE stands for its definition.                                        *)
(***************************************************************************)
EXTENDS SnapshotRPC, SnapshotQuery

RECURSIVE Meaning(_, _, _), ValueMeaning(_, _, _, _)

(* scope: CTE name -> meaning; catalog: the tables there are; database: the*)
(* current one.  The meaning of a query: its columns [name, typ, null] and *)
(* what it computes.                                                       *)
ScopeOf(defs, scope, world) ==
    FoldLeft(LAMBDA acc, d : (d.name :> Meaning(d.query, acc, world)) @@ acc, scope, defs)

TableMeaning(r, scope, world) ==
    LET db == IF r.schema = "" THEN world.database ELSE r.schema
        at == {i \in DOMAIN world.catalog :
                  world.catalog[i].database = db /\ world.catalog[i].name = r.name}
    IN  IF r.schema = "" /\ r.name \in DOMAIN scope THEN scope[r.name]
        ELSE IF Cardinality(at) # 1 THEN [columns |-> <<>>, does |-> [unbound |-> r.name]]
        ELSE LET t == world.catalog[CHOOSE i \in at : TRUE]
             IN  [does    |-> [base |-> t.id],
                  columns |-> [i \in DOMAIN t.columns |->
                                 [name |-> t.columns[i].name, typ |-> t.columns[i].type, null |-> FALSE]]]

(* rels: the relations in scope, each with the name that qualifies it.     *)
ValueMeaning(e, rels, scope, world) ==
    CASE e.kind = "lit" -> [does |-> [lit |-> e.n], name |-> "", typ |-> smallestSnapshotInteger(e.n), null |-> FALSE]
      [] e.kind = "rand" -> [does |-> [rand |-> e.name], name |-> "", typ |-> "U64", null |-> FALSE]
      [] e.kind = "str" -> [does |-> [str |-> 0], name |-> "", typ |-> "String", null |-> FALSE]
      [] e.kind = "col" ->
            LET meant == {ij \in UNION {{i} \X (DOMAIN rels[i].columns) : i \in DOMAIN rels} :
                            /\ rels[ij[1]].columns[ij[2]].name = e.name
                            /\ e.qual \in {"", rels[ij[1]].qualifier}}
                c     == CHOOSE ij \in meant : TRUE
            IN  IF Cardinality(meant) # 1
                THEN [does |-> [ambiguous |-> meant], name |-> e.name, typ |-> "", null |-> FALSE]
                ELSE [rels[c[1]].columns[c[2]] EXCEPT !.name = e.name] @@ [does |-> [column |-> c]]
      [] e.kind = "alias" -> [ValueMeaning(e.this, rels, scope, world) EXCEPT !.name = e.name]
      [] e.kind = "cast" -> [ValueMeaning(e.this, rels, scope, world) EXCEPT !.typ = e.type, !.null = FALSE]
      [] e.kind = "scalar" ->
            LET q == Meaning(e.query, scope, world)
            IN  [does |-> [scalar |-> q.does], name |-> "", typ |-> q.columns[1].typ, null |-> TRUE]
      [] e.kind = "op" ->
            LET l == ValueMeaning(e.left, rels, scope, world)
                r == ValueMeaning(e.right, rels, scope, world)
            IN  [does |-> [left |-> l.does, right |-> r.does], name |-> "", typ |-> ComparisonType,
                 null |-> l.null \/ r.null]
      [] e.kind = "not" ->
            [ValueMeaning(e.this, rels, scope, world) EXCEPT !.does = [not |-> @], !.name = "", !.typ = ComparisonType]
      [] e.kind = "in" ->
            [does |-> [element |-> ValueMeaning(e.this, rels, scope, world).does,
                       of |-> Meaning(e.query, scope, world).does],
             name |-> "", typ |-> ComparisonType, null |-> FALSE]

Meaning(q, outer, world) ==
    LET scope == ScopeOf(q.with, outer, world)
    IN  IF q.kind = "wrap" THEN Meaning(q.query, scope, world)
        ELSE IF q.kind = "union"
        THEN LET l == Meaning(q.left, scope, world)
                 r == Meaning(q.right, scope, world)
             IN  [columns |-> [i \in DOMAIN l.columns |-> [l.columns[i] EXCEPT !.null = @ \/ r.columns[i].null]],
                  does |-> [both |-> <<l.does, r.does>>]]
        ELSE LET rels == [i \in DOMAIN q.from |->
                            LET r == q.from[i]
                                m == IF r.kind = "table" THEN TableMeaning(r, scope, world)
                                     ELSE Meaning(r.query, scope, world)
                            IN  m @@ [qualifier |-> IF r.alias # "" THEN r.alias
                                                    ELSE IF r.kind = "table" THEN r.name ELSE ""]]
                 of(e, k) == ValueMeaning(e, SubSeq(rels, 1, k), scope, world)
                 vals == [i \in DOMAIN q.exprs |-> of(q.exprs[i], Len(rels))]
             IN  [columns |-> [i \in DOMAIN vals |-> [name |-> vals[i].name, typ |-> vals[i].typ, null |-> vals[i].null]],
                  does |-> [from   |-> [i \in DOMAIN rels |-> rels[i].does],
                            on     |-> [i \in DOMAIN q.ons |-> of(q.ons[i], i + 1).does],
                            where  |-> [i \in DOMAIN q.where |-> of(q.where[i], Len(rels)).does],
                            select |-> [i \in DOMAIN vals |-> vals[i].does]]]

(* A column of names[i] takes what the i-th expression computes: the order *)
(* in which the columns are listed does not matter.                        *)
RECURSIVE Feeds(_, _)
Feeds(does, names) ==
    IF "both" \in DOMAIN does THEN [both |-> [i \in DOMAIN does.both |-> Feeds(does.both[i], names)]]
    ELSE [does EXCEPT !.select = [n \in Range(names) |-> @[CHOOSE i \in DOMAIN names : names[i] = n]]]

(* The ids of the tables a meaning rests on. *)
RECURSIVE Rests(_)
Rests(does) ==
    LET all(s) == UNION {Rests(s[i]) : i \in DOMAIN s}
    IN  IF DOMAIN does = {"base"} THEN {does.base}
        ELSE IF DOMAIN does = {"scalar"} THEN Rests(does.scalar)
        ELSE IF DOMAIN does = {"not"} THEN Rests(does.not)
        ELSE IF DOMAIN does = {"left", "right"} THEN Rests(does.left) \cup Rests(does.right)
        ELSE IF DOMAIN does = {"element", "of"} THEN Rests(does.element) \cup Rests(does.of)
        ELSE IF DOMAIN does = {"both"} THEN all(does.both)
        ELSE IF DOMAIN does = {"from", "on", "where", "select"}
             THEN all(does.from) \cup all(does.on) \cup all(does.where) \cup all(does.select)
        ELSE {}

Original ==
    LET world == [database |-> Database, catalog |-> Catalog]
    IN  Meaning(call.ins.query, ScopeOf(call.ins.with, <<>>, world), world)

(* The scratch tables are all there is when the prepared query runs. *)
ScratchWorld ==
    [database |-> "nowhere",
     catalog  |-> [i \in DOMAIN call.bindings |->
                     LET t == Catalog[CHOOSE k \in DOMAIN Catalog :
                                                  Catalog[k].id = call.bindings[i].id]
                     IN  [t EXCEPT !.database = call.bindings[i].database, !.name = call.bindings[i].table]]]

Executable == Meaning(reply.text, <<>>, ScratchWorld)

Prepared == reply.code = "SUCCESS" /\ call.rpc = "prepare"

---------------------------------------------------------------------------
(* Every value of the variables is of its kind. *)
SnapshotTypeOK ==
    /\ step \in {"entry", "analyze", "engine", "analyzed", "bindings", "prepare", "prepared", "done"}
    /\ expired \in BOOLEAN /\ late \in BOOLEAN
    /\ reply.code \in {"none", "SUCCESS", "INVALID_INPUT", "PROFILE_UNAVAILABLE", "UNSUPPORTED",
                       "MATERIALIZATION_FAILED", "NOT_SNAPSHOT_QUERY"}
    /\ (step = "done") = (reply.code # "none")

(* The SQL of a successful Prepare computes over the scratch tables what   *)
(* the INSERT's query computes over the tables it names, column for column *)
(* of the target: whatever CTEs shadow tables or each other at whatever    *)
(* level, whichever of them are dropped as unused, whatever the scratch    *)
(* tables are called, and in whatever order the INSERT lists its columns.  *)
PreparedMeansTheSame ==
    Prepared => Feeds(Executable.does, reply.columns) = Feeds(Original.does, plan.names)

(* The read ids of a success are exactly the tables the query's meaning    *)
(* rests on: not those that only an unused CTE names, and none missing.    *)
ReadsExact == reply.code = "SUCCESS" => reply.reads = Rests(Original.does)

(* No value reaches a target column by a silent conversion: what the       *)
(* prepared query puts in a column is of exactly that column's type and is *)
(* never NULL, because a cast that throws stands before it otherwise.      *)
OutputsFit ==
    Prepared => \A i \in DOMAIN Executable.columns :
                    /\ Executable.columns[i].typ = plan.target.columns[i].type
                    /\ ~Executable.columns[i].null

(* The leaves of a tree in the order SQL writes them: WITH, projection,    *)
(* FROM, each join with its condition, WHERE.                              *)
RECURSIVE Written(_, _)
Written(n, path) ==
    LET part(k, node) == Written(node, path \o <<k>>)
        parts(base, nodes) == FlattenSeq([i \in DOMAIN nodes |-> part(base + i, nodes[i])])
        defs == FlattenSeq([i \in DOMAIN n.with |-> part(i, n.with[i].query)])
    IN  CASE n.kind = "select" ->
                defs \o parts(400, n.exprs) \o parts(200, [i \in DOMAIN n.from \cap {1} |-> n.from[i]])
                \o FlattenSeq([i \in DOMAIN n.ons |-> part(201 + i, n.from[i + 1]) \o part(300 + i, n.ons[i])])
                \o parts(500, n.where)
          [] n.kind = "union" -> defs \o part(101, n.left) \o part(102, n.right)
          [] n.kind \in {"alias", "not"} -> part(1, n.this)
          [] n.kind = "op" -> part(3, n.left) \o part(4, n.right)
          [] n.kind = "in" -> part(1, n.this) \o part(2, n.query)
          [] n.kind = "scalar" -> part(2, n.query)
          [] n.kind = "subquery" -> part(1, n.query)
          [] n.kind = "rand" -> <<path>>
          [] OTHER -> <<>>

(* A materialized success has given the k-th random call of the text the   *)
(* k-th value of the pool, calls of unused definitions included, and has   *)
(* used up the pool.                                                       *)
PoolInTextOrder ==
    LET calls == FlattenSeq([i \in DOMAIN call.ins.with |-> Written(call.ins.with[i].query, <<1, i>>)])
                    \o Written(call.ins.query, <<2>>)
    IN  reply.code = "SUCCESS" =>
            /\ Len(calls) = Len(call.env.pool)
            /\ \A k \in DOMAIN calls : plan.random[calls[k]] = call.env.pool[k]

(* What a success reports is exact: the tables it rests on, the type of    *)
(* every column it fills, and the random values it was given, after every  *)
(* check of the call.                                                      *)
ReportExact == SnapshotTypeOK /\ NoCheckSkipped /\ ReadsExact /\ OutputsFit /\ PoolInTextOrder
=============================================================================
