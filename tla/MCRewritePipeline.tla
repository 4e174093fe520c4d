-------------------------- MODULE MCRewritePipeline --------------------------
(***************************************************************************)
(* Small requests for the rewrite pipeline.  Logical databases d1 and d2   *)
(* share the physical database p; x is protected and unmapped, k an        *)
(* ordinary physical database, g unknown to the options, s and s2 are SI   *)
(* physical databases.                                                     *)
(***************************************************************************)
EXTENDS RewriteProperties

MCNotSimple == {"bad name", "*"}
MCAllowlist == {<<"one">>}

---------------------------------------------------------------------------
(* Options. *)

Opt(op) == [op |-> op, hasStatic |-> FALSE, static |-> NoStatic, hasDynamic |-> FALSE,
            dynamic |-> NoDynamic, cte |-> [alias |-> "", parses |-> FALSE, reads |-> <<>>]]
DynamicOpt(a) == [Opt("TableNameRewrite") EXCEPT !.hasDynamic = TRUE, !.dynamic = a]
StaticOpt(a)  == [Opt("TableNameRewrite") EXCEPT !.hasStatic = TRUE, !.static = a]
CTEOpt(alias, parses, reads) ==
    [Opt("CommonTableExprRewrite") EXCEPT
       !.cte = [alias |-> alias, parses |-> parses, reads |-> reads]]

ToP(S) == [l \in S |-> "p"]

Account == [NoDynamic EXCEPT !.database_map = ToP({"d1", "d2"}), !.known = {"p", "k"},
                             !.protected = {"x"}, !.ctx = "d1", !.pctx = "p",
                             !.extra = <<"e">>]

SITable == [safe |-> <<"s", "safe">>, unsafe |-> <<"s", "unsafe">>]
SIConfig(version) ==
    [NoSI EXCEPT !.version = version, !.reserved = {"s2"},
                 !.tables = [q \in {<<"d1", "i">>} |-> SITable]]
WithSI(version) == [Account EXCEPT !.si = SIConfig(version)]

MappedTable == <<"d1", "t">>
StaticArgs ==
    [NoStatic EXCEPT
       !.table_map = [q \in {MappedTable} |-> <<"moved">>],
       !.remote_table_map = [q \in {<<"d2", "t">>} |-> [db |-> "p", table |-> <<"t">>, addr |-> "a"]],
       !.table_with_database_map = [q \in {<<"t">>} |-> [db |-> "p", table |-> <<"t">>]]]

(* The account with each session context, remote routing, SI contract. *)
OrdinaryOptions ==
    {<<DynamicOpt(Account)>>} \cup
    {<<DynamicOpt([Account EXCEPT !.ctx = c])>> : c \in {"", "p", "system"}} \cup
    {<<DynamicOpt([Account EXCEPT !.remote_index = [l \in {"d2"} |-> 1], !.upstreams = u])>> :
        u \in {{}, {1}}}

SIOptions ==
    {<<DynamicOpt(WithSI(v))>> : v \in {"V1", "V2"}} \cup
    {<<DynamicOpt([WithSI("V2") EXCEPT !.si.read_mode = "UNSAFE_LATEST", !.ctx = "d2"])>>,
     <<DynamicOpt([WithSI("V2") EXCEPT !.database_map = ToP({"d2"})])>>,
     <<DynamicOpt([WithSI("V1") EXCEPT !.ctx = "s"])>>}

OtherModes ==
    {<<>>, <<StaticOpt(StaticArgs)>>, <<DynamicOpt(Account), StaticOpt(StaticArgs)>>,
     <<StaticOpt(StaticArgs), DynamicOpt(Account), Opt("TableNameRewrite")>>}

BadOptions ==
    {<<DynamicOpt(WithSI("UNSPECIFIED"))>>,
     <<DynamicOpt(WithSI("V3"))>>,
     <<DynamicOpt([WithSI("V2") EXCEPT !.si.reserved = {"bad name"}])>>,
     <<DynamicOpt([WithSI("V1") EXCEPT !.protected = {"bad name"}])>>,
     <<DynamicOpt([Account EXCEPT !.database_map = [l \in {"d1"} |-> "system"]])>>}

CTEOptionsMC ==
    {<<DynamicOpt(a), CTEOpt("c", ok, <<Ref("d1", <<"t">>)>>)>> :
        a \in {Account, WithSI("V1")}, ok \in BOOLEAN}

---------------------------------------------------------------------------
(* Statements. *)

NoCommand == [db |-> ""]

Stmt(kind) ==
    [kind |-> kind, sub |-> "", slots |-> <<>>, cross |-> <<>>, reads |-> <<>>, inOps |-> {},
     exprReads |-> <<>>, ns |-> <<>>, opaque |-> <<>>, lookups |-> <<>>, named |-> <<>>,
     ec |-> "none", form |-> "plain", marks |-> {}, cmd |-> NoCommand]
Command(sub, slots) == [Stmt("command") EXCEPT !.sub = sub, !.slots = slots]

NsArg(db, table) == [src |-> "fn", db |-> db, table |-> table, resolved |-> table # NoTable,
                     current |-> FALSE]
LookupArg(hasColumn, literal, db, table) ==
    [hasColumn |-> hasColumn, literal |-> literal, inBody |-> hasColumn, db |-> db, table |-> table]

T == <<"t">>
Names == {Ref("d1", T), Ref("", T), Ref("p", T), Ref("x", T), Ref("k", T), Ref("g", T),
          Ref("d1", <<"i">>), Ref("", <<"i">>), Ref("s", T), Ref("s2", T),
          Ref("system", <<"one">>), Ref("system", <<"secret">>), Ref("", <<"d2", "t">>)}

Simple == Ref("d1", T)
FewNames == {Ref("", T), Ref("x", T), Ref("g", T), Ref("d1", <<"i">>), Ref("s", T)}

(* Reads of one and two tables; one feature at a time; names in every      *)
(* other position.                                                         *)
Select(s) == [Stmt("select") EXCEPT !.reads = s]
ReadStatements ==
    {Select(<<r>>) : r \in Names \cup {Ref("", <<"c">>)}} \cup
    {Select(<<q, r>>) : q \in {Simple, Ref("d1", <<"i">>)}, r \in Names} \cup
    {[Select(<<r>>) EXCEPT !.marks = {m}] :
        r \in {Simple, Ref("d1", <<"i">>), Ref("s", T)},
        m \in {"identParam", "unparsedTail", "dropsTokens", "carrier", "badSetting",
               "ungoverned", "identity", "modifier"}} \cup
    {[Select(<<Simple>>) EXCEPT !.exprReads = <<r>>] : r \in {Ref("k", T), Ref("system", <<"secret">>)}} \cup
    {[Select(<<Simple>>) EXCEPT !.opaque = <<r>>] : r \in {Ref("s", T), Ref("x", T), Ref("k", T)}} \cup
    {[Select(<<Simple>>) EXCEPT !.ns = <<NsArg(d, t)>>] :
        d \in {"s", "d1", "k"}, t \in {NoTable, T, <<"i">>}} \cup
    {[Select(<<Simple>>) EXCEPT !.lookups = <<LookupArg(h, l, r.db, r.table)>>] :
        h \in BOOLEAN, l \in BOOLEAN,
        r \in {Ref("d2", T), Ref("d1", <<"i">>), Ref("s", T), Ref("k", T), Ref("system", <<"secret">>)}} \cup
    {[Select(<<Simple, r>>) EXCEPT !.inOps = {2}] : r \in Names}

(* Writes of one target, with and without a body; multi-table DROP;        *)
(* commands; what no handler models.                                       *)
Features ==
    {"insert", "create_table", "create_view", "alter_table"} \X {"carrier", "ungoverned", "dropsTokens", "identity"}
    \cup {"insert"} \X {"infile", "asFunction"} \cup {"create_table"} \X {"asFunction", "dictionary", "innerStorage"}
    \cup {"create_view"} \X {"refresh", "innerStorage", "liveView"}
    \cup {<<"truncate", "notTable">>, <<"alter_table", "crossTable">>}

Target(kind, r) == [Stmt(kind) EXCEPT !.slots = <<r>>]
WriteStatements ==
    {[Target(k, r) EXCEPT !.ec = "ifExists"] :
        k \in {"insert", "create_table", "create_view", "drop_table", "drop_view",
               "truncate", "alter_table", "update", "delete"}, r \in Names} \cup
    {[Target(k, Simple) EXCEPT !.reads = <<r>>] :
        k \in {"insert", "create_table", "create_view"}, r \in Names} \cup
    {[Target("insert", Ref("d1", <<"i">>)) EXCEPT !.reads = <<r>>] : r \in Names} \cup
    {[Target(f[1], r) EXCEPT !.marks = {f[2]}] : f \in Features, r \in {Simple, Ref("d1", <<"i">>)}} \cup
    {[Target("drop_table", r) EXCEPT !.slots = <<r>> \o more, !.marks = {"plainDrop"}] :
        r \in Names, more \in {<<>>, <<Ref("d2", T)>>}} \cup
    {[Target(k, Simple) EXCEPT !.exprReads = <<r>>, !.marks = m] :
        k \in {"update", "delete"}, r \in FewNames, m \in {{}, {"mutationUnproven"}}} \cup
    {[Target("alter_table", Simple) EXCEPT !.cross = <<r>>] : r \in {Ref("s", T), Ref("d1", <<"i">>)}} \cup
    {Command(sub, s) : sub \in {"rename", "exchange", "alterUpdate", "bareReject", "other"},
                       s \in {<<>>, <<Simple>>} \cup {<<Simple, r>> : r \in FewNames}} \cup
    {[Command("set", <<>>) EXCEPT !.marks = m] : m \in {{}, {"badSetting"}, {"identity"}}} \cup
    {[Stmt("raw") EXCEPT !.marks = m, !.named = <<r>>] :
        m \in {{}, {"rawReject"}, {"liveView"}}, r \in {Ref("s", T), Ref("d1", <<"i">>), Simple}} \cup
    {Stmt("copy"), [Stmt("other") EXCEPT !.reads = <<Ref("k", T)>>]}

(* CREATE TABLE ... EMPTY AS SELECT and views with a trailing COMMENT. *)
FormStatements ==
    {[Target("create_table", t) EXCEPT !.reads = <<r>>, !.form = "empty", !.ec = "ifNotExists"] :
        t \in {Simple, Ref("d1", <<"i">>)}, r \in Names} \cup
    {[Target("create_view", t) EXCEPT !.reads = <<r>>, !.form = "comment", !.marks = m] :
        t \in {Simple, Ref("d1", <<"i">>)}, r \in Names, m \in {{}, {"noTrailingParen"}}}

RequestsOf(options, statements) == {[opts |-> o, st |-> s] : o \in options, s \in statements}

ReadRequests ==
    RequestsOf(OrdinaryOptions \cup SIOptions \cup OtherModes \cup BadOptions \cup CTEOptionsMC,
               ReadStatements)
WriteRequests ==
    RequestsOf({<<DynamicOpt(Account)>>, <<DynamicOpt([Account EXCEPT !.ctx = ""])>>,
                <<DynamicOpt([Account EXCEPT !.remote_index = [l \in {"d2"} |-> 1], !.upstreams = {1}])>>}
               \cup SIOptions \cup OtherModes, WriteStatements \cup FormStatements)

(* Commands. *)
CommandOf(sub, c) == [Command(sub, <<>>) EXCEPT !.cmd = c]

Databases == {"d1", "d2", "p", "x", "k", "g", "s", "s2", "system"}
Use(db, trailing) == CommandOf("use", [db |-> db, trailing |-> trailing])

ShowOf(what) ==
    [what |-> what, next |-> "", prefixed |-> FALSE, db |-> "", hasDB |-> FALSE, hasTable |-> FALSE,
     table |-> NoTable, tableResolved |-> FALSE, multiPart |-> FALSE, like |-> "none",
     trailing |-> FALSE, body |-> <<>>, ungoverned |-> FALSE]
ShowFrom(what, db) == [ShowOf(what) EXCEPT !.hasDB = TRUE, !.db = db]
ShowColumns(r) == [ShowOf("COLUMNS") EXCEPT !.hasTable = TRUE, !.tableResolved = TRUE, !.table = r.table,
                                            !.db = r.db, !.hasDB = r.db # ""]
ShowCommands ==
    {ShowFrom("TABLES", db) : db \in Databases \cup {""}} \cup {ShowFrom("DATABASES", "d1")} \cup
    {ShowFrom("DICTIONARIES", db) : db \in {"d1", "s", "k"}} \cup
    {ShowOf(w) : w \in {"TABLES", "DATABASES", "DICTIONARIES", "COLUMNS", "SETTINGS", "PROCESSLIST",
                        "CURRENT", "SETTING", "NEWKIND"}} \cup
    {[ShowOf("SETTINGS") EXCEPT !.next = "PROFILES"]} \cup
    {[ShowOf(w) EXCEPT !.trailing = TRUE] : w \in {"TABLES", "DATABASES"}} \cup
    {[ShowOf(w) EXCEPT !.like = l, !.prefixed = f] :
        w \in {"TABLES", "DATABASES"}, l \in {"quoted", "other"}, f \in BOOLEAN} \cup
    {ShowColumns(r) : r \in Names} \cup
    {[ShowColumns(r) EXCEPT !.multiPart = TRUE] : r \in {Simple, Ref("k", T), Ref("s", T)}} \cup
    {[ShowOf(w) EXCEPT !.body = <<r>>, !.ungoverned = u] :
        w \in {"SETTINGS", "SETTING", "COLUMNS"}, u \in BOOLEAN,
        r \in {Ref("s", T), Ref("x", T), Ref("k", T), Ref("system", <<"secret">>)}}

ObjectOf(verb, r) ==
    [verb |-> verb, objType |-> "TABLE", shape |-> IF r.table = NoTable THEN "none" ELSE "name",
     db |-> r.db, table |-> r.table, temporary |-> FALSE, trailing |-> FALSE, accessEntity |-> FALSE,
     body |-> <<>>, fnClass |-> "allowed", argDatabases |-> <<>>]
CallOf(verb, class, dbs) ==
    [ObjectOf(verb, Ref("", <<"f">>)) EXCEPT !.shape = "call", !.trailing = TRUE, !.fnClass = class,
                                             !.argDatabases = dbs]
ObjectCommands ==
    UNION {
      {ObjectOf(v, r) : r \in Names \cup {Ref("", NoTable)}} \cup
      {[ObjectOf(v, Ref("", <<db>>)) EXCEPT !.objType = "DATABASE"] : db \in {"d1", "p", "s"}} \cup
      {[ObjectOf(v, Simple) EXCEPT !.objType = "VIEW"], [ObjectOf(v, Simple) EXCEPT !.accessEntity = TRUE]} \cup
      {[ObjectOf(v, r) EXCEPT !.temporary = tmp, !.trailing = ~tmp] :
          r \in {Ref("", T), Ref("d1", <<"i">>)}, tmp \in BOOLEAN} \cup
      {CallOf(v, class, dbs) : class \in {"allowed", "refused"}, dbs \in {<<>>, <<"x">>}} \cup
      {[ObjectOf(v, Ref("", NoTable)) EXCEPT !.shape = "subquery", !.body = <<r>>] :
          r \in {Ref("s", T), Ref("k", T)}} : v \in {"describe", "exists", "show_create"}}

GrantOf(revoke, r) ==
    [revoke |-> revoke, attach |-> FALSE, hasOn |-> TRUE, replace |-> FALSE, structured |-> TRUE,
     privileges |-> <<[name |-> "SELECT", columns |-> FALSE], [name |-> "INSERT", columns |-> FALSE]>>,
     principals |-> <<"u", "CURRENT_USER">>, db |-> r.db, table |-> r.table, allTables |-> r.table = <<"*">>,
     anyDatabase |-> FALSE, unrepresentable |-> FALSE, grantOption |-> FALSE]
PlainGrant == GrantOf(FALSE, Simple)
GrantCommands ==
    {GrantOf(revoke, r) : revoke \in BOOLEAN,
        r \in Names \cup {Ref(db, <<"*">>) : db \in Databases \cup {""}}} \cup
    {[PlainGrant EXCEPT !.attach = TRUE], [PlainGrant EXCEPT !.hasOn = FALSE],
     [PlainGrant EXCEPT !.replace = TRUE], [PlainGrant EXCEPT !.structured = FALSE],
     [PlainGrant EXCEPT !.anyDatabase = TRUE, !.allTables = TRUE, !.db = "", !.table = <<"*">>],
     [PlainGrant EXCEPT !.unrepresentable = TRUE],
     [PlainGrant EXCEPT !.privileges[2].columns = TRUE], [PlainGrant EXCEPT !.privileges[1].columns = TRUE],
     [PlainGrant EXCEPT !.privileges[1].name = "CURRENT GRANTS"]} \cup
    {[GrantOf(revoke, Simple) EXCEPT !.principals = p] : revoke \in BOOLEAN, p \in {<<>>, <<"ALL">>}}

CommandStatements ==
    {[Target(k, Ref(db, NoTable)) EXCEPT !.ec = e] :
        k \in {"create_database", "drop_database"}, db \in Databases,
        e \in {"none", "ifExists", "ifNotExists"}} \cup
    {Use(db, tr) : db \in Databases, tr \in BOOLEAN} \cup
    {CommandOf("show", c) : c \in ShowCommands} \cup {CommandOf("object", c) : c \in ObjectCommands} \cup
    {CommandOf("grant", c) : c \in GrantCommands}

CommandRequests ==
    RequestsOf(OrdinaryOptions \cup SIOptions \cup OtherModes \cup
               {<<DynamicOpt([Account EXCEPT !.known = {"k"}])>>,
                <<DynamicOpt([WithSI("V1") EXCEPT !.pctx = "s"])>>,
                <<DynamicOpt(WithSI("V1")), StaticOpt(StaticArgs)>>}, CommandStatements)

(* The quoted one-part name `d1.t` beside the qualified d1.t. *)
TwinRequests ==
    RequestsOf({<<DynamicOpt([Account EXCEPT !.ctx = "d2"])>>},
               {Select(<<Simple, Ref("", <<"d1", "t">>)>>)})

(* One request of every shape, for what happens over time. *)
LifecycleRequests ==
    RequestsOf({<<>>, <<DynamicOpt(Account)>>, <<DynamicOpt(WithSI("V1"))>>,
                <<DynamicOpt(WithSI("V3"))>>},
               {Select(<<Simple>>), Select(<<Ref("x", T)>>), Command("set", <<>>), Stmt("raw"),
                [Target("insert", Simple) EXCEPT !.reads = <<Simple>>],
                [Target("create_table", Simple) EXCEPT !.reads = <<Simple>>, !.form = "empty"],
                [Target("create_view", Simple) EXCEPT !.reads = <<Simple>>, !.form = "comment"]})

ReadAndCommandRequests == ReadRequests \cup CommandRequests

---------------------------------------------------------------------------
(* The hypotheses of the theorems on commands hold of these requests. *)
ASSUME CommandHypotheses ==
    \A r \in Requests : NamesOnlyItsTarget(r.st) /\ ClausesClear(r) /\ SystemUnmapped(r) /\ LogicalApart(r)
==============================================================================
