----------------------------- MODULE Statement -----------------------------
(***************************************************************************)
(* What the handlers know of a statement, and what they answer.            *)
(*                                                                         *)
(* A statement is the record of what the engine's collectors report about  *)
(* it (internal/engine), each name as ClickHouse reads it:                 *)
(*   kind, sub   node kind of the AST root; sub-class of a command node    *)
(*   slots       the targets a write rewrites, in document order           *)
(*   cross       further write targets (cross-table ALTER)                 *)
(*   reads       tables of the SELECT or of an embedded body, identifier   *)
(*               IN operands included; inOps are the indices of the latter *)
(*   exprReads   reads in a position no pipeline rewrites (a mutation's    *)
(*               expressions, VALUES, column defaults)                     *)
(*   ns          database/table arguments of table functions and engines   *)
(*   opaque      qualified names in text Polyglot leaves unparsed          *)
(*   lookups     joinGet / dictGet / hasColumnInTable string arguments     *)
(*   named       names the grammar of an unmodelled class proves           *)
(*   ec, form    IF [NOT] EXISTS; plain, EMPTY AS SELECT, or view COMMENT  *)
(*   marks       features found by a scan of the text (see Marks)          *)
(*   cmd         what its parser reads of a USE or SHOW command (see       *)
(*               DBLevelHandler), of an object command (EXISTS, SHOW       *)
(*               CREATE, DESCRIBE) or of GRANT / REVOKE (ObjectHandler)    *)
(***************************************************************************)
EXTENDS NameResolve

Kinds == {"select", "insert", "create_table", "create_view", "drop_table",
          "drop_view", "truncate", "alter_table", "update", "delete",
          "create_database", "drop_database", "command", "raw", "copy", "other"}

(* identParam: Identifier parameter in a table position.  unparsedTail,    *)
(* dropsTokens: what CheckParsedInFull and CheckRegenerated detect.        *)
(* carrier, badSetting, ungoverned: what T5, R5 and R2 refuse.  identity:  *)
(* a call that reveals the deployment.  modifier, reservedCol: FINAL /     *)
(* SAMPLE / ... on, and the row-id column of, an SI table.                 *)
Marks == {"identParam", "unparsedTail", "dropsTokens", "liveView", "carrier",
          "badSetting", "ungoverned", "identity", "modifier", "reservedCol",
          "innerStorage", "refresh", "infile", "asFunction", "dictionary",
          "crossTable", "plainDrop", "notTable", "mutationUnproven", "rawReject",
          "noTrailingParen"}

Ref(db, table) == [db |-> db, table |-> table]

(* A SELECT body that names something; one that does not stays as it is.   *)
HasBody(st) ==
    /\ st.kind \in {"insert", "create_table", "create_view"}
    /\ st.reads # <<>> \/ \E i \in DOMAIN st.lookups : st.lookups[i].inBody

IsReadRoot(st) == st.kind = "select"

(* The elements of s at the indices I, in their order. *)
Kept(s, I) ==
    [k \in 1..Cardinality(I) |-> s[CHOOSE i \in I : Cardinality({j \in I : j <= i}) = k]]

(* A multi-table DROP. *)
Multi(st) == st.kind = "drop_table" /\ Len(st.slots) > 1

ArgumentRefs(s) == [i \in DOMAIN s |-> Ref(s[i].db, s[i].table)]

(* What the parsers of a command guarantee: names are there where the      *)
(* command has them, a qualified name of the text has both parts, only the *)
(* COLUMNS and INDEX family has a table clause, an explicit database       *)
(* beside a table is a name or an Identifier parameter, a qualified name   *)
(* in SHOW TABLES or SHOW DATABASES is in a clause after their own, and *  *)
(* is how GRANT spells every table.                                        *)
WellFormedCommand(st) ==
    LET c == st.cmd
    IN  /\ st.sub \in {"use", "show", "object", "grant"} => c.db \in STRING
        /\ st.sub \in {"show", "object", "grant"} => c.table \in Seq(STRING)
        /\ st.sub \in {"show", "object"} =>
              c.body \in Seq(Refs) /\ \A i \in DOMAIN c.body : c.body[i].db # "" /\ c.body[i].table # NoTable
        /\ st.sub = "show" =>
              /\ c.hasTable => c.what \in {"COLUMNS", "FIELDS", "INDEX", "INDEXES", "INDICES", "KEYS"}
              /\ c.hasTable /\ c.tableResolved => c.table # NoTable
              /\ c.hasTable /\ ~c.tableResolved => "identParam" \in st.marks \/ c.multiPart
              /\ c.hasTable /\ c.hasDB /\ c.db = "" => "identParam" \in st.marks
              /\ ~c.hasDB => c.db = ""
              /\ c.what \in {"TABLES", "DATABASES"} /\ ~c.trailing => c.body = <<>>
        /\ st.sub = "object" => /\ c.shape \in {"name", "call", "subquery", "none"}
                                /\ c.shape = "name" => c.table # NoTable
                                /\ c.shape \notin {"name", "call"} => c.table = NoTable
        /\ st.sub = "grant" => /\ c.hasOn => c.table # NoTable
                               /\ c.hasOn /\ c.structured => c.privileges # <<>>
                               /\ c.allTables => c.table = <<"*">>
                               /\ Len(c.privileges) \in Nat /\ DOMAIN c.privileges = 1..Len(c.privileges)

(* What the parser guarantees of a statement: a sub-class is a command's,  *)
(* LIVE VIEW is a form of the kinds that ClassifyLiveView looks at, names  *)
(* are strings, the database-level kinds and they only have a database     *)
(* alone as their target, a name in opaque text is qualified, a read and   *)
(* the commands judged by name have no target, the kinds below have no     *)
(* SELECT, and EMPTY and COMMENT are clauses of CREATE TABLE and of CREATE *)
(* VIEW.                                                                   *)
WellFormed(st) ==
    /\ DOMAIN st = {"kind", "sub", "slots", "cross", "reads", "inOps", "exprReads", "ns", "opaque",
                    "lookups", "named", "ec", "form", "marks", "cmd"}
    /\ st.kind \in Kinds /\ st.marks \subseteq Marks
    /\ IF st.kind = "command" THEN WellFormedCommand(st) ELSE st.sub = ""
    /\ "liveView" \in st.marks => st.kind \in {"create_view", "raw", "command"}
    /\ \A s \in {st.slots, st.cross, st.reads, st.exprReads, st.opaque} : s \in Seq(Refs)
    /\ ArgumentRefs(st.ns) \in Seq(Refs) /\ ArgumentRefs(st.lookups) \in Seq(Refs)
    /\ st.kind \notin {"create_database", "drop_database"} =>
          \A i \in DOMAIN st.slots : st.slots[i].table # NoTable
    /\ \A i \in DOMAIN st.reads : st.reads[i].table # NoTable
    /\ \A i \in DOMAIN st.opaque : st.opaque[i].db # ""
    /\ st.kind \in {"command", "drop_table", "drop_view", "truncate", "alter_table", "update", "delete",
                    "create_database", "drop_database"} =>
          st.reads = <<>> /\ \A i \in DOMAIN st.lookups : ~st.lookups[i].inBody
    /\ st.cross # <<>> => st.kind = "alter_table"
    /\ st.kind = "select" \/ st.sub \in {"use", "show", "object", "grant", "set"} => st.slots = <<>>
    /\ st.kind \in {"create_database", "drop_database"} =>
          Len(st.slots) = 1 /\ st.slots[1].table = NoTable
    /\ \/ st.form = "plain"
       \/ st.form = "empty" /\ st.kind = "create_table"
       \/ st.form = "comment" /\ st.kind = "create_view"

---------------------------------------------------------------------------
(* The engine's collectors.                                                *)

AllWriteTargets(st) == st.slots \o st.cross

(* The database names the text of a command addresses; GRANT ... ON is not *)
(* among them.                                                             *)
CommandDatabases(st) ==
    CASE st.sub = "use"    -> <<st.cmd.db>>
      [] st.sub = "show"   -> <<st.cmd.db>> \o [i \in DOMAIN st.cmd.body |-> st.cmd.body[i].db]
      [] st.sub = "object" -> <<IF st.cmd.objType = "DATABASE" /\ st.cmd.table # NoTable
                                THEN Head(st.cmd.table) ELSE st.cmd.db>>
      [] OTHER -> <<>>

(* Every database the statement names, targets before reads before opaque  *)
(* text before string lookups.                                             *)
NamedDatabases(st) ==
    LET refs == IF st.kind = "command" THEN st.slots \o st.opaque
                ELSE AllWriteTargets(st) \o st.reads \o st.exprReads
                     \o ArgumentRefs(st.ns) \o st.opaque \o ArgumentRefs(st.lookups)
    IN  CommandDatabases(st) \o [i \in DOMAIN refs |-> refs[i].db]

(* Those named only by a string-lookup argument are seen by no SI handler. *)
BlindDatabases(st) ==
    IF st.kind = "command" THEN {}
    ELSE {st.lookups[i].db : i \in DOMAIN st.lookups} \ {""}

(* Every object the caller's text names; exact is FALSE for a pattern.     *)
ObjectRef(r, exact) == [db |-> r.db, table |-> r.table, exact |-> exact]

(* The objects a command names: the qualified names of its text, then the  *)
(* target of SHOW COLUMNS / INDEX, then an unqualified object.             *)
CommandObjectRefs(st) ==
    LET c == st.cmd
        named(s) == [i \in DOMAIN s |-> ObjectRef(s[i], TRUE)]
        one(r, exact, present) == IF present THEN <<ObjectRef(r, exact)>> ELSE <<>>
    IN  CASE st.sub = "show"   -> named(c.body) \o one(Ref(c.db, c.table), TRUE, c.hasTable /\ c.tableResolved)
          [] st.sub = "object" -> named(c.body) \o
                 one(Ref(c.db, c.table), TRUE,
                     c.objType # "DATABASE" /\ c.shape = "name" /\ c.table # NoTable)
          [] st.sub = "grant"  -> one(Ref(c.db, c.table), ~c.allTables, c.hasOn /\ c.db # "")
          [] OTHER -> <<>>

CollectObjectRefs(st) ==
    LET objects(s)   == [i \in DOMAIN s |-> ObjectRef(s[i], TRUE)]
        exactly(s)   == objects(Kept(s, {i \in DOMAIN s : s[i].table # NoTable}))
        qualified(s) == objects(Kept(s, {i \in DOMAIN s : s[i].table # NoTable /\ s[i].db # ""}))
        carriers     == Kept(st.ns, {i \in DOMAIN st.ns : st.ns[i].db # "" \/ st.ns[i].current})
    IN  IF st.kind = "command"
        THEN CommandObjectRefs(st) \o qualified(st.slots) \o qualified(st.opaque)
        ELSE exactly(AllWriteTargets(st)) \o exactly(st.reads) \o exactly(st.exprReads)
             \o [i \in DOMAIN carriers |-> ObjectRef(carriers[i], carriers[i].resolved)]
             \o exactly(st.opaque) \o exactly(st.lookups)

IsSystemDatabase(db, contextDB) == (IF db = "" THEN contextDB ELSE db) = SystemDatabase

SystemTableAllowed(table) == table \in SystemTableAllowlist

(* classify, with classifyCommand for a command: by its leading keyword. *)
classifyCommand(st) ==
    CASE st.sub = "rename" -> "rename_table"
      [] st.sub = "use"    -> "use"
      [] st.sub = "show"   -> IF st.cmd.what = "DATABASES" THEN "show_databases" ELSE "show_tables"
      [] st.sub = "object" -> st.cmd.verb
      [] st.sub = "grant"  -> IF st.cmd.attach THEN "UNSPECIFIED"
                              ELSE IF st.cmd.revoke THEN "revoke" ELSE "grant"
      [] OTHER -> "UNSPECIFIED"

classify(st) ==
    IF st.kind \in {"select", "insert", "create_table", "drop_table", "alter_table",
                    "truncate", "delete", "create_database", "drop_database"}
    THEN st.kind
    ELSE IF st.kind = "command" THEN classifyCommand(st) ELSE "UNSPECIFIED"

---------------------------------------------------------------------------
(* Responses.                                                              *)

Codes == {"Success", "SyntaxError", "UnsupportedStatement", "InvalidRewriteRequest", "RewriteError"}

NoText        == [text |-> "", out |-> {}]
Echo(t)       == [text |-> t, out |-> {}]
Generated(o)  == [text |-> "generated", out |-> o]

(* One name of the generated SQL: an ordinary table, an argument of a      *)
(* remote() call, or a table of the derived safe/unsafe read.  by is who   *)
(* wrote the name it stands for.                                           *)
OutRef(how, db, table, from, by) ==
    [how |-> how, db |-> db, table |-> table, from |-> from, by |-> by]

EmptyResponse(t) ==
    [Code |-> "Success", Message |-> "", StatementType |-> "UNSPECIFIED",
     After |-> t, TableRewrites |-> EmptyMap, DatabaseRewrites |-> EmptyMap,
     PrivilegesDeltas |-> <<>>, Accessed |-> {}, FailedCTE |-> {},
     ec |-> "none", siv |-> "UNSPECIFIED"]

newWriteResp(stmt) == [EmptyResponse(NoText) EXCEPT !.Message = "success", !.StatementType = stmt]

Rejected(resp, code, msg) == [resp EXCEPT !.Code = code, !.Message = msg]

(* table_rewrites is keyed by the written name: of two entries under one   *)
(* key the later stands.  moves is a sequence of [from, to] written names. *)
recordRewrite(rewrites, moves) ==
    LET real == {i \in DOMAIN moves : moves[i].from # moves[i].to}
        new  == {moves[i].from : i \in real}
    IN  [k \in DOMAIN rewrites \cup new |->
            IF k \in new THEN moves[Max({i \in real : moves[i].from = k})].to
                         ELSE rewrites[k]]

(* Mutant: an unqualified name is not reported. *)
RecordQualifiedOnly(accessed, refs, sel) ==
    accessed \cup {ResolveAccessed(r.db, r.table, sel) : r \in {x \in refs : x.table # NoTable /\ x.db # ""}}

recordAccessed(accessed, refs, sel) ==
    accessed \cup {ResolveAccessed(r.db, r.table, sel) : r \in {x \in refs : x.table # NoTable}}

recordAccessedDatabase(accessed, db, a) ==
    accessed \cup
      {IF IsStorageIntegrityPhysicalDatabase(db, a)
       THEN AccessedEntry(db, NoTable, "", db, FALSE, TRUE)
       ELSE AccessedEntry(db, NoTable, db, ResolvePhysicalDatabase(db, a).db, FALSE, FALSE)}

touchesStorageIntegrity(accessed) == \E e \in accessed : e.IsStorageIntegrity

(* The resolved entry replaces the unqualified placeholder of its table.   *)
recordAccessedUnique(accessed, r, sel) ==
    IF \E e \in accessed : e.OriginalDatabase = r.db /\ e.OriginalTable = r.table
    THEN accessed
    ELSE recordAccessed({e \in accessed : ~(r.db # "" /\ e.OriginalDatabase = ""
                                            /\ e.OriginalTable = r.table)}, {r}, sel)

recordAccessedLogicalDatabase(accessed, db, a) ==
    accessed \cup {AccessedEntry(db, NoTable, db, ResolvePhysicalDatabase(db, a).db, FALSE, TRUE)}

NotHandled    == [handled |-> FALSE, resp |-> EmptyResponse(NoText)]
Handled(resp) == [handled |-> TRUE, resp |-> resp]

(* The first element of a sequence with an index in a non-empty set. *)
FirstOf(s, indices) == s[Min(indices)]

(* Mutant: only the code a top-level SELECT gives the refusal is looked at. *)
ClearOnInvalidOnly(resp) ==
    IF resp.Code = "InvalidRewriteRequest" /\ resp.Message = "unresolvedUnqualified"
    THEN [resp EXCEPT !.TableRewrites = EmptyMap] ELSE resp

clearOnUnresolved(resp) ==
    IF resp.Code # "Success" /\ resp.Message = "unresolvedUnqualified"
    THEN [resp EXCEPT !.TableRewrites = EmptyMap] ELSE resp
============================================================================
