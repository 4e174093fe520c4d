-------------------------- MODULE RewriteProperties --------------------------
(***************************************************************************)
(* What a caller of the rewriter relies on, stated of the finished call.   *)
(***************************************************************************)
EXTENDS RewritePipeline

Finished  == pc = "done"
Succeeded == Finished /\ resp.Code = "Success"

(* The shape of the pipeline's state: the stage, the text in work, the     *)
(* acknowledged contract and the code of the response (native.go).         *)
TypeOK ==
    /\ req \in Requests \cup {NoRequest}
    /\ pc \in Stages
    /\ text \in {"caller", "stripped"}
    /\ stripErr \in BOOLEAN
    /\ resp.Code \in Codes
    /\ siv \in {"UNSPECIFIED", "V1", "V2"}
    /\ closed \in BOOLEAN

---------------------------------------------------------------------------
(* What a command names; a database alone has no table. *)
CommandNames(st) ==
    LET c == st.cmd
        body == {c.body[i] : i \in DOMAIN c.body}
    IN  CASE st.sub = "use"    -> {Ref(c.db, NoTable)}
          [] st.sub = "show"   -> {Ref(c.db, IF c.hasTable THEN c.table ELSE NoTable)} \cup body
          [] st.sub = "object" ->
                body \cup (IF c.objType = "DATABASE" \/ c.shape # "name" THEN {} ELSE {Ref(c.db, c.table)})
          [] st.sub = "grant"  -> IF c.hasOn THEN {Ref(c.db, c.table)} ELSE {}
          [] OTHER -> {}

(* Every object the caller's statement names, wherever it names it. *)
AllNames(st) ==
    LET refs(s) == {Ref(s[i].db, s[i].table) : i \in DOMAIN s}
    IN  CommandNames(st) \cup
        UNION {refs(st.slots), refs(st.cross), refs(st.reads), refs(st.exprReads),
               refs(st.ns), refs(st.opaque), refs(st.lookups)}

---------------------------------------------------------------------------
(* What the theorems on commands ask of the requests, where ClickHouse's   *)
(* grammar or the deployment gives what the code does not check.           *)

(* A command names objects where its grammar has them: only the SHOW kinds *)
(* with a target have FROM, and beside the object of DESCRIBE, EXISTS and  *)
(* SHOW CREATE, and in the arguments of an allowed table function, no name *)
(* is qualified.                                                           *)
NamesOnlyItsTarget(st) ==
    LET c == st.cmd
    IN  st.kind = "command" =>
          /\ st.sub = "show" /\ c.hasDB => c.what \in ShowTargetBearing \cup {"TABLES", "DATABASES"}
          /\ st.sub = "object" /\ (c.shape = "name" \/ (c.shape = "call" /\ c.fnClass = "allowed")) =>
                c.body = <<>>

(* No expression in the text of a command spells the name of an SI table.  *)
ClausesClear(r) ==
    LET a == FindActive(r.opts).Dynamic
        names == {r.st.opaque[i] : i \in DOMAIN r.st.opaque} \cup
                 (IF r.st.sub = "show" THEN {r.st.cmd.body[i] : i \in DOMAIN r.st.cmd.body} ELSE {})
    IN  r.st.kind = "command" => \A x \in names : ~IsStorageIntegrity(x.db, x.table, a)

(* The account's logical databases do not include `system`. *)
SystemUnmapped(r) == ~ResolvePhysicalDatabase(SystemDatabase, FindActive(r.opts).Dynamic).ok

(* No logical database of the account has the name of a protected one. *)
LogicalApart(r) ==
    LET a == FindDynamicArgs(r.opts).args
    IN  \A l \in DOMAIN a.database_map : ~ProtectedDatabase(l, a)

---------------------------------------------------------------------------
(* Fail-closed: a dynamic request never ends in a Go error, which callers  *)
(* answer by forwarding the original SQL (sealStorageIntegrityHandlerError *)
(* and sealCreateTableEmpty in native.go), wherever the engine fails.      *)
DynamicNeverGoError == pc = "goError" => ~Dynamic

(* A refusal hands back the SQL the caller sent: neither the text with     *)
(* EMPTY or COMMENT cut out nor one rewritten in part (finalize, doRewrite *)
(* and rewriteViewComment in native.go).                                   *)
RefusalEchoesCaller == Finished /\ resp.Code # "Success" => resp.After = Echo("caller")

(* A name that original_accessed_tables has an entry for; the alias of an  *)
(* injected common table expression is no table and has none.              *)
Reported(r, accessed) ==
    \/ \E c \in CTEOptions(req.opts) : r = Ref("", <<c.alias>>)
    \/ \E e \in accessed : e.OriginalDatabase = r.db /\ e.OriginalTable = r.table

(* A Success of an EMPTY or COMMENT form has the clause put back, and the  *)
(* EMPTY form's body was seen: its tables are reported.  (native.go        *)
(* 190-269.)                                                               *)
SuccessKeepsClause ==
    Succeeded /\ req.st.form # "plain" =>
        /\ resp.After.text = "restored"
        /\ \A i \in DOMAIN req.st.reads : Reported(req.st.reads[i], resp.Accessed)

(* Isolation, the purpose of dynamic mode: in the SQL that runs, a name    *)
(* the caller wrote reaches a protected physical database only as a table  *)
(* that carries the prefix of a logical database mapped for the account,   *)
(* or as the read surface of an SI table of such a database; a session     *)
(* enters it only as such a logical database, and an enumeration lists     *)
(* only names under such a prefix.  An unqualified name runs in the        *)
(* session's physical database.                                            *)
Isolated(o, a) ==
    LET logical == LogicalOf(o.from.db, a)
        runsIn  == IF o.db = "" THEN a.pctx ELSE o.db
    IN  o.by = "caller" /\ ProtectedDatabase(runsIn, a) =>
          /\ logical \in DOMAIN a.database_map
          /\ o.how # "surface" => o.db = a.database_map[logical]
          /\ o.how \notin {"surface", "use"} =>
                /\ Len(o.table) > Len(a.extra)
                /\ SubSeq(o.table, 1, Len(a.extra) + 1) = <<logical>> \o a.extra

Isolation == Succeeded /\ Dynamic => \A o \in resp.After.out : Isolated(o, Sel.Dynamic)

(* No dynamic Success names a system table outside the allowlist, whether  *)
(* the preflight or, for a statement with SI objects, finalize's backstop  *)
(* owns the check (systemtables.go, native.go 75-82).                      *)
SystemTablesRefused ==
    Succeeded /\ Dynamic => \A r \in AllNames(req.st) :
        r.table # NoTable /\ LogicalOf(r.db, Sel.Dynamic) = SystemDatabase =>
            r.table \in SystemTableAllowlist

(* No Success contains what a gate exists to refuse: the checks an active  *)
(* SI surface moves from the preflight to the handlers are made there.     *)
Screened ==
    Succeeded =>
        /\ {"dropsTokens", "unparsedTail"} \cap req.st.marks = {}
        /\ Dynamic => {"identity", "identParam", "carrier", "ungoverned",
                       "badSetting"} \cap req.st.marks = {} /\ req.st.ns = <<>>
        /\ siv # "UNSPECIFIED" => "liveView" \notin req.st.marks

(* A response acknowledges a storage-integrity contract exactly when the   *)
(* surface is active under a version and configuration the engine accepts, *)
(* refusals and syntax errors included (native.go 274-299, 254-269).       *)
ContractAcknowledged ==
    Finished =>
        resp.siv = (IF /\ Dynamic /\ StorageIntegritySurfaceActive(Sel.Dynamic)
                       /\ Sel.Dynamic.si.version \in {"V1", "V2"}
                       /\ ValidateStorageIntegrity(Sel.Dynamic)
                    THEN Sel.Dynamic.si.version ELSE "UNSPECIFIED")

(* A statement that succeeds changes an SI table only as INSERT or, under  *)
(* contract V2, plain DROP TABLE, always with the account mapped to its    *)
(* logical database, and never names an SI physical database (writes.go    *)
(* 90-234).                                                                *)
SIWritesGuarded ==
    LET a == Sel.Dynamic
        targets == {AllWriteTargets(req.st)[i] : i \in DOMAIN AllWriteTargets(req.st)}
    IN  Succeeded /\ Dynamic =>
          /\ \A r \in targets : IsStorageIntegrity(r.db, r.table, a) =>
                /\ \/ req.st.kind = "insert"
                   \/ req.st.kind = "drop_table" /\ a.si.version = "V2" /\ "plainDrop" \in req.st.marks
                /\ LogicalOf(r.db, a) \in DOMAIN a.database_map
          /\ \A r \in AllNames(req.st) : ~IsStorageIntegrityPhysicalDatabase(r.db, a)

(* original_accessed_tables of a dynamic Success names every table the     *)
(* statement reads or writes, an injected alias apart, whichever handler   *)
(* answered: the proxy authorizes from it (buildAccessed in select.go,     *)
(* recordAccessedWrite and mergeViewBody in writes.go).                    *)
AccessedComplete ==
    LET tables == {req.st.slots[i] : i \in DOMAIN req.st.slots}
                  \cup {req.st.reads[i] : i \in DOMAIN req.st.reads}
    IN  Succeeded /\ Dynamic => \A r \in tables : Reported(r, resp.Accessed)

(* A refusal for an unresolved unqualified name or for a system table      *)
(* reveals no physical name: its table_rewrites is empty, whichever        *)
(* handler built the response (clearOnUnresolved, rejectSystemTable).      *)
RefusalRevealsNoMap ==
    Finished /\ resp.Message \in {"unresolvedUnqualified", "systemTable"} =>
        /\ resp.TableRewrites = EmptyMap /\ resp.DatabaseRewrites = EmptyMap
        /\ resp.PrivilegesDeltas = <<>>

---------------------------------------------------------------------------
(* Commands, judged under the last dynamic arguments of the request.       *)

Args == FindDynamicArgs(req.opts)
Sub(s) == req.st.kind = "command" /\ req.st.sub = s

(* database_rewrites tells of each entry what the resolver would: it maps  *)
(* only databases the account has, to where their tables are; and SHOW     *)
(* DATABASES maps none to an undeclared physical database (dblevel.go      *)
(* 556-605).                                                               *)
DatabaseMapTrusted ==
    Succeeded => \A l \in DOMAIN resp.DatabaseRewrites :
        /\ Args.found /\ ResolvePhysicalDatabase(l, Args.args) = [ok |-> TRUE, db |-> resp.DatabaseRewrites[l]]
        /\ Sub("show") /\ req.st.cmd.what = "DATABASES" => resp.DatabaseRewrites[l] \in Args.args.known

(* The databases of the account stay isolated for USE and SHOW TABLES even *)
(* where a later static option makes the preflight stand aside: those      *)
(* handlers read the dynamic arguments all the same (RewriteDBLevel in     *)
(* dblevel.go, FindDynamicArgs in resolve.go 114-131); and the map they    *)
(* report is to be trusted.                                                *)
DatabaseCommandsIsolated ==
    /\ Succeeded /\ Args.found /\ (Sub("use") \/ (Sub("show") /\ req.st.cmd.what = "TABLES")) =>
          \A o \in resp.After.out : Isolated(o, Args.args)
    /\ DatabaseMapTrusted

(* A session that USE has moved is where the next statement's unqualified  *)
(* names resolve: with the used name as its logical and the emitted one as *)
(* its physical context, a table becomes a local table of that physical    *)
(* database (dispatchUse in dblevel.go against ApplyDynamic).              *)
UseAgreesWithResolution ==
    Succeeded /\ Sub("use") /\ Args.found => \A o \in resp.After.out :
        LET moved == [Args.args EXCEPT !.ctx = req.st.cmd.db, !.pctx = o.db]
            r     == ApplyDynamic("", <<"t">>, moved)
        IN  r.Status = "Rewrite" /\ r.PhysicalDB = o.db

(* A command that succeeds names no SI physical database, and addresses an *)
(* SI table only to describe it or to ask whether it exists, through its   *)
(* safe half, with the account mapped to its database (describe.go 64-106, *)
(* exists.go 56-115, rejectShowTargetStorageIntegrityNamespace).           *)
SICommandsGuarded ==
    LET a == Sel.Dynamic
    IN  Succeeded /\ Dynamic /\ req.st.kind = "command" => \A r \in AllNames(req.st) :
          /\ ~IsStorageIntegrityPhysicalDatabase(r.db, a)
          /\ IsStorageIntegrity(r.db, r.table, a) =>
                /\ Sub("object") /\ req.st.cmd.verb # "show_create"
                /\ LogicalOf(r.db, a) \in DOMAIN a.database_map
                /\ \A o \in resp.After.out :
                      qualify(o.db, o.table) = a.si.tables[LookupStorageIntegrity(r.db, r.table, a)].safe

(* A privilege delta, of a refusal too, reaches no further than the        *)
(* statement's own logical database: where the resolver puts the table it  *)
(* names, never a database the account lacks or an SI table; and a Success *)
(* has one delta for each privilege (grant.go 128-178).                    *)
GrantConfined ==
    Finished =>
        /\ \A i \in DOMAIN resp.PrivilegesDeltas :
              LET d == resp.PrivilegesDeltas[i]
                  a == Args.args
                  r == ApplyDynamic(d.OriginalDatabase, d.OriginalTable, [a EXCEPT !.remote_index = EmptyMap])
              IN  /\ Sub("grant") /\ Args.found
                  /\ ResolvePhysicalDatabase(LogicalOf(req.st.cmd.db, a), a) = [ok |-> TRUE, db |-> d.PhysicalDatabase]
                  /\ d.Scope = "TABLE" => /\ r.Status = "Rewrite" /\ r.NewTable = d.PhysicalTable
                                          /\ d.OriginalTable = req.st.cmd.table
                                          /\ Dynamic => ~IsStorageIntegrity(d.OriginalDatabase, d.OriginalTable, a)
                  /\ d.Scope = "DATABASE" => req.st.cmd.allTables
        /\ Succeeded /\ Sub("grant") => Len(resp.PrivilegesDeltas) = Len(req.st.cmd.privileges)

(* A call that starts after Close answers SyntaxError, or refuses a bad    *)
(* configuration, and never a Go error or a Success (service.go 87-91).    *)
CallAfterClose ==
    [](pc = "idle" /\ closed =>
         [](pc # "goError" /\ (Finished => resp.Code \in {"SyntaxError", "InvalidRewriteRequest"})))

---------------------------------------------------------------------------
(* The pipeline implements the contract the session layer is built on.     *)

ContractAnswer ==
    CASE pc = "goError" -> [kind |-> "error", sql |-> "none"]
      [] Finished       -> IF resp.Code = "Success" THEN [kind |-> "success", sql |-> "rewritten"]
                           ELSE [kind |-> "refusal", sql |-> resp.After.text]
      [] OTHER          -> [kind |-> "none", sql |-> "none"]

DynamicRequests == {r \in Requests : FindActive(r.opts).Mode = "dynamic"}

Contract == INSTANCE RewriteContract WITH
    Calls <- Requests, DynamicCalls <- DynamicRequests, NoCall <- NoRequest,
    call <- req, answer <- ContractAnswer

(* Every behaviour of the pipeline is one the contract allows: one answer  *)
(* per call, of a promised kind, with the caller's SQL on a refusal        *)
(* (Rewriter in rewriter.go, doRewrite in native.go).                      *)
ImplementsContract == Contract!Spec

---------------------------------------------------------------------------
(* Statements of the repository that the code does not meet.               *)

(* The (database, table) identity is "the key every dedupe or rewrite map  *)
(* over table references must use", never the written db.table string      *)
(* (internal/engine/nodes.go:18-22): so table_rewrites of a Success tells  *)
(* what each table the statement reads became.                             *)
RewriteMapByIdentity ==
    Succeeded /\ Dynamic => \A i \in DOMAIN req.st.reads :
        LET r == req.st.reads[i]
            o == Resolve(r.db, r.table, Sel)
        IN  o.Status = "Rewrite" /\ qualify(r.db, r.table) # qualify(o.PhysicalDB, o.NewTable) =>
              resp.TableRewrites[qualify(r.db, r.table)] = qualify(o.PhysicalDB, o.NewTable)

(* "A call racing or following Close currently surfaces as                 *)
(* Code=SyntaxError ..., not as a Go error" (service.go:89-91): but without *)
(* a dynamic policy a Close after the parse makes the handler's Generate   *)
(* fail, and doRewrite returns that error.                                 *)
CloseIsNoGoError == [][closed => pc' # "goError"]_vars
==============================================================================
