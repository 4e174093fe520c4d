--------------------------- MODULE DBLevelHandler ---------------------------
(***************************************************************************)
(* CREATE / DROP DATABASE, USE and SHOW (handlers/dblevel.go), judged      *)
(* under the last dynamic arguments of the options, whether or not they    *)
(* are the active ones.  What the parser reads of a command is in st.cmd:  *)
(*   use     [db, trailing]                                                *)
(*   show    [what, next, prefixed, db, hasDB, hasTable, table,            *)
(*            tableResolved, multiPart, like, trailing, body, ungoverned]; *)
(*           prefixed is EXTENDED / FULL / TEMPORARY, an explicit database *)
(*           that is no static name has db = "", body holds the qualified  *)
(*           names after the target                                        *)
(***************************************************************************)
EXTENDS WriteHandler

AsWritten(refs) == {OutRef("table", r.db, r.table, r, "caller") : r \in refs}

(* The statement goes on as it was written. *)
Forward(resp, names) == [resp EXCEPT !.After = Generated(AsWritten(names))]

Refuse(resp, code) == Rejected(resp, code, "command")

recordDatabaseRewrite(rewrites, origin, new) ==
    IF origin = "" \/ origin = new THEN rewrites
    ELSE [k \in DOMAIN rewrites \cup {origin} |-> IF k = origin THEN new ELSE rewrites[k]]

---------------------------------------------------------------------------
(* CREATE DATABASE and DROP DATABASE never reach ClickHouse: the answer is *)
(* a SELECT of the statement's own text.                                   *)

MarkerSelect(resp) == [resp EXCEPT !.After = Generated({})]

dispatchCreateDatabase(st, dyn) ==
    LET target == st.slots[1].db
        a      == dyn.args
        resp   == newWriteResp("create_database")
        seen   == [resp EXCEPT !.Accessed = recordAccessedDatabase(@, target, a)]
    IN  IF ~dyn.found THEN Refuse(resp, "UnsupportedStatement")
        ELSE IF IsStorageIntegrityPhysicalDatabase(target, a)
             THEN Rejected(seen, "UnsupportedStatement", "siPhysical")
        ELSE IF target \in DOMAIN a.database_map /\ st.ec # "ifNotExists"
             THEN Refuse(seen, "InvalidRewriteRequest")
        ELSE IF a.pctx # "" /\ a.pctx \notin a.known THEN Refuse(seen, "InvalidRewriteRequest")
        ELSE MarkerSelect(seen)

dispatchDropDatabase(st, dyn) ==
    LET target == st.slots[1].db
        a      == dyn.args
        resp   == newWriteResp("drop_database")
        seen   == [resp EXCEPT !.Accessed = recordAccessedDatabase(@, target, a)]
    IN  IF ~dyn.found THEN Refuse(resp, "UnsupportedStatement")
        ELSE IF IsStorageIntegrityPhysicalDatabase(target, a)
             THEN Rejected(seen, "UnsupportedStatement", "siPhysical")
        ELSE IF target \in DOMAIN a.database_map
             THEN MarkerSelect([seen EXCEPT
                    !.DatabaseRewrites = recordDatabaseRewrite(@, target, a.database_map[target])])
        ELSE IF st.ec # "ifExists" THEN Refuse(seen, "InvalidRewriteRequest")
        ELSE MarkerSelect(seen)

---------------------------------------------------------------------------
(* USE.                                                                    *)

UseOutput(target, from) == {OutRef("use", target, NoTable, Ref(from, NoTable), "caller")}

(* Mutant: a logical database on a remote upstream is used locally. *)
UseIgnoresRemote(c, dyn) ==
    LET a        == dyn.args
        resp     == newWriteResp("use")
        physical == ResolvePhysicalDatabase(c.db, a)
    IN  IF ~dyn.found THEN [resp EXCEPT !.After = Generated(UseOutput(c.db, c.db))]
        ELSE IF ProtectedDatabase(c.db, a) \/ ~physical.ok \/ c.trailing
             THEN Refuse(resp, "InvalidRewriteRequest")
        ELSE [resp EXCEPT !.After = Generated(UseOutput(physical.db, c.db)),
                          !.DatabaseRewrites = recordDatabaseRewrite(@, c.db, physical.db)]

(* Mutant: any known physical database may be used. *)
UseAnyKnown(c, dyn) ==
    LET resp == newWriteResp("use")
    IN  IF ~dyn.found \/ c.db \in dyn.args.known
        THEN [resp EXCEPT !.After = Generated(UseOutput(c.db, c.db))]
        ELSE Refuse(resp, "InvalidRewriteRequest")

dispatchUse(c, dyn) ==
    LET a        == dyn.args
        resp     == newWriteResp("use")
        seen     == [resp EXCEPT !.Accessed = recordAccessedDatabase(@, c.db, a)]
        physical == ResolvePhysicalDatabase(c.db, a)
    IN  IF ~dyn.found THEN [resp EXCEPT !.After = Generated(UseOutput(c.db, c.db))]
        ELSE IF IsStorageIntegrityPhysicalDatabase(c.db, a)
             THEN Rejected(seen, "UnsupportedStatement", "siPhysical")
        ELSE IF ProtectedDatabase(c.db, a) THEN Rejected(seen, "InvalidRewriteRequest", "protected")
        ELSE IF ~physical.ok THEN Refuse(resp, "InvalidRewriteRequest")
        ELSE IF c.db \in DOMAIN a.remote_index THEN Refuse(resp, "UnsupportedStatement")
        ELSE IF physical.db # c.db /\ c.trailing THEN Refuse(resp, "UnsupportedStatement")
        ELSE [resp EXCEPT !.After = Generated(UseOutput(physical.db, c.db)),
                          !.DatabaseRewrites = recordDatabaseRewrite(@, c.db, physical.db)]

---------------------------------------------------------------------------
(* SHOW.                                                                   *)

ShowTargetBearing == {"DICTIONARIES", "COLUMNS", "FIELDS", "INDEX", "INDEXES", "INDICES", "KEYS"}
ShowTargetLess    == {"CLUSTER", "CLUSTERS", "SETTINGS", "MERGES", "CACHES", "PROCESSLIST",
                      "FUNCTIONS", "GRANTS", "USERS", "ROLES", "ROW", "QUOTA", "QUOTAS",
                      "PROFILES", "POLICIES", "ACCESS", "ENGINES", "FILESYSTEM"}

showKindClass(what) ==
    CASE what = "TABLES"              -> "rewritten"
      [] what \in ShowTargetBearing   -> "targetBearing"
      [] what \in ShowTargetLess      -> "targetLess"
      [] OTHER                        -> "unknown"

(* The kinds that read a system table outside the allowlist, and those     *)
(* known to read none; a kind in neither is unknown.                       *)
systemTableShowRefusal(c) ==
    LET refused == {"PROCESSLIST", "MERGES", "DICTIONARIES", "USERS", "ACCESS", "ROLES", "GRANTS",
                    "PROFILES", "ROW", "POLICIES", "QUOTA", "QUOTAS", "FILESYSTEM", "CACHES",
                    "CURRENT", "ENABLED"}
        harmless == {"SETTINGS", "CLUSTER", "CLUSTERS", "FUNCTIONS", "ENGINES", "CHANGED", "SETTING",
                     "PRIVILEGES", "TABLES", "DATABASES", "CREATE", "COLUMNS", "FIELDS", "INDEX",
                     "INDEXES", "INDICES", "KEYS"}
    IN  CASE c.what \in refused \/ (c.what = "SETTINGS" /\ c.next = "PROFILES") -> "refused"
          [] c.what \in harmless /\ ~(c.what = "SETTINGS" /\ c.next = "PROFILES") -> "no"
          [] OTHER -> "unknown"

(* Echo the SQL and leave the statement without a type. *)
EchoRefusal(resp, text, msg, accessed) ==
    [Rejected(resp, "UnsupportedStatement", msg) EXCEPT
       !.StatementType = "UNSPECIFIED", !.After = Echo(text), !.Accessed = accessed]

SIPhysicalEntry(db, table) == AccessedEntry(db, table, "", db, FALSE, TRUE)

(* The SI namespace check of a SHOW with a target; resp when it passes. *)
rejectShowTargetStorageIntegrityNamespace(resp, text, c, a) ==
    LET target == IF c.hasDB THEN c.db ELSE a.ctx
        bare   == ~c.hasDB /\ IsStorageIntegrityPhysicalDatabase(a.pctx, a)
    IN  IF ~StorageIntegritySurfaceActive(a) THEN resp
        ELSE IF bare
             THEN EchoRefusal(resp, text, "siPhysical", recordAccessedDatabase(resp.Accessed, a.pctx, a))
        ELSE IF target = ""
             THEN IF c.hasDB THEN EchoRefusal(resp, text, "siUnmodelled", resp.Accessed) ELSE resp
        ELSE IF IsStorageIntegrityPhysicalDatabase(target, a)
             THEN EchoRefusal(resp, text, "siPhysical",
                    IF c.hasTable /\ c.tableResolved
                    THEN resp.Accessed \cup {SIPhysicalEntry(target, c.table)}
                    ELSE recordAccessedDatabase(resp.Accessed, target, a))
        ELSE IF ~IsStorageIntegrityLogicalDatabase(target, a) THEN resp
        ELSE [EchoRefusal(resp, text, "siNamespace",
                          recordAccessedLogicalDatabase(resp.Accessed, target, a)) EXCEPT
                !.Code = IF AuthorizeStorageIntegrityLogical(target, a)
                         THEN "UnsupportedStatement" ELSE "InvalidRewriteRequest"]

(* The clauses after the target: an SI physical name, then any text that   *)
(* could read a table; resp when they pass.                                *)
showBodyRejection(resp, text, c, a) ==
    LET si == {i \in DOMAIN c.body : IsStorageIntegrityPhysicalDatabase(c.body[i].db, a)}
        first == FirstOf(c.body, si)
    IN  IF StorageIntegritySurfaceActive(a) /\ si # {}
        THEN EchoRefusal(resp, text, "siPhysical",
                         resp.Accessed \cup {SIPhysicalEntry(first.db, first.table)})
        ELSE IF c.ungoverned THEN EchoRefusal(resp, text, "notSupported", resp.Accessed)
        ELSE resp

ShownNames(c) ==
    {c.body[i] : i \in DOMAIN c.body} \cup
    (IF c.hasTable /\ c.tableResolved THEN {Ref(c.db, c.table)} ELSE {})

(* An unqualified table is resolved in the session's logical database. *)
dispatchShowUnqualifiedTable(resp, text, c, a) ==
    LET sel  == Selection("dynamic", NoStatic, a)
        slot == <<Ref("", c.table)>>
        r    == applyStructuredSlots(slot, "show", sel, resp)
    IN  IF r.Code # "Success" THEN [r EXCEPT !.After = Echo(text)]
        ELSE [r EXCEPT !.After = Generated(SlotOutput(slot, sel) \cup
                                           AsWritten({c.body[i] : i \in DOMAIN c.body}))]

(* The enumeration lists the tables of the physical database that carry    *)
(* the prefix, through remote() for a logical database on an upstream.     *)
dispatchEnumeration(resp, text, c, a) ==
    LET logical  == IF c.hasDB THEN c.db ELSE a.ctx
        physical == ResolvePhysicalDatabase(logical, a)
    IN  IF c.hasDB /\ c.db = ""
        THEN IF StorageIntegritySurfaceActive(a)
             THEN EchoRefusal(resp, text, "siUnmodelled", resp.Accessed)
             ELSE Refuse(resp, "InvalidRewriteRequest")
        ELSE IF logical = "" THEN Refuse(resp, "InvalidRewriteRequest")
        ELSE IF IsStorageIntegrityPhysicalDatabase(logical, a)
             THEN [Rejected(resp, "UnsupportedStatement", "siPhysical") EXCEPT
                     !.Accessed = recordAccessedDatabase(@, logical, a)]
        ELSE IF ~physical.ok THEN Refuse(resp, "InvalidRewriteRequest")
        ELSE IF c.trailing \/ c.like # "none" \/ c.prefixed THEN Refuse(resp, "UnsupportedStatement")
        ELSE IF logical \in DOMAIN a.remote_index /\ a.remote_index[logical] \notin a.upstreams
             THEN Refuse(resp, "InvalidRewriteRequest")
        ELSE [resp EXCEPT
                !.After = Generated({OutRef("list", physical.db, BuildDynamicTablePrefix(logical, a),
                                            Ref(logical, NoTable), "caller")}),
                !.DatabaseRewrites = recordDatabaseRewrite(@, logical, physical.db)]

(* SHOW DICTIONARIES is refused by systemTableShowRefusal under dynamic    *)
(* arguments: its own cases behind that check cannot be reached.           *)
dispatchTargetBearing(resp, text, c, a) ==
    LET ns   == rejectShowTargetStorageIntegrityNamespace(resp, text, c, a)
        body == showBodyRejection(resp, text, c, a)
    IN  IF ns.Code # "Success" THEN ns
        ELSE IF body.Code # "Success" THEN body
        ELSE IF systemTableShowRefusal(c) = "refused"
             THEN EchoRefusal(resp, text, "systemTable", resp.Accessed)
        ELSE IF c.multiPart THEN EchoRefusal(resp, text, "notSupported", resp.Accessed)
        ELSE IF c.hasTable /\ c.tableResolved /\ ~c.hasDB
             THEN dispatchShowUnqualifiedTable(resp, text, c, a)
        ELSE Forward(resp, ShownNames(c))

dispatchTargetLess(resp, text, c, a) ==
    LET body == showBodyRejection(resp, text, c, a)
    IN  IF body.Code # "Success" THEN body
        ELSE IF systemTableShowRefusal(c) = "refused"
             THEN EchoRefusal(resp, text, "systemTable", resp.Accessed)
        ELSE Forward(resp, ShownNames(c))

dispatchUnknown(resp, text, c) ==
    IF c.ungoverned THEN EchoRefusal(resp, text, "notSupported", resp.Accessed)
    ELSE IF systemTableShowRefusal(c) = "refused"
         THEN EchoRefusal(resp, text, "systemTable", resp.Accessed)
    ELSE IF systemTableShowRefusal(c) = "unknown"
         THEN EchoRefusal(resp, text, "notSupported", resp.Accessed)
    ELSE Forward(resp, ShownNames(c))

dispatchShowTables(text, c, dyn) ==
    LET resp  == newWriteResp("show_tables")
        class == showKindClass(c.what)
    IN  IF ~dyn.found THEN Handled(Forward(resp, ShownNames(c)))
        ELSE IF class = "targetBearing" THEN Handled(dispatchTargetBearing(resp, text, c, dyn.args))
        ELSE IF class = "targetLess" THEN Handled(dispatchTargetLess(resp, text, c, dyn.args))
        ELSE IF class = "rewritten" THEN Handled(dispatchEnumeration(resp, text, c, dyn.args))
        ELSE IF StorageIntegritySurfaceActive(dyn.args) THEN NotHandled
        ELSE Handled(dispatchUnknown(resp, text, c))

(* Mutant: every mapped database is listed, known or not. *)
ListEveryMapped(c, dyn) ==
    LET resp == newWriteResp("show_databases")
    IN  IF ~dyn.found \/ c.trailing \/ c.hasDB \/ c.prefixed \/ c.like = "other"
        THEN Refuse(resp, "UnsupportedStatement")
        ELSE [resp EXCEPT !.After = Generated({}),
                !.DatabaseRewrites = [l \in {m \in DOMAIN dyn.args.database_map :
                                               dyn.args.database_map[m] # m} |-> dyn.args.database_map[l]]]

(* The list is the account's logical names; an entry whose physical        *)
(* database is not declared known is left out.                             *)
dispatchShowDatabases(c, dyn) ==
    LET resp   == newWriteResp("show_databases")
        a      == dyn.args
        listed == {l \in DOMAIN a.database_map : a.database_map[l] \in a.known}
    IN  IF ~dyn.found THEN Forward(resp, {})
        ELSE IF c.trailing \/ c.hasDB \/ c.prefixed \/ c.like = "other"
             THEN Refuse(resp, "UnsupportedStatement")
        ELSE [resp EXCEPT !.After = Generated({}),
                !.DatabaseRewrites = [l \in {m \in listed : m # "" /\ a.database_map[m] # m}
                                         |-> a.database_map[l]]]

RewriteDBLevel(st, text, opts) ==
    LET dyn == FindDynamicArgs(opts)
    IN  CASE st.kind = "create_database" -> Handled(dispatchCreateDatabase(st, dyn))
          [] st.kind = "drop_database"   -> Handled(dispatchDropDatabase(st, dyn))
          [] st.kind = "command" /\ st.sub = "use" -> Handled(dispatchUse(st.cmd, dyn))
          [] st.kind = "command" /\ st.sub = "show" ->
                IF st.cmd.what = "DATABASES" THEN Handled(dispatchShowDatabases(st.cmd, dyn))
                ELSE dispatchShowTables(text, st.cmd, dyn)
          [] OTHER -> NotHandled
============================================================================
