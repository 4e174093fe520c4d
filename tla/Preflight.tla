----------------------------- MODULE Preflight -----------------------------
(***************************************************************************)
(* The table-reference policy that runs before any handler rewrites a name *)
(* (internal/handlers/preflight.go), with the checks it shares with the    *)
(* handlers: disallowed carriers, ungoverned reads, system tables, and the *)
(* storage-integrity policy on namespace arguments.                        *)
(***************************************************************************)
EXTENDS Statement

SIActive(sel) == sel.Mode = "dynamic" /\ StorageIntegritySurfaceActive(sel.Dynamic)

(* A handler models the command's class; a session SET counts only while   *)
(* the SI surface is inactive.                                             *)
commandClassModelled(st, sel) ==
    \/ st.sub \in {"rename", "exchange", "alterUpdate", "use", "show", "object", "grant"}
    \/ st.sub = "set" /\ ~StorageIntegritySurfaceActive(sel.Dynamic)

UnmodelledCommand(st, sel) == st.kind = "command" /\ ~commandClassModelled(st, sel)

(* T5: table functions, engines and settings outside the allowlists; every *)
(* function or engine that names a table is outside them.                  *)
rejectDisallowedCarriers(st) == "carrier" \in st.marks \/ st.ns # <<>>

(* R5: SQL-bearing or non-plain settings; an unmodelled command class is   *)
(* refused as such, its settings unread, and a session SET is judged by    *)
(* the SET carve-out of the pipeline's tail.                               *)
rejectSQLBearingSettings(st, sel) ==
    "badSetting" \in st.marks /\ ~UnmodelledCommand(st, sel) /\ st.sub # "set"

(* Opaque names in an SI physical database, while the surface is active.   *)
OpaqueReserved(st, sel) ==
    {i \in DOMAIN st.opaque : SIActive(sel) /\
        IsStorageIntegrityPhysicalDatabase(st.opaque[i].db, sel.Dynamic)}

(* R2 and R5: reads no rewrite reaches. *)
rejectUngovernedReads(st, sel) ==
    \/ rejectSQLBearingSettings(st, sel)
    \/ OpaqueReserved(st, sel) # {}
    \/ st.exprReads # <<>>
    \/ "ungoverned" \in st.marks

UngovernedResp(resp, st, sel) ==
    IF ~rejectSQLBearingSettings(st, sel) /\ OpaqueReserved(st, sel) # {}
    THEN [Rejected(resp, "UnsupportedStatement", "siPhysical") EXCEPT
            !.Accessed = recordAccessed(@, {FirstOf(st.opaque, OpaqueReserved(st, sel))}, sel)]
    ELSE Rejected(resp, "UnsupportedStatement", "notSupported")

---------------------------------------------------------------------------
(* Namespace arguments under storage integrity.                            *)

(* ClickHouse's current physical database, as far as the options tell. *)
tableFunctionExecutionDatabase(a) ==
    IF a.pctx # "" THEN a.pctx
    ELSE IF IsStorageIntegrityPhysicalDatabase(a.ctx, a) THEN a.ctx
    ELSE ResolvePhysicalDatabase(a.ctx, a).db

NamespaceVerdict(ref, resp, sel, code) ==
    LET a        == sel.Dynamic
        db       == IF ref.current THEN tableFunctionExecutionDatabase(a) ELSE ref.db
        resolved == IF ref.current THEN db # "" /\ ref.table # NoTable ELSE ref.resolved
        session  == ref.current /\ ref.src # "in_table" /\ IsStorageIntegrity("", ref.table, a)
        refuse(accessed, logicalDB) ==
            [Rejected(resp, IF AuthorizeStorageIntegrityLogical(logicalDB, a)
                            THEN code ELSE "InvalidRewriteRequest", "siNamespace")
                EXCEPT !.Accessed = accessed]
        physical(accessed) == [Rejected(resp, code, "siPhysical") EXCEPT !.Accessed = accessed]
    IN  IF session THEN refuse(recordAccessedUnique(resp.Accessed, Ref("", ref.table), sel), "")
        ELSE IF resolved /\ IsStorageIntegrityPhysicalDatabase(db, a)
             THEN physical(recordAccessedUnique(resp.Accessed, Ref(db, ref.table), sel))
        ELSE IF resolved /\ IsStorageIntegrity(db, ref.table, a)
             THEN refuse(recordAccessedUnique(resp.Accessed, Ref(db, ref.table), sel), db)
        ELSE IF ~resolved /\ IsStorageIntegrityPhysicalDatabase(db, a)
             THEN physical(recordAccessedDatabase(resp.Accessed, db, a))
        ELSE IF IsStorageIntegrityLogicalDatabase(db, a)
             THEN refuse(recordAccessedLogicalDatabase(resp.Accessed, db, a), db)
        ELSE IF resolved THEN resp
        ELSE physical(UNION {recordAccessedDatabase(resp.Accessed, d, a) :
                                d \in StorageIntegrityPhysicalDatabases(a)} \cup resp.Accessed)

(* The response after the first refused namespace argument, or resp. *)
rejectStorageIntegrityNamespaces(resp, refs, sel, code) ==
    LET bad == {i \in DOMAIN refs : NamespaceVerdict(refs[i], resp, sel, code).Code # resp.Code}
    IN  IF SIActive(sel) /\ bad # {} THEN NamespaceVerdict(FirstOf(refs, bad), resp, sel, code)
        ELSE resp

---------------------------------------------------------------------------
(* System tables.                                                          *)

(* The references to a system table that is not on the allowlist. *)
RefusedSystemRefs(st, sel) ==
    LET refs == CollectObjectRefs(st)
    IN  {i \in DOMAIN refs : IsSystemDatabase(refs[i].db, sel.Dynamic.ctx)
                             /\ ~(refs[i].exact /\ SystemTableAllowed(refs[i].table))}

(* The statement also names a storage-integrity object. *)
NamesSIObject(st, sel) ==
    LET refs == CollectObjectRefs(st)
        a    == sel.Dynamic
    IN  SIActive(sel) /\ \E i \in DOMAIN refs :
          LET r == refs[i]
          IN  /\ ~IsSystemDatabase(r.db, a.ctx)
              /\ \/ IsStorageIntegrityPhysicalDatabase(LogicalOf(r.db, a), a)
                 \/ ~r.exact /\ IsStorageIntegrityLogicalDatabase(LogicalOf(r.db, a), a)
                 \/ IsStorageIntegrity(r.db, r.table, a)

rejectSystemTable(resp, st, sel) ==
    LET r == FirstOf(CollectObjectRefs(st), RefusedSystemRefs(st, sel))
    IN  [Rejected(resp, "UnsupportedStatement", "systemTable") EXCEPT
            !.TableRewrites = EmptyMap, !.DatabaseRewrites = EmptyMap, !.PrivilegesDeltas = <<>>,
            !.Accessed = IF r.table = NoTable THEN @
                         ELSE recordAccessedUnique(@, Ref(SystemDatabase, r.table), sel)]

(* Mutant: no backstop, the preflight's check is thought to be enough. *)
NoBackstop(st, sel) == FALSE

(* The backstop finalize runs on every SI-active Success. *)
RejectSystemTablesOnSuccess(st, sel) == SIActive(sel) /\ RefusedSystemRefs(st, sel) # {}

---------------------------------------------------------------------------
(* PreflightTableReferences.                                               *)

(* Mutant: only the session's database is checked. *)
RefusedContextOnly(dbs, st, sel) ==
    {i \in DOMAIN dbs : i = Len(dbs) /\ ProtectedDatabase(dbs[i], sel.Dynamic)}

(* T3: databases that caller SQL may not name.  An SI physical database is *)
(* left to the SI handlers unless only a string lookup names it.           *)
RefusedDatabases(dbs, st, sel) ==
    {i \in DOMAIN dbs : /\ ProtectedDatabase(dbs[i], sel.Dynamic)
                        /\ \/ ~IsStorageIntegrityPhysicalDatabase(dbs[i], sel.Dynamic)
                           \/ dbs[i] \in BlindDatabases(st)}

(* T6: a lookup is refused except a hasColumnInTable in a SELECT body. *)
RefusedLookup(st) ==
    \E i \in DOMAIN st.lookups : ~(st.lookups[i].hasColumn /\ st.lookups[i].inBody)

(* DESCRIBE, EXISTS and SHOW CREATE of a function call: the function must  *)
(* be allowed, and its arguments name no protected database.               *)
TargetIsFunctionCall(st) ==
    st.kind = "command" /\ st.sub = "object" /\ st.cmd.shape = "call"

ProtectedArguments(st, sel) ==
    {i \in DOMAIN st.cmd.argDatabases : ProtectedDatabase(st.cmd.argDatabases[i], sel.Dynamic)}

PreflightTableReferences(st, text, sel) ==
    LET resp == newWriteResp("UNSPECIFIED")
        answer(r) == Handled([r EXCEPT !.After = Echo(text)])
        refused(code, msg) == answer(Rejected(resp, code, msg))
        dbs == NamedDatabases(st) \o <<sel.Dynamic.ctx>>
        bad == RefusedDatabases(dbs, st, sel)
    IN  IF sel.Mode # "dynamic" THEN NotHandled
        ELSE IF "identParam" \in st.marks
             THEN refused("InvalidRewriteRequest", "identifierParameter")
        ELSE IF UnmodelledCommand(st, sel)
             THEN IF StorageIntegritySurfaceActive(sel.Dynamic) THEN NotHandled
                  ELSE answer([Rejected(resp, "UnsupportedStatement", "notSupported") EXCEPT
                                 !.Accessed = recordAccessed(@, {st.slots[i] : i \in DOMAIN st.slots}, sel)])
        ELSE IF bad # {}
             THEN answer([Rejected(resp, "InvalidRewriteRequest", "protected") EXCEPT
                            !.Accessed = recordAccessedDatabase(@, FirstOf(dbs, bad), sel.Dynamic)])
        ELSE IF RefusedSystemRefs(st, sel) # {} /\ ~NamesSIObject(st, sel)
             THEN answer(rejectSystemTable(resp, st, sel))
        ELSE IF ~SIActive(sel) /\ rejectDisallowedCarriers(st)
             THEN refused("UnsupportedStatement", "carrier")
        ELSE IF RefusedLookup(st) THEN refused("InvalidRewriteRequest", "lookup")
        ELSE IF TargetIsFunctionCall(st) /\ st.cmd.fnClass # "allowed"
             THEN refused("UnsupportedStatement", "carrier")
        ELSE IF TargetIsFunctionCall(st) /\ ProtectedArguments(st, sel) # {}
             THEN answer([Rejected(resp, "InvalidRewriteRequest", "protected") EXCEPT
                            !.Accessed = recordAccessedDatabase(@,
                                FirstOf(st.cmd.argDatabases, ProtectedArguments(st, sel)), sel.Dynamic)])
        ELSE IF ~SIActive(sel) /\ rejectUngovernedReads(st, sel)
             THEN answer(UngovernedResp(resp, st, sel))
        ELSE NotHandled
============================================================================
