--------------------------- MODULE ObjectHandler ---------------------------
(***************************************************************************)
(* DESCRIBE (handlers/describe.go), EXISTS and SHOW CREATE (exists.go),    *)
(* GRANT and REVOKE (grant.go).  What the parser reads is in st.cmd:       *)
(*   object  [verb, objType, shape, db, table, temporary, trailing,        *)
(*            accessEntity, body, fnClass, argDatabases]; shape is "name", *)
(*            "call", "subquery" or "none"                                 *)
(*   grant   [revoke, attach, hasOn, replace, structured, privileges,      *)
(*            principals, db, table, allTables, anyDatabase,               *)
(*            unrepresentable, grantOption]; table is <<"*">> for ON db.*  *)
(***************************************************************************)
EXTENDS DBLevelHandler

(* What an object in an SI physical database is answered; resp otherwise. *)
rejectPhysicalObject(resp, c, sel) ==
    LET a == sel.Dynamic
        isDB == c.objType = "DATABASE"
    IN  IF sel.Mode # "dynamic" THEN resp
        ELSE IF isDB /\ c.table # NoTable /\ IsStorageIntegrityPhysicalDatabase(Head(c.table), a)
             THEN [Rejected(resp, "UnsupportedStatement", "siPhysical") EXCEPT
                     !.Accessed = recordAccessedDatabase(@, Head(c.table), a)]
        ELSE IF ~isDB /\ IsStorageIntegrityPhysicalDatabase(LogicalOf(c.db, a), a)
             THEN [Rejected(resp, "UnsupportedStatement", "siPhysical") EXCEPT
                     !.Accessed = recordAccessed(@, {Ref(c.db, c.table)}, sel)]
        ELSE resp

(* Re-rendering would drop what follows the name, or qualify a temporary   *)
(* table.                                                                  *)
rejectsRerender(c, sel) ==
    c.trailing \/ (c.temporary /\ Resolve(c.db, c.table, sel).Status = "Rewrite")

(* The strict decision of the write handler on the one target, re-rendered. *)
RewriteObject(c, sel, resp) ==
    LET slot == <<Ref(c.db, c.table)>>
        r    == applyStructuredSlots(slot, c.verb, sel, resp)
    IN  IF r.Code # "Success" THEN r
        ELSE IF rejectsRerender(c, sel) THEN Rejected(r, "UnsupportedStatement", "notSupported")
        ELSE [r EXCEPT !.After = Generated(SlotOutput(slot, sel))]

SafeTable(c, a) == a.si.tables[LookupStorageIntegrity(c.db, c.table, a)].safe

SafeOutput(c, a) ==
    {OutRef("surface", Head(SafeTable(c, a)), Tail(SafeTable(c, a)), Ref(c.db, c.table), "caller")}

---------------------------------------------------------------------------
(* DESCRIBE: of an SI table the columns of the safe table, without the row *)
(* id; of an unqualified name the resolved one; else the text as written.  *)

DescribeTable(c, sel) ==
    LET a    == sel.Dynamic
        resp == newWriteResp("describe")
        seen == [resp EXCEPT !.Accessed = recordAccessed(@, {Ref(c.db, c.table)}, sel)]
        si   == sel.Mode = "dynamic" /\ IsStorageIntegrity(c.db, c.table, a)
    IN  IF sel.Mode = "dynamic" /\ LookupStorageIntegrityPhysical(c.db, c.table, a)
        THEN Rejected(seen, "UnsupportedStatement", "siPhysical")
        ELSE IF si /\ ~AuthorizeStorageIntegrityLogical(c.db, a)
             THEN Rejected(seen, "InvalidRewriteRequest", "siUnauthorized")
        ELSE IF si /\ (c.trailing \/ c.temporary)
             THEN Rejected(seen, "UnsupportedStatement", "notSupported")
        ELSE IF si THEN [seen EXCEPT !.After = Generated(SafeOutput(c, a))]
        ELSE IF sel.Mode = "dynamic" /\ c.shape = "name" /\ c.db = "" THEN RewriteObject(c, sel, resp)
        ELSE Forward(seen, IF c.shape = "name" THEN {Ref(c.db, c.table)} ELSE {})

DescribeTarget(c, sel) ==
    LET resp     == newWriteResp("describe")
        physical == rejectPhysicalObject(resp, c, sel)
    IN  IF sel.Mode = "dynamic" /\ c.shape \in {"subquery", "none"}
        THEN Rejected(resp, "UnsupportedStatement",
                      IF SIActive(sel) THEN "siUnmodelled" ELSE "notSupported")
        ELSE IF physical.Code # "Success" THEN physical
        ELSE IF c.objType # "TABLE" THEN Refuse(resp, "UnsupportedStatement")
        ELSE DescribeTable(c, sel)

RewriteDescribe(st, opts) ==
    IF st.kind = "command" /\ st.sub = "object" /\ st.cmd.verb = "describe"
    THEN Handled(DescribeTarget(st.cmd, FindActive(opts)))
    ELSE NotHandled

---------------------------------------------------------------------------
(* EXISTS and SHOW CREATE.  The definition of an SI table is never shown.  *)

(* Mutant: SHOW CREATE and EXISTS are one, and ask for no authorization. *)
ExistsUnchecked(c, sel) ==
    LET seen == [newWriteResp(c.verb) EXCEPT !.Accessed = recordAccessed(@, {Ref(c.db, c.table)}, sel)]
    IN  IF IsStorageIntegrity(c.db, c.table, sel.Dynamic) /\ sel.Mode = "dynamic"
        THEN [seen EXCEPT !.After = Generated(SafeOutput(c, sel.Dynamic))]
        ELSE RewriteObject(c, sel, newWriteResp(c.verb))

ExistsTable(c, sel) ==
    LET a    == sel.Dynamic
        resp == newWriteResp(c.verb)
        seen == [resp EXCEPT !.Accessed = recordAccessed(@, {Ref(c.db, c.table)}, sel)]
        si   == sel.Mode = "dynamic" /\ IsStorageIntegrity(c.db, c.table, a)
    IN  IF sel.Mode = "dynamic" /\ LookupStorageIntegrityPhysical(c.db, c.table, a)
        THEN Rejected(seen, "UnsupportedStatement", "siPhysical")
        ELSE IF si /\ ~AuthorizeStorageIntegrityLogical(c.db, a)
             THEN Rejected(seen, "InvalidRewriteRequest", "siUnauthorized")
        ELSE IF si /\ (c.verb = "show_create" \/ c.trailing \/ c.temporary)
             THEN Rejected(seen, "UnsupportedStatement", "notSupported")
        ELSE IF si
             THEN [seen EXCEPT
                     !.TableRewrites = recordRewrite(@, <<[from |-> qualify(c.db, c.table),
                                                           to |-> SafeTable(c, a)]>>),
                     !.After = Generated(SafeOutput(c, a))]
        ELSE RewriteObject(c, sel, resp)

ExistsTarget(c, sel) ==
    LET resp     == newWriteResp(c.verb)
        physical == rejectPhysicalObject(resp, c, sel)
    IN  IF c.accessEntity \/ (sel.Mode = "dynamic" /\ c.table = NoTable)
        THEN Rejected(resp, "UnsupportedStatement", "notSupported")
        ELSE IF physical.Code # "Success" THEN physical
        ELSE IF c.objType # "TABLE" \/ c.table = NoTable THEN Refuse(resp, "UnsupportedStatement")
        ELSE ExistsTable(c, sel)

RewriteExistsShowCreate(st, opts) ==
    IF st.kind = "command" /\ st.sub = "object" /\ st.cmd.verb \in {"exists", "show_create"}
    THEN Handled(ExistsTarget(st.cmd, FindActive(opts)))
    ELSE NotHandled

---------------------------------------------------------------------------
(* GRANT and REVOKE never reach ClickHouse: the answer is a SELECT of the  *)
(* statement's text, and one privilege delta for each privilege.           *)

scopeDatabase(c) == c.allTables /\ ~c.anyDatabase

(* The storage-integrity refusals; resp when there is none. *)
GrantOnSI(c, sel, resp) ==
    LET a  == sel.Dynamic
        db == IF scopeDatabase(c) THEN LogicalOf(c.db, a) ELSE c.db
        named == [resp EXCEPT !.Accessed = recordAccessed(@, {Ref(c.db, c.table)}, sel)]
    IN  IF ~c.hasOn \/ sel.Mode # "dynamic" THEN resp
        ELSE IF scopeDatabase(c)
             THEN IF IsStorageIntegrityPhysicalDatabase(db, a)
                  THEN [Rejected(resp, "UnsupportedStatement", "siPhysical") EXCEPT
                          !.Accessed = recordAccessedDatabase(@, db, a)]
                  ELSE resp
        ELSE IF c.anyDatabase \/ c.table = NoTable THEN resp
        ELSE IF LookupStorageIntegrityPhysical(c.db, c.table, a)
             THEN Rejected(named, "UnsupportedStatement", "siPhysical")
        ELSE IF IsStorageIntegrity(c.db, c.table, a)
             THEN IF AuthorizeStorageIntegrityLogical(c.db, a)
                  THEN Rejected(named, "UnsupportedStatement", "siWrite")
                  ELSE Rejected(named, "InvalidRewriteRequest", "siUnauthorized")
        ELSE resp

(* ALL and ANY name everybody in REVOKE only; GRANT reads them as names. *)
GranteesRefused(c) == c.revoke /\ \E i \in DOMAIN c.principals : c.principals[i] \in {"ALL", "ANY"}

buildGrantees(c) ==
    [i \in DOMAIN c.principals |->
        IF c.principals[i] = "CURRENT_USER" THEN [name |-> "", current |-> TRUE]
        ELSE [name |-> c.principals[i], current |-> FALSE]]

(* Mutant: the delta names the table without its prefix. *)
UnprefixedDelta(c, privilege, a) ==
    LET logical == LogicalOf(c.db, a)
    IN  [Action |-> IF c.revoke THEN "REVOKE" ELSE "GRANT", OriginalDatabase |-> c.db,
         LogicalDatabase |-> logical, PhysicalDatabase |-> ResolvePhysicalDatabase(logical, a).db,
         GrantOption |-> c.grantOption, Privilege |-> privilege.name, Grantees |-> buildGrantees(c),
         Scope |-> IF scopeDatabase(c) THEN "DATABASE" ELSE "TABLE",
         OriginalTable |-> c.table, PhysicalTable |-> c.table]

PrivilegeDelta(c, privilege, a) ==
    LET logical == LogicalOf(c.db, a)
    IN  [Action |-> IF c.revoke THEN "REVOKE" ELSE "GRANT", OriginalDatabase |-> c.db,
         LogicalDatabase |-> logical, PhysicalDatabase |-> ResolvePhysicalDatabase(logical, a).db,
         GrantOption |-> c.grantOption, Privilege |-> privilege.name, Grantees |-> buildGrantees(c),
         Scope |-> IF scopeDatabase(c) THEN "DATABASE" ELSE "TABLE",
         OriginalTable |-> IF scopeDatabase(c) THEN NoTable ELSE c.table,
         PhysicalTable |-> IF scopeDatabase(c) THEN NoTable
                           ELSE BuildDynamicTablePrefix(logical, a) \o c.table]

(* One delta per privilege, in order, up to a privilege with columns: that *)
(* refusal keeps the deltas before it.  The database is resolved at the    *)
(* first privilege without columns.                                        *)
GrantDeltas(c, a, resp) ==
    LET columns == {i \in DOMAIN c.privileges : c.privileges[i].columns}
        made    == IF columns = {} THEN Len(c.privileges) ELSE Min(columns) - 1
        r == [resp EXCEPT !.PrivilegesDeltas = [i \in 1..made |-> PrivilegeDelta(c, c.privileges[i], a)]]
    IN  IF made > 0 /\ ~ResolvePhysicalDatabase(LogicalOf(c.db, a), a).ok
        THEN Refuse(resp, "InvalidRewriteRequest")
        ELSE IF columns # {} THEN Refuse(r, "UnsupportedStatement")
        ELSE MarkerSelect(r)

GrantStatement(c, dyn, resp) ==
    IF \/ c.attach \/ ~c.hasOn \/ c.replace \/ ~c.structured \/ ~dyn.found
       \/ \E i \in DOMAIN c.privileges : c.privileges[i].name = "CURRENT GRANTS"
       \/ GranteesRefused(c)
    THEN Refuse(resp, "UnsupportedStatement")
    ELSE IF c.principals = <<>> THEN Refuse(resp, "InvalidRewriteRequest")
    ELSE IF c.unrepresentable \/ c.anyDatabase THEN Refuse(resp, "UnsupportedStatement")
    ELSE GrantDeltas(c, dyn.args, resp)

GrantTarget(c, opts) ==
    LET resp == newWriteResp(IF c.revoke THEN "revoke" ELSE "grant")
        si   == GrantOnSI(c, FindActive(opts), resp)
    IN  IF si.Code # "Success" THEN si ELSE GrantStatement(c, FindDynamicArgs(opts), resp)

RewriteGrant(st, opts) ==
    IF st.kind = "command" /\ st.sub = "grant" THEN Handled(GrantTarget(st.cmd, opts)) ELSE NotHandled
============================================================================
