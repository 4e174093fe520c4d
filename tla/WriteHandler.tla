---------------------------- MODULE WriteHandler ----------------------------
(***************************************************************************)
(* The write pipeline (internal/handlers/writes.go): the storage-integrity *)
(* preflight of every write, then one dispatcher per node kind.  A write   *)
(* target is decided strictly: the first slot that does not resolve to a   *)
(* local table ends the statement.                                         *)
(***************************************************************************)
EXTENDS SelectHandler

(* Mutant: any DROP TABLE, not only a plain one. *)
AnyDropAllowed(st, sel) == st.kind = "drop_table" /\ StorageIntegrityDropContract(sel)

(* Contract V2 admits SI targets of a plain DROP TABLE. *)
storageIntegrityDropAllowed(st, sel) ==
    st.kind = "drop_table" /\ StorageIntegrityDropContract(sel) /\ "plainDrop" \in st.marks

---------------------------------------------------------------------------
(* preflightStorageIntegrityWrite.                                         *)

(* The verdict on one target: the response that refuses it, or resp. *)
inspectTarget(tt, resp, sel, allowLogicalTarget) ==
    LET a == sel.Dynamic
        refuse(code, msg) == [Rejected(resp, code, msg) EXCEPT !.Accessed = recordAccessed(@, {tt}, sel)]
    IN  IF tt.table = NoTable
        THEN IF IsStorageIntegrityPhysicalDatabase(tt.db, a)
             THEN [Rejected(resp, "UnsupportedStatement", "siPhysical") EXCEPT
                     !.Accessed = recordAccessedDatabase(@, tt.db, a)]
             ELSE resp
        ELSE IF LookupStorageIntegrityPhysical(tt.db, tt.table, a)
             THEN refuse("UnsupportedStatement", "siPhysical")
        ELSE IF IsStorageIntegrity(tt.db, tt.table, a) /\ ~AuthorizeStorageIntegrityLogical(tt.db, a)
             THEN refuse("InvalidRewriteRequest", "siUnauthorized")
        ELSE IF IsStorageIntegrity(tt.db, tt.table, a) /\ ~allowLogicalTarget
             THEN refuse("UnsupportedStatement", "siWrite")
        ELSE resp

FirstRefusal(targets, resp, sel, allow) ==
    LET bad == {i \in DOMAIN targets : inspectTarget(targets[i], resp, sel, allow).Code # "Success"}
    IN  IF bad = {} THEN resp ELSE inspectTarget(FirstOf(targets, bad), resp, sel, allow)

(* The reads of UPDATE, DELETE and ALTER ... UPDATE expressions; their     *)
(* namespace arguments are in ns, and come after the tables.               *)
MutationReads(st) ==
    IF st.kind \in {"update", "delete"} \/ st.sub = "alterUpdate" THEN st.exprReads ELSE <<>>

InTableRefs(st) ==
    LET operands == Kept(st.reads, st.inOps)
    IN  [i \in DOMAIN operands |->
            [src |-> "in_table", db |-> operands[i].db, table |-> operands[i].table,
             resolved |-> operands[i].db # "", current |-> operands[i].db = ""]]

(* Success when nothing is refused. *)
preflightStorageIntegrityWrite(st, sel, siDrop) ==
    LET resp    == newWriteResp("UNSPECIFIED")
        targets == FirstRefusal(AllWriteTargets(st), resp, sel, st.kind = "insert" \/ siDrop)
        reads   == FirstRefusal(MutationReads(st), resp, sel, FALSE)
        ns      == rejectStorageIntegrityNamespaces(resp, st.ns \o InTableRefs(st), sel,
                                                    "UnsupportedStatement")
    IN  IF sel.Mode # "dynamic" \/ IsReadRoot(st) THEN resp
        ELSE IF targets.Code # "Success" THEN targets
        ELSE IF SIActive(sel) /\ "mutationUnproven" \in st.marks
             THEN Rejected(resp, "UnsupportedStatement", "notSupported")
        ELSE IF SIActive(sel) /\ reads.Code # "Success" THEN reads
        ELSE IF ns.Code # "Success" THEN ns
        ELSE IF SIActive(sel) /\ rejectDisallowedCarriers(st)
             THEN Rejected(resp, "UnsupportedStatement", "carrier")
        ELSE IF SIActive(sel) /\ rejectUngovernedReads(st, sel) THEN UngovernedResp(resp, st, sel)
        ELSE resp

---------------------------------------------------------------------------
(* Slots.                                                                  *)

(* An SI table that a slot of this kind may not address. *)
SlotRefusedBySI(tt, kind, sel) ==
    /\ sel.Mode = "dynamic" /\ kind # "insert"
    /\ ~(kind = "drop_table" /\ StorageIntegrityDropContract(sel))
    /\ IsStorageIntegrity(tt.db, tt.table, sel.Dynamic)

SlotRejects(tt, kind, sel) ==
    SlotRefusedBySI(tt, kind, sel) \/ Resolve(tt.db, tt.table, sel).Status \in {"Remote", "Invalid"}

decideWriteTarget(tt, kind, sel, resp) ==
    IF SlotRefusedBySI(tt, kind, sel) THEN Rejected(resp, "UnsupportedStatement", "siWrite")
    ELSE IF Resolve(tt.db, tt.table, sel).Status = "Remote"
         THEN Rejected(resp, "UnsupportedStatement", "remoteTarget")
    ELSE Rejected(resp, "InvalidRewriteRequest", Resolve(tt.db, tt.table, sel).RejectReason)

(* Each target up to and including the first rejected one is recorded as   *)
(* accessed; the rewrites of those before it are recorded.                 *)
applyStructuredSlots(slots, kind, sel, resp) ==
    LET bad  == {i \in DOMAIN slots : SlotRejects(slots[i], kind, sel)}
        last == IF bad = {} THEN Len(slots) ELSE Min(bad)
        kept == IF bad = {} THEN last ELSE last - 1
        mv(i) == LET o == Resolve(slots[i].db, slots[i].table, sel)
                     from == qualify(slots[i].db, slots[i].table)
                 IN  [from |-> from,
                      to |-> IF o.Status = "Rewrite" THEN qualify(o.PhysicalDB, o.NewTable) ELSE from]
        r    == [resp EXCEPT
                   !.Accessed = recordAccessed(@, {slots[i] : i \in 1..last}, sel),
                   !.TableRewrites = recordRewrite(@, [i \in 1..kept |-> mv(i)])]
    IN  IF bad = {} THEN r ELSE decideWriteTarget(slots[last], kind, sel, r)

(* The slots' names in the generated statement. *)
SlotOutput(slots, sel) ==
    {LET o == Resolve(slots[i].db, slots[i].table, sel)
     IN  IF o.Status = "Rewrite"
         THEN OutRef("table", o.PhysicalDB, o.NewTable, slots[i], "caller")
         ELSE OutRef("table", slots[i].db, slots[i].table, slots[i], "caller") :
       i \in DOMAIN slots}

finishStructured(st, sel, resp) ==
    LET r == applyStructuredSlots(st.slots, st.kind, sel, resp)
    IN  IF r.Code # "Success" THEN r
        ELSE [r EXCEPT !.After = Generated(SlotOutput(st.slots, sel))]

---------------------------------------------------------------------------
(* Embedded bodies.                                                        *)

(* Mutant: the body's tables are not reported. *)
MergeRewritesOnly(dst, body) ==
    [dst EXCEPT
       !.TableRewrites = [k \in DOMAIN @ \cup DOMAIN body.TableRewrites |->
                            IF k \in DOMAIN body.TableRewrites THEN body.TableRewrites[k] ELSE @[k]],
       !.FailedCTE = @ \cup body.FailedCTE]

mergeViewBody(dst, body) ==
    [dst EXCEPT
       !.TableRewrites = [k \in DOMAIN @ \cup DOMAIN body.TableRewrites |->
                            IF k \in DOMAIN body.TableRewrites THEN body.TableRewrites[k] ELSE @[k]],
       !.Accessed = @ \cup body.Accessed,
       !.FailedCTE = @ \cup body.FailedCTE]

(* The body reads an authorized logical SI table. *)
BodyReadsSI(body, sel) ==
    sel.Mode = "dynamic" /\ \E e \in body.Accessed :
        /\ IsStorageIntegrity(e.OriginalDatabase, e.OriginalTable, sel.Dynamic)
        /\ AuthorizeStorageIntegrityLogical(e.OriginalDatabase, sel.Dynamic)

insertTargetIsStorageIntegrity(st, sel) ==
    sel.Mode = "dynamic" /\ \E i \in DOMAIN st.slots :
        IsStorageIntegrity(st.slots[i].db, st.slots[i].table, sel.Dynamic)

(* The slots, then the body (the answer of the SELECT pipeline to it);     *)
(* refuseSIReads ahead of the body's own code, which a view keeps and an   *)
(* INSERT or CREATE TABLE turns into UnsupportedStatement.                 *)
embedBody(st, body, sel, slots, merged, refuseSIReads) ==
    LET code == IF st.kind = "create_view" THEN body.Code ELSE "UnsupportedStatement"
    IN  IF slots.Code # "Success" THEN slots
        ELSE IF ~HasBody(st) THEN [slots EXCEPT !.After = Generated(SlotOutput(st.slots, sel))]
        ELSE IF refuseSIReads /\ BodyReadsSI(body, sel)
             THEN Rejected(merged, "UnsupportedStatement", "siWrite")
        ELSE IF body.Code # "Success"
             THEN clearOnUnresolved(Rejected(merged, code, body.Message))
        ELSE [merged EXCEPT !.After = Generated(SlotOutput(st.slots, sel) \cup body.After.out)]

rewriteEmbeddedBody(st, body, sel, slots, refuseSIReads) ==
    embedBody(st, body, sel, slots, mergeViewBody(slots, body), refuseSIReads)

---------------------------------------------------------------------------
(* Dispatchers.                                                            *)

NotSupported(stmt, text) ==
    [Rejected(newWriteResp(stmt), "UnsupportedStatement", "notSupported") EXCEPT !.After = Echo(text)]

Bare(stmt) == Rejected(newWriteResp(stmt), "UnsupportedStatement", "bareReject")

dispatchCreateTable(st, text, sel, body) ==
    IF {"asFunction", "dictionary"} \cap st.marks # {} THEN Bare("create_table")
    ELSE IF sel.Mode = "dynamic" /\ "innerStorage" \in st.marks THEN NotSupported("create_table", text)
    ELSE rewriteEmbeddedBody(st, body, sel,
             applyStructuredSlots(st.slots, st.kind, sel, newWriteResp("create_table")), FALSE)

dispatchDropLike(st, sel, siDrop) ==
    IF st.kind = "truncate" /\ "notTable" \in st.marks THEN Bare(st.kind)
    ELSE IF Multi(st) /\ ~siDrop THEN Bare(st.kind)
    ELSE finishStructured(st, sel, newWriteResp(st.kind))

dispatchAlter(st, sel) ==
    IF "crossTable" \in st.marks THEN Bare("alter_table")
    ELSE finishStructured(st, sel, newWriteResp("alter_table"))

dispatchView(st, text, sel, body) ==
    IF sel.Mode = "dynamic" /\ {"refresh", "innerStorage"} \cap st.marks # {}
    THEN NotSupported("create_view", text)
    ELSE rewriteEmbeddedBody(st, body, sel,
             applyStructuredSlots(st.slots, st.kind, sel, newWriteResp("create_view")), TRUE)

(* A missing target (no slot) is refused, though no parsed INSERT lacks one. *)
dispatchInsert(st, text, sel, body) ==
    IF sel.Mode = "dynamic" /\ "infile" \in st.marks THEN NotSupported("insert", text)
    ELSE IF "asFunction" \in st.marks \/ st.slots = <<>> THEN Bare("insert")
    ELSE rewriteEmbeddedBody(st, body, sel,
             applyStructuredSlots(st.slots, st.kind, sel, newWriteResp("insert")),
             insertTargetIsStorageIntegrity(st, sel))

(* RENAME, EXCHANGE and ALTER ... UPDATE: the same strict decision, spliced *)
(* back into the text; a command with no target found is refused.          *)
dispatchRawTables(st, text, sel) ==
    LET stmt == IF st.sub = "alterUpdate" THEN "alter_table" ELSE "rename_table"
    IN  IF st.slots = <<>> THEN NotSupported(stmt, text)
        ELSE finishStructured(st, sel, newWriteResp(stmt))

dispatchCommand(st, text, sel) ==
    CASE st.sub \in {"rename", "exchange", "alterUpdate"} -> Handled(dispatchRawTables(st, text, sel))
      [] st.sub = "bareReject" ->
            Handled([Rejected(newWriteResp("UNSPECIFIED"), "UnsupportedStatement",
                              IF SIActive(sel) THEN "siUnmodelled" ELSE "notSupported") EXCEPT
                       !.Accessed = recordAccessed(@, {st.slots[i] : i \in DOMAIN st.slots}, sel)])
      [] OTHER -> NotHandled

(* Raw DDL: live and window views and ALTER DATABASE are refused, access   *)
(* entities are left to the pipeline's tail.                               *)
dispatchRawReject(st) ==
    IF "rawReject" \in st.marks THEN Handled(Bare("UNSPECIFIED")) ELSE NotHandled

(* si is the answer of the SI preflight, body that of the SELECT pipeline  *)
(* to an embedded body.                                                    *)
DispatchWrite(st, text, sel, siDrop, si, body) ==
    IF si.Code # "Success" THEN Handled(si)
    ELSE CASE st.kind = "create_table" -> Handled(dispatchCreateTable(st, text, sel, body))
           [] st.kind \in {"drop_table", "drop_view", "truncate"} ->
                 Handled(dispatchDropLike(st, sel, siDrop))
           [] st.kind = "alter_table" -> Handled(dispatchAlter(st, sel))
           [] st.kind \in {"update", "delete"} ->
                 Handled(finishStructured(st, sel, newWriteResp(st.kind)))
           [] st.kind = "create_view" -> Handled(dispatchView(st, text, sel, body))
           [] st.kind = "insert" -> Handled(dispatchInsert(st, text, sel, body))
           [] st.kind = "command" -> dispatchCommand(st, text, sel)
           [] st.kind = "raw" -> dispatchRawReject(st)
           [] st.kind = "copy" -> Handled(Bare("UNSPECIFIED"))
           [] OTHER -> NotHandled

WriteUnder(st, text, opts, sel, siDrop) ==
    DispatchWrite(st, text, sel, siDrop, preflightStorageIntegrityWrite(st, sel, siDrop),
                  rewriteSelectCore(st, opts))

RewriteWrite(st, text, opts) ==
    WriteUnder(st, text, opts, FindActive(opts), storageIntegrityDropAllowed(st, FindActive(opts)))
=============================================================================
