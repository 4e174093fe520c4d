--------------------------- MODULE SelectHandler ---------------------------
(***************************************************************************)
(* The SELECT pipeline (internal/handlers/select.go, storage_integrity.go, *)
(* lookups.go), run on a top-level SELECT and on the body of an INSERT ... *)
(* SELECT, a CREATE TABLE ... AS SELECT and a view.                        *)
(*                                                                         *)
(* At most one common table expression is injected per request; its body's *)
(* names are the option's, not the caller's.                               *)
(***************************************************************************)
EXTENDS Preflight

SelectResponse == [newWriteResp("select") EXCEPT !.After = NoText]

CTEOptions(opts) == {opts[i].cte : i \in {j \in DOMAIN opts : opts[j].op = "CommonTableExprRewrite"}}

(* An alias is injected only when its body parses and a bare name of the   *)
(* statement refers to it.                                                 *)
InjectedCTE(cte, st) ==
    cte.parses /\ \E i \in DOMAIN st.reads : st.reads[i] = Ref("", <<cte.alias>>)

(* The tables of the statement after injection, each with its author: the  *)
(* alias is no table any more, the body's tables are.                      *)
SelectTables(st, opts) ==
    LET by(s, who) == [i \in DOMAIN s |-> [db |-> s[i].db, table |-> s[i].table, by |-> who]]
        injected == {c \in CTEOptions(opts) : InjectedCTE(c, st)}
        c == CHOOSE x \in injected : TRUE
    IN  IF injected = {} THEN by(st.reads, "caller")
        ELSE by(c.reads, "option")
             \o by(Kept(st.reads, {i \in DOMAIN st.reads : st.reads[i] # Ref("", <<c.alias>>)}), "caller")

FailedCteAliases(opts) == {c.alias : c \in {x \in CTEOptions(opts) : ~x.parses}}

(* A read of an SI table is refused by name, or for want of authority. *)
RefusedSIRead(t, sel) ==
    \/ LookupStorageIntegrityPhysical(t.db, t.table, sel.Dynamic)
    \/ /\ IsStorageIntegrity(t.db, t.table, sel.Dynamic)
       /\ ~AuthorizeStorageIntegrityLogical(t.db, sel.Dynamic)

---------------------------------------------------------------------------
(* String lookups: hasColumnInTable of a literal, plain, ordinary name.    *)

decideStringLookup(call, sel) ==
    /\ call.literal
    /\ call.db # "" /\ Len(call.table) = 1
    /\ ~IsStorageIntegrity(call.db, call.table, sel.Dynamic)
    /\ Resolve(call.db, call.table, sel).Status = "Rewrite"

BodyLookups(st) == Kept(st.lookups, {i \in DOMAIN st.lookups : st.lookups[i].hasColumn})

---------------------------------------------------------------------------
(* The decision on one table.                                              *)

(* The derived read: the safe table, and the unsafe one in UNSAFE_LATEST.  *)
storageIntegritySurface(t, sel) ==
    LET a   == sel.Dynamic
        tbl == a.si.tables[LookupStorageIntegrity(t.db, t.table, a)]
        physical == IF a.si.read_mode = "UNSAFE_LATEST" THEN {tbl.safe, tbl.unsafe} ELSE {tbl.safe}
    IN  {OutRef("surface", Head(q), Tail(q), Ref(t.db, t.table), t.by) : q \in physical}

decideTable(t, sel) ==
    LET o == Resolve(t.db, t.table, sel)
        from == Ref(t.db, t.table)
    IN  IF sel.Mode = "dynamic" /\ IsStorageIntegrity(t.db, t.table, sel.Dynamic)
        THEN storageIntegritySurface(t, sel)
        ELSE CASE o.Status = "Rewrite" -> {OutRef("table", o.PhysicalDB, o.NewTable, from, t.by)}
               [] o.Status = "Remote"  -> {OutRef("remote", o.PhysicalDB, o.NewTable, from, t.by)}
               [] OTHER                -> {OutRef("table", t.db, t.table, from, t.by)}

(* What table_rewrites says of one table. *)
TableMove(t, sel) ==
    LET o == Resolve(t.db, t.table, sel)
        from == qualify(t.db, t.table)
    IN  [from |-> from,
         to   |-> IF sel.Mode = "dynamic" /\ IsStorageIntegrity(t.db, t.table, sel.Dynamic)
                  THEN sel.Dynamic.si.tables[LookupStorageIntegrity(t.db, t.table, sel.Dynamic)].safe
                  ELSE IF o.Status \in {"Rewrite", "Remote"} THEN qualify(o.PhysicalDB, o.NewTable)
                  ELSE from]

TableMoves(ts, sel) == [i \in DOMAIN ts |-> TableMove(ts[i], sel)]

(* An unqualified name the session's logical database does not resolve:    *)
(* ClickHouse would read it in the physical session database.              *)
UnresolvedUnqualified(t, sel) ==
    /\ sel.Mode = "dynamic" /\ t.db = ""
    /\ ~IsStorageIntegrity(t.db, t.table, sel.Dynamic)
    /\ Resolve(t.db, t.table, sel).Status = "Invalid"

---------------------------------------------------------------------------
(* The verdicts in order, on the tables ts and a response that reports     *)
(* them; a refusal for an unresolved name carries the map built so far.    *)
SelectVerdict(st, sel, ts, resp0) ==
    LET dyn   == sel.Mode = "dynamic"
        ns    == rejectStorageIntegrityNamespaces(resp0, st.ns, sel, "RewriteError")
        badSI == {i \in DOMAIN ts : dyn /\ RefusedSIRead(ts[i], sel)}
        calls == BodyLookups(st)
        looked == IF dyn THEN ArgumentRefs(calls) ELSE <<>>
        (* the lookups' entries first, then the tables' *)
        final == [resp0 EXCEPT
                    !.TableRewrites = recordRewrite(@, TableMoves(looked \o ts, sel)),
                    !.Accessed = recordAccessed(@, {looked[i] : i \in DOMAIN looked}, sel)]
    IN  IF dyn /\ ns.Code # "Success" THEN ns
        ELSE IF SIActive(sel) /\ rejectDisallowedCarriers(st)
             THEN Rejected(resp0, "UnsupportedStatement", "carrier")
        ELSE IF SIActive(sel) /\ rejectUngovernedReads(st, sel) THEN UngovernedResp(resp0, st, sel)
        ELSE IF badSI # {}
             THEN LET t == FirstOf(ts, badSI)
                  IN  IF LookupStorageIntegrityPhysical(t.db, t.table, sel.Dynamic)
                      THEN Rejected(resp0, "RewriteError", "siPhysical")
                      ELSE Rejected(resp0, "InvalidRewriteRequest", "siUnauthorized")
        ELSE IF dyn /\ touchesStorageIntegrity(resp0.Accessed)
                /\ {"modifier", "reservedCol"} \cap st.marks # {}
             THEN Rejected(resp0, "RewriteError", "siModifier")
        ELSE IF dyn /\ \E i \in DOMAIN calls : ~decideStringLookup(calls[i], sel)
             THEN Rejected(resp0, "InvalidRewriteRequest", "lookup")
        ELSE IF \E i \in DOMAIN ts : UnresolvedUnqualified(ts[i], sel)
             THEN Rejected(final, "InvalidRewriteRequest", "unresolvedUnqualified")
        ELSE [final EXCEPT !.After =
                Generated(UNION {decideTable(t, sel) : t \in {ts[i] : i \in DOMAIN ts} \cup
                                   {[db |-> looked[i].db, table |-> looked[i].table, by |-> "caller"] :
                                      i \in DOMAIN looked}})]

SelectOnTables(st, opts, sel, ts) ==
    SelectVerdict(st, sel, ts,
        [SelectResponse EXCEPT
           !.FailedCTE = FailedCteAliases(opts),
           !.Accessed  = recordAccessed(@, {Ref(ts[i].db, ts[i].table) : i \in DOMAIN ts}, sel)])

rewriteSelectCore(st, opts) ==
    SelectOnTables(st, opts, FindActive(opts), SelectTables(st, opts))

RewriteSelect(st, opts) == clearOnUnresolved(rewriteSelectCore(st, opts))
============================================================================
