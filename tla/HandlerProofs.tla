---------------------------- MODULE HandlerProofs ----------------------------
(***************************************************************************)
(* Name-level facts behind tenant isolation; then what every handler       *)
(* answers, whatever the statement and the options: a whole response with  *)
(* a known code, and on a refusal no SQL of its own, only the text it was  *)
(* given or none; and last what it means that the preflight lets a         *)
(* statement through and that a handler answers Success.                   *)
(***************************************************************************)
EXTENDS ObjectHandler, SequenceTheorems, FiniteSetTheorems, TLAPS

---------------------------------------------------------------------------
(* Names.                                                                  *)

(* What ApplyDynamic resolves is never the name of a protected database:   *)
(* neither written by the caller nor meant by the session (resolve.go      *)
(* 549-581).                                                               *)
THEOREM ProtectedNeverResolves ==
    ASSUME NEW db, NEW table, NEW a,
           ApplyDynamic(db, table, a).Status \in {"Rewrite", "Remote"}
    PROVE  ~ProtectedDatabase(LogicalOf(db, a), a)
  BY DEF ApplyDynamic, Invalid, Outcome

(* A name that resolves into a protected physical database belongs to a    *)
(* logical database mapped for the account, lands in the database the map  *)
(* gives it, and carries that logical database's prefix.                   *)
THEOREM ResolvesIntoOwnPrefix ==
    ASSUME NEW db, NEW table, NEW a, table # NoTable,
           ApplyDynamic(db, table, a).Status \in {"Rewrite", "Remote"},
           ProtectedDatabase(ApplyDynamic(db, table, a).PhysicalDB, a)
    PROVE  LET logical == LogicalOf(db, a)
           IN  /\ logical \in DOMAIN a.database_map
               /\ ApplyDynamic(db, table, a).PhysicalDB = a.database_map[logical]
               /\ ApplyDynamic(db, table, a).NewTable = (<<logical>> \o a.extra) \o table
<1> DEFINE logical == LogicalOf(db, a)
           physical == ResolvePhysicalDatabase(logical, a)
<1>1. ApplyDynamic(db, table, a).PhysicalDB = physical.db /\ physical.ok
  BY DEF ApplyDynamic, Invalid, Outcome
<1>2. ApplyDynamic(db, table, a).NewTable = (<<logical>> \o a.extra) \o table
  BY DEF ApplyDynamic, Invalid, Outcome, buildDynamicTableName, BuildDynamicTablePrefix
<1>3. ~ProtectedDatabase(logical, a)
  BY ProtectedNeverResolves
<1>4. logical \in DOMAIN a.database_map /\ physical.db = a.database_map[logical]
  BY <1>1, <1>3 DEF ResolvePhysicalDatabase
<1> QED BY <1>1, <1>2, <1>4

---------------------------------------------------------------------------
(* The last of the options. *)

(* Numbers have a least element: the initial segments below one of them    *)
(* are finite sets, and strict inclusion of those is well founded.         *)
LEMMA Least ==
    ASSUME NEW T, T \subseteq Nat, T # {}
    PROVE  \E m \in T : \A n \in T : m <= n
<1>1. PICK b \in T : TRUE
  OBVIOUS
<1> DEFINE S == 0..b
           C == {0..k : k \in {j \in T : j <= b}}
<1>2. b \in Nat /\ IsFiniteSet(S)
  BY <1>1, FS_Interval
<1>3. C \subseteq SUBSET S /\ C # {}
  BY <1>1, <1>2
<1>4. IsWellFoundedOn(StrictSubsetOrdering(S), SUBSET S)
  <2>1. IsWellFoundedOn(StrictSubsetOrdering(S), FiniteSubsetsOf(S))
    BY FS_StrictSubsetOrderingWellFounded
  <2>2. FiniteSubsetsOf(S) = SUBSET S
    BY <1>2, FS_Subset DEF FiniteSubsetsOf
  <2> QED BY <2>1, <2>2
<1> HIDE DEF S, C
<1>5. PICK x \in C : \A y \in C : ~(<<y, x>> \in StrictSubsetOrdering(S))
  BY <1>3, <1>4, WFMin
<1> USE DEF S, C
<1>6. PICK m \in T : m <= b /\ x = 0..m
  BY <1>5
<1>7. ASSUME NEW n \in T PROVE m <= n
  <2> SUFFICES ASSUME n < m PROVE FALSE
    BY <1>6
  <2>1. 0..n \in C
    BY <1>2, <1>6
  <2>2. <<0..n, x>> \in StrictSubsetOrdering(S)
    <3>1. 0..n \subseteq x /\ 0..n # x
      <4>1. m \in x /\ m \notin 0..n
        BY <1>6
      <4> QED BY <4>1, <1>6
    <3>2. 0..n \in SUBSET S /\ x \in SUBSET S
      BY <1>3, <2>1, <1>5
    <3> QED BY <3>1, <3>2 DEF StrictSubsetOrdering
  <2> QED BY <2>1, <2>2, <1>5
<1> QED BY <1>7

(* The minimum of a non-empty set of natural numbers is its first.         *)
LEMMA MinIsFirst ==
    ASSUME NEW T, T \subseteq Nat, T # {}
    PROVE  Min(T) \in T /\ \A y \in T : Min(T) <= y
  BY Least DEF Min

LEMMA MaxIsLast ==
    ASSUME NEW n \in Nat, NEW T, T \subseteq 1..n, T # {}
    PROVE  Max(T) \in T /\ \A y \in T : Max(T) >= y
<1> DEFINE B == {n - t : t \in T}
<1>1. B \subseteq Nat /\ B # {}
  <2>1. ASSUME NEW t \in T PROVE n - t \in Nat
    OBVIOUS
  <2>2. PICK t \in T : TRUE
    OBVIOUS
  <2>3. n - t \in B
    OBVIOUS
  <2> QED BY <2>1, <2>3
<1>2. PICK m \in B : \A k \in B : m <= k
  BY <1>1, Least
<1>3. PICK x \in T : m = n - x
  BY <1>2
<1>4. ASSUME NEW y \in T PROVE x >= y
  <2>1. n - y \in B /\ n - x <= n - y
    BY <1>2, <1>3
  <2> QED BY <2>1
<1> QED BY <1>3, <1>4 DEF Max

(* The dynamic arguments in force are those the database-level handlers    *)
(* find (FindActive and FindDynamicArgs, resolve.go 114-131).              *)
LEMMA ActiveIsFound ==
    ASSUME NEW opts, WellFormedOptions(opts), FindActive(opts).Mode = "dynamic"
    PROVE  FindDynamicArgs(opts).found /\ FindDynamicArgs(opts).args = FindActive(opts).Dynamic
<1> DEFINE live == {i \in DOMAIN opts : /\ opts[i].op = "TableNameRewrite"
                                        /\ opts[i].hasStatic \/ opts[i].hasDynamic}
           args == {i \in DOMAIN opts : opts[i].op = "TableNameRewrite" /\ opts[i].hasDynamic}
           last == Max(live)
<1>1. Len(opts) \in Nat /\ live \subseteq 1..Len(opts) /\ args \subseteq live
  BY DEF WellFormedOptions
<1>2. live # {}
  BY DEF FindActive, Selection
<1>3. last \in live /\ \A y \in live : last >= y
  BY <1>1, <1>2, MaxIsLast
<1>4. ~opts[last].hasStatic /\ FindActive(opts).Dynamic = opts[last].dynamic
  BY <1>2 DEF FindActive, Selection
<1>5. last \in args
  BY <1>3, <1>4
<1>6. Max(args) \in args /\ \A y \in args : Max(args) >= y
  BY <1>1, <1>5, MaxIsLast
<1>7. Max(args) = last
  <2>1. Max(args) \in live /\ Max(args) \in 1..Len(opts) /\ last \in 1..Len(opts)
    BY <1>1, <1>3, <1>6
  <2>2. Max(args) >= last
    BY <1>5, <1>6
  <2>3. last >= Max(args)
    BY <1>3, <2>1
  <2> HIDE DEF live, args, last
  <2> QED BY <2>1, <2>2, <2>3, <1>1
<1> QED BY <1>4, <1>5, <1>7 DEF FindDynamicArgs

(* What is found are arguments of some option. *)
LEMMA FoundIsGiven ==
    ASSUME NEW opts, WellFormedOptions(opts), FindDynamicArgs(opts).found
    PROVE  WellFormedArguments(FindDynamicArgs(opts).args)
<1> DEFINE args == {i \in DOMAIN opts : opts[i].op = "TableNameRewrite" /\ opts[i].hasDynamic}
<1>1. Len(opts) \in Nat /\ args \subseteq 1..Len(opts) /\ args # {}
  BY DEF WellFormedOptions, FindDynamicArgs
<1>2. Max(args) \in args
  BY <1>1, MaxIsLast
<1> QED BY <1>1, <1>2 DEF WellFormedOptions, FindDynamicArgs

(* A qualified pair is its first half before the rest. *)
LEMMA PairRejoins ==
    ASSUME NEW X, NEW s \in Seq(X), Len(s) = 2
    PROVE  Head(s) = s[1] /\ <<Head(s)>> \o Tail(s) = s
<1>1. Head(s) = s[1] /\ Head(s) \in X
  OBVIOUS
<1>2. Tail(s) \in Seq(X) /\ Len(Tail(s)) = 1 /\ Tail(s)[1] = s[2]
  OBVIOUS
<1> DEFINE h == Head(s)
           t == Tail(s)
<1>3. <<h>> \in Seq(X) /\ Len(<<h>>) = 1 /\ <<h>>[1] = h
  BY <1>1
<1> HIDE DEF h, t
<1>4. <<h>> \o t \in Seq(X) /\ Len(<<h>> \o t) = 2
  BY <1>2, <1>3 DEF t
<1>5. (<<h>> \o t)[1] = h /\ (<<h>> \o t)[2] = t[1]
  BY <1>2, <1>3 DEF t
<1>6. \A i \in 1..2 : (<<h>> \o t)[i] = s[i]
  BY <1>1, <1>2, <1>5 DEF h, t
<1>7. <<h>> \o t = s
  BY <1>4, <1>6, SeqEqual
<1> QED BY <1>1, <1>7 DEF h, t

---------------------------------------------------------------------------
(* Handlers.                                                               *)

Fields == {"Code", "Message", "StatementType", "After", "TableRewrites",
           "DatabaseRewrites", "PrivilegesDeltas", "Accessed", "FailedCTE", "ec", "siv"}

(* A response still without SQL, databases and privilege deltas. *)
Blank(r) ==
    /\ DOMAIN r = Fields /\ r.Code \in Codes /\ r.After = NoText
    /\ r.DatabaseRewrites = EmptyMap /\ r.PrivilegesDeltas = <<>>

(* What a handler may answer on the text t. *)
Answers(r, t) ==
    /\ DOMAIN r = Fields /\ r.Code \in Codes
    /\ r.Code # "Success" => r.After \in {NoText, Echo(t)}

(* What a handler other than that of GRANT may answer. *)
PlainAnswer(r, t) ==
    /\ Answers(r, t) /\ r.PrivilegesDeltas = <<>>
    /\ r.Code # "Success" => r.DatabaseRewrites = EmptyMap

LEMMA BlankAnswers == ASSUME NEW r, NEW t, Blank(r) PROVE PlainAnswer(r, t)
  BY DEF Blank, PlainAnswer, Answers

LEMMA EmptyShape ==
    ASSUME NEW t
    PROVE  DOMAIN EmptyResponse(t) = Fields /\ EmptyResponse(t).Code = "Success"
           /\ EmptyResponse(t).After = t
           /\ EmptyResponse(t).DatabaseRewrites = EmptyMap /\ EmptyResponse(t).PrivilegesDeltas = <<>>
  BY DEF EmptyResponse, Fields

LEMMA NewRespBlank == ASSUME NEW stmt PROVE Blank(newWriteResp(stmt)) /\ newWriteResp(stmt).Code = "Success"
  BY EmptyShape DEF newWriteResp, Blank, Fields, Codes

LEMMA RejectedBlank ==
    ASSUME NEW r, NEW code \in Codes, NEW msg, Blank(r)
    PROVE  Blank(Rejected(r, code, msg))
  BY DEF Rejected, Blank, Fields

LEMMA AccessedBlank ==
    ASSUME NEW r, NEW x, Blank(r)
    PROVE  Blank([r EXCEPT !.Accessed = x])
  BY DEF Blank, Fields

LEMMA MapsBlank ==
    ASSUME NEW r, NEW x, NEW y, Blank(r)
    PROVE  /\ Blank([r EXCEPT !.TableRewrites = x])
           /\ Blank([r EXCEPT !.TableRewrites = x, !.Accessed = y])
           /\ Blank([r EXCEPT !.Accessed = y, !.TableRewrites = x])
  BY DEF Blank, Fields

LEMMA AllMapsBlank ==
    ASSUME NEW r, NEW x, NEW y, Blank(r)
    PROVE  Blank([r EXCEPT !.TableRewrites = x, !.DatabaseRewrites = EmptyMap, !.PrivilegesDeltas = <<>>,
                           !.Accessed = y])
  BY DEF Blank, Fields

LEMMA EchoAnswers ==
    ASSUME NEW r, NEW t, Blank(r)
    PROVE  PlainAnswer([r EXCEPT !.After = Echo(t)], t)
  BY DEF Blank, PlainAnswer, Answers, Fields

LEMMA ClearedBlank == ASSUME NEW r, Blank(r) PROVE Blank(clearOnUnresolved(r))
  BY MapsBlank DEF clearOnUnresolved

---------------------------------------------------------------------------
(* The preflight. *)

LEMMA UngovernedBlank ==
    ASSUME NEW r, NEW st, NEW sel, Blank(r)
    PROVE  Blank(UngovernedResp(r, st, sel))
<1>1. ASSUME NEW msg PROVE Blank(Rejected(r, "UnsupportedStatement", msg))
  BY RejectedBlank DEF Codes
<1> QED BY <1>1, AccessedBlank DEF UngovernedResp

LEMMA SystemTableBlank ==
    ASSUME NEW r, NEW st, NEW sel, Blank(r)
    PROVE  Blank(rejectSystemTable(r, st, sel))
<1>1. Blank(Rejected(r, "UnsupportedStatement", "systemTable"))
  BY RejectedBlank DEF Codes
<1> QED BY <1>1, AllMapsBlank DEF rejectSystemTable

LEMMA NamespaceBlank ==
    ASSUME NEW ref, NEW r, NEW sel, NEW code \in Codes, Blank(r)
    PROVE  Blank(NamespaceVerdict(ref, r, sel, code))
<1>1. ASSUME NEW c \in Codes, NEW msg, NEW x
      PROVE  Blank([Rejected(r, c, msg) EXCEPT !.Accessed = x])
  BY RejectedBlank, AccessedBlank
<1>2. "InvalidRewriteRequest" \in Codes
  BY DEF Codes
<1> QED BY <1>1, <1>2 DEF NamespaceVerdict

LEMMA NamespacesBlank ==
    ASSUME NEW refs, NEW r, NEW sel, NEW code \in Codes, Blank(r)
    PROVE  Blank(rejectStorageIntegrityNamespaces(r, refs, sel, code))
  BY NamespaceBlank DEF rejectStorageIntegrityNamespaces

(* The preflight answers refusals only, each with the text it was given. *)
LEMMA PreflightAnswers ==
    ASSUME NEW st, NEW t, NEW sel, PreflightTableReferences(st, t, sel).handled
    PROVE  PlainAnswer(PreflightTableReferences(st, t, sel).resp, t)
<1> DEFINE resp == newWriteResp("UNSPECIFIED")
<1>1. Blank(resp)
  BY NewRespBlank
<1>2. ASSUME NEW code \in Codes, NEW msg PROVE Blank(Rejected(resp, code, msg))
  BY <1>1, RejectedBlank
<1>3. ASSUME NEW code \in Codes, NEW msg, NEW x
      PROVE  Blank([Rejected(resp, code, msg) EXCEPT !.Accessed = x])
  BY <1>2, AccessedBlank
<1>4. Blank(UngovernedResp(resp, st, sel)) /\ Blank(rejectSystemTable(resp, st, sel))
  BY <1>1, UngovernedBlank, SystemTableBlank
<1>5. "InvalidRewriteRequest" \in Codes /\ "UnsupportedStatement" \in Codes
  BY DEF Codes
<1> HIDE DEF resp
<1>6. ASSUME NEW r, Blank(r) PROVE PlainAnswer([r EXCEPT !.After = Echo(t)], t)
  BY <1>6, EchoAnswers
<1> QED BY <1>2, <1>3, <1>4, <1>5, <1>6 DEF PreflightTableReferences, NotHandled, Handled, resp

---------------------------------------------------------------------------
(* The SELECT pipeline. *)

LEMMA VerdictAnswers ==
    ASSUME NEW st, NEW sel, NEW ts, NEW r, NEW t, Blank(r), r.Code = "Success"
    PROVE  PlainAnswer(SelectVerdict(st, sel, ts, r), t)
<1> DEFINE looked == IF sel.Mode = "dynamic" THEN ArgumentRefs(BodyLookups(st)) ELSE <<>>
           final == [r EXCEPT
                       !.TableRewrites = recordRewrite(@, TableMoves(looked \o ts, sel)),
                       !.Accessed = recordAccessed(@, {looked[i] : i \in DOMAIN looked}, sel)]
<1>1. "InvalidRewriteRequest" \in Codes /\ "UnsupportedStatement" \in Codes
      /\ "RewriteError" \in Codes
  BY DEF Codes
<1>2. Blank(rejectStorageIntegrityNamespaces(r, st.ns, sel, "RewriteError"))
  BY <1>1, NamespacesBlank
<1>3. Blank(UngovernedResp(r, st, sel))
  BY UngovernedBlank
<1>4. ASSUME NEW code \in Codes, NEW msg PROVE Blank(Rejected(r, code, msg))
  BY RejectedBlank
<1>5. Blank(final) /\ final.Code = "Success"
  BY MapsBlank DEF Blank, Fields
<1> HIDE DEF final
<1>6. Blank(Rejected(final, "InvalidRewriteRequest", "unresolvedUnqualified"))
  BY <1>1, <1>5, RejectedBlank
<1>7. ASSUME NEW x PROVE PlainAnswer([final EXCEPT !.After = Generated(x)], t)
  BY <1>5 DEF Blank, PlainAnswer, Answers, Fields
<1> QED BY <1>1, <1>2, <1>3, <1>4, <1>6, <1>7, BlankAnswers DEF SelectVerdict, final

LEMMA SelectCoreAnswers ==
    ASSUME NEW st, NEW opts, NEW t PROVE PlainAnswer(rewriteSelectCore(st, opts), t)
<1>1. Blank(SelectResponse) /\ SelectResponse.Code = "Success"
  BY NewRespBlank DEF SelectResponse, Blank, Fields
<1>2. ASSUME NEW x, NEW y
      PROVE  /\ Blank([SelectResponse EXCEPT !.FailedCTE = x, !.Accessed = y])
             /\ [SelectResponse EXCEPT !.FailedCTE = x, !.Accessed = y].Code = "Success"
  BY <1>1 DEF Blank, Fields
<1> QED BY <1>2, VerdictAnswers DEF rewriteSelectCore, SelectOnTables

(* Clearing the map changes neither the code nor the SQL. *)
LEMMA ClearedAnswers ==
    ASSUME NEW r, NEW t, PlainAnswer(r, t) PROVE PlainAnswer(clearOnUnresolved(r), t)
  BY DEF clearOnUnresolved, PlainAnswer, Answers, Fields

LEMMA SelectAnswers ==
    ASSUME NEW st, NEW opts, NEW t PROVE PlainAnswer(RewriteSelect(st, opts), t)
  BY SelectCoreAnswers, ClearedAnswers DEF RewriteSelect

---------------------------------------------------------------------------
(* The write pipeline. *)

LEMMA InspectBlank ==
    ASSUME NEW tt, NEW r, NEW sel, NEW allow, Blank(r)
    PROVE  Blank(inspectTarget(tt, r, sel, allow))
<1>1. ASSUME NEW c \in Codes, NEW msg, NEW x
      PROVE  Blank([Rejected(r, c, msg) EXCEPT !.Accessed = x])
  BY RejectedBlank, AccessedBlank
<1>2. "InvalidRewriteRequest" \in Codes /\ "UnsupportedStatement" \in Codes
  BY DEF Codes
<1> QED BY <1>1, <1>2 DEF inspectTarget

LEMMA FirstRefusalBlank ==
    ASSUME NEW targets, NEW r, NEW sel, NEW allow, Blank(r)
    PROVE  Blank(FirstRefusal(targets, r, sel, allow))
  BY InspectBlank DEF FirstRefusal

LEMMA SIWriteBlank ==
    ASSUME NEW st, NEW sel, NEW siDrop
    PROVE  Blank(preflightStorageIntegrityWrite(st, sel, siDrop))
<1> DEFINE resp == newWriteResp("UNSPECIFIED")
<1>1. Blank(resp)
  BY NewRespBlank
<1>2. "UnsupportedStatement" \in Codes
  BY DEF Codes
<1> HIDE DEF resp
<1>3. ASSUME NEW targets, NEW allow PROVE Blank(FirstRefusal(targets, resp, sel, allow))
  BY <1>1, FirstRefusalBlank
<1>4. ASSUME NEW refs
      PROVE  Blank(rejectStorageIntegrityNamespaces(resp, refs, sel, "UnsupportedStatement"))
  BY <1>1, <1>2, NamespacesBlank
<1>5. ASSUME NEW msg PROVE Blank(Rejected(resp, "UnsupportedStatement", msg))
  BY <1>1, <1>2, RejectedBlank
<1>6. Blank(UngovernedResp(resp, st, sel))
  BY <1>1, UngovernedBlank
<1> QED BY <1>1, <1>3, <1>4, <1>5, <1>6 DEF preflightStorageIntegrityWrite, resp

LEMMA SlotsBlank ==
    ASSUME NEW slots, NEW kind, NEW sel, NEW r, Blank(r)
    PROVE  Blank(applyStructuredSlots(slots, kind, sel, r))
<1>1. ASSUME NEW x, NEW y PROVE Blank([r EXCEPT !.Accessed = x, !.TableRewrites = y])
  BY MapsBlank
<1>2. ASSUME NEW tt, NEW q, Blank(q) PROVE Blank(decideWriteTarget(tt, kind, sel, q))
  <2>1. ASSUME NEW code \in Codes, NEW msg PROVE Blank(Rejected(q, code, msg))
    BY <1>2, RejectedBlank
  <2> QED BY <2>1 DEF decideWriteTarget, Codes
<1> QED BY <1>1, <1>2 DEF applyStructuredSlots

LEMMA FinishAnswers ==
    ASSUME NEW st, NEW sel, NEW stmt, NEW t
    PROVE  PlainAnswer(finishStructured(st, sel, newWriteResp(stmt)), t)
<1> DEFINE r == applyStructuredSlots(st.slots, st.kind, sel, newWriteResp(stmt))
<1>1. Blank(r)
  BY NewRespBlank, SlotsBlank
<1> HIDE DEF r
<1>2. r.Code = "Success" => \A x : PlainAnswer([r EXCEPT !.After = x], t)
  BY <1>1 DEF Blank, PlainAnswer, Answers, Fields
<1> QED BY <1>1, <1>2, BlankAnswers DEF finishStructured, r

(* A statement with a body: its slots, then its body's answer. *)
LEMMA EmbeddedAnswers ==
    ASSUME NEW st, NEW body, NEW sel, NEW stmt, NEW refuse, NEW t, PlainAnswer(body, t)
    PROVE  PlainAnswer(rewriteEmbeddedBody(st, body, sel,
                       applyStructuredSlots(st.slots, st.kind, sel, newWriteResp(stmt)), refuse), t)
<1> DEFINE slots == applyStructuredSlots(st.slots, st.kind, sel, newWriteResp(stmt))
           merged == mergeViewBody(slots, body)
<1>1. Blank(slots)
  BY NewRespBlank, SlotsBlank
<1> HIDE DEF slots
<1>2. Blank(merged) /\ merged.Code = slots.Code
  BY <1>1 DEF mergeViewBody, Blank, Fields
<1> HIDE DEF merged
<1>3. ASSUME NEW code \in Codes, NEW msg
      PROVE  /\ PlainAnswer(Rejected(merged, code, msg), t)
             /\ PlainAnswer(clearOnUnresolved(Rejected(merged, code, msg)), t)
  BY <1>2, RejectedBlank, ClearedBlank, BlankAnswers
<1>4. slots.Code = "Success" => \A x : /\ PlainAnswer([slots EXCEPT !.After = x], t)
                                       /\ PlainAnswer([merged EXCEPT !.After = x], t)
  BY <1>1, <1>2 DEF Blank, PlainAnswer, Answers, Fields
<1>5. PlainAnswer(slots, t)
  BY <1>1, BlankAnswers
<1>6. body.Code \in Codes /\ "UnsupportedStatement" \in Codes
  BY DEF PlainAnswer, Answers, Codes
<1> QED BY <1>3, <1>4, <1>5, <1>6 DEF rewriteEmbeddedBody, embedBody, slots, merged

LEMMA BareAnswers ==
    ASSUME NEW stmt, NEW t PROVE PlainAnswer(Bare(stmt), t) /\ PlainAnswer(NotSupported(stmt, t), t)
<1>1. ASSUME NEW msg PROVE Blank(Rejected(newWriteResp(stmt), "UnsupportedStatement", msg))
  BY NewRespBlank, RejectedBlank DEF Codes
<1> QED BY <1>1, BlankAnswers, EchoAnswers DEF Bare, NotSupported

LEMMA CommandAnswers ==
    ASSUME NEW st, NEW t, NEW sel, dispatchCommand(st, t, sel).handled
    PROVE  PlainAnswer(dispatchCommand(st, t, sel).resp, t)
<1>1. CASE st.sub \in {"rename", "exchange", "alterUpdate"}
  <2>1. PlainAnswer(dispatchRawTables(st, t, sel), t)
    BY FinishAnswers, BareAnswers DEF dispatchRawTables
  <2> QED BY <1>1, <2>1 DEF dispatchCommand, Handled
<1>2. CASE st.sub = "bareReject"
  <2>1. ASSUME NEW msg, NEW x
        PROVE  PlainAnswer([Rejected(newWriteResp("UNSPECIFIED"), "UnsupportedStatement", msg)
                          EXCEPT !.Accessed = x], t)
    BY NewRespBlank, RejectedBlank, AccessedBlank, BlankAnswers DEF Codes
  <2> QED BY <1>2, <2>1 DEF dispatchCommand, Handled
<1>3. CASE st.sub \notin {"rename", "exchange", "alterUpdate", "bareReject"}
  BY <1>3 DEF dispatchCommand, NotHandled
<1> QED BY <1>1, <1>2, <1>3

(* The write pipeline answers with new SQL only on a Success. *)
LEMMA WriteAnswers ==
    ASSUME NEW st, NEW t, NEW opts, RewriteWrite(st, t, opts).handled
    PROVE  PlainAnswer(RewriteWrite(st, t, opts).resp, t)
<1> DEFINE sel == FindActive(opts)
           siDrop == storageIntegrityDropAllowed(st, sel)
           si == preflightStorageIntegrityWrite(st, sel, siDrop)
           body == rewriteSelectCore(st, opts)
           w == DispatchWrite(st, t, sel, siDrop, si, body)
<1>1. RewriteWrite(st, t, opts) = w
  BY DEF RewriteWrite, WriteUnder
<1>2. PlainAnswer(si, t) /\ PlainAnswer(body, t)
  BY SIWriteBlank, SelectCoreAnswers, BlankAnswers
<1> HIDE DEF sel, siDrop, si, body
<1>3. CASE si.Code # "Success"
  BY <1>1, <1>2, <1>3 DEF DispatchWrite, Handled
<1>4. CASE si.Code = "Success" /\ st.kind = "create_table"
  <2>1. PlainAnswer(dispatchCreateTable(st, t, sel, body), t)
    BY <1>2, EmbeddedAnswers, BareAnswers DEF dispatchCreateTable
  <2> QED BY <1>1, <1>4, <2>1 DEF DispatchWrite, Handled
<1>5. CASE si.Code = "Success" /\ st.kind \in {"drop_table", "drop_view", "truncate"}
  <2>1. PlainAnswer(dispatchDropLike(st, sel, siDrop), t)
    BY FinishAnswers, BareAnswers DEF dispatchDropLike
  <2>2. w = Handled(dispatchDropLike(st, sel, siDrop))
    BY <1>5, Zenon DEF DispatchWrite
  <2> QED BY <1>1, <2>1, <2>2 DEF Handled
<1>6. CASE si.Code = "Success" /\ st.kind = "alter_table"
  <2>1. PlainAnswer(dispatchAlter(st, sel), t)
    BY FinishAnswers, BareAnswers DEF dispatchAlter
  <2> QED BY <1>1, <1>6, <2>1 DEF DispatchWrite, Handled
<1>7. CASE si.Code = "Success" /\ st.kind \in {"update", "delete"}
  <2>1. PlainAnswer(finishStructured(st, sel, newWriteResp(st.kind)), t)
    BY FinishAnswers
  <2> QED BY <1>1, <1>7, <2>1 DEF DispatchWrite, Handled
<1>8. CASE si.Code = "Success" /\ st.kind = "create_view"
  <2>1. PlainAnswer(dispatchView(st, t, sel, body), t)
    BY <1>2, EmbeddedAnswers, BareAnswers DEF dispatchView
  <2> QED BY <1>1, <1>8, <2>1 DEF DispatchWrite, Handled
<1>9. CASE si.Code = "Success" /\ st.kind = "insert"
  <2>1. PlainAnswer(dispatchInsert(st, t, sel, body), t)
    BY <1>2, EmbeddedAnswers, BareAnswers DEF dispatchInsert
  <2> QED BY <1>1, <1>9, <2>1 DEF DispatchWrite, Handled
<1>10. CASE si.Code = "Success" /\ st.kind = "command"
  BY <1>1, <1>10, CommandAnswers DEF DispatchWrite
<1>11. CASE si.Code = "Success" /\ st.kind \in {"raw", "copy"}
  BY <1>1, <1>11, BareAnswers DEF DispatchWrite, dispatchRawReject, Handled, NotHandled
<1>12. CASE si.Code = "Success" /\ st.kind \notin {"create_table", "drop_table", "drop_view",
               "truncate", "alter_table", "update", "delete", "create_view", "insert",
               "command", "raw", "copy"}
  <2>1. w = NotHandled
    BY <1>12, SMTT(60) DEF DispatchWrite
  <2> QED BY <1>1, <2>1 DEF NotHandled
<1> QED BY <1>3, <1>4, <1>5, <1>6, <1>7, <1>8, <1>9, <1>10, <1>11, <1>12

---------------------------------------------------------------------------
(* Database-level statements.  A refusal is blank or echoes the text; a    *)
(* blank Success may be given any SQL.                                     *)

LEMMA SuccessAnswers ==
    ASSUME NEW r, NEW t, Blank(r), r.Code = "Success"
    PROVE  /\ PlainAnswer(r, t)
           /\ \A x : PlainAnswer([r EXCEPT !.After = x], t)
           /\ \A x, y : PlainAnswer([r EXCEPT !.After = x, !.DatabaseRewrites = y], t)
           /\ \A x, y : PlainAnswer([r EXCEPT !.TableRewrites = x, !.After = y], t)
  BY DEF Blank, PlainAnswer, Answers, Fields

LEMMA RejectedAnswers ==
    ASSUME NEW r, NEW t, NEW code \in Codes, NEW msg, Blank(r)
    PROVE  /\ PlainAnswer(Rejected(r, code, msg), t)
           /\ \A x : PlainAnswer([Rejected(r, code, msg) EXCEPT !.Accessed = x], t)
  BY RejectedBlank, AccessedBlank, BlankAnswers

LEMMA UnsupportedAnswers ==
    ASSUME NEW r, NEW t, Blank(r)
    PROVE  /\ \A msg : /\ PlainAnswer(Rejected(r, "UnsupportedStatement", msg), t)
                       /\ PlainAnswer(Rejected(r, "InvalidRewriteRequest", msg), t)
           /\ \A msg, x : PlainAnswer([Rejected(r, "UnsupportedStatement", msg) EXCEPT !.Accessed = x], t)
           /\ PlainAnswer(Refuse(r, "UnsupportedStatement"), t) /\ PlainAnswer(Refuse(r, "InvalidRewriteRequest"), t)
<1>1. "InvalidRewriteRequest" \in Codes /\ "UnsupportedStatement" \in Codes
  BY DEF Codes
<1> QED BY <1>1, RejectedAnswers DEF Refuse

LEMMA SeenBlank ==
    ASSUME NEW stmt, NEW x
    PROVE  /\ Blank([newWriteResp(stmt) EXCEPT !.Accessed = x])
           /\ [newWriteResp(stmt) EXCEPT !.Accessed = x].Code = "Success"
  BY NewRespBlank, AccessedBlank DEF Blank, Fields

LEMMA DatabaseAnswers ==
    ASSUME NEW st, NEW dyn, NEW t
    PROVE  PlainAnswer(dispatchCreateDatabase(st, dyn), t) /\ PlainAnswer(dispatchDropDatabase(st, dyn), t)
<1>1. ASSUME NEW r, Blank(r), r.Code = "Success"
      PROVE  PlainAnswer(MarkerSelect(r), t) /\ \A x : PlainAnswer(MarkerSelect([r EXCEPT !.DatabaseRewrites = x]), t)
  BY <1>1 DEF MarkerSelect, PlainAnswer, Answers, Blank, Fields
<1>2. PlainAnswer(dispatchCreateDatabase(st, dyn), t)
  BY <1>1, NewRespBlank, SeenBlank, UnsupportedAnswers DEF dispatchCreateDatabase
<1>3. PlainAnswer(dispatchDropDatabase(st, dyn), t)
  BY <1>1, NewRespBlank, SeenBlank, UnsupportedAnswers DEF dispatchDropDatabase
<1> QED BY <1>2, <1>3

LEMMA UseAnswers == ASSUME NEW c, NEW dyn, NEW t PROVE PlainAnswer(dispatchUse(c, dyn), t)
  BY NewRespBlank, SeenBlank, UnsupportedAnswers, SuccessAnswers DEF dispatchUse

LEMMA EchoRefusalAnswers ==
    ASSUME NEW r, NEW t, NEW msg, NEW x, Blank(r)
    PROVE  /\ PlainAnswer(EchoRefusal(r, t, msg, x), t) /\ EchoRefusal(r, t, msg, x).Code # "Success"
           /\ \A code \in {"UnsupportedStatement", "InvalidRewriteRequest"} :
                 /\ PlainAnswer([EchoRefusal(r, t, msg, x) EXCEPT !.Code = code], t)
  BY DEF EchoRefusal, Rejected, PlainAnswer, Answers, Blank, Fields, Codes

LEMMA ShowChecksAnswer ==
    ASSUME NEW r, NEW t, NEW c, NEW a, Blank(r)
    PROVE  /\ PlainAnswer(rejectShowTargetStorageIntegrityNamespace(r, t, c, a), t)
           /\ PlainAnswer(showBodyRejection(r, t, c, a), t)
<1>1. PlainAnswer(r, t)
  BY BlankAnswers
<1>2. PlainAnswer(rejectShowTargetStorageIntegrityNamespace(r, t, c, a), t)
  BY <1>1, EchoRefusalAnswers DEF rejectShowTargetStorageIntegrityNamespace
<1>3. PlainAnswer(showBodyRejection(r, t, c, a), t)
  BY <1>1, EchoRefusalAnswers DEF showBodyRejection
<1> QED BY <1>2, <1>3

LEMMA ForwardAnswers ==
    ASSUME NEW r, NEW t, NEW x, Blank(r), r.Code = "Success"
    PROVE  PlainAnswer(Forward(r, x), t)
  BY SuccessAnswers DEF Forward

LEMMA UnqualifiedAnswers ==
    ASSUME NEW r, NEW t, NEW c, NEW a, Blank(r)
    PROVE  PlainAnswer(dispatchShowUnqualifiedTable(r, t, c, a), t)
<1> DEFINE sel == Selection("dynamic", NoStatic, a)
           q == applyStructuredSlots(<<Ref("", c.table)>>, "show", sel, r)
<1>1. Blank(q)
  BY SlotsBlank
<1> HIDE DEF q
<1> QED BY <1>1, SuccessAnswers, EchoAnswers DEF dispatchShowUnqualifiedTable, q

LEMMA ShowTablesAnswers ==
    ASSUME NEW t, NEW c, NEW dyn, dispatchShowTables(t, c, dyn).handled
    PROVE  PlainAnswer(dispatchShowTables(t, c, dyn).resp, t)
<1> DEFINE r == newWriteResp("show_tables")
<1>1. Blank(r) /\ r.Code = "Success"
  BY NewRespBlank
<1> HIDE DEF r
<1>2. ASSUME NEW a PROVE PlainAnswer(dispatchTargetBearing(r, t, c, a), t)
  BY <1>1, ShowChecksAnswer, EchoRefusalAnswers, UnqualifiedAnswers, ForwardAnswers
     DEF dispatchTargetBearing
<1>3. ASSUME NEW a PROVE PlainAnswer(dispatchTargetLess(r, t, c, a), t)
  BY <1>1, ShowChecksAnswer, EchoRefusalAnswers, ForwardAnswers DEF dispatchTargetLess
<1>4. PlainAnswer(dispatchUnknown(r, t, c), t)
  BY <1>1, EchoRefusalAnswers, ForwardAnswers DEF dispatchUnknown
<1>5. ASSUME NEW a PROVE PlainAnswer(dispatchEnumeration(r, t, c, a), t)
  BY <1>1, EchoRefusalAnswers, UnsupportedAnswers, SuccessAnswers DEF dispatchEnumeration
<1>6. PlainAnswer(Forward(r, ShownNames(c)), t)
  BY <1>1, ForwardAnswers
<1> QED BY <1>2, <1>3, <1>4, <1>5, <1>6 DEF dispatchShowTables, Handled, NotHandled, r

LEMMA ShowDatabasesAnswers ==
    ASSUME NEW c, NEW dyn, NEW t PROVE PlainAnswer(dispatchShowDatabases(c, dyn), t)
  BY NewRespBlank, UnsupportedAnswers, SuccessAnswers, ForwardAnswers DEF dispatchShowDatabases

LEMMA DBLevelAnswers ==
    ASSUME NEW st, NEW t, NEW opts, RewriteDBLevel(st, t, opts).handled
    PROVE  PlainAnswer(RewriteDBLevel(st, t, opts).resp, t)
<1> DEFINE dyn == FindDynamicArgs(opts)
<1> HIDE DEF dyn
<1>1. CASE st.kind \in {"create_database", "drop_database"}
  BY <1>1, DatabaseAnswers DEF RewriteDBLevel, Handled, dyn
<1>2. CASE st.kind = "command" /\ st.sub = "use"
  BY <1>2, UseAnswers DEF RewriteDBLevel, Handled, dyn
<1>3. CASE st.kind = "command" /\ st.sub = "show"
  BY <1>3, ShowDatabasesAnswers, ShowTablesAnswers DEF RewriteDBLevel, Handled, dyn
<1>4. CASE /\ st.kind \notin {"create_database", "drop_database"}
           /\ ~(st.kind = "command" /\ st.sub \in {"use", "show"})
  BY <1>4 DEF RewriteDBLevel, NotHandled
<1> QED BY <1>1, <1>2, <1>3, <1>4

---------------------------------------------------------------------------
(* Objects and grants. *)

LEMMA PhysicalObjectBlank ==
    ASSUME NEW r, NEW c, NEW sel, Blank(r)
    PROVE  Blank(rejectPhysicalObject(r, c, sel))
<1>1. ASSUME NEW x PROVE Blank([Rejected(r, "UnsupportedStatement", "siPhysical") EXCEPT !.Accessed = x])
  BY RejectedBlank, AccessedBlank DEF Codes
<1> QED BY <1>1 DEF rejectPhysicalObject

LEMMA ObjectAnswers ==
    ASSUME NEW c, NEW sel, NEW r, NEW t, Blank(r)
    PROVE  PlainAnswer(RewriteObject(c, sel, r), t)
<1> DEFINE q == applyStructuredSlots(<<Ref(c.db, c.table)>>, c.verb, sel, r)
<1>1. Blank(q)
  BY SlotsBlank
<1> HIDE DEF q
<1> QED BY <1>1, BlankAnswers, UnsupportedAnswers, SuccessAnswers DEF RewriteObject, q

LEMMA DescribeAnswers ==
    ASSUME NEW st, NEW opts, NEW t, RewriteDescribe(st, opts).handled
    PROVE  PlainAnswer(RewriteDescribe(st, opts).resp, t)
<1> DEFINE c == st.cmd
           sel == FindActive(opts)
<1>1. PlainAnswer(DescribeTable(c, sel), t)
  BY NewRespBlank, SeenBlank, UnsupportedAnswers, SuccessAnswers, ObjectAnswers, ForwardAnswers
     DEF DescribeTable
<1>2. PlainAnswer(DescribeTarget(c, sel), t)
  <2>1. PlainAnswer(rejectPhysicalObject(newWriteResp("describe"), c, sel), t)
    BY NewRespBlank, PhysicalObjectBlank, BlankAnswers
  <2> QED BY <1>1, <2>1, NewRespBlank, UnsupportedAnswers DEF DescribeTarget
<1> QED BY <1>2 DEF RewriteDescribe, Handled, NotHandled

LEMMA ExistsAnswers ==
    ASSUME NEW st, NEW opts, NEW t, RewriteExistsShowCreate(st, opts).handled
    PROVE  PlainAnswer(RewriteExistsShowCreate(st, opts).resp, t)
<1> DEFINE c == st.cmd
           sel == FindActive(opts)
<1>1. PlainAnswer(ExistsTable(c, sel), t)
  BY NewRespBlank, SeenBlank, UnsupportedAnswers, SuccessAnswers, ObjectAnswers DEF ExistsTable
<1>2. PlainAnswer(ExistsTarget(c, sel), t)
  <2>1. PlainAnswer(rejectPhysicalObject(newWriteResp(c.verb), c, sel), t)
    BY NewRespBlank, PhysicalObjectBlank, BlankAnswers
  <2> QED BY <1>1, <2>1, NewRespBlank, UnsupportedAnswers DEF ExistsTarget
<1> QED BY <1>2 DEF RewriteExistsShowCreate, Handled, NotHandled

LEMMA GrantAnswers ==
    ASSUME NEW st, NEW opts, NEW t, RewriteGrant(st, opts).handled
    PROVE  Answers(RewriteGrant(st, opts).resp, t)
<1> DEFINE c == st.cmd
           r == newWriteResp(IF c.revoke THEN "revoke" ELSE "grant")
<1>1. Blank(r) /\ r.Code = "Success"
  BY NewRespBlank
<1> HIDE DEF r
<1>2. ASSUME NEW sel PROVE Answers(GrantOnSI(c, sel, r), t)
  <2>1. ASSUME NEW x PROVE Blank([r EXCEPT !.Accessed = x])
    BY <1>1, AccessedBlank
  <2> QED BY <1>1, <2>1, BlankAnswers, UnsupportedAnswers DEF GrantOnSI, PlainAnswer
<1>3. ASSUME NEW a PROVE Answers(GrantDeltas(c, a, r), t)
  <2>1. ASSUME NEW x
        PROVE  LET q == [r EXCEPT !.PrivilegesDeltas = x]
               IN  Answers(MarkerSelect(q), t) /\ Answers(Refuse(q, "UnsupportedStatement"), t)
    BY <1>1 DEF Blank, MarkerSelect, Refuse, Rejected, Answers, Codes, Fields
  <2>2. Answers(Refuse(r, "InvalidRewriteRequest"), t)
    BY <1>1, UnsupportedAnswers DEF PlainAnswer
  <2> QED BY <2>1, <2>2 DEF GrantDeltas
<1>4. ASSUME NEW dyn PROVE Answers(GrantStatement(c, dyn, r), t)
  <2>1. Answers(Refuse(r, "UnsupportedStatement"), t) /\ Answers(Refuse(r, "InvalidRewriteRequest"), t)
    BY <1>1, UnsupportedAnswers DEF PlainAnswer
  <2> QED BY <1>3, <2>1 DEF GrantStatement
<1>5. Answers(GrantTarget(c, opts), t)
  BY <1>2, <1>4 DEF GrantTarget, r
<1> QED BY <1>5 DEF RewriteGrant, Handled, NotHandled

---------------------------------------------------------------------------
(* The elements of sequences. *)

LEMMA IndicesFinite ==
    ASSUME NEW n \in Nat, NEW I, I \subseteq 1..n
    PROVE  IsFiniteSet(I) /\ Cardinality(I) \in Nat
<1>1. IsFiniteSet(1..n)
  BY FS_Interval
<1>2. I \in SUBSET (1..n)
  OBVIOUS
<1>3. IsFiniteSet(I)
  BY <1>1, <1>2, FS_Subset
<1> QED BY <1>3, FS_CardinalityType

(* The rank of an index among those kept. *)
LEMMA RankGrows ==
    ASSUME NEW n \in Nat, NEW I, I \subseteq 1..n, NEW i \in I, NEW k \in I, k < i
    PROVE  Cardinality({j \in I : j <= k}) < Cardinality({j \in I : j <= i})
<1> DEFINE R(x) == {j \in I : j <= x}
<1>1. IsFiniteSet(I)
  BY IndicesFinite
<1>0. i \in Nat /\ k \in Nat /\ I \subseteq Nat
  OBVIOUS
<1>2. R(k) \subseteq R(i) /\ R(i) \subseteq I /\ i \in R(i) /\ i \notin R(k)
  <2>1. ASSUME NEW j \in I, j <= k PROVE j <= i
    BY <1>0, <2>1
  <2>2. ~(i <= k) /\ i <= i
    BY <1>0
  <2> QED BY <2>1, <2>2
<1>a. IsFiniteSet(R(i))
  BY <1>1, <1>2, FS_Subset
<1>3. R(k) # R(i)
  BY <1>2
<1>4. Cardinality(R(k)) <= Cardinality(R(i)) /\ (Cardinality(R(k)) = Cardinality(R(i)) => R(k) = R(i))
  BY <1>2, <1>a, FS_Subset
<1>5. Cardinality(R(k)) \in Nat /\ Cardinality(R(i)) \in Nat
  BY <1>2, <1>a, FS_Subset, FS_CardinalityType
<1> HIDE DEF R
<1>6. Cardinality(R(k)) < Cardinality(R(i))
  BY <1>3, <1>4, <1>5
<1> QED BY <1>6 DEF R

(* Kept has the elements at the indices kept, and only those. *)
KeepsOnly(s, I) == \A k \in DOMAIN Kept(s, I) : \E i \in I : Kept(s, I)[k] = s[i]
KeepsAll(s, I) == \A i \in I : \E k \in DOMAIN Kept(s, I) : Kept(s, I)[k] = s[i]

LEMMA KeptElements ==
    ASSUME NEW s, NEW n \in Nat, NEW I, I \subseteq 1..n
    PROVE  /\ Cardinality(I) \in Nat /\ DOMAIN Kept(s, I) = 1..Cardinality(I)
           /\ KeepsOnly(s, I) /\ KeepsAll(s, I)
<1> DEFINE rank == [i \in I |-> Cardinality({j \in I : j <= i})]
           N == Cardinality(I)
<1>1. IsFiniteSet(I) /\ N \in Nat
  BY IndicesFinite
<1>2. rank \in [I -> 1..N]
  <2> SUFFICES ASSUME NEW i \in I PROVE Cardinality({j \in I : j <= i}) \in 1..N
    OBVIOUS
  <2> DEFINE R == {j \in I : j <= i}
  <2>1. R \subseteq I /\ i \in R
    OBVIOUS
  <2>2. IsFiniteSet(R) /\ Cardinality(R) <= N /\ Cardinality(R) \in Nat
    BY <1>1, <2>1, FS_Subset, FS_CardinalityType
  <2>3. Cardinality(R) # 0
    BY <2>1, <2>2, FS_EmptySet
  <2> HIDE DEF R, N
  <2>4. Cardinality(R) \in 1..N
    BY <1>1, <2>2, <2>3
  <2> QED BY <2>4 DEF R
<1>3. \A i, k \in I : rank[i] = rank[k] => i = k
  <2> SUFFICES ASSUME NEW i \in I, NEW k \in I, i # k PROVE rank[i] # rank[k]
    OBVIOUS
  <2>1. rank[i] \in Nat /\ rank[k] \in Nat
    BY <1>1, <1>2
  <2>2. CASE i < k
    <3>1. rank[i] < rank[k]
      BY <2>2, RankGrows
    <3> QED BY <2>1, <3>1
  <2>3. CASE k < i
    <3>1. rank[k] < rank[i]
      BY <2>3, RankGrows
    <3> QED BY <2>1, <3>1
  <2>4. i \in Nat /\ k \in Nat
    OBVIOUS
  <2> QED BY <2>2, <2>3, <2>4
<1>4. IsFiniteSet(1..N) /\ Cardinality(1..N) = N
  BY <1>1, FS_Interval
<1> HIDE DEF N
<1>5. rank \in Injection(I, 1..N)
  BY <1>2, <1>3 DEF Injection, IsInjective
<1>6. rank \in Surjection(I, 1..N)
  <2>1. Cardinality(I) = Cardinality(1..N)
    BY <1>4 DEF N
  <2> QED BY <1>4, <1>5, <2>1, FS_Injection
<1>7. ASSUME NEW k \in 1..N PROVE \E i \in I : rank[i] = k
  BY <1>6 DEF Surjection
<1> DEFINE At(k) == CHOOSE i \in I : Cardinality({j \in I : j <= i}) = k
<1>8. ASSUME NEW k \in 1..N PROVE At(k) \in I /\ rank[At(k)] = k
  <2>1. \E i \in I : Cardinality({j \in I : j <= i}) = k
    BY <1>7
  <2> QED BY <2>1
<1>9. Kept(s, I) = [k \in 1..N |-> s[At(k)]]
  BY DEF Kept, N
<1> HIDE DEF At, rank
<1>10. ASSUME NEW i \in I PROVE \E k \in 1..N : s[At(k)] = s[i]
  <2>1. rank[i] \in 1..N
    BY <1>2
  <2>2. At(rank[i]) = i
    BY <1>3, <1>8, <2>1
  <2> QED BY <2>1, <2>2
<1>11. DOMAIN Kept(s, I) = 1..N /\ \A k \in 1..N : Kept(s, I)[k] = s[At(k)]
  BY <1>9
<1>12. \A k \in 1..N : \E i \in I : s[At(k)] = s[i]
  BY <1>8
<1>13. N = Cardinality(I)
  BY DEF N
<1>14. \A i \in I : \E k \in 1..N : s[At(k)] = s[i]
  BY <1>10
<1> DEFINE K == Kept(s, I)
<1> HIDE DEF At, K
<1>15. DOMAIN K = 1..N /\ \A k \in 1..N : K[k] = s[At(k)]
  BY <1>11 DEF K
<1>16. \A k \in DOMAIN K : \E i \in I : K[k] = s[i]
  BY <1>12, <1>15
<1>17. \A i \in I : \E k \in DOMAIN K : K[k] = s[i]
  BY <1>14, <1>15
<1> QED BY <1>1, <1>13, <1>15, <1>16, <1>17 DEF K, KeepsOnly, KeepsAll

LEMMA KeptIn ==
    ASSUME NEW X, NEW s \in Seq(X), NEW I, I \subseteq DOMAIN s
    PROVE  Kept(s, I) \in Seq(X) /\ Range(Kept(s, I)) = {s[i] : i \in I}
<1> DEFINE K == Kept(s, I)
<1>1. Len(s) \in Nat /\ DOMAIN s = 1..Len(s) /\ \A i \in DOMAIN s : s[i] \in X
  OBVIOUS
<1>2. /\ Cardinality(I) \in Nat /\ DOMAIN K = 1..Cardinality(I)
      /\ \A k \in DOMAIN K : \E i \in I : K[k] = s[i]
      /\ \A i \in I : \E k \in DOMAIN K : K[k] = s[i]
  <2>1. /\ Cardinality(I) \in Nat /\ DOMAIN Kept(s, I) = 1..Cardinality(I)
        /\ KeepsOnly(s, I) /\ KeepsAll(s, I)
    BY <1>1, KeptElements
  <2> QED BY <2>1 DEF KeepsOnly, KeepsAll
<1>3. K = [k \in DOMAIN K |-> K[k]]
  BY DEF Kept
<1> HIDE DEF K
<1>4. \A k \in DOMAIN K : K[k] \in X
  BY <1>1, <1>2
<1>5. K \in Seq(X)
  <2>1. K \in [1..Cardinality(I) -> X]
    BY <1>2, <1>3, <1>4
  <2> QED BY <1>2, <2>1, SeqDef
<1>6. Range(K) = {s[i] : i \in I}
  BY <1>2 DEF Range
<1> QED BY <1>5, <1>6 DEF K

LEMMA ConcatIn ==
    ASSUME NEW X, NEW s \in Seq(X), NEW t \in Seq(X)
    PROVE  s \o t \in Seq(X) /\ Range(s \o t) = Range(s) \cup Range(t)
  BY RangeConcatenation

---------------------------------------------------------------------------
(* The preflight. *)

(* The preflight answers refusals only. *)
LEMMA PreflightRefuses ==
    ASSUME NEW st, NEW t, NEW sel, PreflightTableReferences(st, t, sel).handled
    PROVE  PreflightTableReferences(st, t, sel).resp.Code # "Success"
<1> DEFINE r == newWriteResp("UNSPECIFIED")
<1>1. DOMAIN r = Fields
  BY NewRespBlank DEF Blank
<1> HIDE DEF r
<1>2. ASSUME NEW msg, NEW x, NEW code \in {"InvalidRewriteRequest", "UnsupportedStatement"}
      PROVE  /\ [Rejected(r, code, msg) EXCEPT !.After = Echo(t)].Code # "Success"
             /\ [[Rejected(r, code, msg) EXCEPT !.Accessed = x] EXCEPT !.After = Echo(t)].Code # "Success"
  BY <1>1 DEF Rejected, Fields
<1>3. [UngovernedResp(r, st, sel) EXCEPT !.After = Echo(t)].Code # "Success"
  BY <1>1, <1>2 DEF UngovernedResp
<1>4. [rejectSystemTable(r, st, sel) EXCEPT !.After = Echo(t)].Code # "Success"
  BY <1>1 DEF rejectSystemTable, Rejected, Fields
<1> QED BY <1>2, <1>3, <1>4 DEF PreflightTableReferences, NotHandled, Handled, r

(* A command no handler models goes on only to be refused by the tail. *)
LEMMA PreflightPassed ==
    ASSUME NEW st, NEW t, NEW sel, sel.Mode = "dynamic",
           ~PreflightTableReferences(st, t, sel).handled
    PROVE  /\ "identParam" \notin st.marks
           /\ ~UnmodelledCommand(st, sel) =>
                /\ RefusedDatabases(NamedDatabases(st) \o <<sel.Dynamic.ctx>>, st, sel) = {}
                /\ RefusedSystemRefs(st, sel) = {} \/ NamesSIObject(st, sel)
                /\ ~SIActive(sel) => ~rejectDisallowedCarriers(st) /\ ~rejectUngovernedReads(st, sel)
                /\ ~RefusedLookup(st)
                /\ TargetIsFunctionCall(st) =>
                      st.cmd.fnClass = "allowed" /\ ProtectedArguments(st, sel) = {}
           /\ UnmodelledCommand(st, sel) => StorageIntegritySurfaceActive(sel.Dynamic)
  BY DEF PreflightTableReferences, Handled, NotHandled

---------------------------------------------------------------------------
(* The storage-integrity preflight of a write. *)

LEMMA UngovernedRefused ==
    ASSUME NEW r, NEW st, NEW sel, DOMAIN r = Fields
    PROVE  UngovernedResp(r, st, sel).Code # "Success"
  BY DEF UngovernedResp, Rejected, Fields

LEMMA SIWritePassed ==
    ASSUME NEW st, NEW sel, NEW siDrop, sel.Mode = "dynamic", ~IsReadRoot(st),
           preflightStorageIntegrityWrite(st, sel, siDrop).Code = "Success"
    PROVE  /\ FirstRefusal(AllWriteTargets(st), newWriteResp("UNSPECIFIED"), sel,
                            st.kind = "insert" \/ siDrop).Code = "Success"
           /\ SIActive(sel) => ~rejectDisallowedCarriers(st) /\ ~rejectUngovernedReads(st, sel)
<1> DEFINE r == newWriteResp("UNSPECIFIED")
           targets == FirstRefusal(AllWriteTargets(st), r, sel, st.kind = "insert" \/ siDrop)
           reads   == FirstRefusal(MutationReads(st), r, sel, FALSE)
           ns      == rejectStorageIntegrityNamespaces(r, st.ns \o InTableRefs(st), sel,
                                                       "UnsupportedStatement")
<1>1. DOMAIN r = Fields
  BY NewRespBlank DEF Blank
<1>2. preflightStorageIntegrityWrite(st, sel, siDrop) =
        IF targets.Code # "Success" THEN targets
        ELSE IF SIActive(sel) /\ "mutationUnproven" \in st.marks
             THEN Rejected(r, "UnsupportedStatement", "notSupported")
        ELSE IF SIActive(sel) /\ reads.Code # "Success" THEN reads
        ELSE IF ns.Code # "Success" THEN ns
        ELSE IF SIActive(sel) /\ rejectDisallowedCarriers(st)
             THEN Rejected(r, "UnsupportedStatement", "carrier")
        ELSE IF SIActive(sel) /\ rejectUngovernedReads(st, sel) THEN UngovernedResp(r, st, sel)
        ELSE r
  BY DEF preflightStorageIntegrityWrite
<1> HIDE DEF r, targets, reads, ns
<1>3. ASSUME NEW msg PROVE Rejected(r, "UnsupportedStatement", msg).Code # "Success"
  BY <1>1 DEF Rejected, Fields
<1>4. UngovernedResp(r, st, sel).Code # "Success"
  BY <1>1, UngovernedRefused
<1>5. targets.Code = "Success"
  BY <1>2
<1> QED BY <1>2, <1>3, <1>4, <1>5 DEF targets, r

(* What a table or a database alone, targeted by the statement, is then. *)
TargetAdmitted(t, sel, allow) ==
    LET a == sel.Dynamic
    IN  IF t.table = NoTable THEN ~IsStorageIntegrityPhysicalDatabase(t.db, a)
        ELSE /\ ~LookupStorageIntegrityPhysical(t.db, t.table, a)
             /\ IsStorageIntegrity(t.db, t.table, a) =>
                   allow /\ AuthorizeStorageIntegrityLogical(t.db, a)

LEMMA FirstRefusalPassed ==
    ASSUME NEW targets, NEW n \in Nat, DOMAIN targets = 1..n, NEW stmt, NEW sel, NEW allow,
           FirstRefusal(targets, newWriteResp(stmt), sel, allow).Code = "Success",
           NEW i \in DOMAIN targets
    PROVE  TargetAdmitted(targets[i], sel, allow)
<1> DEFINE r == newWriteResp(stmt)
           verdict(x) == inspectTarget(x, r, sel, allow).Code
           bad == {k \in DOMAIN targets : verdict(targets[k]) # "Success"}
<1>1. DOMAIN r = Fields
  BY NewRespBlank DEF Blank
<1> HIDE DEF r
<1>2. bad = {}
  <2> SUFFICES ASSUME bad # {} PROVE FALSE
    OBVIOUS
  <2>1. FirstRefusal(targets, r, sel, allow) = inspectTarget(targets[Min(bad)], r, sel, allow)
    BY DEF FirstRefusal, FirstOf
  <2>2. Min(bad) \in bad
    <3>1. bad \subseteq Nat
      OBVIOUS
    <3> HIDE DEF bad
    <3> QED BY <3>1, MinIsFirst
  <2> QED BY <2>1, <2>2 DEF r
<1>3. inspectTarget(targets[i], r, sel, allow).Code = "Success"
  BY <1>2
<1>4. ASSUME NEW code \in {"UnsupportedStatement", "InvalidRewriteRequest"}, NEW msg, NEW tt
      PROVE  /\ [Rejected(r, code, msg) EXCEPT !.Accessed = recordAccessed(@, {tt}, sel)].Code # "Success"
             /\ [Rejected(r, code, msg) EXCEPT
                    !.Accessed = recordAccessedDatabase(@, tt.db, sel.Dynamic)].Code # "Success"
  BY <1>1 DEF Rejected, Fields
<1> HIDE DEF bad
<1> DEFINE t == targets[i]
<1> HIDE DEF t
<1>5. inspectTarget(t, r, sel, allow).Code = "Success"
  BY <1>3 DEF t
<1> QED BY <1>4, <1>5 DEF inspectTarget, TargetAdmitted, t

(* A write that is declined or succeeds has passed it. *)
LEMMA WritePassed ==
    ASSUME NEW st, NEW t, NEW opts,
           RewriteWrite(st, t, opts).handled => RewriteWrite(st, t, opts).resp.Code = "Success"
    PROVE  LET sel == FindActive(opts)
           IN  preflightStorageIntegrityWrite(st, sel, storageIntegrityDropAllowed(st, sel)).Code = "Success"
<1> DEFINE sel == FindActive(opts)
           siDrop == storageIntegrityDropAllowed(st, sel)
           si == preflightStorageIntegrityWrite(st, sel, siDrop)
<1>1. si.Code # "Success" => RewriteWrite(st, t, opts) = Handled(si)
  <2> HIDE DEF sel, siDrop, si
  <2> QED BY DEF RewriteWrite, WriteUnder, DispatchWrite, sel, siDrop, si
<1> HIDE DEF sel, siDrop, si
<1> QED BY <1>1 DEF Handled, sel, siDrop, si

---------------------------------------------------------------------------
(* The SELECT pipeline. *)

(* The names of the lookups, as the verdict resolves them. *)
Looked(st, sel) == IF sel.Mode = "dynamic" THEN ArgumentRefs(BodyLookups(st)) ELSE <<>>

LookedRefs(st, sel) == {Looked(st, sel)[i] : i \in DOMAIN Looked(st, sel)}

(* The tables whose names the answer rewrites, lookups included. *)
Decided(st, sel, ts) ==
    {ts[i] : i \in DOMAIN ts} \cup
    {[db |-> Looked(st, sel)[i].db, table |-> Looked(st, sel)[i].table, by |-> "caller"] :
        i \in DOMAIN Looked(st, sel)}

SelectOutput(st, sel, ts) == UNION {decideTable(x, sel) : x \in Decided(st, sel, ts)}

(* No verdict refuses the statement with the tables ts. *)
SelectClear(st, sel, ts) ==
    /\ SIActive(sel) => ~rejectDisallowedCarriers(st) /\ ~rejectUngovernedReads(st, sel)
    /\ sel.Mode = "dynamic" =>
         /\ \A i \in DOMAIN ts : ~RefusedSIRead(ts[i], sel)
         /\ \A i \in DOMAIN BodyLookups(st) : decideStringLookup(BodyLookups(st)[i], sel)
    /\ \A i \in DOMAIN ts : ~UnresolvedUnqualified(ts[i], sel)

LEMMA VerdictPassed ==
    ASSUME NEW st, NEW sel, NEW ts, NEW r, Blank(r), r.Code = "Success",
           SelectVerdict(st, sel, ts, r).Code = "Success"
    PROVE  LET q == SelectVerdict(st, sel, ts, r)
           IN  /\ SelectClear(st, sel, ts)
               /\ q.After = Generated(SelectOutput(st, sel, ts))
               /\ q.Accessed = recordAccessed(r.Accessed, LookedRefs(st, sel), sel)
               /\ q.DatabaseRewrites = r.DatabaseRewrites /\ q.PrivilegesDeltas = r.PrivilegesDeltas
<1> DEFINE dyn   == sel.Mode = "dynamic"
           ns    == rejectStorageIntegrityNamespaces(r, st.ns, sel, "RewriteError")
           badSI == {i \in DOMAIN ts : dyn /\ RefusedSIRead(ts[i], sel)}
           calls == BodyLookups(st)
           looked == Looked(st, sel)
           final == [r EXCEPT
                       !.TableRewrites = recordRewrite(@, TableMoves(looked \o ts, sel)),
                       !.Accessed = recordAccessed(@, LookedRefs(st, sel), sel)]
           out == SelectOutput(st, sel, ts)
           q == SelectVerdict(st, sel, ts, r)
           first == FirstOf(ts, badSI)
<1>1. q = IF dyn /\ ns.Code # "Success" THEN ns
          ELSE IF SIActive(sel) /\ rejectDisallowedCarriers(st)
               THEN Rejected(r, "UnsupportedStatement", "carrier")
          ELSE IF SIActive(sel) /\ rejectUngovernedReads(st, sel) THEN UngovernedResp(r, st, sel)
          ELSE IF badSI # {}
               THEN IF LookupStorageIntegrityPhysical(first.db, first.table, sel.Dynamic)
                    THEN Rejected(r, "RewriteError", "siPhysical")
                    ELSE Rejected(r, "InvalidRewriteRequest", "siUnauthorized")
          ELSE IF dyn /\ touchesStorageIntegrity(r.Accessed)
                  /\ {"modifier", "reservedCol"} \cap st.marks # {}
               THEN Rejected(r, "RewriteError", "siModifier")
          ELSE IF dyn /\ \E i \in DOMAIN calls : ~decideStringLookup(calls[i], sel)
               THEN Rejected(r, "InvalidRewriteRequest", "lookup")
          ELSE IF \E i \in DOMAIN ts : UnresolvedUnqualified(ts[i], sel)
               THEN Rejected(final, "InvalidRewriteRequest", "unresolvedUnqualified")
          ELSE [final EXCEPT !.After = Generated(out)]
  BY DEF SelectVerdict, Looked, LookedRefs, Decided, SelectOutput
<1>2. /\ DOMAIN r = Fields /\ DOMAIN final = Fields
      /\ final.Accessed = recordAccessed(r.Accessed, LookedRefs(st, sel), sel)
      /\ final.DatabaseRewrites = r.DatabaseRewrites /\ final.PrivilegesDeltas = r.PrivilegesDeltas
  BY DEF Blank, Fields
<1>3. UngovernedResp(r, st, sel).Code # "Success"
  BY <1>2, UngovernedRefused
<1>4. badSI = {} <=> (dyn => \A i \in DOMAIN ts : ~RefusedSIRead(ts[i], sel))
  OBVIOUS
<1> HIDE DEF final, looked, out, ns, badSI, calls, first, q
<1>5. ASSUME NEW x \in {r, final}, NEW code \in {"UnsupportedStatement", "RewriteError", "InvalidRewriteRequest"},
             NEW msg
      PROVE  Rejected(x, code, msg).Code # "Success"
  BY <1>2 DEF Rejected, Fields
<1>6. /\ q = [final EXCEPT !.After = Generated(out)]
      /\ badSI = {}
      /\ ~(SIActive(sel) /\ rejectDisallowedCarriers(st))
      /\ ~(SIActive(sel) /\ rejectUngovernedReads(st, sel))
      /\ ~(dyn /\ \E i \in DOMAIN calls : ~decideStringLookup(calls[i], sel))
      /\ ~\E i \in DOMAIN ts : UnresolvedUnqualified(ts[i], sel)
  BY <1>1, <1>3, <1>5 DEF q
<1>7. /\ q.After = Generated(out)
      /\ q.Accessed = final.Accessed /\ q.DatabaseRewrites = final.DatabaseRewrites
      /\ q.PrivilegesDeltas = final.PrivilegesDeltas
  BY <1>2, <1>6 DEF Fields
<1>8. SelectClear(st, sel, ts)
  BY <1>4, <1>6 DEF SelectClear, calls
<1> QED BY <1>2, <1>7, <1>8 DEF q, looked, out

(* What the SELECT pipeline reports of a statement. *)
ReadRefs(ts)      == {Ref(ts[i].db, ts[i].table) : i \in DOMAIN ts}
ReadsReported(st, sel, ts) ==
    recordAccessed(recordAccessed({}, ReadRefs(ts), sel), LookedRefs(st, sel), sel)

(* A Success of the SELECT pipeline. *)
LEMMA SelectPassed ==
    ASSUME NEW st, NEW opts, rewriteSelectCore(st, opts).Code = "Success"
    PROVE  LET q == rewriteSelectCore(st, opts)
               sel == FindActive(opts)
               ts == SelectTables(st, opts)
           IN  /\ SelectClear(st, sel, ts)
               /\ q.After = Generated(SelectOutput(st, sel, ts))
               /\ q.Accessed = ReadsReported(st, sel, ts)
               /\ q.DatabaseRewrites = EmptyMap /\ q.PrivilegesDeltas = <<>>
<1> DEFINE sel == FindActive(opts)
           ts == SelectTables(st, opts)
           refs == ReadRefs(ts)
           r == [SelectResponse EXCEPT !.FailedCTE = FailedCteAliases(opts),
                                       !.Accessed = recordAccessed(@, refs, sel)]
<1>1. rewriteSelectCore(st, opts) = SelectVerdict(st, sel, ts, r)
  BY DEF rewriteSelectCore, SelectOnTables, ReadRefs
<1>2. /\ Blank(r) /\ r.Code = "Success" /\ r.Accessed = recordAccessed({}, refs, sel)
      /\ r.DatabaseRewrites = EmptyMap /\ r.PrivilegesDeltas = <<>>
  <2>1. /\ Blank(SelectResponse) /\ SelectResponse.Code = "Success" /\ SelectResponse.Accessed = {}
        /\ SelectResponse.DatabaseRewrites = EmptyMap /\ SelectResponse.PrivilegesDeltas = <<>>
    BY DEF SelectResponse, newWriteResp, EmptyResponse, Blank, Fields, Codes
  <2> HIDE DEF refs, sel
  <2> QED BY <2>1 DEF Blank, Fields
<1> HIDE DEF sel, ts, refs, r
<1>3. LET q == SelectVerdict(st, sel, ts, r)
      IN  /\ SelectClear(st, sel, ts)
          /\ q.After = Generated(SelectOutput(st, sel, ts))
          /\ q.Accessed = recordAccessed(r.Accessed, LookedRefs(st, sel), sel)
          /\ q.DatabaseRewrites = r.DatabaseRewrites /\ q.PrivilegesDeltas = r.PrivilegesDeltas
  BY <1>1, <1>2, VerdictPassed
<1> QED BY <1>1, <1>2, <1>3 DEF sel, ts, refs, ReadsReported

LEMMA ReadPassed ==
    ASSUME NEW st, NEW opts, RewriteSelect(st, opts).Code = "Success"
    PROVE  RewriteSelect(st, opts) = rewriteSelectCore(st, opts)
<1>1. DOMAIN rewriteSelectCore(st, opts) = Fields
  BY SelectCoreAnswers DEF PlainAnswer, Answers
<1> QED BY <1>1 DEF RewriteSelect, clearOnUnresolved, Fields

(* A command outside the modelled classes is never a successful write. *)
LEMMA WriteOfUnmodelled ==
    ASSUME NEW st, NEW t, NEW opts, st.kind = "command",
           st.sub \notin {"rename", "exchange", "alterUpdate"}, RewriteWrite(st, t, opts).handled
    PROVE  RewriteWrite(st, t, opts).resp.Code # "Success"
<1> DEFINE sel == FindActive(opts)
           siDrop == storageIntegrityDropAllowed(st, sel)
           si == preflightStorageIntegrityWrite(st, sel, siDrop)
<1>1. RewriteWrite(st, t, opts) = IF si.Code # "Success" THEN Handled(si) ELSE dispatchCommand(st, t, sel)
  <2> HIDE DEF sel, siDrop, si
  <2> QED BY DEF RewriteWrite, WriteUnder, DispatchWrite, sel, siDrop, si
<1> HIDE DEF sel, siDrop, si
<1>2. ASSUME NEW msg, NEW x
      PROVE  [Rejected(newWriteResp("UNSPECIFIED"), "UnsupportedStatement", msg) EXCEPT !.Accessed = x].Code
                 # "Success"
  <2>1. DOMAIN newWriteResp("UNSPECIFIED") = Fields
    BY NewRespBlank DEF Blank
  <2> QED BY <2>1 DEF Rejected, Fields
<1>3. dispatchCommand(st, t, sel).handled => dispatchCommand(st, t, sel).resp.Code # "Success"
  BY <1>2 DEF dispatchCommand, Handled, NotHandled
<1> QED BY <1>1, <1>3 DEF Handled

(* A SELECT is answered by no handler but its own. *)
LEMMA ReadNotWritten ==
    ASSUME NEW st, NEW t, NEW opts, IsReadRoot(st)
    PROVE  ~RewriteWrite(st, t, opts).handled
<1> DEFINE sel == FindActive(opts)
           siDrop == storageIntegrityDropAllowed(st, sel)
           si == preflightStorageIntegrityWrite(st, sel, siDrop)
           body == rewriteSelectCore(st, opts)
<1>1. RewriteWrite(st, t, opts) = DispatchWrite(st, t, sel, siDrop, si, body)
  BY DEF RewriteWrite, WriteUnder
<1>2. si = newWriteResp("UNSPECIFIED")
  BY DEF preflightStorageIntegrityWrite
<1>3. si.Code = "Success"
  BY <1>2, NewRespBlank
<1> HIDE DEF sel, siDrop, si, body
<1>4. DispatchWrite(st, t, sel, siDrop, si, body) = NotHandled
  BY <1>3, SMTT(60) DEF DispatchWrite, IsReadRoot
<1> QED BY <1>1, <1>4 DEF NotHandled

---------------------------------------------------------------------------
(* A Success of the write pipeline. *)

(* Every slot resolves to a local table. *)
SlotsClear(slots, kind, sel) == \A i \in DOMAIN slots : ~SlotRejects(slots[i], kind, sel)

SlotRefs(slots) == {slots[i] : i \in 1..Len(slots)}

(* What a successful write q tells of the statement and its body. *)
Written(st, sel, body, q) ==
    /\ SlotsClear(st.slots, st.kind, sel)
    /\ HasBody(st) => body.Code = "Success"
    /\ q.After = Generated(SlotOutput(st.slots, sel) \cup (IF HasBody(st) THEN body.After.out ELSE {}))
    /\ q.Accessed = recordAccessed({}, SlotRefs(st.slots), sel)
                    \cup (IF HasBody(st) THEN body.Accessed ELSE {})
    /\ q.DatabaseRewrites = EmptyMap /\ q.PrivilegesDeltas = <<>>

LEMMA NewResp ==
    ASSUME NEW stmt
    PROVE  LET r == newWriteResp(stmt)
           IN  /\ Blank(r) /\ r.Code = "Success" /\ r.Accessed = {} /\ r.TableRewrites = EmptyMap
               /\ r.DatabaseRewrites = EmptyMap /\ r.PrivilegesDeltas = <<>>
  BY DEF newWriteResp, EmptyResponse, Blank, Fields, Codes

LEMMA RejectedFails ==
    ASSUME NEW r, NEW code, NEW msg, DOMAIN r = Fields, code # "Success"
    PROVE  /\ Rejected(r, code, msg).Code # "Success" /\ DOMAIN Rejected(r, code, msg) = Fields
           /\ \A x : [Rejected(r, code, msg) EXCEPT !.Accessed = x].Code # "Success"
           /\ \A x : [Rejected(r, code, msg) EXCEPT !.After = x].Code # "Success"
  BY DEF Rejected, Fields

(* What a response q to the slots keeps of r and adds to it. *)
SlotsTold(slots, kind, sel, r, q) ==
    /\ SlotsClear(slots, kind, sel) /\ Blank(q)
    /\ q.Accessed = recordAccessed(r.Accessed, SlotRefs(slots), sel)
    /\ q.DatabaseRewrites = r.DatabaseRewrites /\ q.PrivilegesDeltas = r.PrivilegesDeltas

LEMMA SlotsPassed ==
    ASSUME NEW slots, NEW kind, NEW sel, NEW r, Blank(r), r.Code = "Success",
           applyStructuredSlots(slots, kind, sel, r).Code = "Success"
    PROVE  SlotsTold(slots, kind, sel, r, applyStructuredSlots(slots, kind, sel, r))
<1> DEFINE bad  == {i \in DOMAIN slots : SlotRejects(slots[i], kind, sel)}
           last == IF bad = {} THEN Len(slots) ELSE Min(bad)
           acc  == recordAccessed(r.Accessed, {slots[i] : i \in 1..last}, sel)
<1>1. PICK moves : applyStructuredSlots(slots, kind, sel, r) =
          IF bad = {} THEN [r EXCEPT !.Accessed = acc, !.TableRewrites = moves]
          ELSE decideWriteTarget(slots[last], kind, sel,
                                 [r EXCEPT !.Accessed = acc, !.TableRewrites = moves])
  BY DEF applyStructuredSlots
<1> DEFINE q == [r EXCEPT !.Accessed = acc, !.TableRewrites = moves]
<1>2. /\ DOMAIN q = Fields /\ q.Accessed = acc /\ Blank(q)
      /\ q.DatabaseRewrites = r.DatabaseRewrites /\ q.PrivilegesDeltas = r.PrivilegesDeltas
  BY DEF Blank, Fields
<1> HIDE DEF q, last, acc
<1>3. decideWriteTarget(slots[last], kind, sel, q).Code # "Success"
  BY <1>2, RejectedFails DEF decideWriteTarget
<1>4. bad = {} /\ applyStructuredSlots(slots, kind, sel, r) = q
  BY <1>1, <1>3 DEF q
<1>5. last = Len(slots)
  BY <1>4 DEF last
<1> QED BY <1>2, <1>4, <1>5 DEF SlotsTold, SlotsClear, SlotRefs, acc

(* The slots of a statement, on a new response. *)
LEMMA NewSlotsPassed ==
    ASSUME NEW slots, NEW kind, NEW sel, NEW stmt,
           applyStructuredSlots(slots, kind, sel, newWriteResp(stmt)).Code = "Success"
    PROVE  LET q == applyStructuredSlots(slots, kind, sel, newWriteResp(stmt))
           IN  /\ SlotsClear(slots, kind, sel) /\ Blank(q)
               /\ q.Accessed = recordAccessed({}, SlotRefs(slots), sel)
               /\ q.DatabaseRewrites = EmptyMap /\ q.PrivilegesDeltas = <<>>
<1> DEFINE r == newWriteResp(stmt)
<1>1. /\ Blank(r) /\ r.Code = "Success" /\ r.Accessed = {}
      /\ r.DatabaseRewrites = EmptyMap /\ r.PrivilegesDeltas = <<>>
  BY NewResp
<1>2. applyStructuredSlots(slots, kind, sel, r).Code = "Success"
  OBVIOUS
<1> HIDE DEF r
<1>3. SlotsTold(slots, kind, sel, r, applyStructuredSlots(slots, kind, sel, r))
  BY <1>1, <1>2, SlotsPassed
<1> QED BY <1>1, <1>3 DEF r, SlotsTold

LEMMA FinishPassed ==
    ASSUME NEW st, NEW sel, NEW stmt, NEW body, st.kind \notin {"insert", "create_table", "create_view"},
           finishStructured(st, sel, newWriteResp(stmt)).Code = "Success"
    PROVE  Written(st, sel, body, finishStructured(st, sel, newWriteResp(stmt)))
<1> DEFINE r == newWriteResp(stmt)
           q == applyStructuredSlots(st.slots, st.kind, sel, r)
           f == finishStructured(st, sel, r)
<1>1. f = IF q.Code # "Success" THEN q ELSE [q EXCEPT !.After = Generated(SlotOutput(st.slots, sel))]
  BY DEF finishStructured
<1>2. q.Code = "Success"
  BY <1>1
<1>3. /\ SlotsClear(st.slots, st.kind, sel) /\ Blank(q)
      /\ q.Accessed = recordAccessed({}, SlotRefs(st.slots), sel)
      /\ q.DatabaseRewrites = EmptyMap /\ q.PrivilegesDeltas = <<>>
  BY <1>2, NewSlotsPassed
<1>4. ~HasBody(st)
  BY DEF HasBody
<1> HIDE DEF q
<1>5. /\ f.After = Generated(SlotOutput(st.slots, sel)) /\ f.Accessed = q.Accessed
      /\ f.DatabaseRewrites = q.DatabaseRewrites /\ f.PrivilegesDeltas = q.PrivilegesDeltas
  BY <1>1, <1>2, <1>3 DEF Blank, Fields
<1> HIDE DEF f
<1>6. SlotOutput(st.slots, sel) \cup {} = SlotOutput(st.slots, sel)
      /\ q.Accessed \cup {} = q.Accessed
  OBVIOUS
<1> QED BY <1>3, <1>4, <1>5, <1>6 DEF Written, f

LEMMA EmbeddedPassed ==
    ASSUME NEW st, NEW sel, NEW stmt, NEW body, NEW refuse,
           rewriteEmbeddedBody(st, body, sel, applyStructuredSlots(st.slots, st.kind, sel, newWriteResp(stmt)),
                               refuse).Code = "Success"
    PROVE  Written(st, sel, body,
                   rewriteEmbeddedBody(st, body, sel,
                       applyStructuredSlots(st.slots, st.kind, sel, newWriteResp(stmt)), refuse))
<1> DEFINE q == applyStructuredSlots(st.slots, st.kind, sel, newWriteResp(stmt))
           m == mergeViewBody(q, body)
           f == rewriteEmbeddedBody(st, body, sel, q, refuse)
           code == IF st.kind = "create_view" THEN body.Code ELSE "UnsupportedStatement"
<1>1. f = IF q.Code # "Success" THEN q
          ELSE IF ~HasBody(st) THEN [q EXCEPT !.After = Generated(SlotOutput(st.slots, sel))]
          ELSE IF refuse /\ BodyReadsSI(body, sel) THEN Rejected(m, "UnsupportedStatement", "siWrite")
          ELSE IF body.Code # "Success" THEN clearOnUnresolved(Rejected(m, code, body.Message))
          ELSE [m EXCEPT !.After = Generated(SlotOutput(st.slots, sel) \cup body.After.out)]
  BY DEF rewriteEmbeddedBody, embedBody
<1>2. q.Code = "Success"
  BY <1>1
<1>3. /\ SlotsClear(st.slots, st.kind, sel) /\ Blank(q)
      /\ q.Accessed = recordAccessed({}, SlotRefs(st.slots), sel)
      /\ q.DatabaseRewrites = EmptyMap /\ q.PrivilegesDeltas = <<>>
  BY <1>2, NewSlotsPassed
<1> HIDE DEF q
<1>4. /\ DOMAIN m = Fields /\ m.Accessed = q.Accessed \cup body.Accessed
      /\ m.DatabaseRewrites = EmptyMap /\ m.PrivilegesDeltas = <<>>
  BY <1>3 DEF mergeViewBody, Blank, Fields
<1> HIDE DEF m
<1>5. CASE ~HasBody(st)
  <2>1. /\ f.After = Generated(SlotOutput(st.slots, sel)) /\ f.Accessed = q.Accessed
        /\ f.DatabaseRewrites = q.DatabaseRewrites /\ f.PrivilegesDeltas = q.PrivilegesDeltas
    BY <1>1, <1>2, <1>3, <1>5 DEF Blank, Fields
  <2>2. SlotOutput(st.slots, sel) \cup {} = SlotOutput(st.slots, sel)
        /\ q.Accessed \cup {} = q.Accessed
    OBVIOUS
  <2> HIDE DEF f
  <2> QED BY <1>3, <1>5, <2>1, <2>2 DEF Written, f, q
<1>6. CASE HasBody(st)
  <2>1. Rejected(m, "UnsupportedStatement", "siWrite").Code # "Success"
    BY <1>4, RejectedFails
  <2>2. body.Code # "Success" => clearOnUnresolved(Rejected(m, code, body.Message)).Code # "Success"
    <3> SUFFICES ASSUME body.Code # "Success"
                 PROVE  clearOnUnresolved(Rejected(m, code, body.Message)).Code # "Success"
      OBVIOUS
    <3> DEFINE x == Rejected(m, code, body.Message)
    <3>1. DOMAIN x = Fields /\ x.Code # "Success"
      BY <1>4, RejectedFails
    <3> HIDE DEF x
    <3>2. clearOnUnresolved(x).Code # "Success"
      BY <3>1 DEF clearOnUnresolved, Fields
    <3> QED BY <3>2 DEF x
  <2>3. /\ body.Code = "Success"
        /\ f = [m EXCEPT !.After = Generated(SlotOutput(st.slots, sel) \cup body.After.out)]
    BY <1>1, <1>2, <1>6, <2>1, <2>2 DEF q
  <2>4. /\ f.After = Generated(SlotOutput(st.slots, sel) \cup body.After.out)
        /\ f.Accessed = m.Accessed
        /\ f.DatabaseRewrites = m.DatabaseRewrites /\ f.PrivilegesDeltas = m.PrivilegesDeltas
    BY <1>4, <2>3 DEF Fields
  <2> HIDE DEF f
  <2> QED BY <1>3, <1>4, <1>6, <2>3, <2>4 DEF Written, f, q
<1> QED BY <1>5, <1>6

(* The statements that can succeed as writes. *)
WriteKinds == {"insert", "create_table", "create_view", "drop_table", "drop_view", "truncate",
               "alter_table", "update", "delete"}

WriteForm(st) ==
    st.kind \in WriteKinds \/ (st.kind = "command" /\ st.sub \in {"rename", "exchange", "alterUpdate"})

LEMMA BareFails ==
    ASSUME NEW stmt, NEW t
    PROVE  Bare(stmt).Code # "Success" /\ NotSupported(stmt, t).Code # "Success"
<1>1. DOMAIN newWriteResp(stmt) = Fields
  BY NewRespBlank DEF Blank
<1> QED BY <1>1, RejectedFails DEF Bare, NotSupported

LEMMA WriteSucceeds ==
    ASSUME NEW st, NEW t, NEW opts, RewriteWrite(st, t, opts).handled,
           RewriteWrite(st, t, opts).resp.Code = "Success"
    PROVE  /\ WriteForm(st)
           /\ Written(st, FindActive(opts), rewriteSelectCore(st, opts), RewriteWrite(st, t, opts).resp)
<1> DEFINE sel == FindActive(opts)
           siDrop == storageIntegrityDropAllowed(st, sel)
           si == preflightStorageIntegrityWrite(st, sel, siDrop)
           body == rewriteSelectCore(st, opts)
           w == DispatchWrite(st, t, sel, siDrop, si, body)
<1>1. RewriteWrite(st, t, opts) = w
  BY DEF RewriteWrite, WriteUnder
<1>2. w.handled /\ w.resp.Code = "Success"
  BY <1>1
<1> HIDE DEF sel, siDrop, si, body
<1>3. si.Code = "Success"
  BY <1>2 DEF DispatchWrite, Handled
<1>4. CASE st.kind = "create_table"
  <2>1. w = Handled(dispatchCreateTable(st, t, sel, body))
    BY <1>3, <1>4 DEF DispatchWrite
  <2>2. Written(st, sel, body, dispatchCreateTable(st, t, sel, body))
    <3> DEFINE f == rewriteEmbeddedBody(st, body, sel,
                        applyStructuredSlots(st.slots, st.kind, sel, newWriteResp("create_table")), FALSE)
    <3>1. f.Code = "Success" => Written(st, sel, body, f)
      BY EmbeddedPassed, Zenon
    <3>2. dispatchCreateTable(st, t, sel, body).Code = "Success"
      BY <1>2, <2>1 DEF Handled
    <3>3. dispatchCreateTable(st, t, sel, body) = f
      BY <3>2, BareFails DEF dispatchCreateTable
    <3> HIDE DEF f
    <3> QED BY <3>1, <3>2, <3>3
  <2> QED BY <1>1, <1>4, <2>1, <2>2 DEF Handled, WriteForm, WriteKinds, sel, body
<1>5. CASE st.kind \in {"drop_table", "drop_view", "truncate"}
  <2>1. w = Handled(dispatchDropLike(st, sel, siDrop))
    BY <1>3, <1>5, Zenon DEF DispatchWrite
  <2>2. Written(st, sel, body, dispatchDropLike(st, sel, siDrop))
    BY <1>2, <1>5, <2>1, FinishPassed, BareFails DEF dispatchDropLike, Handled
  <2> QED BY <1>1, <1>5, <2>1, <2>2 DEF Handled, WriteForm, WriteKinds, sel, body
<1>6. CASE st.kind = "alter_table"
  <2>1. w = Handled(dispatchAlter(st, sel))
    BY <1>3, <1>6 DEF DispatchWrite
  <2>2. Written(st, sel, body, dispatchAlter(st, sel))
    BY <1>2, <1>6, <2>1, FinishPassed, BareFails DEF dispatchAlter, Handled
  <2> QED BY <1>1, <1>6, <2>1, <2>2 DEF Handled, WriteForm, WriteKinds, sel, body
<1>7. CASE st.kind \in {"update", "delete"}
  <2>1. w = Handled(finishStructured(st, sel, newWriteResp(st.kind)))
    BY <1>3, <1>7, Zenon DEF DispatchWrite
  <2>2. Written(st, sel, body, finishStructured(st, sel, newWriteResp(st.kind)))
    BY <1>2, <1>7, <2>1, FinishPassed DEF Handled
  <2> QED BY <1>1, <1>7, <2>1, <2>2 DEF Handled, WriteForm, WriteKinds, sel, body
<1>8. CASE st.kind = "create_view"
  <2>1. w = Handled(dispatchView(st, t, sel, body))
    BY <1>3, <1>8 DEF DispatchWrite
  <2>2. Written(st, sel, body, dispatchView(st, t, sel, body))
    <3> DEFINE f == rewriteEmbeddedBody(st, body, sel,
                        applyStructuredSlots(st.slots, st.kind, sel, newWriteResp("create_view")), TRUE)
    <3>1. f.Code = "Success" => Written(st, sel, body, f)
      BY EmbeddedPassed, Zenon
    <3>2. dispatchView(st, t, sel, body).Code = "Success"
      BY <1>2, <2>1 DEF Handled
    <3>3. dispatchView(st, t, sel, body) = f
      BY <3>2, BareFails DEF dispatchView
    <3> HIDE DEF f
    <3> QED BY <3>1, <3>2, <3>3
  <2> QED BY <1>1, <1>8, <2>1, <2>2 DEF Handled, WriteForm, WriteKinds, sel, body
<1>9. CASE st.kind = "insert"
  <2>1. w = Handled(dispatchInsert(st, t, sel, body))
    BY <1>3, <1>9 DEF DispatchWrite
  <2>2. Written(st, sel, body, dispatchInsert(st, t, sel, body))
    BY <1>2, <2>1, EmbeddedPassed, BareFails DEF dispatchInsert, Handled
  <2> QED BY <1>1, <1>9, <2>1, <2>2 DEF Handled, WriteForm, WriteKinds, sel, body
<1>10. CASE st.kind = "command"
  <2>1. st.sub \in {"rename", "exchange", "alterUpdate"}
    BY <1>1, <1>2, <1>10, WriteOfUnmodelled
  <2>2. w = Handled(dispatchRawTables(st, t, sel))
    BY <1>3, <1>10, <2>1 DEF DispatchWrite, dispatchCommand
  <2>3. Written(st, sel, body, dispatchRawTables(st, t, sel))
    BY <1>2, <1>10, <2>2, FinishPassed, BareFails DEF dispatchRawTables, Handled
  <2> QED BY <1>1, <1>10, <2>1, <2>2, <2>3 DEF Handled, WriteForm, sel, body
<1>11. CASE st.kind \in {"raw", "copy"}
  <2>1. w = NotHandled \/ w = Handled(Bare("UNSPECIFIED"))
    BY <1>3, <1>11 DEF DispatchWrite, dispatchRawReject
  <2> QED BY <1>2, <2>1, BareFails DEF Handled, NotHandled
<1>12. CASE st.kind \notin WriteKinds \cup {"command", "raw", "copy"}
  <2>1. w = NotHandled
    BY <1>3, <1>12, SMTT(60) DEF DispatchWrite, WriteKinds
  <2> QED BY <1>2, <2>1 DEF NotHandled
<1> QED BY <1>4, <1>5, <1>6, <1>7, <1>8, <1>9, <1>10, <1>11, <1>12 DEF WriteKinds

---------------------------------------------------------------------------
(* A Success of the database-level handler. *)

(* The map q tells only what the resolver would say under a. *)
MapTrusted(q, a) ==
    \A l \in DOMAIN q.DatabaseRewrites :
        ResolvePhysicalDatabase(l, a) = [ok |-> TRUE, db |-> q.DatabaseRewrites[l]]

LEMMA EmptyMapTrusted ==
    ASSUME NEW q, NEW a, q.DatabaseRewrites = EmptyMap
    PROVE  MapTrusted(q, a) /\ DOMAIN q.DatabaseRewrites = {}
  BY DEF MapTrusted, EmptyMap

(* One entry more. *)
LEMMA EntryTrusted ==
    ASSUME NEW q, NEW a, NEW origin, NEW new, ResolvePhysicalDatabase(origin, a) = [ok |-> TRUE, db |-> new],
           q.DatabaseRewrites = recordDatabaseRewrite(EmptyMap, origin, new)
    PROVE  MapTrusted(q, a)
<1>1. CASE q.DatabaseRewrites = EmptyMap
  BY <1>1, EmptyMapTrusted
<1>2. CASE q.DatabaseRewrites # EmptyMap
  <2>1. DOMAIN q.DatabaseRewrites = {origin} /\ q.DatabaseRewrites[origin] = new
    BY <1>2 DEF recordDatabaseRewrite, EmptyMap
  <2> QED BY <2>1 DEF MapTrusted
<1> QED BY <1>1, <1>2

LEMMA ResolvedShape ==
    ASSUME NEW l, NEW a, ResolvePhysicalDatabase(l, a).ok
    PROVE  ResolvePhysicalDatabase(l, a) = [ok |-> TRUE, db |-> ResolvePhysicalDatabase(l, a).db] /\ l # ""
  BY DEF ResolvePhysicalDatabase

LEMMA UsePassed ==
    ASSUME NEW c, NEW dyn, dyn.found, dispatchUse(c, dyn).Code = "Success"
    PROVE  /\ ResolvePhysicalDatabase(c.db, dyn.args).ok /\ ~ProtectedDatabase(c.db, dyn.args)
           /\ c.db \notin DOMAIN dyn.args.remote_index
           /\ dispatchUse(c, dyn).After =
                 Generated(UseOutput(ResolvePhysicalDatabase(c.db, dyn.args).db, c.db))
           /\ dispatchUse(c, dyn).DatabaseRewrites =
                 recordDatabaseRewrite(EmptyMap, c.db, ResolvePhysicalDatabase(c.db, dyn.args).db)
<1> DEFINE r == newWriteResp("use")
           a == dyn.args
           physical == ResolvePhysicalDatabase(c.db, a)
           q == dispatchUse(c, dyn)
           seen == [r EXCEPT !.Accessed = recordAccessedDatabase(@, c.db, a)]
           final == [r EXCEPT !.After = Generated(UseOutput(physical.db, c.db)),
                              !.DatabaseRewrites = recordDatabaseRewrite(@, c.db, physical.db)]
<1>1. DOMAIN r = Fields /\ r.DatabaseRewrites = EmptyMap
  BY NewResp DEF Blank
<1>2. q = IF IsStorageIntegrityPhysicalDatabase(c.db, a) THEN Rejected(seen, "UnsupportedStatement", "siPhysical")
          ELSE IF ProtectedDatabase(c.db, a) THEN Rejected(seen, "InvalidRewriteRequest", "protected")
          ELSE IF ~physical.ok THEN Refuse(r, "InvalidRewriteRequest")
          ELSE IF c.db \in DOMAIN a.remote_index THEN Refuse(r, "UnsupportedStatement")
          ELSE IF physical.db # c.db /\ c.trailing THEN Refuse(r, "UnsupportedStatement")
          ELSE final
  BY DEF dispatchUse
<1> HIDE DEF r, q, a, physical
<1>3. DOMAIN seen = Fields
  BY <1>1 DEF Fields
<1>4. final.After = Generated(UseOutput(physical.db, c.db))
      /\ final.DatabaseRewrites = recordDatabaseRewrite(EmptyMap, c.db, physical.db)
  BY <1>1 DEF Fields
<1> HIDE DEF seen, final
<1>5. q = final /\ ~ProtectedDatabase(c.db, a) /\ physical.ok /\ c.db \notin DOMAIN a.remote_index
  BY <1>1, <1>2, <1>3, RejectedFails DEF Refuse, q
<1> QED BY <1>4, <1>5 DEF q, a, physical

(* What an enumeration lists, and the entry it reports. *)
Listed(c, a) == IF c.hasDB THEN c.db ELSE a.ctx

ListOutput(c, a) ==
    {OutRef("list", ResolvePhysicalDatabase(Listed(c, a), a).db, BuildDynamicTablePrefix(Listed(c, a), a),
            Ref(Listed(c, a), NoTable), "caller")}

LEMMA EchoRefusalFails ==
    ASSUME NEW r, NEW t, NEW msg, NEW x, DOMAIN r = Fields
    PROVE  /\ EchoRefusal(r, t, msg, x).Code # "Success"
           /\ \A code \in {"UnsupportedStatement", "InvalidRewriteRequest"} :
                 [EchoRefusal(r, t, msg, x) EXCEPT !.Code = code].Code # "Success"
  BY DEF EchoRefusal, Rejected, Fields

LEMMA EnumerationPassed ==
    ASSUME NEW r, NEW t, NEW c, NEW a, Blank(r), dispatchEnumeration(r, t, c, a).Code = "Success"
    PROVE  /\ ResolvePhysicalDatabase(Listed(c, a), a).ok
           /\ dispatchEnumeration(r, t, c, a).After = Generated(ListOutput(c, a))
           /\ dispatchEnumeration(r, t, c, a).DatabaseRewrites =
                 recordDatabaseRewrite(EmptyMap, Listed(c, a), ResolvePhysicalDatabase(Listed(c, a), a).db)
           /\ dispatchEnumeration(r, t, c, a).Accessed = r.Accessed
           /\ ~c.trailing /\ ~IsStorageIntegrityPhysicalDatabase(Listed(c, a), a)
<1> DEFINE l == Listed(c, a)
           physical == ResolvePhysicalDatabase(l, a)
           q == dispatchEnumeration(r, t, c, a)
           physicalName == [Rejected(r, "UnsupportedStatement", "siPhysical") EXCEPT
                              !.Accessed = recordAccessedDatabase(@, l, a)]
           final == [r EXCEPT !.After = Generated(ListOutput(c, a)),
                              !.DatabaseRewrites = recordDatabaseRewrite(@, l, physical.db)]
<1>1. DOMAIN r = Fields /\ r.DatabaseRewrites = EmptyMap
  BY DEF Blank
<1>2. q = IF c.hasDB /\ c.db = ""
          THEN IF StorageIntegritySurfaceActive(a)
               THEN EchoRefusal(r, t, "siUnmodelled", r.Accessed)
               ELSE Refuse(r, "InvalidRewriteRequest")
          ELSE IF l = "" THEN Refuse(r, "InvalidRewriteRequest")
          ELSE IF IsStorageIntegrityPhysicalDatabase(l, a)
               THEN physicalName
          ELSE IF ~physical.ok THEN Refuse(r, "InvalidRewriteRequest")
          ELSE IF c.trailing \/ c.like # "none" \/ c.prefixed THEN Refuse(r, "UnsupportedStatement")
          ELSE IF l \in DOMAIN a.remote_index /\ a.remote_index[l] \notin a.upstreams
               THEN Refuse(r, "InvalidRewriteRequest")
          ELSE final
  BY DEF dispatchEnumeration, Listed, ListOutput
<1> HIDE DEF l, physical, q
<1>3. /\ final.After = Generated(ListOutput(c, a)) /\ final.Accessed = r.Accessed
      /\ final.DatabaseRewrites = recordDatabaseRewrite(EmptyMap, l, physical.db)
  BY <1>1 DEF Fields
<1>4. physicalName.Code # "Success"
  BY <1>1 DEF Rejected, Fields
<1> HIDE DEF final, physicalName
<1>5. /\ Refuse(r, "InvalidRewriteRequest").Code # "Success" /\ Refuse(r, "UnsupportedStatement").Code # "Success"
      /\ EchoRefusal(r, t, "siUnmodelled", r.Accessed).Code # "Success"
  BY <1>1, RejectedFails, EchoRefusalFails DEF Refuse
<1>6. q.Code = "Success"
  BY DEF q
<1>7. /\ q = final /\ physical.ok /\ ~c.trailing
      /\ ~IsStorageIntegrityPhysicalDatabase(l, a)
  BY <1>2, <1>4, <1>5, <1>6
<1> QED BY <1>3, <1>7 DEF q, l, physical

(* The other shows: what they send on, and no database. *)
ShowSends(c, a, q) ==
    /\ q.DatabaseRewrites = EmptyMap
    /\ \/ q.After.out = AsWritten(ShownNames(c))
       \/ /\ SlotsClear(<<Ref("", c.table)>>, "show", Selection("dynamic", NoStatic, a))
          /\ q.After.out = SlotOutput(<<Ref("", c.table)>>, Selection("dynamic", NoStatic, a))
                           \cup AsWritten({c.body[i] : i \in DOMAIN c.body})

LEMMA ForwardSends ==
    ASSUME NEW r, NEW c, NEW a, Blank(r)
    PROVE  ShowSends(c, a, Forward(r, ShownNames(c)))
  BY DEF Forward, Generated, ShowSends, Blank, Fields

(* An unqualified name is sent on as the slot the verdicts judged. *)
SlotSent(c, a, q) ==
    LET slot == <<Ref("", c.table)>>
        sel == Selection("dynamic", NoStatic, a)
    IN  /\ q.DatabaseRewrites = EmptyMap /\ SlotsClear(slot, "show", sel)
        /\ q.After.out = SlotOutput(slot, sel) \cup AsWritten({c.body[i] : i \in DOMAIN c.body})

LEMMA UnqualifiedOutput ==
    ASSUME NEW r, NEW t, NEW c, NEW a, Blank(r), r.Code = "Success",
           dispatchShowUnqualifiedTable(r, t, c, a).Code = "Success"
    PROVE  SlotSent(c, a, dispatchShowUnqualifiedTable(r, t, c, a))
<1> DEFINE sel == Selection("dynamic", NoStatic, a)
           slot == <<Ref("", c.table)>>
           q == applyStructuredSlots(slot, "show", sel, r)
           out == SlotOutput(slot, sel) \cup AsWritten({c.body[i] : i \in DOMAIN c.body})
           f == dispatchShowUnqualifiedTable(r, t, c, a)
<1>1. f = IF q.Code # "Success" THEN [q EXCEPT !.After = Echo(t)]
          ELSE [q EXCEPT !.After = Generated(out)]
  BY DEF dispatchShowUnqualifiedTable
<1>2. Blank(q)
  BY SlotsBlank
<1> HIDE DEF sel, slot, q, out
<1>3. q.Code = "Success" /\ f = [q EXCEPT !.After = Generated(out)]
  BY <1>1, <1>2 DEF Blank, Fields
<1>4. SlotsTold(slot, "show", sel, r, q)
  BY <1>3, SlotsPassed DEF q
<1>5. f.DatabaseRewrites = EmptyMap /\ f.After.out = out
  BY <1>2, <1>3 DEF Blank, Fields, Generated
<1> HIDE DEF f
<1>6. SlotSent(c, a, f)
  BY <1>4, <1>5 DEF SlotSent, SlotsTold, out, slot, sel
<1> QED BY <1>6 DEF f

LEMMA UnqualifiedSends ==
    ASSUME NEW r, NEW t, NEW c, NEW a, Blank(r), r.Code = "Success",
           dispatchShowUnqualifiedTable(r, t, c, a).Code = "Success"
    PROVE  ShowSends(c, a, dispatchShowUnqualifiedTable(r, t, c, a))
<1> DEFINE q == dispatchShowUnqualifiedTable(r, t, c, a)
<1>1. SlotSent(c, a, q)
  BY UnqualifiedOutput
<1> HIDE DEF q
<1>2. ShowSends(c, a, q)
  BY <1>1 DEF ShowSends, SlotSent
<1> QED BY <1>2 DEF q

LEMMA ShowTablesPassed ==
    ASSUME NEW t, NEW c, NEW dyn, dispatchShowTables(t, c, dyn).handled,
           dispatchShowTables(t, c, dyn).resp.Code = "Success"
    PROVE  LET q == dispatchShowTables(t, c, dyn).resp
           IN  IF dyn.found /\ c.what = "TABLES"
               THEN q = dispatchEnumeration(newWriteResp("show_tables"), t, c, dyn.args)
               ELSE ShowSends(c, dyn.args, q)
<1> DEFINE r == newWriteResp("show_tables")
           a == dyn.args
           q == dispatchShowTables(t, c, dyn).resp
           class == showKindClass(c.what)
           ns == rejectShowTargetStorageIntegrityNamespace(r, t, c, a)
           body == showBodyRejection(r, t, c, a)
<1>1. Blank(r) /\ r.Code = "Success" /\ DOMAIN r = Fields
  BY NewRespBlank DEF Blank
<1>2. \/ ~dyn.found /\ q = Forward(r, ShownNames(c))
      \/ dyn.found /\ class = "targetBearing" /\ q = dispatchTargetBearing(r, t, c, a)
      \/ dyn.found /\ class = "targetLess" /\ q = dispatchTargetLess(r, t, c, a)
      \/ dyn.found /\ class = "rewritten" /\ q = dispatchEnumeration(r, t, c, a)
      \/ dyn.found /\ class \notin {"targetBearing", "targetLess", "rewritten"} /\ q = dispatchUnknown(r, t, c)
  BY DEF dispatchShowTables, Handled, NotHandled
<1>3. c.what = "TABLES" <=> class = "rewritten"
  BY DEF showKindClass, ShowTargetBearing, ShowTargetLess
<1>4. q.Code = "Success"
  OBVIOUS
<1> HIDE DEF r, a, q, class
<1>5. ShowSends(c, a, Forward(r, ShownNames(c)))
  BY <1>1, ForwardSends
<1>6. \A msg : EchoRefusal(r, t, msg, r.Accessed).Code # "Success"
  BY <1>1, EchoRefusalFails
<1>7. ASSUME q = dispatchTargetLess(r, t, c, a) PROVE ShowSends(c, a, q)
  BY <1>4, <1>5, <1>6, <1>7 DEF dispatchTargetLess
<1>8. ASSUME q = dispatchUnknown(r, t, c) PROVE ShowSends(c, a, q)
  BY <1>4, <1>5, <1>6, <1>8 DEF dispatchUnknown
<1>9. ASSUME q = dispatchTargetBearing(r, t, c, a) PROVE ShowSends(c, a, q)
  <2>1. \/ q = dispatchShowUnqualifiedTable(r, t, c, a)
        \/ q = Forward(r, ShownNames(c))
    BY <1>4, <1>6, <1>9 DEF dispatchTargetBearing
  <2> QED BY <1>1, <1>4, <1>5, <2>1, UnqualifiedSends
<1>10. IF dyn.found /\ c.what = "TABLES" THEN q = dispatchEnumeration(r, t, c, a)
                                        ELSE ShowSends(c, a, q)
  BY <1>2, <1>3, <1>5, <1>7, <1>8, <1>9
<1> QED BY <1>10 DEF q, r, a

(* SHOW of other kinds than TABLES and DATABASES, under dynamic arguments:  *)
(* what has been judged when it succeeds.                                   *)
ShowJudged(c, a, q) ==
    /\ ~c.ungoverned
    /\ StorageIntegritySurfaceActive(a) =>
          \A i \in DOMAIN c.body : ~IsStorageIntegrityPhysicalDatabase(c.body[i].db, a)
    /\ c.what \notin ShowTargetBearing => q.After.out = AsWritten(ShownNames(c))
    /\ c.what \in ShowTargetBearing =>
         /\ ~c.multiPart
         /\ StorageIntegritySurfaceActive(a) =>
               /\ c.hasDB => c.db # ""
               /\ ~IsStorageIntegrityPhysicalDatabase(Listed(c, a), a)
               /\ ~IsStorageIntegrityLogicalDatabase(Listed(c, a), a)
         /\ IF c.hasTable /\ c.tableResolved /\ ~c.hasDB
            THEN /\ SlotsClear(<<Ref("", c.table)>>, "show", Selection("dynamic", NoStatic, a))
                 /\ q.After.out = SlotOutput(<<Ref("", c.table)>>, Selection("dynamic", NoStatic, a))
                                  \cup AsWritten({c.body[i] : i \in DOMAIN c.body})
            ELSE q.After.out = AsWritten(ShownNames(c))

(* The namespace check passes. *)
LEMMA NamespacePassed ==
    ASSUME NEW r, DOMAIN r = Fields, NEW t, NEW c, NEW a, StorageIntegritySurfaceActive(a),
           rejectShowTargetStorageIntegrityNamespace(r, t, c, a).Code = "Success"
    PROVE  /\ c.hasDB => c.db # ""
           /\ ~IsStorageIntegrityPhysicalDatabase(Listed(c, a), a)
           /\ ~IsStorageIntegrityLogicalDatabase(Listed(c, a), a)
<1> DEFINE target == Listed(c, a)
           q == rejectShowTargetStorageIntegrityNamespace(r, t, c, a)
           acc == IF c.hasTable /\ c.tableResolved
                  THEN r.Accessed \cup {SIPhysicalEntry(target, c.table)}
                  ELSE recordAccessedDatabase(r.Accessed, target, a)
           lacc == recordAccessedLogicalDatabase(r.Accessed, target, a)
           code == IF AuthorizeStorageIntegrityLogical(target, a)
                   THEN "UnsupportedStatement" ELSE "InvalidRewriteRequest"
           bare == ~c.hasDB /\ IsStorageIntegrityPhysicalDatabase(a.pctx, a)
           pacc == recordAccessedDatabase(r.Accessed, a.pctx, a)
<1>1. q = IF bare THEN EchoRefusal(r, t, "siPhysical", pacc)
          ELSE IF target = "" THEN IF c.hasDB THEN EchoRefusal(r, t, "siUnmodelled", r.Accessed) ELSE r
          ELSE IF IsStorageIntegrityPhysicalDatabase(target, a) THEN EchoRefusal(r, t, "siPhysical", acc)
          ELSE IF ~IsStorageIntegrityLogicalDatabase(target, a) THEN r
          ELSE [EchoRefusal(r, t, "siNamespace", lacc) EXCEPT !.Code = code]
  BY DEF rejectShowTargetStorageIntegrityNamespace, Listed
<1>2. code \in {"UnsupportedStatement", "InvalidRewriteRequest"}
  OBVIOUS
<1> HIDE DEF acc, lacc, code, bare, pacc, target, q
<1>3. /\ \A msg, x : EchoRefusal(r, t, msg, x).Code # "Success"
      /\ [EchoRefusal(r, t, "siNamespace", lacc) EXCEPT !.Code = code].Code # "Success"
  BY <1>2, EchoRefusalFails
<1>4. \/ target = "" /\ ~c.hasDB
      \/ /\ target # "" /\ ~IsStorageIntegrityPhysicalDatabase(target, a)
         /\ ~IsStorageIntegrityLogicalDatabase(target, a)
  BY <1>1, <1>3 DEF q
<1>5. c.hasDB => target = c.db
  BY DEF Listed, target
<1>6. target = "" => ~IsStorageIntegrityPhysicalDatabase(target, a) /\ ~IsStorageIntegrityLogicalDatabase(target, a)
  BY DEF IsStorageIntegrityPhysicalDatabase, IsStorageIntegrityLogicalDatabase
<1>7. ~IsStorageIntegrityPhysicalDatabase(target, a) /\ ~IsStorageIntegrityLogicalDatabase(target, a)
  BY <1>4, <1>6
<1>8. c.hasDB => c.db # ""
  BY <1>4, <1>5
<1> QED BY <1>7, <1>8 DEF target

LEMMA ShowBodyPassed ==
    ASSUME NEW r, DOMAIN r = Fields, NEW t, NEW c, NEW a,
           showBodyRejection(r, t, c, a).Code = "Success"
    PROVE  /\ ~c.ungoverned
           /\ StorageIntegritySurfaceActive(a) =>
                 \A i \in DOMAIN c.body : ~IsStorageIntegrityPhysicalDatabase(c.body[i].db, a)
<1> DEFINE si == {i \in DOMAIN c.body : IsStorageIntegrityPhysicalDatabase(c.body[i].db, a)}
           x == r.Accessed \cup {SIPhysicalEntry(FirstOf(c.body, si).db, FirstOf(c.body, si).table)}
           q == showBodyRejection(r, t, c, a)
<1>1. q = IF StorageIntegritySurfaceActive(a) /\ si # {} THEN EchoRefusal(r, t, "siPhysical", x)
          ELSE IF c.ungoverned THEN EchoRefusal(r, t, "notSupported", r.Accessed) ELSE r
  BY DEF showBodyRejection
<1> HIDE DEF si, x, q
<1>2. \A msg, y : EchoRefusal(r, t, msg, y).Code # "Success"
  BY EchoRefusalFails
<1>3. ~c.ungoverned /\ (StorageIntegritySurfaceActive(a) => si = {})
  BY <1>1, <1>2 DEF q
<1> QED BY <1>3 DEF si

LEMMA ShowKindsJudged ==
    ASSUME NEW t, NEW c, NEW dyn, dyn.found, c.what # "TABLES", dispatchShowTables(t, c, dyn).handled,
           dispatchShowTables(t, c, dyn).resp.Code = "Success"
    PROVE  ShowJudged(c, dyn.args, dispatchShowTables(t, c, dyn).resp)
<1> DEFINE r == newWriteResp("show_tables")
           a == dyn.args
           q == dispatchShowTables(t, c, dyn).resp
           class == showKindClass(c.what)
<1>1. Blank(r) /\ r.Code = "Success" /\ DOMAIN r = Fields
  BY NewRespBlank DEF Blank
<1>2. \/ class = "targetBearing" /\ q = dispatchTargetBearing(r, t, c, a)
      \/ class = "targetLess" /\ q = dispatchTargetLess(r, t, c, a)
      \/ class = "rewritten"
      \/ /\ class \notin {"targetBearing", "targetLess", "rewritten"}
         /\ ~StorageIntegritySurfaceActive(a) /\ q = dispatchUnknown(r, t, c)
  BY DEF dispatchShowTables, Handled, NotHandled
<1>3. class # "rewritten" /\ (c.what \in ShowTargetBearing <=> class = "targetBearing")
  BY DEF showKindClass, ShowTargetBearing, ShowTargetLess
<1>4. q.Code = "Success"
  OBVIOUS
<1> HIDE DEF r, a, q, class
<1>5. Forward(r, ShownNames(c)).After.out = AsWritten(ShownNames(c))
  BY <1>1 DEF Forward, Generated, Blank, Fields
<1>6. \A msg, x : EchoRefusal(r, t, msg, x).Code # "Success"
  BY <1>1, EchoRefusalFails
<1>7. CASE class = "targetLess" /\ q = dispatchTargetLess(r, t, c, a)
  <2>1. showBodyRejection(r, t, c, a).Code = "Success" /\ q = Forward(r, ShownNames(c))
    BY <1>4, <1>6, <1>7 DEF dispatchTargetLess
  <2> QED BY <1>1, <1>3, <1>5, <1>7, <2>1, ShowBodyPassed DEF ShowJudged, a, q
<1>8. CASE class = "targetBearing" /\ q = dispatchTargetBearing(r, t, c, a)
  <2>1. /\ rejectShowTargetStorageIntegrityNamespace(r, t, c, a).Code = "Success"
        /\ showBodyRejection(r, t, c, a).Code = "Success" /\ ~c.multiPart
        /\ q = IF c.hasTable /\ c.tableResolved /\ ~c.hasDB THEN dispatchShowUnqualifiedTable(r, t, c, a)
               ELSE Forward(r, ShownNames(c))
    BY <1>4, <1>6, <1>8 DEF dispatchTargetBearing
  <2>2. /\ ~c.ungoverned
        /\ StorageIntegritySurfaceActive(a) =>
              \A i \in DOMAIN c.body : ~IsStorageIntegrityPhysicalDatabase(c.body[i].db, a)
    BY <1>1, <2>1, ShowBodyPassed
  <2>3. StorageIntegritySurfaceActive(a) =>
          /\ c.hasDB => c.db # ""
          /\ ~IsStorageIntegrityPhysicalDatabase(Listed(c, a), a)
          /\ ~IsStorageIntegrityLogicalDatabase(Listed(c, a), a)
    BY <1>1, <2>1, NamespacePassed
  <2>4. CASE c.hasTable /\ c.tableResolved /\ ~c.hasDB
    <3>1. q = dispatchShowUnqualifiedTable(r, t, c, a)
      BY <2>1, <2>4
    <3>2. /\ SlotsClear(<<Ref("", c.table)>>, "show", Selection("dynamic", NoStatic, a))
          /\ q.After.out = SlotOutput(<<Ref("", c.table)>>, Selection("dynamic", NoStatic, a))
                           \cup AsWritten({c.body[i] : i \in DOMAIN c.body})
      <4>1. SlotSent(c, a, q)
        BY <1>1, <1>4, <3>1, UnqualifiedOutput
      <4> QED BY <4>1 DEF SlotSent
    <3> QED BY <1>3, <1>8, <2>1, <2>2, <2>3, <2>4, <3>2 DEF ShowJudged, a, q
  <2>5. CASE ~(c.hasTable /\ c.tableResolved /\ ~c.hasDB)
    <3>1. q.After.out = AsWritten(ShownNames(c))
      BY <1>5, <2>1, <2>5
    <3> QED BY <1>3, <1>8, <2>1, <2>2, <2>3, <2>5, <3>1 DEF ShowJudged, a, q
  <2> QED BY <2>4, <2>5
<1>9. CASE /\ class \notin {"targetBearing", "targetLess", "rewritten"}
           /\ ~StorageIntegritySurfaceActive(a) /\ q = dispatchUnknown(r, t, c)
  <2>1. ~c.ungoverned /\ q = Forward(r, ShownNames(c))
    BY <1>4, <1>6, <1>9 DEF dispatchUnknown
  <2> QED BY <1>3, <1>5, <1>9, <2>1 DEF ShowJudged, a, q
<1> QED BY <1>2, <1>3, <1>7, <1>8, <1>9

LEMMA ShowDatabasesPassed ==
    ASSUME NEW c, NEW dyn, dispatchShowDatabases(c, dyn).Code = "Success"
    PROVE  LET q == dispatchShowDatabases(c, dyn)
           IN  /\ q.After.out = {}
               /\ ~dyn.found => q.DatabaseRewrites = EmptyMap
               /\ dyn.found => /\ ~c.trailing /\ ~c.hasDB /\ MapTrusted(q, dyn.args)
                               /\ \A l \in DOMAIN q.DatabaseRewrites : q.DatabaseRewrites[l] \in dyn.args.known
<1> DEFINE r == newWriteResp("show_databases")
           a == dyn.args
           names == {m \in {l \in DOMAIN a.database_map : a.database_map[l] \in a.known} :
                       m # "" /\ a.database_map[m] # m}
           map == [l \in names |-> a.database_map[l]]
           q == dispatchShowDatabases(c, dyn)
<1>1. Blank(r) /\ DOMAIN r = Fields
  BY NewRespBlank DEF Blank
<1>2. q = IF ~dyn.found THEN Forward(r, {})
          ELSE IF c.trailing \/ c.hasDB \/ c.prefixed \/ c.like = "other"
               THEN Refuse(r, "UnsupportedStatement")
          ELSE [r EXCEPT !.After = Generated({}), !.DatabaseRewrites = map]
  BY DEF dispatchShowDatabases
<1>3. /\ DOMAIN map = names
      /\ \A l \in names : ResolvePhysicalDatabase(l, a) = [ok |-> TRUE, db |-> map[l]] /\ map[l] \in a.known
  BY DEF ResolvePhysicalDatabase
<1> HIDE DEF r, names, map
<1>4. CASE ~dyn.found
  <2>1. q.After.out = {} /\ q.DatabaseRewrites = EmptyMap
    BY <1>1, <1>2, <1>4 DEF Forward, AsWritten, Generated, Blank, Fields
  <2> QED BY <1>4, <2>1
<1>5. CASE dyn.found
  <2>1. Refuse(r, "UnsupportedStatement").Code # "Success"
    BY <1>1, RejectedFails DEF Refuse
  <2>2. q = [r EXCEPT !.After = Generated({}), !.DatabaseRewrites = map] /\ ~c.trailing /\ ~c.hasDB
    BY <1>2, <1>5, <2>1
  <2>3. q.After.out = {} /\ q.DatabaseRewrites = map
    BY <1>1, <2>2 DEF Fields, Generated
  <2> HIDE DEF q
  <2> QED BY <1>3, <1>5, <2>2, <2>3 DEF MapTrusted, q
<1> QED BY <1>4, <1>5

LEMMA DatabasePassed ==
    ASSUME NEW st, NEW dyn, NEW q, q \in {dispatchCreateDatabase(st, dyn), dispatchDropDatabase(st, dyn)},
           q.Code = "Success"
    PROVE  /\ dyn.found /\ q.After.out = {} /\ MapTrusted(q, dyn.args)
           /\ ~IsStorageIntegrityPhysicalDatabase(st.slots[1].db, dyn.args)
           /\ q.Accessed = recordAccessedDatabase({}, st.slots[1].db, dyn.args)
<1> DEFINE a == dyn.args
           target == st.slots[1].db
           r(stmt) == newWriteResp(stmt)
           seen(stmt) == [r(stmt) EXCEPT !.Accessed = recordAccessedDatabase(@, target, a)]
<1>1. ASSUME NEW stmt
      PROVE  /\ DOMAIN r(stmt) = Fields /\ DOMAIN seen(stmt) = Fields /\ seen(stmt).DatabaseRewrites = EmptyMap
             /\ seen(stmt).Accessed = recordAccessedDatabase({}, target, a)
             /\ Refuse(r(stmt), "UnsupportedStatement").Code # "Success"
             /\ Rejected(seen(stmt), "UnsupportedStatement", "siPhysical").Code # "Success"
             /\ Refuse(seen(stmt), "InvalidRewriteRequest").Code # "Success"
  <2>1. DOMAIN r(stmt) = Fields /\ r(stmt).DatabaseRewrites = EmptyMap /\ r(stmt).Accessed = {}
    BY NewResp DEF Blank
  <2> HIDE DEF r, target
  <2>2. /\ DOMAIN seen(stmt) = Fields /\ seen(stmt).DatabaseRewrites = EmptyMap
        /\ seen(stmt).Accessed = recordAccessedDatabase({}, target, a)
    BY <2>1 DEF Fields
  <2> HIDE DEF seen
  <2> QED BY <2>1, <2>2, RejectedFails DEF Refuse
<1>2. ASSUME NEW stmt
      PROVE  /\ MarkerSelect(seen(stmt)).After.out = {} /\ MarkerSelect(seen(stmt)).DatabaseRewrites = EmptyMap
             /\ MarkerSelect(seen(stmt)).Accessed = seen(stmt).Accessed
             /\ \A x : LET m == MarkerSelect([seen(stmt) EXCEPT !.DatabaseRewrites = x])
                       IN  m.After.out = {} /\ m.DatabaseRewrites = x /\ m.Accessed = seen(stmt).Accessed
  <2>1. DOMAIN seen(stmt) = Fields /\ seen(stmt).DatabaseRewrites = EmptyMap
    BY <1>1
  <2> HIDE DEF seen
  <2> QED BY <2>1 DEF MarkerSelect, Generated, Fields
<1>3. CASE q = dispatchCreateDatabase(st, dyn)
  <2>1. q = IF ~dyn.found THEN Refuse(r("create_database"), "UnsupportedStatement")
            ELSE IF IsStorageIntegrityPhysicalDatabase(target, a)
                 THEN Rejected(seen("create_database"), "UnsupportedStatement", "siPhysical")
            ELSE IF target \in DOMAIN a.database_map /\ st.ec # "ifNotExists"
                 THEN Refuse(seen("create_database"), "InvalidRewriteRequest")
            ELSE IF a.pctx # "" /\ a.pctx \notin a.known
                 THEN Refuse(seen("create_database"), "InvalidRewriteRequest")
            ELSE MarkerSelect(seen("create_database"))
    BY <1>3 DEF dispatchCreateDatabase
  <2> HIDE DEF seen, r, target
  <2>2. dyn.found /\ q = MarkerSelect(seen("create_database")) /\ ~IsStorageIntegrityPhysicalDatabase(target, a)
    BY <1>1, <2>1
  <2> QED BY <1>1, <1>2, <2>2, EmptyMapTrusted DEF target
<1>4. CASE q = dispatchDropDatabase(st, dyn)
  <2> DEFINE s == seen("drop_database")
             map == recordDatabaseRewrite(EmptyMap, target, a.database_map[target])
  <2>1. q = IF ~dyn.found THEN Refuse(r("drop_database"), "UnsupportedStatement")
            ELSE IF IsStorageIntegrityPhysicalDatabase(target, a)
                 THEN Rejected(s, "UnsupportedStatement", "siPhysical")
            ELSE IF target \in DOMAIN a.database_map
                 THEN MarkerSelect([s EXCEPT
                        !.DatabaseRewrites = recordDatabaseRewrite(@, target, a.database_map[target])])
            ELSE IF st.ec # "ifExists" THEN Refuse(s, "InvalidRewriteRequest")
            ELSE MarkerSelect(s)
    BY <1>4 DEF dispatchDropDatabase
  <2>2. [s EXCEPT !.DatabaseRewrites = recordDatabaseRewrite(@, target, a.database_map[target])] =
        [s EXCEPT !.DatabaseRewrites = map]
    BY <1>1
  <2> HIDE DEF seen, r, target, s
  <2>3. /\ dyn.found /\ ~IsStorageIntegrityPhysicalDatabase(target, a)
        /\ \/ q = MarkerSelect(s)
           \/ target \in DOMAIN a.database_map /\ q = MarkerSelect([s EXCEPT !.DatabaseRewrites = map])
    BY <1>1, <2>1, <2>2 DEF s
  <2>4. CASE q = MarkerSelect(s)
    BY <1>1, <1>2, <2>3, <2>4, EmptyMapTrusted DEF s, target
  <2>5. CASE target \in DOMAIN a.database_map /\ q = MarkerSelect([s EXCEPT !.DatabaseRewrites = map])
    <3>m. LET m == MarkerSelect([s EXCEPT !.DatabaseRewrites = map])
          IN  m.After.out = {} /\ m.DatabaseRewrites = map /\ m.Accessed = s.Accessed
      BY <1>2 DEF s
    <3> HIDE DEF map
    <3>b. q.After.out = {} /\ q.DatabaseRewrites = map /\ q.Accessed = s.Accessed
      BY <2>5, <3>m
    <3> USE DEF map
    <3>1. /\ q.After.out = {} /\ q.DatabaseRewrites = map
          /\ q.Accessed = recordAccessedDatabase({}, target, a)
      BY <1>1, <3>b DEF s
    <3>a. /\ ~IsStorageIntegrityPhysicalDatabase(st.slots[1].db, dyn.args)
          /\ q.Accessed = recordAccessedDatabase({}, st.slots[1].db, dyn.args)
      BY <2>3, <3>1 DEF target
    <3>2. CASE target = ""
      BY <2>3, <3>1, <3>2, <3>a, EmptyMapTrusted DEF recordDatabaseRewrite
    <3>3. CASE target # ""
      <4>1. ResolvePhysicalDatabase(target, a) = [ok |-> TRUE, db |-> a.database_map[target]]
        BY <2>5, <3>3 DEF ResolvePhysicalDatabase
      <4> QED BY <2>3, <3>1, <3>a, <4>1, EntryTrusted
    <3> QED BY <3>2, <3>3
  <2> QED BY <2>3, <2>4, <2>5
<1> QED BY <1>3, <1>4

---------------------------------------------------------------------------
(* A Success of the object handlers. *)

(* What a successful answer q about the object of the command c sends. *)
ObjectShown(c, sel, q) ==
    LET a    == sel.Dynamic
        slot == <<Ref(c.db, c.table)>>
    IN  /\ q.DatabaseRewrites = EmptyMap /\ q.PrivilegesDeltas = <<>>
        /\ c.objType = "TABLE"
        /\ sel.Mode = "dynamic" =>
             /\ IF c.verb = "describe" THEN c.shape \notin {"subquery", "none"} ELSE c.table # NoTable
             /\ ~IsStorageIntegrityPhysicalDatabase(LogicalOf(c.db, a), a)
             /\ IsStorageIntegrity(c.db, c.table, a) =>
                  /\ c.verb # "show_create" /\ AuthorizeStorageIntegrityLogical(c.db, a)
                  /\ q.After.out = SafeOutput(c, a)
             /\ ~IsStorageIntegrity(c.db, c.table, a) =>
                  \/ /\ SlotsClear(slot, c.verb, sel) /\ q.After.out = SlotOutput(slot, sel)
                     /\ c.verb = "describe" => c.shape = "name"
                  \/ /\ c.verb = "describe" /\ ~(c.shape = "name" /\ c.db = "")
                     /\ q.After.out = AsWritten(IF c.shape = "name" THEN {Ref(c.db, c.table)} ELSE {})

LEMMA PhysicalObjectPassed ==
    ASSUME NEW r, NEW c, NEW sel, DOMAIN r = Fields, rejectPhysicalObject(r, c, sel).Code = "Success",
           sel.Mode = "dynamic", c.objType = "TABLE"
    PROVE  ~IsStorageIntegrityPhysicalDatabase(LogicalOf(c.db, sel.Dynamic), sel.Dynamic)
<1>1. \A x : [Rejected(r, "UnsupportedStatement", "siPhysical") EXCEPT !.Accessed = x].Code # "Success"
  BY RejectedFails
<1>2. ASSUME NEW x
      PROVE  [Rejected(r, "UnsupportedStatement", "siPhysical") EXCEPT
                !.Accessed = recordAccessed(@, x, sel)].Code # "Success"
  BY DEF Rejected, Fields
<1> QED BY <1>2 DEF rejectPhysicalObject

(* The strict decision on the one target. *)
LEMMA ObjectPassed ==
    ASSUME NEW c, NEW sel, NEW r, Blank(r), r.Code = "Success",
           RewriteObject(c, sel, r).Code = "Success"
    PROVE  LET slot == <<Ref(c.db, c.table)>>
               q    == RewriteObject(c, sel, r)
           IN  /\ SlotsClear(slot, c.verb, sel) /\ q.After.out = SlotOutput(slot, sel)
               /\ q.DatabaseRewrites = EmptyMap /\ q.PrivilegesDeltas = <<>>
<1> DEFINE slot == <<Ref(c.db, c.table)>>
           s == applyStructuredSlots(slot, c.verb, sel, r)
           q == RewriteObject(c, sel, r)
<1>1. q = IF s.Code # "Success" THEN s
          ELSE IF rejectsRerender(c, sel) THEN Rejected(s, "UnsupportedStatement", "notSupported")
          ELSE [s EXCEPT !.After = Generated(SlotOutput(slot, sel))]
  BY DEF RewriteObject
<1>2. Blank(s) /\ DOMAIN s = Fields
  BY SlotsBlank DEF Blank
<1> HIDE DEF s, slot, q
<1>3. Rejected(s, "UnsupportedStatement", "notSupported").Code # "Success"
  BY <1>2, RejectedFails
<1>4. s.Code = "Success" /\ q = [s EXCEPT !.After = Generated(SlotOutput(slot, sel))]
  BY <1>1, <1>3 DEF q
<1>5. SlotsTold(slot, c.verb, sel, r, s)
  BY <1>4, SlotsPassed DEF s
<1>6. q.After = Generated(SlotOutput(slot, sel)) /\ q.DatabaseRewrites = EmptyMap /\ q.PrivilegesDeltas = <<>>
  BY <1>2, <1>4 DEF Blank, Fields
<1> QED BY <1>5, <1>6 DEF SlotsTold, Generated, slot, q

LEMMA DescribePassed ==
    ASSUME NEW c, NEW sel, c.verb = "describe", DescribeTarget(c, sel).Code = "Success"
    PROVE  ObjectShown(c, sel, DescribeTarget(c, sel))
<1> DEFINE r == newWriteResp("describe")
           a == sel.Dynamic
           dyn == sel.Mode = "dynamic"
           seen == [r EXCEPT !.Accessed = recordAccessed(@, {Ref(c.db, c.table)}, sel)]
           si == dyn /\ IsStorageIntegrity(c.db, c.table, a)
           physical == rejectPhysicalObject(r, c, sel)
           named == IF c.shape = "name" THEN {Ref(c.db, c.table)} ELSE {}
           safe == [seen EXCEPT !.After = Generated(SafeOutput(c, a))]
           q == DescribeTarget(c, sel)
<1>1. Blank(r) /\ r.Code = "Success" /\ DOMAIN r = Fields
  BY NewRespBlank DEF Blank
<1>2. q = IF dyn /\ c.shape \in {"subquery", "none"}
          THEN Rejected(r, "UnsupportedStatement", IF SIActive(sel) THEN "siUnmodelled" ELSE "notSupported")
          ELSE IF physical.Code # "Success" THEN physical
          ELSE IF c.objType # "TABLE" THEN Refuse(r, "UnsupportedStatement")
          ELSE IF dyn /\ LookupStorageIntegrityPhysical(c.db, c.table, a)
               THEN Rejected(seen, "UnsupportedStatement", "siPhysical")
          ELSE IF si /\ ~AuthorizeStorageIntegrityLogical(c.db, a)
               THEN Rejected(seen, "InvalidRewriteRequest", "siUnauthorized")
          ELSE IF si /\ (c.trailing \/ c.temporary)
               THEN Rejected(seen, "UnsupportedStatement", "notSupported")
          ELSE IF si THEN safe
          ELSE IF dyn /\ c.shape = "name" /\ c.db = "" THEN RewriteObject(c, sel, r)
          ELSE Forward(seen, named)
  BY DEF DescribeTarget, DescribeTable
<1> HIDE DEF r
<1>a. DOMAIN seen = Fields /\ seen.DatabaseRewrites = EmptyMap /\ seen.PrivilegesDeltas = <<>>
  BY <1>1 DEF Blank, Fields
<1>3. /\ \A code \in {"UnsupportedStatement", "InvalidRewriteRequest"} : \A msg :
            Rejected(seen, code, msg).Code # "Success"
      /\ safe.After.out = SafeOutput(c, a) /\ safe.DatabaseRewrites = EmptyMap
      /\ safe.PrivilegesDeltas = <<>>
      /\ LET f == Forward(seen, named)
         IN  f.After.out = AsWritten(named) /\ f.DatabaseRewrites = EmptyMap /\ f.PrivilegesDeltas = <<>>
  <2> HIDE DEF seen, named
  <2>1. \A code \in {"UnsupportedStatement", "InvalidRewriteRequest"} : \A msg :
            Rejected(seen, code, msg).Code # "Success"
    BY <1>a, RejectedFails
  <2>2. /\ safe.After.out = SafeOutput(c, a) /\ safe.DatabaseRewrites = EmptyMap
        /\ safe.PrivilegesDeltas = <<>>
    BY <1>a DEF Fields, Generated
  <2>3. LET f == Forward(seen, named)
        IN  f.After.out = AsWritten(named) /\ f.DatabaseRewrites = EmptyMap /\ f.PrivilegesDeltas = <<>>
    BY <1>a DEF Fields, Generated, Forward
  <2> QED BY <2>1, <2>2, <2>3
<1>4. Refuse(r, "UnsupportedStatement").Code # "Success"
      /\ \A msg : Rejected(r, "UnsupportedStatement", msg).Code # "Success"
  BY <1>1, RejectedFails DEF Refuse
<1>5. dyn /\ c.objType = "TABLE" /\ physical.Code = "Success" =>
         ~IsStorageIntegrityPhysicalDatabase(LogicalOf(c.db, a), a)
  BY <1>1, PhysicalObjectPassed
<1>6. q.Code = "Success"
  OBVIOUS
<1> HIDE DEF seen, safe, physical, q, named
<1>7. /\ c.objType = "TABLE" /\ physical.Code = "Success" /\ (dyn => c.shape \notin {"subquery", "none"})
      /\ si => AuthorizeStorageIntegrityLogical(c.db, a) /\ q = safe
      /\ ~si => \/ dyn /\ c.shape = "name" /\ q = RewriteObject(c, sel, r)
                \/ ~(dyn /\ c.shape = "name" /\ c.db = "") /\ q = Forward(seen, named)
  BY <1>2, <1>3, <1>4, <1>6
<1>8. CASE si
  BY <1>3, <1>5, <1>7, <1>8 DEF ObjectShown, q
<1>9. CASE ~si /\ dyn /\ c.shape = "name" /\ q = RewriteObject(c, sel, r)
  <2>1. /\ SlotsClear(<<Ref(c.db, c.table)>>, c.verb, sel)
        /\ q.After.out = SlotOutput(<<Ref(c.db, c.table)>>, sel)
        /\ q.DatabaseRewrites = EmptyMap /\ q.PrivilegesDeltas = <<>>
    BY <1>1, <1>6, <1>9, ObjectPassed
  <2> QED BY <1>5, <1>7, <1>9, <2>1 DEF ObjectShown, q
<1>10. CASE ~si /\ ~(dyn /\ c.shape = "name" /\ c.db = "") /\ q = Forward(seen, named)
  BY <1>3, <1>5, <1>7, <1>10 DEF ObjectShown, q, named
<1> QED BY <1>7, <1>8, <1>9, <1>10

LEMMA ExistsPassed ==
    ASSUME NEW c, NEW sel, c.verb \in {"exists", "show_create"}, ExistsTarget(c, sel).Code = "Success"
    PROVE  ObjectShown(c, sel, ExistsTarget(c, sel))
<1> DEFINE r == newWriteResp(c.verb)
           a == sel.Dynamic
           dyn == sel.Mode = "dynamic"
           seen == [r EXCEPT !.Accessed = recordAccessed(@, {Ref(c.db, c.table)}, sel)]
           si == dyn /\ IsStorageIntegrity(c.db, c.table, a)
           physical == rejectPhysicalObject(r, c, sel)
           safe == [seen EXCEPT
                     !.TableRewrites = recordRewrite(@, <<[from |-> qualify(c.db, c.table),
                                                           to |-> SafeTable(c, a)]>>),
                     !.After = Generated(SafeOutput(c, a))]
           q == ExistsTarget(c, sel)
<1>1. Blank(r) /\ r.Code = "Success" /\ DOMAIN r = Fields
  BY NewRespBlank DEF Blank
<1>2. q = IF c.accessEntity \/ (dyn /\ c.table = NoTable)
          THEN Rejected(r, "UnsupportedStatement", "notSupported")
          ELSE IF physical.Code # "Success" THEN physical
          ELSE IF c.objType # "TABLE" \/ c.table = NoTable THEN Refuse(r, "UnsupportedStatement")
          ELSE IF dyn /\ LookupStorageIntegrityPhysical(c.db, c.table, a)
               THEN Rejected(seen, "UnsupportedStatement", "siPhysical")
          ELSE IF si /\ ~AuthorizeStorageIntegrityLogical(c.db, a)
               THEN Rejected(seen, "InvalidRewriteRequest", "siUnauthorized")
          ELSE IF si /\ (c.verb = "show_create" \/ c.trailing \/ c.temporary)
               THEN Rejected(seen, "UnsupportedStatement", "notSupported")
          ELSE IF si THEN safe
          ELSE RewriteObject(c, sel, r)
  BY DEF ExistsTarget, ExistsTable
<1> HIDE DEF r
<1>a. DOMAIN seen = Fields /\ seen.DatabaseRewrites = EmptyMap /\ seen.PrivilegesDeltas = <<>>
  BY <1>1 DEF Blank, Fields
<1>3. \A code \in {"UnsupportedStatement", "InvalidRewriteRequest"} : \A msg :
         Rejected(seen, code, msg).Code # "Success"
  <2> HIDE DEF seen
  <2> QED BY <1>a, RejectedFails
<1>4. safe.After.out = SafeOutput(c, a) /\ safe.DatabaseRewrites = EmptyMap /\ safe.PrivilegesDeltas = <<>>
  <2> HIDE DEF seen
  <2> QED BY <1>a DEF Fields, Generated
<1>5. Refuse(r, "UnsupportedStatement").Code # "Success"
      /\ \A msg : Rejected(r, "UnsupportedStatement", msg).Code # "Success"
  BY <1>1, RejectedFails DEF Refuse
<1>6. dyn /\ c.objType = "TABLE" /\ physical.Code = "Success" =>
         ~IsStorageIntegrityPhysicalDatabase(LogicalOf(c.db, a), a)
  BY <1>1, PhysicalObjectPassed
<1>7. q.Code = "Success"
  OBVIOUS
<1> HIDE DEF seen, safe, physical, q
<1>8. /\ c.objType = "TABLE" /\ physical.Code = "Success" /\ c.table # NoTable
      /\ si => AuthorizeStorageIntegrityLogical(c.db, a) /\ c.verb # "show_create" /\ q = safe
      /\ ~si => q = RewriteObject(c, sel, r)
  BY <1>2, <1>3, <1>5, <1>7
<1>9. CASE si
  BY <1>4, <1>6, <1>8, <1>9 DEF ObjectShown, q
<1>10. CASE ~si
  <2>1. /\ SlotsClear(<<Ref(c.db, c.table)>>, c.verb, sel)
        /\ q.After.out = SlotOutput(<<Ref(c.db, c.table)>>, sel)
        /\ q.DatabaseRewrites = EmptyMap /\ q.PrivilegesDeltas = <<>>
    BY <1>1, <1>7, <1>8, <1>10, ObjectPassed
  <2> QED BY <1>6, <1>8, <1>10, <2>1 DEF ObjectShown, q
<1> QED BY <1>9, <1>10

---------------------------------------------------------------------------
(* The answer of GRANT and REVOKE. *)

(* The privileges before the first with columns, and their deltas. *)
Made(c) ==
    LET columns == {i \in DOMAIN c.privileges : c.privileges[i].columns}
    IN  IF columns = {} THEN Len(c.privileges) ELSE Min(columns) - 1

Deltas(c, a) == [i \in 1..Made(c) |-> PrivilegeDelta(c, c.privileges[i], a)]

(* What the answer q, a refusal too, tells. *)
GrantTold(c, sel, dyn, q) ==
    /\ q.DatabaseRewrites = EmptyMap /\ q.TableRewrites = EmptyMap
    /\ q.Message \notin {"unresolvedUnqualified", "systemTable"}
    /\ q.PrivilegesDeltas # <<>> \/ q.Code = "Success" =>
         /\ dyn.found /\ c.hasOn /\ ~c.anyDatabase /\ q.PrivilegesDeltas = Deltas(c, dyn.args)
         /\ \E stmt : GrantOnSI(c, sel, newWriteResp(stmt)).Code = "Success"
         /\ Made(c) > 0 => ResolvePhysicalDatabase(LogicalOf(c.db, dyn.args), dyn.args).ok
    /\ q.Code = "Success" => c.structured /\ q.After.out = {} /\ Made(c) = Len(c.privileges)

(* A response without maps, of a message that is not one of a gate's. *)
Silent(q) ==
    /\ DOMAIN q = Fields
    /\ q.DatabaseRewrites = EmptyMap /\ q.TableRewrites = EmptyMap
    /\ q.Message \notin {"unresolvedUnqualified", "systemTable"}

LEMMA GrantTells ==
    ASSUME NEW c, NEW opts
    PROVE  GrantTold(c, FindActive(opts), FindDynamicArgs(opts), GrantTarget(c, opts))
<1> DEFINE stmt == IF c.revoke THEN "revoke" ELSE "grant"
           r == newWriteResp(stmt)
           sel == FindActive(opts)
           dyn == FindDynamicArgs(opts)
           a == dyn.args
           si == GrantOnSI(c, sel, r)
           q == GrantTarget(c, opts)
           columns == {i \in DOMAIN c.privileges : c.privileges[i].columns}
           full == [r EXCEPT !.PrivilegesDeltas = Deltas(c, a)]
<1>1. Silent(r) /\ r.Code = "Success" /\ r.PrivilegesDeltas = <<>> /\ r.Message = "success"
  BY DEF newWriteResp, EmptyResponse, Silent, Fields
<1>2. q = IF si.Code # "Success" THEN si ELSE GrantStatement(c, dyn, r)
  BY DEF GrantTarget
<1> HIDE DEF sel, dyn, r, q
<1>3. si = r \/ (Silent(si) /\ si.Code # "Success" /\ si.PrivilegesDeltas = <<>>)
  <2> DEFINE muted(s) == Silent(s) /\ s.Code # "Success" /\ s.PrivilegesDeltas = <<>>
  <2>1. ASSUME NEW x, NEW code \in {"UnsupportedStatement", "InvalidRewriteRequest"},
               NEW msg \in {"siPhysical", "siWrite", "siUnauthorized"}
        PROVE  muted([Rejected(r, code, msg) EXCEPT !.Accessed = x])
    BY <1>1, <2>1 DEF Rejected, Silent, Fields
  <2>2. ASSUME NEW x, NEW code \in {"UnsupportedStatement", "InvalidRewriteRequest"},
               NEW msg \in {"siPhysical", "siWrite", "siUnauthorized"}
        PROVE  muted(Rejected([r EXCEPT !.Accessed = x], code, msg))
    BY <1>1, <2>2 DEF Rejected, Silent, Fields
  <2>3. Rejected(r, "UnsupportedStatement", "siPhysical").Accessed = r.Accessed
    BY <1>1 DEF Rejected, Silent, Fields
  <2> QED BY <2>1, <2>2, <2>3 DEF GrantOnSI
<1>4. ASSUME NEW code \in {"UnsupportedStatement", "InvalidRewriteRequest"}
      PROVE  /\ Silent(Refuse(r, code)) /\ Refuse(r, code).Code # "Success"
             /\ Refuse(r, code).PrivilegesDeltas = <<>>
  BY <1>1 DEF Refuse, Rejected, Silent, Fields
<1>5. /\ Silent(full) /\ full.PrivilegesDeltas = Deltas(c, a) /\ full.Code = "Success"
      /\ Silent(MarkerSelect(full)) /\ MarkerSelect(full).PrivilegesDeltas = Deltas(c, a)
      /\ MarkerSelect(full).After.out = {}
      /\ Silent(Refuse(full, "UnsupportedStatement")) /\ Refuse(full, "UnsupportedStatement").Code # "Success"
      /\ Refuse(full, "UnsupportedStatement").PrivilegesDeltas = Deltas(c, a)
  <2>1. Silent(full) /\ full.PrivilegesDeltas = Deltas(c, a) /\ full.Code = "Success"
        /\ full.Message = "success"
    BY <1>1 DEF Silent, Fields
  <2> HIDE DEF full
  <2> QED BY <2>1 DEF MarkerSelect, Generated, Refuse, Rejected, Silent, Fields
<1>6. GrantDeltas(c, a, r) =
        IF Made(c) > 0 /\ ~ResolvePhysicalDatabase(LogicalOf(c.db, a), a).ok
        THEN Refuse(r, "InvalidRewriteRequest")
        ELSE IF columns # {} THEN Refuse(full, "UnsupportedStatement")
        ELSE MarkerSelect(full)
  BY DEF GrantDeltas, Made, Deltas
<1>7. columns = {} => Made(c) = Len(c.privileges)
  BY DEF Made
<1> HIDE DEF full, columns, si, a
<1>8. CASE si.Code # "Success"
  <2>1. q = si /\ si # r
    BY <1>1, <1>2, <1>8
  <2> QED BY <1>3, <1>8, <2>1 DEF GrantTold, Silent, q, sel, dyn
<1>9. CASE si.Code = "Success" /\ q \in {Refuse(r, "UnsupportedStatement"), Refuse(r, "InvalidRewriteRequest")}
  <2>1. Silent(q) /\ q.Code # "Success" /\ q.PrivilegesDeltas = <<>>
    BY <1>4, <1>9
  <2> QED BY <2>1 DEF GrantTold, Silent, q, sel, dyn
<1>10. CASE /\ si.Code = "Success" /\ q \notin {Refuse(r, "UnsupportedStatement"), Refuse(r, "InvalidRewriteRequest")}
  <2>1. q = GrantDeltas(c, a, r) /\ dyn.found /\ c.hasOn /\ c.structured /\ ~c.anyDatabase
    BY <1>2, <1>10 DEF GrantStatement, a
  <2>2. Made(c) > 0 => ResolvePhysicalDatabase(LogicalOf(c.db, a), a).ok
    BY <1>6, <1>10, <2>1
  <2>3. IF columns # {} THEN q = Refuse(full, "UnsupportedStatement") ELSE q = MarkerSelect(full)
    BY <1>6, <1>10, <2>1
  <2>4. Silent(q) /\ q.PrivilegesDeltas = Deltas(c, a) /\ (q.Code = "Success" => q.After.out = {} /\ columns = {})
    BY <1>5, <2>3
  <2>5. GrantOnSI(c, sel, newWriteResp(stmt)).Code = "Success"
    BY <1>10 DEF si, r
  <2> QED BY <1>7, <2>1, <2>2, <2>4, <2>5 DEF GrantTold, Silent, a, q, sel, dyn
<1> QED BY <1>8, <1>9, <1>10
==============================================================================
