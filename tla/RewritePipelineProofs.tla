------------------------ MODULE RewritePipelineProofs ------------------------
(***************************************************************************)
(* The pipeline's guarantees for every set of requests: its type, that it  *)
(* fails closed, that a refusal gives the caller's SQL back, and that it   *)
(* implements RewriteContract.  None of them depends on what a request is. *)
(***************************************************************************)
EXTENDS RewriteProperties, HandlerProofs

Working == {"parse", "liveView", "parsedInFull", "preflight", "write", "dblevel", "describe",
            "exists", "grant", "select", "tail"}
Gates   == {"systemGate", "regenerated", "identity"}

(* The text a response carries, stage by stage: the echo until a handler   *)
(* answers, new SQL only behind a Success, the echo of the text in work    *)
(* until the clause is restored, then the caller's.                        *)
Carried ==
    /\ DOMAIN resp = Fields
    /\ pc \in Working => resp.After = Echo(text)
    /\ pc \in Working \cup Gates => resp.Code = "Success"
    /\ pc = "restore" /\ resp.Code # "Success" => resp.After = Echo(text)
    /\ RefusalEchoesCaller

IInv == TypeOK /\ Carried /\ DynamicNeverGoError /\ (pc = "idle" <=> req = NoRequest)

(* What a stage may leave behind: it touches nothing but the stage and the *)
(* response, and they agree.                                               *)
Leaves ==
    /\ UNCHANGED <<req, text, stripErr, siv, closed>>
    /\ pc' \in Stages \ {"idle"}
    /\ DOMAIN resp' = Fields /\ resp'.Code \in Codes
    /\ pc' \in Working => resp'.After = Echo(text)
    /\ pc' \in Working \cup Gates => resp'.Code = "Success"
    /\ pc' = "restore" /\ resp'.Code # "Success" => resp'.After = Echo(text)
    /\ pc' = "done" /\ resp'.Code # "Success" => resp'.After = Echo("caller")
    /\ pc' = "goError" => ~Dynamic

LEMMA LeavesIInv == IInv /\ pc # "idle" /\ Leaves => IInv'
  BY DEF IInv, TypeOK, Carried, RefusalEchoesCaller, DynamicNeverGoError, Leaves, Finished,
         Dynamic, Sel

---------------------------------------------------------------------------
(* finalize. *)

LEMMA AnnotatedSame ==
    ASSUME NEW r, DOMAIN r = Fields
    PROVE  LET q == AnnotateStorageIntegrityReject(r)
           IN  DOMAIN q = Fields /\ q.Code = r.Code /\ q.After = r.After
  BY DEF AnnotateStorageIntegrityReject, Fields

LEMMA RefusedEchoes ==
    ASSUME NEW r, DOMAIN r = Fields, r.After \in {NoText, Echo(text)}
    PROVE  DOMAIN Refused(r) = Fields /\ Refused(r).Code = r.Code /\ Refused(r).After = Echo(text)
<1> DEFINE q == [r EXCEPT !.StatementType = "UNSPECIFIED",
                          !.After = IF @ = NoText THEN Echo(text) ELSE @]
<1>1. DOMAIN q = Fields /\ q.Code = r.Code /\ q.After = Echo(text)
  BY DEF Fields
<1> HIDE DEF q
<1>2. LET a == AnnotateStorageIntegrityReject(q)
      IN  DOMAIN a = Fields /\ a.Code = q.Code /\ a.After = q.After
  BY <1>1, AnnotatedSame
<1> QED BY <1>1, <1>2 DEF Refused, q

(* finalize stamps an answer and echoes the SQL of a refusal. *)
LEMMA FinalizeLeaves ==
    ASSUME NEW r, Answers(r, text), Finalize(r), UNCHANGED <<req, text, stripErr, siv, closed>>
    PROVE  Leaves
<1> DEFINE s == [r EXCEPT !.ec = ec, !.siv = siv]
<1>1. DOMAIN s = Fields /\ s.Code = r.Code /\ s.After = r.After
  BY DEF Answers, Fields
<1> HIDE DEF s
<1>2. CASE r.Code = "Success"
  <2>1. pc' = "systemGate" /\ resp' = s
    BY <1>2 DEF Finalize, s
  <2> QED BY <1>1, <1>2, <2>1 DEF Leaves, Stages, Working, Gates, Codes
<1>3. CASE r.Code # "Success"
  <2>1. pc' = "restore" /\ resp' = Refused(s)
    BY <1>3 DEF Finalize, s
  <2>2. DOMAIN resp' = Fields /\ resp'.Code = r.Code /\ resp'.After = Echo(text)
    BY <1>1, <1>3, <2>1, RefusedEchoes DEF Answers
  <2> QED BY <1>3, <2>1, <2>2 DEF Leaves, Stages, Working, Gates, Answers
<1> QED BY <1>2, <1>3

(* The response in work, refused or passed on, is an answer. *)
LEMMA WorkingRejected ==
    ASSUME IInv, pc \in Working, NEW code \in Codes, NEW msg
    PROVE  Answers(Rejected(resp, code, msg), text)
  BY DEF IInv, Carried, Answers, Rejected, Fields

LEMMA SealLeaves ==
    ASSUME IInv, pc \in Working, sealStorageIntegrityHandlerError,
           UNCHANGED <<req, text, stripErr, siv, closed>>
    PROVE  Leaves
<1>1. CASE siv = "UNSPECIFIED" /\ ~Dynamic
  BY <1>1 DEF sealStorageIntegrityHandlerError, Leaves, Stages, Working, Gates, IInv, Carried, TypeOK
<1>2. CASE ~(siv = "UNSPECIFIED" /\ ~Dynamic)
  <2>1. PICK msg : Finalize(Rejected(resp, "UnsupportedStatement", msg))
    BY <1>2 DEF sealStorageIntegrityHandlerError
  <2>2. Answers(Rejected(resp, "UnsupportedStatement", msg), text)
    BY WorkingRejected DEF Codes
  <2> QED BY <2>1, <2>2, FinalizeLeaves
<1> QED BY <1>1, <1>2

(* A handler whose answers are well formed leaves the pipeline well formed. *)
LEMMA HandlerLeaves ==
    ASSUME IInv, NEW stage \in Working, NEW next \in Working, NEW result, NEW asks,
           result.handled => Answers(result.resp, text),
           Handler(stage, next, result, asks)
    PROVE  pc # "idle" /\ Leaves
<1>1. pc = stage /\ UNCHANGED <<req, text, stripErr, siv, closed>>
  BY DEF Handler
<1>2. CASE result.handled /\ Finalize(result.resp)
  BY <1>1, <1>2, FinalizeLeaves DEF Working
<1>3. CASE pc' = next /\ UNCHANGED resp
  BY <1>1, <1>3 DEF Leaves, Working, Gates, Stages, IInv, Carried, TypeOK
<1>4. CASE sealStorageIntegrityHandlerError
  BY <1>1, <1>4, SealLeaves DEF Working
<1> QED BY <1>2, <1>3, <1>4 DEF Handler

---------------------------------------------------------------------------
(* Every stage keeps the invariant. *)

LEMMA PrepareKeepsIInv ==
    IInv /\ (NothingToStrip \/ StripViewComment \/ StripCreateTableEmpty) => IInv'
<1> SUFFICES ASSUME IInv, NothingToStrip \/ StripViewComment \/ StripCreateTableEmpty PROVE IInv'
  OBVIOUS
<1>1. /\ pc = "strip" /\ pc' = "validate" /\ UNCHANGED <<req, resp, siv, ec, closed>>
      /\ text' \in {"caller", "stripped"} /\ stripErr' \in BOOLEAN
  BY DEF NothingToStrip, StripViewComment, StripCreateTableEmpty, IInv, TypeOK
<1> QED BY <1>1 DEF IInv, TypeOK, Carried, RefusalEchoesCaller, DynamicNeverGoError, Finished,
                    Working, Gates, Stages

LEMMA ValidateKeepsIInv == IInv /\ ValidateRequest => IInv'
<1> SUFFICES ASSUME IInv, ValidateRequest PROVE IInv'
  OBVIOUS
<1> DEFINE base == EmptyResponse(Echo(text))
<1>1. DOMAIN base = Fields /\ base.Code = "Success" /\ base.After = Echo(text)
  BY EmptyShape
<1> HIDE DEF base
<1>2. /\ siv' \in {"UNSPECIFIED", "V1", "V2"} /\ pc = "validate"
      /\ UNCHANGED <<req, text, stripErr, ec, closed>>
  BY DEF ValidateRequest
<1>3. PICK stamped : /\ stamped = [base EXCEPT !.siv = siv']
                     /\ \/ resp' = stamped /\ pc' = "parse"
                        \/ /\ resp' = Rejected(stamped, "InvalidRewriteRequest", "badConfiguration")
                           /\ pc' = "restore"
  BY DEF ValidateRequest, base
<1>4. DOMAIN stamped = Fields /\ stamped.Code = "Success" /\ stamped.After = Echo(text)
  BY <1>1, <1>3 DEF Fields
<1>5. /\ DOMAIN resp' = Fields /\ resp'.Code \in Codes /\ resp'.After = Echo(text)
      /\ pc' = "restore" \/ (pc' = "parse" /\ resp'.Code = "Success")
  BY <1>3, <1>4 DEF Rejected, Fields, Codes
<1> QED BY <1>2, <1>5 DEF IInv, TypeOK, Carried, RefusalEchoesCaller, DynamicNeverGoError, Finished,
                    Working, Gates, Stages

LEMMA ParseLeaves ==
    ASSUME IInv, ParseOne \/ ClassifyLiveView \/ CheckParsedInFull
    PROVE  pc # "idle" /\ Leaves
<1>1. CASE ParseOne
  BY <1>1 DEF ParseOne, Leaves, IInv, Carried, TypeOK, Working, Gates, Stages, Rejected, Fields, Codes
<1>2. ASSUME NEW msg, Finalize(Rejected(resp, "UnsupportedStatement", msg)), pc \in Working,
             UNCHANGED <<req, text, stripErr, siv, closed>>
      PROVE  Leaves
  <2>1. Answers(Rejected(resp, "UnsupportedStatement", msg), text)
    BY <1>2, WorkingRejected DEF Codes
  <2> QED BY <1>2, <2>1, FinalizeLeaves
<1>3. ASSUME pc \in Working, pc' \in Working, UNCHANGED <<req, text, stripErr, resp, siv, closed>>
      PROVE  Leaves
  BY <1>3 DEF Leaves, Working, Gates, Stages, IInv, Carried, TypeOK
<1>4. CASE ClassifyLiveView
  BY <1>2, <1>3, <1>4 DEF ClassifyLiveView, Working
<1>5. CASE CheckParsedInFull
  BY <1>2, <1>3, <1>5 DEF CheckParsedInFull, Working
<1> QED BY <1>1, <1>4, <1>5

LEMMA HandlersLeave ==
    ASSUME IInv, RunPreflight \/ RunWrite \/ RunDBLevel \/ RunDescribe \/ RunExists \/ RunGrant
                 \/ RunSelect
    PROVE  pc # "idle" /\ Leaves
<1>1. {"preflight", "write", "dblevel", "describe", "exists", "grant", "select", "tail"}
          \subseteq Working
  BY DEF Working
<1>2. CASE RunPreflight
  BY <1>1, <1>2, PreflightAnswers, HandlerLeaves DEF RunPreflight, PlainAnswer
<1>3. CASE RunWrite
  BY <1>1, <1>3, WriteAnswers, HandlerLeaves DEF RunWrite, PlainAnswer
<1>4. CASE RunSelect
  <2> DEFINE result == IF IsReadRoot(ParsedStatement)
                       THEN Handled(RewriteSelect(ParsedStatement, req.opts)) ELSE NotHandled
  <2>1. result.handled => Answers(result.resp, text)
    BY SelectAnswers DEF Handled, NotHandled, PlainAnswer
  <2> HIDE DEF result
  <2> QED BY <1>1, <1>4, <2>1, HandlerLeaves DEF RunSelect, result
<1>5. CASE RunDBLevel
  BY <1>1, <1>5, DBLevelAnswers, HandlerLeaves DEF RunDBLevel, PlainAnswer
<1>6. CASE RunDescribe
  BY <1>1, <1>6, DescribeAnswers, HandlerLeaves DEF RunDescribe, PlainAnswer
<1>7. CASE RunExists
  BY <1>1, <1>7, ExistsAnswers, HandlerLeaves DEF RunExists, PlainAnswer
<1>8. CASE RunGrant
  BY <1>1, <1>8, GrantAnswers, HandlerLeaves DEF RunGrant
<1> QED BY <1>2, <1>3, <1>4, <1>5, <1>6, <1>7, <1>8

LEMMA PassThroughLeaves ==
    ASSUME IInv, PassThrough
    PROVE  pc # "idle" /\ Leaves
<1>1. pc = "tail" /\ UNCHANGED <<req, text, stripErr, siv, closed>>
  BY DEF PassThrough
<1>2. ASSUME NEW msg PROVE Answers(Rejected(resp, "UnsupportedStatement", msg), text)
  BY <1>1, WorkingRejected DEF Working, Codes
<1>3. ASSUME NEW x
      PROVE  /\ Answers([[resp EXCEPT !.Message = "success"] EXCEPT !.After = Generated(x)], text)
             /\ Answers([resp EXCEPT !.Message = "success"], text)
  BY <1>1 DEF IInv, Carried, Answers, Fields, TypeOK, Working
<1>4. PICK r : Answers(r, text) /\ Finalize(r)
  BY <1>2, <1>3 DEF PassThrough
<1> QED BY <1>1, <1>4, FinalizeLeaves

---------------------------------------------------------------------------
(* The gates, and the restoring of the clause. *)

LEMMA RefuseSuccessLeaves ==
    ASSUME NEW r, NEW msg, DOMAIN r = Fields, RefuseSuccess(r, msg),
           UNCHANGED <<req, text, stripErr, siv, closed>>
    PROVE  Leaves
<1> DEFINE q == [Rejected(r, "UnsupportedStatement", msg) EXCEPT !.After = Echo(text)]
<1>1. DOMAIN q = Fields /\ q.Code = "UnsupportedStatement" /\ q.After = Echo(text)
  BY DEF Rejected, Fields
<1>2. pc' = "restore" /\ resp' = Refused(q)
  BY DEF RefuseSuccess
<1> HIDE DEF q
<1>3. DOMAIN resp' = Fields /\ resp'.Code = "UnsupportedStatement" /\ resp'.After = Echo(text)
  BY <1>1, <1>2, RefusedEchoes
<1> QED BY <1>2, <1>3 DEF Leaves, Stages, Working, Gates, Codes

LEMMA GatesLeave ==
    ASSUME IInv, SystemTableGate \/ CheckRegenerated \/ FirstDeploymentIdentityName
    PROVE  pc # "idle" /\ Leaves
<1>1. /\ pc \in Gates /\ pc # "idle" /\ UNCHANGED <<req, text, stripErr, siv, closed>>
      /\ DOMAIN resp = Fields /\ resp.Code = "Success"
  BY DEF SystemTableGate, CheckRegenerated, FirstDeploymentIdentityName, Gates, IInv, Carried
<1>2. CASE pc' \in Gates \cup {"restore"} /\ UNCHANGED resp
  BY <1>1, <1>2 DEF Leaves, Stages, Working, Gates, Codes
<1>3. CASE /\ pc' = "restore"
           /\ resp' = Refused([rejectSystemTable(resp, ParsedStatement, Sel) EXCEPT
                                  !.After = Echo(text)])
  <2> DEFINE q == [rejectSystemTable(resp, ParsedStatement, Sel) EXCEPT !.After = Echo(text)]
  <2>1. DOMAIN q = Fields /\ q.Code = "UnsupportedStatement" /\ q.After = Echo(text)
    BY <1>1 DEF rejectSystemTable, Rejected, Fields
  <2> HIDE DEF q
  <2>2. DOMAIN resp' = Fields /\ resp'.Code = "UnsupportedStatement" /\ resp'.After = Echo(text)
    BY <1>3, <2>1, RefusedEchoes DEF q
  <2> QED BY <1>1, <1>3, <2>2 DEF Leaves, Stages, Working, Gates, Codes
<1>4. CASE \E msg : RefuseSuccess([resp EXCEPT !.TableRewrites = EmptyMap,
                              !.DatabaseRewrites = EmptyMap, !.PrivilegesDeltas = <<>>], msg)
  <2> DEFINE q == [resp EXCEPT !.TableRewrites = EmptyMap, !.DatabaseRewrites = EmptyMap,
                               !.PrivilegesDeltas = <<>>]
  <2> PICK msg : RefuseSuccess(q, msg)
    BY <1>4
  <2>1. DOMAIN q = Fields /\ RefuseSuccess(q, msg)
    BY <1>1
  <2> HIDE DEF q
  <2> QED BY <1>1, <2>1, RefuseSuccessLeaves
<1>5. CASE \E msg : RefuseSuccess(resp, msg)
  <2> PICK msg : RefuseSuccess(resp, msg)
    BY <1>5
  <2> QED BY <1>1, RefuseSuccessLeaves
<1>6. CASE SystemTableGate
  BY <1>2, <1>3, <1>4, <1>6 DEF SystemTableGate, Gates
<1>7. CASE CheckRegenerated
  BY <1>2, <1>5, <1>7 DEF CheckRegenerated, Gates
<1>8. CASE FirstDeploymentIdentityName
  BY <1>2, <1>5, <1>8 DEF FirstDeploymentIdentityName, Gates
<1> QED BY <1>6, <1>7, <1>8

LEMMA RestoreLeaves ==
    ASSUME IInv, Restore
    PROVE  pc # "idle" /\ Leaves
<1>1. /\ pc = "restore" /\ UNCHANGED <<req, text, stripErr, siv, closed>>
      /\ DOMAIN resp = Fields /\ resp.Code \in Codes
      /\ resp.Code # "Success" => resp.After = Echo(text)
  BY DEF Restore, IInv, Carried, TypeOK
<1>2. CASE text = "caller" /\ pc' = "done" /\ UNCHANGED resp
  BY <1>1, <1>2 DEF Leaves, Stages, Working, Gates
<1>3. CASE pc' = "done" /\ resp' = [resp EXCEPT !.After = Echo("caller")]
  BY <1>1, <1>3 DEF Leaves, Stages, Working, Gates, Fields
<1>4. CASE resp.Code = "Success" /\ pc' = "done" /\ resp' = [resp EXCEPT !.After = Restored(@)]
  BY <1>1, <1>4 DEF Leaves, Stages, Working, Gates, Fields
<1>5. CASE sealCreateTableEmpty
  <2>1. CASE ~Dynamic
    BY <1>1, <1>5, <2>1 DEF sealCreateTableEmpty, Leaves, Stages, Working, Gates
  <2>2. CASE Dynamic
    <3> DEFINE e == EmptyResponse(Echo("caller"))
               m == IF resp.siv = "UNSPECIFIED" THEN "notSupported" ELSE "siUnmodelled"
    <3>a. DOMAIN e = Fields /\ e.After = Echo("caller")
      BY EmptyShape
    <3>b. pc' = "done" /\ resp' = [e EXCEPT !.Code = "UnsupportedStatement", !.Message = m,
                                            !.ec = resp.ec, !.siv = resp.siv]
      BY <1>5, <2>2 DEF sealCreateTableEmpty
    <3> HIDE DEF e, m
    <3>1. pc' = "done" /\ DOMAIN resp' = Fields /\ resp'.Code = "UnsupportedStatement"
          /\ resp'.After = Echo("caller")
      BY <3>a, <3>b DEF Fields
    <3> QED BY <1>1, <3>1 DEF Leaves, Stages, Working, Gates, Codes
  <2> QED BY <2>1, <2>2
<1> QED BY <1>1, <1>2, <1>3, <1>4, <1>5 DEF Restore

---------------------------------------------------------------------------
(* The invariant. *)

LEMMA InitHasIInv == Init => IInv
<1> SUFFICES ASSUME Init PROVE IInv
  OBVIOUS
<1>1. DOMAIN resp = Fields /\ resp.Code = "Success"
  BY EmptyShape DEF Init
<1> QED BY <1>1 DEF Init, IInv, TypeOK, Carried, RefusalEchoesCaller, DynamicNeverGoError,
                    Finished, Working, Gates, Stages, Codes

LEMMA StepKeepsIInv == IInv /\ [Next]_vars => IInv'
<1> SUFFICES ASSUME IInv, [Next]_vars PROVE IInv'
  OBVIOUS
<1>1. ASSUME NEW r \in Requests, Call(r) PROVE IInv'
  BY <1>1, RequestAssumption DEF Call, IInv, TypeOK, Carried, RefusalEchoesCaller,
         DynamicNeverGoError, Finished, Working, Gates, Stages
<1>2. CASE NothingToStrip \/ StripViewComment \/ StripCreateTableEmpty
  BY <1>2, PrepareKeepsIInv
<1>3. CASE ValidateRequest
  BY <1>3, ValidateKeepsIInv
<1>4. CASE ParseOne \/ ClassifyLiveView \/ CheckParsedInFull
  BY <1>4, ParseLeaves, LeavesIInv
<1>5. CASE RunPreflight \/ RunWrite \/ RunDBLevel \/ RunDescribe \/ RunExists \/ RunGrant
           \/ RunSelect
  BY <1>5, HandlersLeave, LeavesIInv
<1>6. CASE PassThrough
  BY <1>6, PassThroughLeaves, LeavesIInv
<1>7. CASE SystemTableGate \/ CheckRegenerated \/ FirstDeploymentIdentityName
  BY <1>7, GatesLeave, LeavesIInv
<1>8. CASE Restore
  BY <1>8, RestoreLeaves, LeavesIInv
<1>9. CASE Return
  <2>1. DOMAIN resp' = Fields /\ resp'.Code = "Success"
    BY <1>9, EmptyShape DEF Return
  <2> QED BY <1>9, <2>1 DEF Return, IInv, TypeOK, Carried, RefusalEchoesCaller,
                DynamicNeverGoError, Finished, Working, Gates, Stages, Codes
<1>10. CASE Close \/ UNCHANGED vars
  BY <1>10 DEF Close, vars, IInv, TypeOK, Carried, RefusalEchoesCaller, DynamicNeverGoError,
         Finished, Dynamic, Sel
<1> QED BY <1>1, <1>2, <1>3, <1>4, <1>5, <1>6, <1>7, <1>8, <1>9, <1>10 DEF Next, Step

LEMMA Invariance == Spec => []IInv
  BY InitHasIInv, StepKeepsIInv, PTL DEF Spec

(* The pipeline's state keeps its shape, whatever the requests are. *)
THEOREM TypeCorrect == Spec => []TypeOK
<1>1. IInv => TypeOK
  BY DEF IInv
<1> QED BY <1>1, Invariance, PTL

(* A dynamic request never ends in a Go error, whatever stage the engine   *)
(* fails in and whenever it is closed (sealStorageIntegrityHandlerError    *)
(* and sealCreateTableEmpty, native.go).                                   *)
THEOREM FailsClosed == Spec => []DynamicNeverGoError
<1>1. IInv => DynamicNeverGoError
  BY DEF IInv
<1> QED BY <1>1, Invariance, PTL

(* A refusal hands back the caller's SQL, whichever handler or gate made   *)
(* it and whatever was stripped before (finalize and doRewrite, native.go).*)
THEOREM RefusalsEcho == Spec => []RefusalEchoesCaller
<1>1. IInv => RefusalEchoesCaller
  BY DEF IInv, Carried
<1> QED BY <1>1, Invariance, PTL

---------------------------------------------------------------------------
(* The pipeline implements the contract. *)

LEMMA NotAnswered ==
    pc \notin {"done", "goError"} => ContractAnswer = Contract!NoAnswer
  BY DEF ContractAnswer, Contract!NoAnswer, Finished

LEMMA AnswerPromised ==
    IInv /\ pc \in {"done", "goError"} =>
        ContractAnswer \in Contract!Promised(req) /\ ContractAnswer # Contract!NoAnswer
<1> SUFFICES ASSUME IInv, pc \in {"done", "goError"}
             PROVE  ContractAnswer \in Contract!Promised(req) /\ ContractAnswer # Contract!NoAnswer
  OBVIOUS
<1>1. CASE pc = "goError"
  <2>1. req \notin DynamicRequests
    BY <1>1 DEF IInv, DynamicNeverGoError, Dynamic, Sel, DynamicRequests
  <2> QED BY <1>1, <2>1 DEF ContractAnswer, Contract!Promised, Contract!GoError,
                            Contract!NoAnswer, Finished
<1>2. CASE pc = "done" /\ resp.Code = "Success"
  BY <1>2 DEF ContractAnswer, Contract!Promised, Contract!Success, Contract!NoAnswer, Finished
<1>3. CASE pc = "done" /\ resp.Code # "Success"
  <2>1. resp.After.text = "caller"
    BY <1>3 DEF IInv, Carried, RefusalEchoesCaller, Finished, Echo
  <2> QED BY <1>3, <2>1 DEF ContractAnswer, Contract!Promised, Contract!Refusal,
                            Contract!NoAnswer, Finished
<1> QED BY <1>1, <1>2, <1>3

(* Inside a call the answer appears once, and the request stays. *)
LEMMA StepInsideCall ==
    Step => pc \notin {"idle", "done", "goError"} /\ UNCHANGED req
  BY DEF Step, NothingToStrip, StripViewComment, StripCreateTableEmpty, ValidateRequest, ParseOne,
         ClassifyLiveView, CheckParsedInFull, RunPreflight, RunWrite, RunDBLevel, RunDescribe,
         RunExists, RunGrant, RunSelect, Handler,
         PassThrough, SystemTableGate, CheckRegenerated, FirstDeploymentIdentityName, Restore

LEMMA StepIsAllowed ==
    IInv /\ IInv' /\ [Next]_vars => [Contract!Next]_<<req, ContractAnswer>>
<1> SUFFICES ASSUME IInv, IInv', [Next]_vars PROVE [Contract!Next]_<<req, ContractAnswer>>
  OBVIOUS
<1>1. ASSUME NEW r \in Requests, Call(r) PROVE Contract!Begin(r)
  BY <1>1 DEF Call, IInv, Contract!Begin, ContractAnswer, Finished
<1>2. CASE Step
  <2>1. pc \notin {"idle", "done", "goError"} /\ UNCHANGED req
    BY <1>2, StepInsideCall
  <2>2. ContractAnswer = Contract!NoAnswer /\ req # NoRequest
    BY <2>1, NotAnswered DEF IInv
  <2>3. CASE pc' \notin {"done", "goError"}
    BY <2>1, <2>2, <2>3 DEF ContractAnswer, Contract!NoAnswer, Finished
  <2>4. CASE pc' \in {"done", "goError"}
    <3>1. (IInv /\ pc \in {"done", "goError"})'
      BY <2>4
    <3>2. (ContractAnswer \in Contract!Promised(req) /\ ContractAnswer # Contract!NoAnswer)'
      BY <3>1, AnswerPromised, PTL
    <3> QED BY <2>1, <2>2, <3>2 DEF Contract!Answer, Contract!Next
  <2> QED BY <2>3, <2>4
<1>3. CASE Return
  <2>1. ContractAnswer # Contract!NoAnswer
    BY <1>3, AnswerPromised DEF Return
  <2> QED BY <1>3, <2>1 DEF Return, Contract!End, Contract!Next, Contract!NoAnswer, ContractAnswer,
                            Finished
<1>4. CASE Close \/ UNCHANGED vars
  BY <1>4 DEF Close, vars, ContractAnswer, Finished
<1> QED BY <1>1, <1>2, <1>3, <1>4 DEF Next, Contract!Next

(* Every behaviour of the pipeline is one the contract allows. *)
THEOREM Implements == Spec => ImplementsContract
<1>1. Init => Contract!Init
  BY DEF Init, Contract!Init, ContractAnswer, Contract!NoAnswer, Finished
<1> QED BY <1>1, Invariance, StepIsAllowed, PTL DEF Spec, ImplementsContract, Contract!Spec

---------------------------------------------------------------------------
(* What a finished call tells: where a Success comes from and which checks *)
(* it has passed.                                                          *)

(* The contract version a response has to acknowledge. *)
Acked ==
    IF /\ Dynamic /\ StorageIntegritySurfaceActive(Sel.Dynamic)
       /\ Sel.Dynamic.si.version \in {"V1", "V2"}
       /\ ValidateStorageIntegrity(Sel.Dynamic)
    THEN Sel.Dynamic.si.version ELSE "UNSPECIFIED"

(* The options passed their validation. *)
Valid ==
    /\ SIActive(Sel) => /\ siv # "UNSPECIFIED" /\ ValidateStorageIntegrity(Sel.Dynamic)
                        /\ Sel.Dynamic.si.version \in {"V1", "V2"}
    /\ Dynamic => ValidateProtectedDatabases(Sel.Dynamic)

(* What each check and each handler says of the statement in work. *)
NoLiveView ==
    siv # "UNSPECIFIED" /\ ParsedStatement.kind \in {"create_view", "raw", "command"}
        => "liveView" \notin ParsedStatement.marks
NoTail     == "unparsedTail" \notin ParsedStatement.marks
PreflightAnswer == PreflightTableReferences(ParsedStatement, text, Sel)
Write      == RewriteWrite(ParsedStatement, text, req.opts)
DBLevel    == RewriteDBLevel(ParsedStatement, text, req.opts)
Describe   == RewriteDescribe(ParsedStatement, req.opts)
Exists     == RewriteExistsShowCreate(ParsedStatement, req.opts)
Grant      == RewriteGrant(ParsedStatement, req.opts)
ReadAnswer == IF IsReadRoot(ParsedStatement) THEN Handled(RewriteSelect(ParsedStatement, req.opts))
                                             ELSE NotHandled

(* The handlers after the write pipeline. *)
Later == {DBLevel, Describe, Exists, Grant, ReadAnswer}

(* The response tells what the answer q tells. *)
Tells(q) ==
    /\ resp.After.out = q.After.out /\ resp.Accessed = q.Accessed
    /\ resp.TableRewrites = q.TableRewrites /\ resp.DatabaseRewrites = q.DatabaseRewrites
    /\ resp.PrivilegesDeltas = q.PrivilegesDeltas

(* A response no handler has touched. *)
Fresh ==
    /\ resp.Accessed = {} /\ resp.TableRewrites = EmptyMap
    /\ resp.DatabaseRewrites = EmptyMap /\ resp.PrivilegesDeltas = <<>>

(* A statement no handler models, passed through. *)
PassedOn ==
    /\ siv = "UNSPECIFIED" /\ (Dynamic => sessionSet) /\ Fresh
    /\ \A h \in {Write} \cup Later : ~h.handled
    /\ \A o \in resp.After.out : \E i \in DOMAIN ParsedStatement.reads :
          LET r == ParsedStatement.reads[i] IN o = OutRef("table", r.db, r.table, r, "caller")

(* Where a Success comes from. *)
Origin ==
    \/ \E h \in {Write} \cup Later : h.handled /\ h.resp.Code = "Success" /\ Tells(h.resp)
    \/ PassedOn

Whole == {"preflight", "write", "dblevel", "describe", "exists", "grant", "select", "tail"}
Succeeding == pc \in Gates \/ (pc \in {"restore", "done"} /\ resp.Code = "Success")

(* The stages a call has behind it, and what they established. *)
Behind ==
    /\ pc \in Working \cup Gates \cup {"restore", "done"} => siv = Acked /\ resp.siv = siv
    /\ pc \in Working => Fresh
    /\ pc \in Working \/ Succeeding => Valid
    /\ pc \in Whole \cup {"parsedInFull"} \/ Succeeding => NoLiveView
    /\ pc \in Whole \/ Succeeding => NoTail
    /\ pc \in Whole \ {"preflight"} \/ Succeeding => ~PreflightAnswer.handled
    /\ pc \in Whole \ {"preflight", "write"} => ~Write.handled
    /\ pc \in {"describe", "exists", "grant", "select", "tail"} => ~DBLevel.handled
    /\ pc \in {"exists", "grant", "select", "tail"} => ~Describe.handled
    /\ pc \in {"grant", "select", "tail"} => ~Exists.handled
    /\ pc \in {"select", "tail"} => ~Grant.handled
    /\ pc = "tail" => ~ReadAnswer.handled
    /\ Succeeding => Origin /\ (Write.handled => Write.resp.Code = "Success")
    /\ Succeeding /\ pc # "systemGate" => ~RejectSystemTablesOnSuccess(ParsedStatement, Sel)
    /\ Succeeding /\ pc \notin {"systemGate", "regenerated"} => "dropsTokens" \notin ParsedStatement.marks
    /\ Succeeding /\ pc \in {"restore", "done"} /\ Dynamic => "identity" \notin ParsedStatement.marks

---------------------------------------------------------------------------
(* finalize: what it keeps of the answer it stamps. *)

LEMMA AnnotatedKeeps ==
    ASSUME NEW r, DOMAIN r = Fields
    PROVE  LET q == AnnotateStorageIntegrityReject(r)
           IN  /\ DOMAIN q = Fields /\ q.Code = r.Code /\ q.siv = r.siv
               /\ q.TableRewrites = r.TableRewrites /\ q.DatabaseRewrites = r.DatabaseRewrites
               /\ q.PrivilegesDeltas = r.PrivilegesDeltas
               /\ q.Message \in {r.Message, "siWrite", "siPhysical"}
  BY DEF AnnotateStorageIntegrityReject, Fields

LEMMA RefusedKeeps ==
    ASSUME NEW r, DOMAIN r = Fields
    PROVE  LET q == Refused(r)
           IN  /\ DOMAIN q = Fields /\ q.Code = r.Code /\ q.siv = r.siv
               /\ q.TableRewrites = r.TableRewrites /\ q.DatabaseRewrites = r.DatabaseRewrites
               /\ q.PrivilegesDeltas = r.PrivilegesDeltas
               /\ q.Message \in {r.Message, "siWrite", "siPhysical"}
<1> DEFINE q == [r EXCEPT !.StatementType = "UNSPECIFIED",
                          !.After = IF @ = NoText THEN Echo(text) ELSE @]
<1>1. /\ DOMAIN q = Fields /\ q.Code = r.Code /\ q.siv = r.siv /\ q.Message = r.Message
      /\ q.TableRewrites = r.TableRewrites /\ q.DatabaseRewrites = r.DatabaseRewrites
      /\ q.PrivilegesDeltas = r.PrivilegesDeltas
  BY DEF Fields
<1>2. Refused(r) = IF siv = "UNSPECIFIED" THEN q ELSE AnnotateStorageIntegrityReject(q)
  BY DEF Refused
<1> HIDE DEF q
<1> QED BY <1>1, <1>2, AnnotatedKeeps

(* Where finalize sends an answer, and what it leaves of it. *)
LEMMA FinalizeSends ==
    ASSUME NEW r, DOMAIN r = Fields, Finalize(r)
    PROVE  /\ resp'.siv = siv
           /\ resp'.TableRewrites = r.TableRewrites /\ resp'.DatabaseRewrites = r.DatabaseRewrites
           /\ resp'.PrivilegesDeltas = r.PrivilegesDeltas
           /\ \/ /\ r.Code = "Success" /\ pc' = "systemGate" /\ resp'.Code = "Success"
                 /\ resp'.After = r.After /\ resp'.Accessed = r.Accessed /\ resp'.Message = r.Message
              \/ /\ r.Code # "Success" /\ pc' = "restore" /\ resp'.Code # "Success"
                 /\ resp'.Message \in {r.Message, "siWrite", "siPhysical"}
<1> DEFINE s == [r EXCEPT !.ec = ec, !.siv = siv]
<1>1. /\ DOMAIN s = Fields /\ s.siv = siv /\ s.Code = r.Code /\ s.After = r.After
      /\ s.Accessed = r.Accessed /\ s.Message = r.Message
      /\ s.TableRewrites = r.TableRewrites /\ s.DatabaseRewrites = r.DatabaseRewrites
      /\ s.PrivilegesDeltas = r.PrivilegesDeltas
  BY DEF Fields
<1>2. IF r.Code = "Success" THEN pc' = "systemGate" /\ resp' = s
                            ELSE pc' = "restore" /\ resp' = Refused(s)
  BY DEF Finalize
<1> HIDE DEF s
<1> QED BY <1>1, <1>2, RefusedKeeps

---------------------------------------------------------------------------
(* A step inside a call keeps what the request and the text determine. *)

LEMMA SameCall ==
    ASSUME UNCHANGED <<req, text>>
    PROVE  /\ UNCHANGED <<Sel, Dynamic, ParsedStatement, Acked, NoTail, sessionSet>>
           /\ UNCHANGED <<PreflightAnswer, Write, DBLevel, Describe, Exists, Grant, ReadAnswer, Later>>
           /\ siv' = siv => UNCHANGED <<Valid, NoLiveView>>
<1>1. UNCHANGED <<Sel, Dynamic, ParsedStatement>>
  BY DEF Sel, Dynamic, ParsedStatement
<1> QED BY <1>1 DEF Acked, NoTail, sessionSet, PreflightAnswer, Write, DBLevel, Describe, Exists, Grant,
                    ReadAnswer, Later, Valid, NoLiveView

(* A refusal owes nothing but the acknowledgement. *)
LEMMA RefusalBehind ==
    ASSUME Behind, UNCHANGED <<req, text, siv>>, pc \in Working \cup Gates \cup {"restore"},
           pc' \in {"restore", "done"}, resp'.Code # "Success", resp'.siv = siv
    PROVE  Behind'
<1>1. Acked' = Acked
  BY SameCall
<1>2. pc' \notin Working /\ pc' \notin Gates /\ pc' \notin Whole /\ ~Succeeding'
  BY DEF Working, Gates, Whole, Succeeding
<1> QED BY <1>1, <1>2 DEF Behind, Whole

LEMMA FinalRefusal ==
    ASSUME IInv, Behind, UNCHANGED <<req, text, siv>>, pc \in Working, NEW msg,
           Finalize(Rejected(resp, "UnsupportedStatement", msg))
    PROVE  Behind'
<1> DEFINE r == Rejected(resp, "UnsupportedStatement", msg)
<1>1. DOMAIN r = Fields /\ r.Code # "Success"
  BY DEF IInv, Carried, Rejected, Fields
<1> HIDE DEF r
<1>2. pc' = "restore" /\ resp'.Code # "Success" /\ resp'.siv = siv
  BY <1>1, FinalizeSends DEF r
<1> QED BY <1>2, RefusalBehind

LEMMA SealBehind ==
    ASSUME IInv, Behind, UNCHANGED <<req, text, siv>>, pc \in Working,
           sealStorageIntegrityHandlerError
    PROVE  Behind'
<1>1. CASE pc' = "goError"
  BY <1>1 DEF Behind, Working, Gates, Whole, Succeeding
<1>2. CASE pc' # "goError"
  <2>1. PICK msg : Finalize(Rejected(resp, "UnsupportedStatement", msg))
    BY <1>2 DEF sealStorageIntegrityHandlerError
  <2> QED BY <2>1, FinalRefusal
<1> QED BY <1>1, <1>2

(* A handler's Success goes to the gates with its origin. *)
LEMMA AnswerBehind ==
    ASSUME IInv, Behind, UNCHANGED <<req, text, siv>>, pc \in Whole \ {"preflight", "tail"},
           NEW h \in {Write} \cup Later, h.handled, Answers(h.resp, text),
           h = Write \/ ~Write.handled, Finalize(h.resp)
    PROVE  Behind'
<1> DEFINE r == h.resp
<1>1. DOMAIN r = Fields
  BY DEF Answers
<1>2. pc \in Working
  BY DEF Whole, Working
<1>3. CASE r.Code # "Success"
  BY <1>1, <1>2, <1>3, FinalizeSends, RefusalBehind
<1>4. CASE r.Code = "Success"
  <2>1. /\ pc' = "systemGate" /\ resp'.Code = "Success" /\ resp'.siv = siv
        /\ resp'.TableRewrites = r.TableRewrites /\ resp'.DatabaseRewrites = r.DatabaseRewrites
        /\ resp'.PrivilegesDeltas = r.PrivilegesDeltas
        /\ resp'.After = r.After /\ resp'.Accessed = r.Accessed
    BY <1>1, <1>4, FinalizeSends
  <2>2. /\ UNCHANGED <<Sel, Dynamic, ParsedStatement, Acked, NoTail>>
        /\ UNCHANGED <<PreflightAnswer, Write, Later, Valid, NoLiveView>>
    BY SameCall
  <2>3. Origin'
    <3>1. Tells(r)'
      BY <2>1 DEF Tells
    <3> QED BY <1>4, <2>2, <3>1 DEF Origin
  <2>4. siv = Acked /\ Valid /\ NoLiveView /\ NoTail /\ ~PreflightAnswer.handled
    BY <1>2 DEF Behind, Whole
  <2>5. Write.handled => Write.resp.Code = "Success"
    BY <1>4
  <2> HIDE DEF r
  <2>6. pc' \notin Working /\ pc' \notin Whole /\ pc' \in Gates
    BY <2>1 DEF Working, Whole, Gates
  <2> QED BY <2>1, <2>2, <2>3, <2>4, <2>5, <2>6 DEF Behind
<1> QED BY <1>3, <1>4

LEMMA HandlerBehind ==
    ASSUME IInv, Behind, NEW stage \in Whole \ {"preflight", "tail"}, NEW next,
           NEW h \in {Write} \cup Later, h = Write \/ ~Write.handled,
           h.handled => Answers(h.resp, text), Handler(stage, next, h, TRUE),
           pc' = next /\ ~h.handled /\ UNCHANGED <<req, text, siv, resp>> => Behind'
    PROVE  Behind'
<1>1. pc = stage /\ UNCHANGED <<req, text, siv>> /\ pc \in Working
  BY DEF Handler, Whole, Working
<1>2. CASE h.handled /\ Finalize(h.resp)
  BY <1>1, <1>2, AnswerBehind
<1>3. CASE ~h.handled /\ pc' = next /\ UNCHANGED resp
  BY <1>1, <1>3
<1>4. CASE sealStorageIntegrityHandlerError
  BY <1>1, <1>4, SealBehind
<1> QED BY <1>2, <1>3, <1>4 DEF Handler

(* A stage of the handlers that declines: the next one starts. *)
LEMMA NextStage ==
    ASSUME Behind, UNCHANGED <<req, text, siv, resp>>, pc \in Whole
    PROVE  /\ pc = "preflight" /\ pc' = "write" /\ ~PreflightAnswer.handled => Behind'
           /\ pc = "write" /\ pc' = "dblevel" /\ ~Write.handled => Behind'
           /\ pc = "dblevel" /\ pc' = "describe" /\ ~DBLevel.handled => Behind'
           /\ pc = "describe" /\ pc' = "exists" /\ ~Describe.handled => Behind'
           /\ pc = "exists" /\ pc' = "grant" /\ ~Exists.handled => Behind'
           /\ pc = "grant" /\ pc' = "select" /\ ~Grant.handled => Behind'
           /\ pc = "select" /\ pc' = "tail" /\ ~ReadAnswer.handled => Behind'
<1>1. /\ UNCHANGED <<Sel, Dynamic, ParsedStatement, Acked, NoTail>>
      /\ UNCHANGED <<PreflightAnswer, Write, DBLevel, Describe, Exists, Grant, ReadAnswer, Later>>
      /\ UNCHANGED <<Valid, NoLiveView, Fresh>>
  BY SameCall DEF Fresh
<1>2. Whole \subseteq Working /\ ~Succeeding /\ (pc' \in Whole => ~Succeeding')
  BY DEF Whole, Working, Succeeding, Gates
<1> QED BY <1>1, <1>2 DEF Behind, Whole

LEMMA HandlersBehind ==
    ASSUME IInv, Behind, RunWrite \/ RunDBLevel \/ RunDescribe \/ RunExists \/ RunGrant \/ RunSelect
    PROVE  Behind'
<1>1. {Write, DBLevel, Describe, Exists, Grant, ReadAnswer} \subseteq {Write} \cup Later
  BY DEF Later
<1>2. pc \in Whole \ {"preflight", "write"} => ~Write.handled
  BY DEF Behind
<1>3. {"write", "dblevel", "describe", "exists", "grant", "select"} \subseteq Whole \ {"preflight", "tail"}
  BY DEF Whole
<1>4. CASE RunWrite
  <2>1. Write.handled => Answers(Write.resp, text)
    BY WriteAnswers DEF Write, PlainAnswer
  <2>2. Handler("write", "dblevel", Write, TRUE) /\ pc = "write"
    BY <1>4 DEF RunWrite, Handler, Write
  <2> QED BY <1>1, <1>3, <2>1, <2>2, HandlerBehind, NextStage
<1>5. CASE RunDBLevel
  <2>1. DBLevel.handled => Answers(DBLevel.resp, text)
    BY DBLevelAnswers DEF DBLevel, PlainAnswer
  <2>2. Handler("dblevel", "describe", DBLevel, TRUE) /\ pc = "dblevel"
    BY <1>5 DEF RunDBLevel, Handler, DBLevel
  <2> QED BY <1>1, <1>2, <1>3, <2>1, <2>2, HandlerBehind, NextStage
<1>6. CASE RunDescribe
  <2>1. Describe.handled => Answers(Describe.resp, text)
    BY DescribeAnswers DEF Describe, PlainAnswer
  <2>2. Handler("describe", "exists", Describe, TRUE) /\ pc = "describe"
    BY <1>6 DEF RunDescribe, Handler, Describe
  <2> QED BY <1>1, <1>2, <1>3, <2>1, <2>2, HandlerBehind, NextStage
<1>7. CASE RunExists
  <2>1. Exists.handled => Answers(Exists.resp, text)
    BY ExistsAnswers DEF Exists, PlainAnswer
  <2>2. Handler("exists", "grant", Exists, TRUE) /\ pc = "exists"
    BY <1>7 DEF RunExists, Handler, Exists
  <2> QED BY <1>1, <1>2, <1>3, <2>1, <2>2, HandlerBehind, NextStage
<1>8. CASE RunGrant
  <2>1. Grant.handled => Answers(Grant.resp, text)
    BY GrantAnswers DEF Grant
  <2>2. Handler("grant", "select", Grant, TRUE) /\ pc = "grant"
    BY <1>8 DEF RunGrant, Handler, Grant
  <2> QED BY <1>1, <1>2, <1>3, <2>1, <2>2, HandlerBehind, NextStage
<1>9. CASE RunSelect
  <2>1. ReadAnswer.handled => Answers(ReadAnswer.resp, text)
    BY SelectAnswers DEF ReadAnswer, Handled, NotHandled, PlainAnswer
  <2>2. Handler("select", "tail", ReadAnswer, TRUE) /\ pc = "select"
    BY <1>9 DEF RunSelect, Handler, ReadAnswer
  <2> QED BY <1>1, <1>2, <1>3, <2>1, <2>2, HandlerBehind, NextStage
<1> QED BY <1>4, <1>5, <1>6, <1>7, <1>8, <1>9

LEMMA PreflightBehind ==
    ASSUME IInv, Behind, RunPreflight
    PROVE  Behind'
<1> DEFINE h == PreflightAnswer
<1>1. /\ Handler("preflight", "write", h, TRUE) /\ pc = "preflight" /\ UNCHANGED <<req, text, siv>>
      /\ pc \in Working /\ pc \in Whole
  BY DEF RunPreflight, Handler, PreflightAnswer, Working, Whole
<1>2. h.handled => Answers(h.resp, text) /\ h.resp.Code # "Success"
  BY PreflightAnswers, PreflightRefuses DEF PreflightAnswer, PlainAnswer
<1> HIDE DEF h
<1>3. CASE h.handled /\ Finalize(h.resp)
  BY <1>1, <1>2, <1>3, FinalizeSends, RefusalBehind DEF Answers
<1>4. CASE ~h.handled /\ pc' = "write" /\ UNCHANGED resp
  BY <1>1, <1>4, NextStage DEF h
<1>5. CASE sealStorageIntegrityHandlerError
  BY <1>1, <1>5, SealBehind
<1> QED BY <1>1, <1>3, <1>4, <1>5 DEF Handler

---------------------------------------------------------------------------
(* Validation and the parse. *)

LEMMA ValidateBehind == ASSUME ValidateRequest PROVE Behind'
<1> DEFINE a == Sel.Dynamic
           siOK == SIActive(Sel) => a.si.version \in {"V1", "V2"} /\ ValidateStorageIntegrity(a)
           acked == IF SIActive(Sel) /\ siOK THEN a.si.version ELSE "UNSPECIFIED"
           stamped == [EmptyResponse(Echo(text)) EXCEPT !.siv = acked]
           ok == siOK /\ (Dynamic => ValidateProtectedDatabases(a))
<1>1. /\ siv' = acked /\ UNCHANGED <<req, text>>
      /\ \/ ok /\ resp' = stamped /\ pc' = "parse"
         \/ resp' = Rejected(stamped, "InvalidRewriteRequest", "badConfiguration") /\ pc' = "restore"
  BY DEF ValidateRequest
<1>2. /\ stamped.siv = acked /\ DOMAIN stamped = Fields
      /\ stamped.Accessed = {} /\ stamped.TableRewrites = EmptyMap
      /\ stamped.DatabaseRewrites = EmptyMap /\ stamped.PrivilegesDeltas = <<>>
  BY EmptyShape DEF EmptyResponse, Fields
<1>3. acked = Acked
  BY DEF Acked, SIActive, Dynamic
<1>4. Acked' = Acked /\ Sel' = Sel /\ Dynamic' = Dynamic
  BY <1>1, SameCall
<1>5. CASE ok /\ resp' = stamped /\ pc' = "parse"
  <2>1. Valid'
    BY <1>1, <1>4, <1>5 DEF Valid
  <2> HIDE DEF ok, siOK, acked, stamped, a
  <2>2. Fresh'
    BY <1>2, <1>5 DEF Fresh
  <2>3. ~Succeeding' /\ pc' \notin Whole /\ resp'.siv = acked
    BY <1>2, <1>5 DEF Succeeding, Gates, Whole
  <2> QED BY <1>1, <1>3, <1>4, <1>5, <2>1, <2>2, <2>3 DEF Behind, Whole
<1>6. CASE resp' = Rejected(stamped, "InvalidRewriteRequest", "badConfiguration") /\ pc' = "restore"
  <2> HIDE DEF ok, siOK, acked, stamped, a
  <2>1. resp'.siv = acked /\ resp'.Code # "Success"
    BY <1>2, <1>6 DEF Rejected, Fields
  <2>2. ~Succeeding' /\ pc' \notin Whole /\ pc' \notin Working
    BY <1>6, <2>1 DEF Succeeding, Gates, Whole, Working
  <2> QED BY <1>1, <1>3, <1>4, <1>6, <2>1, <2>2 DEF Behind, Whole
<1> QED BY <1>1, <1>5, <1>6

LEMMA ParseBehind ==
    ASSUME IInv, Behind, ParseOne \/ ClassifyLiveView \/ CheckParsedInFull
    PROVE  Behind'
<1>1. /\ UNCHANGED <<req, text, siv>> /\ pc \in Working /\ ~Succeeding
  BY DEF ParseOne, ClassifyLiveView, CheckParsedInFull, Working, Succeeding, Gates
<1>2. UNCHANGED <<Sel, Dynamic, ParsedStatement, Acked, NoTail, Valid, NoLiveView>>
  BY <1>1, SameCall
<1>3. DOMAIN resp = Fields /\ siv = Acked /\ resp.siv = siv /\ Fresh /\ Valid
  BY <1>1 DEF IInv, Carried, Behind
<1>4. CASE ParseOne
  <2>1. CASE resp' = [resp EXCEPT !.StatementType = classify(ParsedStatement)] /\ pc' = "liveView"
    <3>1. resp'.siv = siv /\ Fresh'
      BY <1>3, <2>1 DEF Fresh, Fields
    <3>2. ~Succeeding' /\ pc' \in Working /\ pc' \notin Whole
      BY <2>1 DEF Succeeding, Gates, Working, Whole
    <3> QED BY <1>1, <1>2, <1>3, <2>1, <3>1, <3>2 DEF Behind
  <2>2. CASE resp' = Rejected(resp, "SyntaxError", "syntax") /\ pc' = "restore"
    <3>1. resp'.siv = siv /\ resp'.Code # "Success"
      BY <1>3, <2>2 DEF Rejected, Fields
    <3> QED BY <1>1, <2>2, <3>1, RefusalBehind
  <2> QED BY <1>4, <2>1, <2>2 DEF ParseOne
<1>5. CASE ClassifyLiveView
  <2>1. CASE \E msg : Finalize(Rejected(resp, "UnsupportedStatement", msg))
    BY <1>1, <2>1, FinalRefusal
  <2>2. CASE NoLiveView /\ pc' = "parsedInFull" /\ UNCHANGED resp
    <3>1. ~Succeeding' /\ pc' \in Working /\ pc' \notin Whole /\ Fresh'
      BY <1>3, <2>2 DEF Succeeding, Gates, Working, Whole, Fresh
    <3> QED BY <1>1, <1>2, <1>3, <2>2, <3>1 DEF Behind
  <2> QED BY <1>5, <2>1, <2>2 DEF ClassifyLiveView, NoLiveView
<1>6. CASE CheckParsedInFull
  <2>1. CASE \E msg : Finalize(Rejected(resp, "UnsupportedStatement", msg))
    BY <1>1, <2>1, FinalRefusal
  <2>2. CASE NoTail /\ pc' = "preflight" /\ UNCHANGED resp
    <3>1. ~Succeeding' /\ pc' \in Working /\ pc' \in Whole /\ Fresh'
      BY <1>3, <2>2 DEF Succeeding, Gates, Working, Whole, Fresh
    <3>2. NoLiveView
      BY <1>6 DEF CheckParsedInFull, Behind
    <3> QED BY <1>1, <1>2, <1>3, <2>2, <3>1, <3>2 DEF Behind
  <2> QED BY <1>6, <2>1, <2>2 DEF CheckParsedInFull, NoTail
<1> QED BY <1>4, <1>5, <1>6

---------------------------------------------------------------------------
(* The tail, the gates, the restoring of the clause. *)

LEMMA TailBehind ==
    ASSUME IInv, Behind, PassThrough
    PROVE  Behind'
<1> DEFINE st == ParsedStatement
           unchanged == {OutRef("table", st.reads[i].db, st.reads[i].table, st.reads[i], "caller") :
                           i \in DOMAIN st.reads}
           passed == [resp EXCEPT !.Message = "success"]
           generated == [passed EXCEPT !.After = Generated(unchanged)]
<1>1. /\ pc = "tail" /\ pc \in Working /\ pc \in Whole /\ UNCHANGED <<req, text, siv>>
      /\ DOMAIN resp = Fields /\ resp.Code = "Success" /\ resp.After = Echo(text)
  BY DEF PassThrough, Working, Whole, IInv, Carried
<1>2. CASE \E msg : Finalize(Rejected(resp, "UnsupportedStatement", msg))
  BY <1>1, <1>2, FinalRefusal
<1>3. ASSUME NEW r, r \in {passed, generated}, Finalize(r),
             siv = "UNSPECIFIED", Dynamic => sessionSet
      PROVE  Behind'
  <2>1. /\ DOMAIN r = Fields /\ r.Code = "Success" /\ r.Accessed = resp.Accessed
        /\ r.TableRewrites = resp.TableRewrites /\ r.DatabaseRewrites = resp.DatabaseRewrites
        /\ r.PrivilegesDeltas = resp.PrivilegesDeltas
    BY <1>1, <1>3 DEF Fields
  <2>2. r.After.out \subseteq unchanged
    <3> HIDE DEF unchanged
    <3>1. r.After \in {Echo(text), Generated(unchanged)}
      BY <1>1, <1>3 DEF Fields
    <3> QED BY <3>1 DEF Echo, Generated
  <2>3. /\ pc' = "systemGate" /\ resp'.Code = "Success" /\ resp'.siv = siv
        /\ resp'.TableRewrites = r.TableRewrites /\ resp'.DatabaseRewrites = r.DatabaseRewrites
        /\ resp'.PrivilegesDeltas = r.PrivilegesDeltas
        /\ resp'.After = r.After /\ resp'.Accessed = r.Accessed
    BY <1>3, <2>1, FinalizeSends
  <2>4. /\ UNCHANGED <<Sel, Dynamic, ParsedStatement, Acked, NoTail, sessionSet>>
        /\ UNCHANGED <<PreflightAnswer, Write, Later, Valid, NoLiveView>>
    BY <1>1, SameCall
  <2>5. /\ siv = Acked /\ Valid /\ NoLiveView /\ NoTail /\ ~PreflightAnswer.handled
        /\ ~Write.handled /\ ~DBLevel.handled /\ ~Describe.handled /\ ~Exists.handled
        /\ ~Grant.handled /\ ~ReadAnswer.handled /\ Fresh
    BY <1>1 DEF Behind, Whole
  <2>6. \A h \in {Write} \cup Later : ~h.handled
    BY <2>5 DEF Later
  <2>7. PassedOn'
    <3>1. Fresh'
      BY <2>1, <2>3, <2>5 DEF Fresh
    <3>2. (\A o \in resp.After.out : \E i \in DOMAIN ParsedStatement.reads :
             LET q == ParsedStatement.reads[i] IN o = OutRef("table", q.db, q.table, q, "caller"))'
      BY <2>2, <2>3, <2>4
    <3> QED BY <1>1, <1>3, <2>4, <2>6, <3>1, <3>2 DEF PassedOn
  <2>8. pc' \notin Working /\ pc' \notin Whole /\ pc' \in Gates
    BY <2>3 DEF Working, Whole, Gates
  <2> QED BY <1>1, <2>3, <2>4, <2>5, <2>7, <2>8 DEF Behind, Origin
<1> QED BY <1>2, <1>3 DEF PassThrough

LEMMA GateRefusal ==
    ASSUME IInv, Behind, UNCHANGED <<req, text, siv>>, pc \in Gates,
           NEW r, DOMAIN r = Fields, r.siv = resp.siv, NEW msg, RefuseSuccess(r, msg)
    PROVE  Behind'
<1> DEFINE q == [Rejected(r, "UnsupportedStatement", msg) EXCEPT !.After = Echo(text)]
<1>1. DOMAIN q = Fields /\ q.Code # "Success" /\ q.siv = siv
  BY DEF Rejected, Fields, Behind
<1>2. pc' = "restore" /\ resp' = Refused(q)
  BY DEF RefuseSuccess
<1> HIDE DEF q
<1>3. resp'.Code # "Success" /\ resp'.siv = siv
  BY <1>1, <1>2, RefusedKeeps
<1> QED BY <1>2, <1>3, RefusalBehind

(* A gate that lets a Success through adds what it has checked. *)
LEMMA GatePasses ==
    ASSUME IInv, Behind, UNCHANGED <<req, text, siv, resp>>, pc \in Gates,
           pc' \in {"regenerated", "identity", "restore"},
           pc = "systemGate" => pc' = "regenerated" /\ ~RejectSystemTablesOnSuccess(ParsedStatement, Sel),
           pc = "regenerated" => /\ pc' = IF Dynamic THEN "identity" ELSE "restore"
                                 /\ "dropsTokens" \notin ParsedStatement.marks,
           pc = "identity" => pc' = "restore" /\ "identity" \notin ParsedStatement.marks
    PROVE  Behind'
<1>1. /\ UNCHANGED <<Sel, Dynamic, ParsedStatement, Acked, NoTail, sessionSet>>
      /\ UNCHANGED <<PreflightAnswer, Write, Later, Valid, NoLiveView>>
  BY SameCall
<1>2. /\ Succeeding /\ pc \notin Working /\ pc' \notin Working /\ pc' \notin Whole
      /\ pc' # "done" /\ pc' # "systemGate"
  BY DEF Gates, Succeeding, Working, Whole
<1>3. Origin' = Origin
  BY <1>1 DEF Origin, Tells, PassedOn, Fresh
<1> QED BY <1>1, <1>2, <1>3 DEF Behind, Gates, Whole

LEMMA GatesBehind ==
    ASSUME IInv, Behind, SystemTableGate \/ CheckRegenerated \/ FirstDeploymentIdentityName
    PROVE  Behind'
<1>1. /\ pc \in Gates /\ UNCHANGED <<req, text, siv>> /\ DOMAIN resp = Fields /\ resp.siv = siv
  BY DEF SystemTableGate, CheckRegenerated, FirstDeploymentIdentityName, Gates, IInv, Carried, Behind
<1>2. ASSUME NEW msg, RefuseSuccess(resp, msg) PROVE Behind'
  BY <1>1, <1>2, GateRefusal
<1>3. CASE SystemTableGate
  <2>1. CASE /\ ~RejectSystemTablesOnSuccess(ParsedStatement, Sel)
             /\ pc' = "regenerated" /\ UNCHANGED resp
    BY <1>1, <1>3, <2>1, GatePasses DEF SystemTableGate
  <2>2. CASE /\ pc' = "restore"
             /\ resp' = Refused([rejectSystemTable(resp, ParsedStatement, Sel) EXCEPT !.After = Echo(text)])
    <3> DEFINE q == [rejectSystemTable(resp, ParsedStatement, Sel) EXCEPT !.After = Echo(text)]
    <3>1. DOMAIN q = Fields /\ q.Code # "Success" /\ q.siv = siv
      BY <1>1 DEF rejectSystemTable, Rejected, Fields
    <3>2. resp' = Refused(q)
      BY <2>2
    <3> HIDE DEF q
    <3>3. resp'.Code # "Success" /\ resp'.siv = siv
      BY <3>1, <3>2, RefusedKeeps
    <3> QED BY <1>1, <2>2, <3>3, RefusalBehind
  <2>3. CASE RefuseSuccess([resp EXCEPT !.TableRewrites = EmptyMap, !.DatabaseRewrites = EmptyMap,
                                        !.PrivilegesDeltas = <<>>], "siUnmodelled")
    <3> DEFINE q == [resp EXCEPT !.TableRewrites = EmptyMap, !.DatabaseRewrites = EmptyMap,
                                 !.PrivilegesDeltas = <<>>]
    <3>1. DOMAIN q = Fields /\ q.siv = resp.siv
      BY <1>1 DEF Fields
    <3> HIDE DEF q
    <3> QED BY <1>1, <2>3, <3>1, GateRefusal DEF q
  <2> QED BY <1>3, <2>1, <2>2, <2>3 DEF SystemTableGate
<1>4. CASE CheckRegenerated
  BY <1>1, <1>2, <1>4, GatePasses DEF CheckRegenerated
<1>5. CASE FirstDeploymentIdentityName
  BY <1>1, <1>2, <1>5, GatePasses DEF FirstDeploymentIdentityName
<1> QED BY <1>3, <1>4, <1>5

LEMMA RestoreBehind ==
    ASSUME IInv, Behind, Restore
    PROVE  Behind'
<1>1. /\ pc = "restore" /\ UNCHANGED <<req, text, siv>> /\ DOMAIN resp = Fields /\ resp.siv = siv
  BY DEF Restore, IInv, Carried, Behind
<1>2. CASE resp.Code # "Success" /\ pc' = "done" /\ resp' \in {resp, [resp EXCEPT !.After = Echo("caller")]}
  <2>1. resp'.Code # "Success" /\ resp'.siv = siv
    BY <1>1, <1>2 DEF Fields
  <2> QED BY <1>1, <1>2, <2>1, RefusalBehind
<1>3. CASE /\ resp.Code = "Success" /\ pc' = "done"
           /\ resp' \in {resp, [resp EXCEPT !.After = Restored(@)]}
  <2>1. /\ resp'.Code = "Success" /\ resp'.siv = siv /\ resp'.Accessed = resp.Accessed
        /\ resp'.TableRewrites = resp.TableRewrites /\ resp'.DatabaseRewrites = resp.DatabaseRewrites
        /\ resp'.PrivilegesDeltas = resp.PrivilegesDeltas
    BY <1>1, <1>3 DEF Fields
  <2>2. resp'.After.out = resp.After.out
    BY <1>1, <1>3 DEF Fields, Restored
  <2>3. /\ UNCHANGED <<Sel, Dynamic, ParsedStatement, Acked, NoTail, sessionSet>>
        /\ UNCHANGED <<PreflightAnswer, Write, Later, Valid, NoLiveView>>
    BY <1>1, SameCall
  <2>4. /\ Succeeding /\ pc' \notin Working /\ pc' \notin Whole
        /\ pc' \notin Gates
    BY <1>1, <1>3 DEF Gates, Succeeding, Working, Whole
  <2>5. Origin => Origin'
    BY <1>1, <2>1, <2>2, <2>3 DEF Origin, Tells, PassedOn, Fresh
  <2> QED BY <1>1, <1>3, <2>1, <2>3, <2>4, <2>5 DEF Behind, Whole
<1>4. CASE sealCreateTableEmpty
  <2>1. CASE ~Dynamic
    BY <2>1, <1>4 DEF sealCreateTableEmpty, Behind, Working, Gates, Whole, Succeeding
  <2>2. CASE Dynamic
    <3> DEFINE e == EmptyResponse(Echo("caller"))
    <3>a. DOMAIN e = Fields
      BY EmptyShape
    <3>b. PICK m : /\ pc' = "done"
                   /\ resp' = [e EXCEPT !.Code = "UnsupportedStatement", !.Message = m,
                                        !.ec = resp.ec, !.siv = resp.siv]
      BY <1>4, <2>2 DEF sealCreateTableEmpty
    <3> HIDE DEF e
    <3>1. pc' = "done" /\ resp'.Code # "Success" /\ resp'.siv = siv
      BY <1>1, <3>a, <3>b DEF Fields
    <3> QED BY <1>1, <3>1, RefusalBehind
  <2> QED BY <2>1, <2>2
<1> QED BY <1>1, <1>2, <1>3, <1>4 DEF Restore

---------------------------------------------------------------------------
(* The invariant. *)

LEMMA StepBehind == IInv /\ Behind /\ [Next]_vars => Behind'
<1> SUFFICES ASSUME IInv, Behind, [Next]_vars PROVE Behind'
  OBVIOUS
<1>1. ASSUME pc' \in {"idle", "strip", "validate"} PROVE Behind'
  BY <1>1 DEF Behind, Working, Gates, Whole, Succeeding
<1>2. CASE (\E r \in Requests : Call(r)) \/ Return \/ NothingToStrip \/ StripViewComment
           \/ StripCreateTableEmpty
  BY <1>1, <1>2 DEF Call, Return, NothingToStrip, StripViewComment, StripCreateTableEmpty
<1>3. CASE ValidateRequest
  BY <1>3, ValidateBehind
<1>4. CASE ParseOne \/ ClassifyLiveView \/ CheckParsedInFull
  BY <1>4, ParseBehind
<1>5. CASE RunPreflight
  BY <1>5, PreflightBehind
<1>6. CASE RunWrite \/ RunDBLevel \/ RunDescribe \/ RunExists \/ RunGrant \/ RunSelect
  BY <1>6, HandlersBehind
<1>7. CASE PassThrough
  BY <1>7, TailBehind
<1>8. CASE SystemTableGate \/ CheckRegenerated \/ FirstDeploymentIdentityName
  BY <1>8, GatesBehind
<1>9. CASE Restore
  BY <1>9, RestoreBehind
<1>10. CASE Close \/ UNCHANGED vars
  <2>1. UNCHANGED <<req, text, pc, siv, resp>>
    BY <1>10 DEF Close, vars
  <2>2. /\ UNCHANGED <<Sel, Dynamic, ParsedStatement, Acked, NoTail, sessionSet>>
        /\ UNCHANGED <<PreflightAnswer, Write, DBLevel, Describe, Exists, Grant, ReadAnswer, Later>>
        /\ UNCHANGED <<Valid, NoLiveView>>
    BY <2>1, SameCall
  <2>3. UNCHANGED <<Fresh, Succeeding, Origin>>
    BY <2>1, <2>2 DEF Fresh, Succeeding, Origin, Tells, PassedOn
  <2> QED BY <2>1, <2>2, <2>3 DEF Behind
<1> QED BY <1>2, <1>3, <1>4, <1>5, <1>6, <1>7, <1>8, <1>9, <1>10 DEF Next, Step

LEMMA Provenance == Spec => [](IInv /\ Behind)
<1>1. Init => Behind
  BY DEF Init, Behind, Working, Gates, Whole, Succeeding
<1> QED BY <1>1, InitHasIInv, StepKeepsIInv, StepBehind, PTL DEF Spec

(* A response acknowledges a storage-integrity contract exactly when it is *)
(* active and valid, whichever stage answered (native.go 274-299).         *)
THEOREM Acknowledges == Spec => []ContractAcknowledged
<1>1. Behind => ContractAcknowledged
  BY DEF Behind, ContractAcknowledged, Finished, Acked
<1> QED BY <1>1, Provenance, PTL

(* A call that starts on a closed engine never gets past the parse. *)
Shut ==
    /\ closed
    /\ \/ pc \in {"idle", "strip", "validate", "parse"}
       \/ pc \in {"restore", "done"} /\ resp.Code \in {"SyntaxError", "InvalidRewriteRequest"}

LEMMA ShutStays == IInv /\ Shut /\ [Next]_vars => Shut'
<1> SUFFICES ASSUME IInv, Shut, [Next]_vars PROVE Shut'
  OBVIOUS
<1> USE DEF Shut
<1>1. CASE (\E r \in Requests : Call(r)) \/ Return \/ Close \/ UNCHANGED vars
  BY <1>1 DEF Call, Return, Close, vars
<1>2. CASE NothingToStrip \/ StripViewComment \/ StripCreateTableEmpty
  BY <1>2 DEF NothingToStrip, StripViewComment, StripCreateTableEmpty
<1>3. CASE ValidateRequest
  <2>1. PICK stamped : /\ stamped = [EmptyResponse(Echo(text)) EXCEPT !.siv = siv']
                       /\ \/ resp' = stamped /\ pc' = "parse"
                          \/ /\ resp' = Rejected(stamped, "InvalidRewriteRequest", "badConfiguration")
                             /\ pc' = "restore"
    BY <1>3 DEF ValidateRequest
  <2>2. DOMAIN stamped = Fields
    BY <2>1, EmptyShape
  <2> QED BY <1>3, <2>1, <2>2 DEF ValidateRequest, Rejected, Fields
<1>4. CASE ParseOne
  BY <1>4 DEF ParseOne, Rejected, IInv, Carried, Fields
<1>5. CASE Restore
  <2>1. DOMAIN resp = Fields
    BY DEF IInv, Carried
  <2> QED BY <1>5, <2>1 DEF Restore, Fields
<1>6. CASE ClassifyLiveView \/ CheckParsedInFull \/ RunPreflight \/ RunWrite \/ RunDBLevel \/ RunDescribe
           \/ RunExists \/ RunGrant \/ RunSelect \/ PassThrough
           \/ SystemTableGate \/ CheckRegenerated \/ FirstDeploymentIdentityName
  <2>1. pc \in (Working \ {"parse"}) \cup Gates
    BY <1>6 DEF ClassifyLiveView, CheckParsedInFull, RunPreflight, RunWrite, RunDBLevel, RunDescribe,
           RunExists, RunGrant, RunSelect, Handler, PassThrough, SystemTableGate, CheckRegenerated,
           FirstDeploymentIdentityName, Working, Gates
  <2> QED BY <2>1 DEF Working, Gates
<1> QED BY <1>1, <1>2, <1>3, <1>4, <1>5, <1>6 DEF Next, Step

(* A call that starts on a closed engine ends in a SyntaxError or in the   *)
(* refusal of its options (service.go 87-91).                              *)
THEOREM ClosedCallFails == Spec => CallAfterClose
<1>1. pc = "idle" /\ closed => Shut
  BY DEF Shut
<1>2. Shut => pc # "goError" /\ (Finished => resp.Code \in {"SyntaxError", "InvalidRewriteRequest"})
  BY DEF Shut, Finished
<1> QED BY <1>1, <1>2, ShutStays, Provenance, PTL DEF Spec, CallAfterClose

---------------------------------------------------------------------------
(* What a Success has been screened for. *)

LEMMA WholeParsed ==
    ASSUME IInv, pc # "idle", NoTail
    PROVE  ParsedStatement = req.st /\ req \in Requests /\ WellFormed(req.st)
<1>1. req \in Requests /\ WellFormed(req.st)
  BY StatementAssumption DEF IInv, TypeOK
<1>2. "marks" \in DOMAIN req.st
  BY <1>1 DEF WellFormed
<1> QED BY <1>1, <1>2 DEF NoTail, ParsedStatement

(* A Success of a modelled handler is not that of an unmodelled command. *)
LEMMA SuccessModelled ==
    ASSUME Origin, Dynamic, Valid
    PROVE  ~UnmodelledCommand(ParsedStatement, Sel)
<1> SUFFICES ASSUME ParsedStatement.kind = "command",
                    ~commandClassModelled(ParsedStatement, Sel) PROVE FALSE
  BY DEF UnmodelledCommand
<1>1. ParsedStatement.sub \notin {"rename", "exchange", "alterUpdate", "use", "show", "object", "grant"}
  BY DEF commandClassModelled
<1>2. ~DBLevel.handled /\ ~Describe.handled /\ ~Exists.handled /\ ~Grant.handled /\ ~ReadAnswer.handled
  BY <1>1 DEF DBLevel, RewriteDBLevel, Describe, RewriteDescribe, Exists, RewriteExistsShowCreate,
              Grant, RewriteGrant, ReadAnswer, IsReadRoot, NotHandled
<1>3. Write.handled => Write.resp.Code # "Success"
  BY <1>1, WriteOfUnmodelled DEF Write
<1>4. PassedOn
  BY <1>2, <1>3 DEF Origin, Later
<1>5. StorageIntegritySurfaceActive(Sel.Dynamic) /\ Dynamic => siv # "UNSPECIFIED"
  BY DEF Valid, SIActive, Dynamic
<1> QED BY <1>4, <1>5 DEF PassedOn, sessionSet, commandClassModelled

(* A SELECT succeeds through its own pipeline. *)
LEMMA ReadOrigin ==
    ASSUME Origin, IsReadRoot(ParsedStatement)
    PROVE  /\ rewriteSelectCore(ParsedStatement, req.opts).Code = "Success"
           /\ Tells(rewriteSelectCore(ParsedStatement, req.opts))
<1>1. ~Write.handled
  BY ReadNotWritten DEF Write
<1>2. ~DBLevel.handled /\ ~Describe.handled /\ ~Exists.handled /\ ~Grant.handled
  BY DEF DBLevel, RewriteDBLevel, Describe, RewriteDescribe, Exists, RewriteExistsShowCreate,
         Grant, RewriteGrant, IsReadRoot, NotHandled
<1>3. ReadAnswer = Handled(RewriteSelect(ParsedStatement, req.opts))
  BY DEF ReadAnswer
<1>4. ReadAnswer.handled /\ ReadAnswer.resp = RewriteSelect(ParsedStatement, req.opts)
  BY <1>3 DEF Handled
<1>5. ReadAnswer.resp.Code = "Success" /\ Tells(ReadAnswer.resp)
  BY <1>1, <1>2, <1>4 DEF Origin, Later, PassedOn
<1> QED BY <1>4, <1>5, ReadPassed

(* The carriers and the ungoverned reads are looked for by one stage or    *)
(* another.                                                                *)
LEMMA CarriersChecked ==
    ASSUME IInv, Behind, Succeeding, Dynamic
    PROVE  ~rejectDisallowedCarriers(ParsedStatement) /\ ~rejectUngovernedReads(ParsedStatement, Sel)
<1>1. Origin /\ Valid /\ ~PreflightAnswer.handled /\ (Write.handled => Write.resp.Code = "Success")
  BY DEF Behind
<1>2. CASE ~SIActive(Sel)
  BY <1>1, <1>2, SuccessModelled, PreflightPassed DEF PreflightAnswer, Dynamic
<1>3. CASE SIActive(Sel) /\ ~IsReadRoot(ParsedStatement)
  BY <1>1, <1>3, WritePassed, SIWritePassed DEF Write, Sel, Dynamic
<1>4. CASE SIActive(Sel) /\ IsReadRoot(ParsedStatement)
  <2>1. SelectClear(ParsedStatement, Sel, SelectTables(ParsedStatement, req.opts))
    BY <1>1, <1>4, ReadOrigin, SelectPassed DEF Sel
  <2> QED BY <1>4, <2>1 DEF SelectClear
<1> QED BY <1>2, <1>3, <1>4

(* A session SET succeeds only past the settings check of the tail. *)
LEMMA SetOrigin ==
    ASSUME Origin, Dynamic, ParsedStatement.kind = "command", ParsedStatement.sub = "set"
    PROVE  sessionSet
<1>1. ~DBLevel.handled /\ ~Describe.handled /\ ~Exists.handled /\ ~Grant.handled /\ ~ReadAnswer.handled
  BY DEF DBLevel, RewriteDBLevel, Describe, RewriteDescribe, Exists, RewriteExistsShowCreate,
         Grant, RewriteGrant, ReadAnswer, IsReadRoot, NotHandled
<1>2. Write.handled => Write.resp.Code # "Success"
  BY WriteOfUnmodelled DEF Write
<1> QED BY <1>1, <1>2 DEF Origin, Later, PassedOn

LEMMA SuccessScreened == IInv /\ Behind => Screened
<1> SUFFICES ASSUME IInv, Behind, Succeeded PROVE Screened
  BY DEF Screened
<1>1. Succeeding /\ pc = "done"
  BY DEF Succeeded, Finished, Succeeding
<1>2. ParsedStatement = req.st /\ WellFormed(req.st)
  BY <1>1, WholeParsed DEF Behind
<1>3. "dropsTokens" \notin req.st.marks /\ "unparsedTail" \notin req.st.marks
  BY <1>1, <1>2 DEF Behind, NoTail
<1>4. siv # "UNSPECIFIED" => "liveView" \notin req.st.marks
  BY <1>1, <1>2 DEF Behind, NoLiveView, WellFormed
<1>5. ASSUME Dynamic
      PROVE  /\ {"identity", "identParam", "carrier", "ungoverned", "badSetting"} \cap req.st.marks = {}
             /\ req.st.ns = <<>>
  <2>1. "identity" \notin req.st.marks
    BY <1>1, <1>2, <1>5 DEF Behind
  <2>2. "identParam" \notin req.st.marks
    BY <1>1, <1>2, <1>5, PreflightPassed DEF Behind, PreflightAnswer, Dynamic
  <2>3. ~rejectDisallowedCarriers(req.st) /\ ~rejectUngovernedReads(req.st, Sel)
    BY <1>1, <1>2, <1>5, CarriersChecked
  <2>4. "carrier" \notin req.st.marks /\ req.st.ns = <<>> /\ "ungoverned" \notin req.st.marks
    BY <2>3 DEF rejectDisallowedCarriers, rejectUngovernedReads
  <2>5. "badSetting" \notin req.st.marks
    <3>1. CASE req.st.sub = "set"
      <4>1. req.st.kind = "command"
        BY <1>2, <3>1 DEF WellFormed
      <4> QED BY <1>1, <1>2, <1>5, <3>1, <4>1, SetOrigin DEF Behind, sessionSet
    <3>2. CASE req.st.sub # "set"
      <4>1. ~UnmodelledCommand(req.st, Sel)
        BY <1>1, <1>2, <1>5, SuccessModelled DEF Behind
      <4> QED BY <2>3, <3>2, <4>1 DEF rejectUngovernedReads, rejectSQLBearingSettings
    <3> QED BY <3>1, <3>2
  <2> QED BY <2>1, <2>2, <2>4, <2>5
<1> QED BY <1>3, <1>4, <1>5 DEF Screened

(* No Success contains what a gate or a check exists to refuse, wherever   *)
(* an active SI surface has moved the check to (preflight.go, select.go,   *)
(* writes.go and the gates of finalize in native.go).                      *)
THEOREM SuccessesScreened == Spec => []Screened
  BY SuccessScreened, Provenance, PTL
==============================================================================
