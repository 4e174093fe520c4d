---------------------------- MODULE SnapshotRPC ----------------------------
(***************************************************************************)
(* The two snapshot RPCs, AnalyzeSnapshotQuery and PrepareSnapshotQuery.   *)
(* A call runs through its checks in order while its deadline may pass at  *)
(* any moment; work inside the engine cannot be interrupted, so the        *)
(* deadline is looked at again after it.  What the engine computes is      *)
(* SnapshotQuery; the calls rest on no more of it than its results.        *)
(***************************************************************************)
EXTENDS Integers, Sequences, SequencesExt

CONSTANTS
    EngineAnalyzes(_, _),   \* what the engine plans for an INSERT and its environment: a
                            \* record with err, which is "" unless it refuses
    EngineLowers(_, _),     \* the query it prepares from a plan and its scratch tables
    SnapshotRequests,   \* the calls to explore: families [calls, inserts, bindings]
    Profiles            \* the measured profiles: id -> record

VARIABLES
    call,       \* the request being served
    step,       \* the check it is at
    expired,    \* its context is done
    plan,       \* the plan of the analysis, once there is one
    prepared,   \* the query Prepare generated
    reply,      \* the response, once there is one
    late        \* history: the context was done when the engine returned

svars == <<call, step, expired, plan, prepared, reply, late>>

NoTree == [kind |-> "none"]
NoPlan == [err |-> "none"]
Waiting == [code |-> "none", text |-> NoTree, target |-> 0, columns |-> <<>>, reads |-> {}]

(* Mutant: the refusal is passed on as it is. *)
Uncoded(err) == err

(* The code of a refusal of the engine. *)
Code(err) ==
    IF err \in {"range", "target", "statement"} THEN "INVALID_INPUT"
    ELSE IF err \in {"materialization", "residual"} THEN "MATERIALIZATION_FAILED"
    ELSE "UNSUPPORTED"

(* A profile is supported if its record is the one this build implements   *)
(* (version, column profile, output order, settings, operators: pinned)    *)
(* and its limits are within the build's.                                  *)
supportedSnapshotRecord(id) ==
    /\ id \in DOMAIN Profiles
    /\ Profiles[id].pinned
    /\ ~Profiles[id].overLimits

Refuse(code) == reply' = [Waiting EXCEPT !.code = code]

RPCInit ==
    /\ \E f \in DOMAIN SnapshotRequests :
           \E c \in SnapshotRequests[f].calls, i \in SnapshotRequests[f].inserts,
              b \in SnapshotRequests[f].bindings :
                call = c @@ [ins |-> i, bindings |-> b]
    /\ step = "entry"
    /\ expired \in {FALSE, call.slow}
    /\ plan = NoPlan
    /\ prepared = NoTree
    /\ reply = Waiting
    /\ late = FALSE

AtStep(s) == step = s /\ reply = Waiting
Go(s) == step' = s /\ reply' = Waiting
End == step' = "done"

(* The deadline of the profile passes, or the client gives up; slow says   *)
(* of a call whether that can happen (a bound: most calls are quick).      *)
Expire ==
    /\ call.slow
    /\ reply = Waiting
    /\ ~expired
    /\ expired' = TRUE
    /\ UNCHANGED <<call, step, plan, prepared, reply, late>>

(* What PrepareSnapshotQuery asks before it analyzes. *)
PrepareEntry ==
    /\ AtStep("entry")
    /\ call.rpc = "prepare"
    /\ LET known == supportedSnapshotRecord(call.profile) /\ call.contract = 1
       IN  \/ call.nil /\ Refuse("INVALID_INPUT") /\ End
           \/ ~call.nil /\ known /\ call.env.materialize /\ Refuse("INVALID_INPUT") /\ End
           \/ ~call.nil /\ known /\ ~call.env.materialize /\ call.descriptorTooLong
              /\ Refuse("INVALID_INPUT") /\ End
           \/ ~call.nil /\ ~(known /\ (call.env.materialize \/ call.descriptorTooLong)) /\ Go("analyze")
    /\ UNCHANGED <<call, expired, plan, prepared, late>>

(* Why an analysis is refused before the engine is called: "" if it is not.*)
EntryRefusal ==
    IF call.nil \/ call.contract # 1 THEN "INVALID_INPUT"
    ELSE IF ~supportedSnapshotRecord(call.profile) THEN "PROFILE_UNAVAILABLE"
    ELSE IF \/ expired
            \/ call.sqlTooLong
            \/ call.descriptorTooLong
            \/ ~call.env.materialize /\ call.inputs # {}
            \/ call.badCatalog
         THEN "INVALID_INPUT"
    ELSE ""

AnalyzeEntry ==
    /\ IF call.rpc = "prepare" THEN AtStep("analyze") ELSE AtStep("entry")
    /\ \/ EntryRefusal # "" /\ Refuse(EntryRefusal) /\ End
       \/ EntryRefusal = "" /\ Go("engine")
    /\ UNCHANGED <<call, expired, plan, prepared, late>>

(* The engine analyzes.  A refusal of its own is returned as it is. *)
EngineAnalyze ==
    /\ AtStep("engine")
    /\ plan' = IF call.ordinary THEN [err |-> "", ordinary |-> TRUE]
               ELSE EngineAnalyzes(call.ins, call.env)
    /\ late' = expired
    /\ \/ plan'.err # "" /\ Refuse(Code(plan'.err)) /\ End
       \/ plan'.err = "" /\ Go("analyzed")
    /\ UNCHANGED <<call, expired, prepared>>

Ordinary == "ordinary" \in DOMAIN plan

(* Mutant: the deadline is not looked at after the engine returned. *)
LateAnalysis ==
    IF call.inputs \ {"random"} # {} THEN "MATERIALIZATION_FAILED"
    ELSE IF Ordinary THEN "NOT_SNAPSHOT_QUERY"
    ELSE IF call.planTooLong THEN "INVALID_INPUT"
    ELSE "SUCCESS"

(* What the analysis answers after the engine returned. *)
AnalysisCode ==
    IF expired THEN "INVALID_INPUT"
    ELSE IF call.inputs \ {"random"} # {} THEN "MATERIALIZATION_FAILED"
    ELSE IF Ordinary THEN "NOT_SNAPSHOT_QUERY"
    ELSE IF call.planTooLong THEN "INVALID_INPUT"
    ELSE "SUCCESS"

AnalyzeDone ==
    /\ AtStep("analyzed")
    /\ \/ /\ AnalysisCode = "SUCCESS" /\ call.rpc = "analyze"
          /\ reply' = [code |-> "SUCCESS", text |-> call.ins, target |-> plan.target.id,
                       columns |-> plan.names, reads |-> plan.readIDs]
          /\ End
       \/ AnalysisCode = "SUCCESS" /\ call.rpc = "prepare" /\ Go("bindings")
       \/ /\ AnalysisCode # "SUCCESS"
          /\ Refuse(IF call.rpc = "prepare" /\ AnalysisCode = "NOT_SNAPSHOT_QUERY"
                    THEN "INVALID_INPUT" ELSE AnalysisCode)
          /\ End
    /\ UNCHANGED <<call, expired, plan, prepared, late>>

(* The bindings are the tables read, in the order of their ids, each with  *)
(* a scratch table of its own.                                             *)
BindingsExact(bindings, reads) ==
    /\ Len(bindings) = Cardinality(reads)
    /\ \A i \in DOMAIN bindings :
          /\ bindings[i].id = SetToSortSeq(reads, <)[i]
          /\ bindings[i].database # "" /\ bindings[i].table # ""
          /\ \A j \in 1..(i - 1) : <<bindings[j].database, bindings[j].table>>
                                      # <<bindings[i].database, bindings[i].table>>

CheckBindings ==
    /\ AtStep("bindings")
    /\ \/ BindingsExact(call.bindings, plan.readIDs) /\ ~expired /\ Go("prepare")
       \/ (expired \/ ~BindingsExact(call.bindings, plan.readIDs)) /\ Refuse("INVALID_INPUT") /\ End
    /\ UNCHANGED <<call, expired, plan, prepared, late>>

Scratch(bindings) ==
    [id \in {bindings[i].id : i \in DOMAIN bindings} |->
        LET b == bindings[CHOOSE i \in DOMAIN bindings : bindings[i].id = id]
        IN  [database |-> b.database, table |-> b.table]]

(* The engine lowers the plan; generation may fail. *)
EnginePrepare ==
    /\ AtStep("prepare")
    /\ prepared' = IF call.ungenerable THEN NoTree ELSE EngineLowers(plan, Scratch(call.bindings))
    /\ late' = (late \/ expired)
    /\ \/ (expired \/ call.ungenerable \/ call.preparedTooLong)
          /\ Refuse(IF ~expired /\ call.ungenerable THEN "UNSUPPORTED" ELSE "INVALID_INPUT") /\ End
       \/ ~expired /\ ~call.ungenerable /\ ~call.preparedTooLong /\ Go("prepared")
    /\ UNCHANGED <<call, expired, plan>>

(* The columns are those of the table, in its order. *)
PrepareDone ==
    /\ AtStep("prepared")
    /\ IF expired THEN Refuse("INVALID_INPUT")
       ELSE reply' = [code |-> "SUCCESS", text |-> prepared, target |-> plan.target.id,
                      columns |-> [i \in DOMAIN plan.target.columns |-> plan.target.columns[i].name],
                      reads |-> plan.readIDs]
    /\ End
    /\ UNCHANGED <<call, expired, plan, prepared, late>>

Answered == step = "done" /\ UNCHANGED svars

RPCNext ==
    \/ Expire \/ PrepareEntry \/ AnalyzeEntry \/ EngineAnalyze \/ AnalyzeDone
    \/ CheckBindings \/ EnginePrepare \/ PrepareDone \/ Answered

RPCSpec == RPCInit /\ [][RPCNext]_svars

---------------------------------------------------------------------------
(* A success was computed in time: the deadline had not passed when the    *)
(* engine returned, nor, for Prepare, when the reply was made, however the *)
(* checks and the deadline interleave.                                     *)
NoLateSuccess == reply.code = "SUCCESS" => ~late /\ (call.rpc = "prepare" => ~expired)

(* A success has passed every check of its call, those that Prepare asks   *)
(* before it analyzes and those the analysis asks again: nothing oversized *)
(* or unsupported is answered, the reads are those of the engine's plan,   *)
(* and what Prepare returns is that plan lowered onto scratch tables that  *)
(* match the reads one for one (AnalyzeSnapshotQuery, PrepareSnapshotQuery). *)
NoCheckSkipped ==
    reply.code = "SUCCESS" =>
        /\ ~call.nil /\ call.contract = 1 /\ supportedSnapshotRecord(call.profile)
        /\ ~call.sqlTooLong /\ ~call.descriptorTooLong /\ ~call.planTooLong /\ ~call.badCatalog
        /\ call.inputs \subseteq IF call.env.materialize THEN {"random"} ELSE {}
        /\ ~call.ordinary /\ plan = EngineAnalyzes(call.ins, call.env) /\ plan.err = ""
        /\ reply.reads = plan.readIDs
        /\ call.rpc = "prepare" =>
              /\ ~call.env.materialize /\ ~call.ungenerable /\ ~call.preparedTooLong
              /\ BindingsExact(call.bindings, plan.readIDs)
              /\ reply.text = EngineLowers(plan, Scratch(call.bindings))
============================================================================
