---------------------------- MODULE MCSnapshotLane ----------------------------
(***************************************************************************)
(* The snapshot lane for TLC: the two calls and the measured library they  *)
(* run on.  A call sees of the library only the profiles it made local, so *)
(* a behaviour explores one of the two.                                    *)
(***************************************************************************)
EXTENDS MCSnapshot, MCMeasuredEngine

VARIABLE part

vars == <<part, svars, mvars>>

(* One call stands still while the library is explored. *)
OneCall ==
    /\ call = Plain("prepare", FALSE, <<>>) @@ [ins |-> TwoTables, bindings |-> CHOOSE b \in BadBindings : TRUE]
    /\ ~expired

Init ==
    \/ part = "calls" /\ EngineInit /\ RPCInit
    \/ part = "library" /\ EngineInit /\ RPCInit /\ OneCall

Next ==
    \/ part = "calls" /\ RPCNext /\ UNCHANGED <<part, mvars>>
    \/ part = "library" /\ EngineNext /\ UNCHANGED <<part, svars>>

Spec == Init /\ [][Next]_vars /\ Fairness
===============================================================================
