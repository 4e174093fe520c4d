----------------------------- MODULE MCEngineText -----------------------------
(***************************************************************************)
(* What the engine decides on the text of a statement, for TLC: the        *)
(* parsers of commands, the scans of opaque text, the nesting guard and    *)
(* the two fidelity gates.  Each looks at its own view of the text and     *)
(* none reads another's state, so a behaviour explores one of them.        *)
(***************************************************************************)
EXTENDS MCCommandParse, MCOpaqueText, NestingGuard, WholeStatement, MCRegeneratedGate

VARIABLE reader

vars == <<reader, cvars, ovars, nvars, wvars, gvars>>

(* The others rest in one initial state. *)
OneCommand == wrote = CHOOSE w \in MCUses : TRUE
OneText == kind = "insert"

Init ==
    /\ \/ reader \in {"guard", "whole", "regenerated"} /\ OneCommand /\ OneText
       \/ reader = "commands" /\ OneText
       \/ reader = "opaque" /\ OneCommand
    /\ CommandInit /\ OpaqueInit /\ GuardInit /\ WholeInit /\ GateInit

Next ==
    \/ reader = "commands" /\ CommandNext /\ UNCHANGED <<reader, ovars, nvars, wvars, gvars>>
    \/ reader = "opaque" /\ OpaqueNext /\ UNCHANGED <<reader, cvars, nvars, wvars, gvars>>
    \/ reader = "guard" /\ GuardNext /\ UNCHANGED <<reader, cvars, ovars, wvars, gvars>>
    \/ reader = "whole" /\ WholeNext /\ UNCHANGED <<reader, cvars, ovars, nvars, gvars>>
    \/ reader = "regenerated" /\ GateNext /\ UNCHANGED <<reader, cvars, ovars, nvars, wvars>>

Spec == Init /\ [][Next]_vars
===============================================================================
