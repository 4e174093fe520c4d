--------------------------- MODULE RewriteContract ---------------------------
(***************************************************************************)
(* What one Rewrite call promises its caller, with nothing of how it is    *)
(* computed: it answers; a rewritten statement comes only with Success; a  *)
(* refusal gives the caller's own SQL back; a Go error, on which callers   *)
(* forward the original SQL, comes only where no dynamic policy applies.   *)
(***************************************************************************)
CONSTANTS
    Calls,          \* the calls that can be made
    DynamicCalls,   \* those whose options select dynamic rewriting
    NoCall          \* no call is in progress

VARIABLES
    call,     \* the call in progress
    answer    \* [kind, sql]: what it answered

NoAnswer == [kind |-> "none", sql |-> "none"]
Success  == [kind |-> "success", sql |-> "rewritten"]
Refusal  == [kind |-> "refusal", sql |-> "caller"]
GoError  == [kind |-> "error", sql |-> "none"]

Promised(c) == {Success, Refusal} \cup (IF c \in DynamicCalls THEN {} ELSE {GoError})

Init == call = NoCall /\ answer = NoAnswer

Begin(c) ==
    /\ call = NoCall
    /\ call' = c /\ UNCHANGED answer

Answer ==
    /\ call # NoCall /\ answer = NoAnswer
    /\ answer' \in Promised(call) /\ UNCHANGED call

End ==
    /\ answer # NoAnswer
    /\ call' = NoCall /\ answer' = NoAnswer

Next == (\E c \in Calls : Begin(c)) \/ Answer \/ End

Spec == Init /\ [][Next]_<<call, answer>>
==============================================================================
