-------------------------- MODULE MCRewriterSession --------------------------
(***************************************************************************)
(* A connection with two dynamic calls of different accounts and one call  *)
(* without a dynamic policy.  Each call introduces a name of its own that  *)
(* its maps invert (a rewritten table in a hidden database) and one they   *)
(* do not (an upstream's address); q2's mapped name is hidden from q1.     *)
(***************************************************************************)
EXTENDS RewriterSession

CONSTANTS g1, q1, q2, q3, t1, t2, u1, u2, u3

MCClients == {g1}
MCCalls   == {q1, q2, q3}
MCDynamic == {q1, q2}
MCNames   == {t1, t2, u1, u2, u3}
MCMapped  == [c \in MCCalls |-> CASE c = q1 -> {t1} [] c = q2 -> {t2} [] OTHER -> {}]
MCHidden  == [c \in MCCalls |-> CASE c = q1 -> {t1, t2, u1} [] c = q2 -> {t2, u2} [] OTHER -> {u3}]
==============================================================================
