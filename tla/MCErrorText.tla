----------------------------- MODULE MCErrorText -----------------------------
(***************************************************************************)
(* The two halves of reverse.Invert for TLC, the positions of an error     *)
(* text and its names, and the physical names a rewrite makes.  They share *)
(* no state, so a behaviour explores one.                                  *)
(***************************************************************************)
EXTENDS MCOffsetMap, MCErrorInversion, DynamicNames

VARIABLE part

vars == <<part, offsetVars, inversionVars, nameVars>>

(* A part that is not explored rests in one initial state. *)
NoPosition ==
    /\ rewritten = <<>> /\ original = <<>>
    /\ position = CHOOSE i \in Positions : TRUE
NoError == err = CHOOSE e \in Errors : e.message = <<>>
NoTenant == args = CHOOSE a \in Arguments : TRUE

Init ==
    \/ part = "positions" /\ NoError /\ NoTenant /\ InversionInit /\ NamesInit /\ OffsetInit
    \/ part = "names" /\ NoPosition /\ NoTenant /\ OffsetInit /\ NamesInit /\ InversionInit
    \/ part = "tenants" /\ NoPosition /\ NoError /\ OffsetInit /\ InversionInit /\ NamesInit

Next ==
    \/ part = "positions" /\ OffsetNext /\ UNCHANGED <<part, inversionVars, nameVars>>
    \/ part = "names" /\ InversionNext /\ UNCHANGED <<part, offsetVars, nameVars>>
    \/ part = "tenants" /\ NamesNext /\ UNCHANGED <<part, offsetVars, inversionVars>>

Spec == Init /\ [][Next]_vars

---------------------------------------------------------------------------
(* Tenants m, p and m_1, and the dotted m.p, whose tables p.t and t meet;  *)
(* extra arguments that repeat the separators and the names.               *)
one == <<49>>
underscore == <<95>>
Tenants == {m, p, m \o underscore \o one, m \o dot \o p}
TenantTables == {t, p \o dot \o t, <<>>}
NameArguments ==
    {[delim |-> <<>>, extra |-> <<>>], [delim |-> <<>>, extra |-> <<one>>],
     [delim |-> dot, extra |-> <<one, p \o dot \o t>>]}
==============================================================================
