--------------------------- MODULE RewriterSession ---------------------------
(***************************************************************************)
(* A client connection over NativeRewriter (native.go) and over the        *)
(* stateless Service (service.go): statements are rewritten and run, and   *)
(* the error texts ClickHouse returns are turned back before the client    *)
(* sees them.  A NativeRewriter keeps the context of its last Rewrite      *)
(* under a mutex; a Service runs the rewrite again.  Close comes from      *)
(* another goroutine.                                                      *)
(*                                                                         *)
(* An error text is the set of names in it that the rewriting introduced.  *)
(***************************************************************************)
EXTENDS FiniteSets

CONSTANTS
    Clients,        \* goroutines that use the connection's rewriter
    Calls,          \* statements with their options
    DynamicCalls,   \* those under a dynamic policy
    NoCall,
    Names,          \* names a rewrite can introduce
    Mapped,         \* Mapped[c]: the names the rewrite maps of call c invert
    Hidden          \* Hidden[c]: HiddenNames of call c's options

ASSUME SessionAssumption ==
    /\ DynamicCalls \subseteq Calls /\ NoCall \notin Calls
    /\ Mapped \in [Calls -> SUBSET Names] /\ Hidden \in [Calls -> SUBSET Names]

VARIABLES
    step,      \* step[g]: where goroutine g is
    call,      \* call[g]: the statement it works on
    answer,    \* answer[g]: what Rewrite answered
    message,   \* message[g]: the names in the error text it holds
    context,   \* context[g]: the callContext it read, or the one of the Service's second run
    told,      \* told[g]: the text it hands to the client
    last,      \* NativeRewriter.last
    recent,    \* the call of the Rewrite that returned last
    closing    \* how far Close has come

vars == <<step, call, answer, message, context, told, last, recent, closing>>

Contract(g) == INSTANCE RewriteContract WITH call <- call[g], answer <- answer[g]

Steps == {"idle", "rewriting", "answered", "returned", "failed", "asked", "reran",
          "toldNative", "toldService"}

NoContext == [call |-> NoCall, kind |-> "none"]
Contexts  == {NoContext} \cup [call : Calls, kind : {"success", "refusal", "error"}]

Withheld == [withheld |-> TRUE, names |-> {}]
Text(S)  == [withheld |-> FALSE, names |-> S]

AnswerNone == [kind |-> "none", sql |-> "none"]
Answers    == [kind : {"none", "success", "refusal", "error"}, sql : {"none", "caller", "rewritten"}]

Move(g, from, to) == step[g] = from /\ step' = [step EXCEPT ![g] = to]

---------------------------------------------------------------------------
(* NativeRewriter.Rewrite. *)

BeginRewrite(g, c) ==
    /\ Move(g, "idle", "rewriting")
    /\ call' = [call EXCEPT ![g] = c]
    /\ UNCHANGED <<answer, message, context, told, last, recent, closing>>

(* doRewrite answers; with the engine closed it cannot succeed. *)
AnswerRewrite(g) ==
    /\ Move(g, "rewriting", "answered")
    /\ \E a \in Contract(g)!Promised(call[g]) :
          /\ closing = "closed" => a.kind # "success"
          /\ answer' = [answer EXCEPT ![g] = a]
    /\ UNCHANGED <<call, message, context, told, last, recent, closing>>

(* Mutant: only a Success is stashed. *)
StashSuccessOnly(g) ==
    /\ Move(g, "answered", "returned")
    /\ last' = IF answer[g].kind # "success" THEN last
               ELSE [call |-> call[g], kind |-> answer[g].kind]
    /\ recent' = call[g]
    /\ UNCHANGED <<call, answer, message, context, told, closing>>

(* Mutant: an answer without a call is stashed. *)
StashWithoutCall(g) ==
    /\ Move(g, "answered", "returned")
    /\ last' = [call |-> NoCall, kind |-> answer[g].kind]
    /\ recent' = call[g]
    /\ UNCHANGED <<call, answer, message, context, told, closing>>

(* A response is stashed under the mutex, a Go error is not. *)
ReturnRewrite(g) ==
    /\ Move(g, "answered", "returned")
    /\ last' = IF answer[g].kind = "error" THEN last
               ELSE [call |-> call[g], kind |-> answer[g].kind]
    /\ recent' = call[g]
    /\ UNCHANGED <<call, answer, message, context, told, closing>>

(* ClickHouse runs the rewritten SQL, or after a Go error the original,    *)
(* and fails with a text about this statement.                             *)
StatementFails(g) ==
    /\ Move(g, "returned", "failed")
    /\ answer[g].kind # "refusal"
    /\ \E m \in SUBSET (Mapped[call[g]] \cup Hidden[call[g]]) : message' = [message EXCEPT ![g] = m]
    /\ UNCHANGED <<call, answer, context, told, last, recent, closing>>

(* The statement is done, the session goes on. *)
StatementEnds(g) ==
    /\ step[g] \in {"returned", "toldNative", "toldService"}
    /\ step' = [step EXCEPT ![g] = "idle"]
    /\ call' = [call EXCEPT ![g] = NoCall]
    /\ answer' = [answer EXCEPT ![g] = AnswerNone]
    /\ message' = [message EXCEPT ![g] = {}]
    /\ context' = [context EXCEPT ![g] = NoContext]
    /\ told' = [told EXCEPT ![g] = Text({})]
    /\ UNCHANGED <<last, recent, closing>>

---------------------------------------------------------------------------
(* RewriteErrorMessage. *)

(* Mutant: what the maps do not invert is handed out. *)
InvertedUnchecked(m, ctx) ==
    IF ctx.kind # "success" THEN Withheld ELSE Text(m \ Mapped[ctx.call])

(* Invert with the context's maps; what is still hidden withholds it all. *)
Inverted(m, ctx) ==
    IF ctx.kind # "success" \/ (m \ Mapped[ctx.call]) \cap Hidden[ctx.call] # {}
    THEN Withheld ELSE Text(m \ Mapped[ctx.call])

(* NativeRewriter: read last under the mutex, then work on the copy. *)
ReadLast(g) ==
    /\ Move(g, "failed", "asked")
    /\ context' = [context EXCEPT ![g] = last]
    /\ UNCHANGED <<call, answer, message, told, last, recent, closing>>

TellNative(g) ==
    /\ Move(g, "asked", "toldNative")
    /\ told' = [told EXCEPT ![g] = IF context[g] = NoContext THEN Text(message[g])
                                   ELSE Inverted(message[g], context[g])]
    /\ UNCHANGED <<call, answer, message, context, last, recent, closing>>

(* Service: the rewrite runs again, and may answer differently this time. *)
RunAgain(g) ==
    /\ Move(g, "failed", "reran")
    /\ \E a \in Contract(g)!Promised(call[g]) :
          /\ closing = "closed" => a.kind # "success"
          /\ context' = [context EXCEPT ![g] = [call |-> call[g], kind |-> a.kind]]
    /\ UNCHANGED <<call, answer, message, told, last, recent, closing>>

(* Mutant: the text passes through when the second run does not succeed. *)
TellUnchangedOnFailure(g) ==
    /\ Move(g, "reran", "toldService")
    /\ told' = [told EXCEPT ![g] = IF context[g].kind = "success"
                                   THEN Inverted(message[g], context[g]) ELSE Text(message[g])]
    /\ UNCHANGED <<call, answer, message, context, last, recent, closing>>

TellService(g) ==
    /\ Move(g, "reran", "toldService")
    /\ told' = [told EXCEPT ![g] = Inverted(message[g], context[g])]
    /\ UNCHANGED <<call, answer, message, context, last, recent, closing>>

---------------------------------------------------------------------------
(* NativeRewriter.Close: the context first, then the engine. *)
CloseClears ==
    /\ closing = "open"
    /\ closing' = "cleared" /\ last' = NoContext
    /\ UNCHANGED <<step, call, answer, message, context, told, recent>>

CloseEngine ==
    /\ closing = "cleared"
    /\ closing' = "closed"
    /\ UNCHANGED <<step, call, answer, message, context, told, last, recent>>

Init ==
    /\ step = [g \in Clients |-> "idle"]
    /\ call = [g \in Clients |-> NoCall]
    /\ answer = [g \in Clients |-> AnswerNone]
    /\ message = [g \in Clients |-> {}]
    /\ context = [g \in Clients |-> NoContext]
    /\ told = [g \in Clients |-> Text({})]
    /\ last = NoContext /\ recent = NoCall /\ closing = "open"

Client(g) ==
    \/ \E c \in Calls : BeginRewrite(g, c)
    \/ AnswerRewrite(g) \/ ReturnRewrite(g) \/ StatementFails(g) \/ StatementEnds(g)
    \/ ReadLast(g) \/ TellNative(g) \/ RunAgain(g) \/ TellService(g)

Next == (\E g \in Clients : Client(g)) \/ CloseClears \/ CloseEngine

Spec == Init /\ [][Next]_vars

---------------------------------------------------------------------------
(* The state of the session has its shape: the steps of each goroutine,    *)
(* whole answers and whole contexts (native.go 17-51).                     *)
TypeOK ==
    /\ step \in [Clients -> Steps]
    /\ call \in [Clients -> Calls \cup {NoCall}]
    /\ answer \in [Clients -> Answers]
    /\ message \in [Clients -> SUBSET Names]
    /\ context \in [Clients -> Contexts]
    /\ told \in [Clients -> [withheld : BOOLEAN, names : SUBSET Names]]
    /\ last \in Contexts
    /\ recent \in Calls \cup {NoCall}
    /\ closing \in {"open", "cleared", "closed"}

(* While the connection is open, what NativeRewriter tells the client of a *)
(* statement rewritten without a Go error contains no hidden name of that  *)
(* statement's options (RewriteErrorMessage, native.go 486-502): the       *)
(* context it reads is that statement's.  For one client at a time, as the *)
(* Rewriter interface asks ("bound to one client connection").             *)
NoHiddenNameTold ==
    \A g \in Clients :
        step[g] = "toldNative" /\ closing = "open" /\ answer[g].kind # "error" =>
            told[g].names \cap Hidden[call[g]] = {}

(* The Service tells no hidden name at any time: after Close, racing it,   *)
(* or when the second run fails where the first did not (service.go        *)
(* 60-85).                                                                 *)
ServiceNeverLeaks ==
    \A g \in Clients :
        step[g] = "toldService" => told[g].names \cap Hidden[call[g]] = {}

(* While the connection is open, a dynamic Rewrite that has returned is    *)
(* the one last describes: dynamic calls never end in a Go error, so each  *)
(* is stashed (native.go 466-477 over the contract of doRewrite).          *)
LastIsCurrent == closing = "open" /\ recent \in DynamicCalls => last.call = recent

(* callContext "is the per-connection record of the most recent Rewrite"   *)
(* (native.go:25-26).                                                      *)
LastIsMostRecentRewrite == last # NoContext => last.call = recent

(* "When the forward rewrite is non-Success, fails internally, or          *)
(* sql/message is empty, the message passes through unchanged"             *)
(* (service.go:54-56).                                                     *)
FailedForwardPassesThrough ==
    \A g \in Clients :
        step[g] = "toldService" /\ context[g].kind # "success" =>
            told[g] = Text(message[g])
==============================================================================
