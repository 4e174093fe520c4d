------------------------ MODULE RewriterSessionProofs ------------------------
(***************************************************************************)
(* The session's guarantees for any number of calls, names and goroutines; *)
(* the ones about NativeRewriter's shared context for one client, as the   *)
(* Rewriter interface asks.                                                *)
(***************************************************************************)
EXTENDS RewriterSession, TLAPS

Kinds == {"success", "refusal", "error"}

(* A goroutine with a statement has a call, and an answer once Rewrite     *)
(* has answered; a dynamic call's answer is no Go error.                   *)
Working ==
    \A g \in Clients :
        /\ step[g] # "idle" => call[g] \in Calls
        /\ step[g] \in {"idle", "rewriting"} => answer[g].kind = "none"
        /\ step[g] \notin {"idle", "rewriting"} => answer[g].kind \in Kinds
        /\ call[g] \in DynamicCalls => answer[g].kind # "error"

IInv == TypeOK /\ Working

LEMMA PromisedAnswers ==
    ASSUME NEW g \in Clients, NEW a \in Contract(g)!Promised(call[g])
    PROVE  /\ a \in Answers /\ a.kind \in Kinds
           /\ call[g] \in DynamicCalls => a.kind # "error"
  BY DEF Contract!Promised, Contract!Success, Contract!Refusal, Contract!GoError, Answers, Kinds

LEMMA InvertedType ==
    ASSUME NEW m \in SUBSET Names, NEW ctx \in Contexts
    PROVE  Inverted(m, ctx) \in [withheld : BOOLEAN, names : SUBSET Names]
  BY DEF Inverted, Withheld, Text

(* Every step keeps the state's shape and each goroutine's bookkeeping. *)
LEMMA StepKeepsIInv == IInv /\ [Next]_vars => IInv'
<1> SUFFICES ASSUME IInv, [Next]_vars PROVE IInv'
  OBVIOUS
<1> USE SessionAssumption
<1>1. ASSUME NEW g \in Clients, NEW c \in Calls, BeginRewrite(g, c) PROVE IInv'
  BY <1>1 DEF IInv, TypeOK, Working, BeginRewrite, Move, Steps
<1>2. ASSUME NEW g \in Clients, AnswerRewrite(g) PROVE IInv'
  <2> PICK a \in Contract(g)!Promised(call[g]) : answer' = [answer EXCEPT ![g] = a]
    BY <1>2 DEF AnswerRewrite
  <2>1. /\ a \in Answers /\ a.kind \in Kinds
        /\ call[g] \in DynamicCalls => a.kind # "error"
    BY PromisedAnswers
  <2> QED BY <1>2, <2>1 DEF IInv, TypeOK, Working, AnswerRewrite, Move, Steps, Kinds
<1>3. ASSUME NEW g \in Clients, ReturnRewrite(g) PROVE IInv'
  BY <1>3 DEF IInv, TypeOK, Working, ReturnRewrite, Move, Steps, Kinds, Contexts
<1>4. ASSUME NEW g \in Clients, StatementFails(g) PROVE IInv'
  BY <1>4 DEF IInv, TypeOK, Working, StatementFails, Move, Steps, Kinds
<1>5. ASSUME NEW g \in Clients, StatementEnds(g) PROVE IInv'
  <2>1. AnswerNone \in Answers /\ AnswerNone.kind = "none"
    BY DEF AnswerNone, Answers
  <2>2. Text({}) \in [withheld : BOOLEAN, names : SUBSET Names] /\ NoContext \in Contexts
    BY DEF Text, Contexts
  <2> QED BY <1>5, <2>1, <2>2 DEF IInv, TypeOK, Working, StatementEnds, Steps, Kinds
<1>6. ASSUME NEW g \in Clients, ReadLast(g) PROVE IInv'
  BY <1>6 DEF IInv, TypeOK, Working, ReadLast, Move, Steps, Kinds
<1>7. ASSUME NEW g \in Clients, TellNative(g) PROVE IInv'
  <2>1. Inverted(message[g], context[g]) \in [withheld : BOOLEAN, names : SUBSET Names]
    BY InvertedType DEF IInv, TypeOK
  <2>2. Text(message[g]) \in [withheld : BOOLEAN, names : SUBSET Names]
    BY DEF Text, IInv, TypeOK
  <2> QED BY <1>7, <2>1, <2>2 DEF IInv, TypeOK, Working, TellNative, Move, Steps, Kinds
<1>8. ASSUME NEW g \in Clients, RunAgain(g) PROVE IInv'
  <2> PICK a \in Contract(g)!Promised(call[g]) :
         context' = [context EXCEPT ![g] = [call |-> call[g], kind |-> a.kind]]
    BY <1>8 DEF RunAgain
  <2>1. a.kind \in Kinds
    BY PromisedAnswers
  <2>2. [call |-> call[g], kind |-> a.kind] \in Contexts
    BY <1>8, <2>1 DEF Contexts, Kinds, IInv, Working, RunAgain, Move
  <2> QED BY <1>8, <2>2 DEF IInv, TypeOK, Working, RunAgain, Move, Steps, Kinds
<1>9. ASSUME NEW g \in Clients, TellService(g) PROVE IInv'
  <2>1. Inverted(message[g], context[g]) \in [withheld : BOOLEAN, names : SUBSET Names]
    BY InvertedType DEF IInv, TypeOK
  <2> QED BY <1>9, <2>1 DEF IInv, TypeOK, Working, TellService, Move, Steps, Kinds
<1>10. CASE CloseClears
  BY <1>10 DEF IInv, TypeOK, Working, CloseClears, Contexts
<1>11. CASE CloseEngine
  BY <1>11 DEF IInv, TypeOK, Working, CloseEngine
<1>12. CASE UNCHANGED vars
  BY <1>12 DEF IInv, TypeOK, Working, vars
<1> QED BY <1>1, <1>2, <1>3, <1>4, <1>5, <1>6, <1>7, <1>8, <1>9, <1>10, <1>11, <1>12 DEF Next, Client

LEMMA InitHasIInv == Init => IInv
  BY SessionAssumption DEF Init, IInv, TypeOK, Working, Steps, Contexts, Answers, AnswerNone, Text

LEMMA Bookkeeping == Spec => []IInv
  BY InitHasIInv, StepKeepsIInv, PTL DEF Spec

(* The session keeps its shape under any interleaving of its goroutines    *)
(* and Close (NativeRewriter and Service, native.go and service.go).       *)
THEOREM TypeCorrect == Spec => []TypeOK
<1>1. IInv => TypeOK
  BY DEF IInv
<1> QED BY <1>1, Bookkeeping, PTL

---------------------------------------------------------------------------
(* While the connection is open, a dynamic Rewrite that has returned is    *)
(* the one last describes (NativeRewriter.Rewrite, native.go 466-477).     *)
THEOREM DynamicCallIsStashed == Spec => []LastIsCurrent
<1>1. Init => LastIsCurrent
  BY SessionAssumption DEF Init, LastIsCurrent
<1>2. IInv /\ LastIsCurrent /\ [Next]_vars => LastIsCurrent'
  <2> SUFFICES ASSUME IInv, LastIsCurrent, [Next]_vars PROVE LastIsCurrent'
    OBVIOUS
  <2>1. ASSUME NEW g \in Clients, ReturnRewrite(g) PROVE LastIsCurrent'
    <3>1. recent' = call[g] /\ closing' = closing
      BY <2>1 DEF ReturnRewrite
    <3>2. CASE answer[g].kind = "error"
      <4>1. call[g] \notin DynamicCalls
        BY <3>2 DEF IInv, Working
      <4> QED BY <3>1, <4>1 DEF LastIsCurrent
    <3>3. CASE answer[g].kind # "error"
      <4>1. last'.call = call[g]
        BY <2>1, <3>3 DEF ReturnRewrite
      <4> QED BY <3>1, <4>1 DEF LastIsCurrent
    <3> QED BY <3>2, <3>3
  <2>2. CASE UNCHANGED <<last, recent, closing>>
    BY <2>2 DEF LastIsCurrent
  <2>3. CASE CloseClears \/ CloseEngine
    BY <2>3 DEF LastIsCurrent, CloseClears, CloseEngine
  <2> QED BY <2>1, <2>2, <2>3 DEF Next, Client, vars, BeginRewrite, AnswerRewrite,
                StatementFails, StatementEnds, ReadLast, TellNative, RunAgain, TellService
<1> QED BY <1>1, <1>2, Bookkeeping, PTL DEF Spec

---------------------------------------------------------------------------
(* The Service works on the context of its own second run: the call's.     *)
ServiceContext ==
    \A g \in Clients :
        /\ step[g] \in {"reran", "toldService"} => context[g].call = call[g]
        /\ step[g] = "toldService" => told[g] = Inverted(message[g], context[g])

LEMMA StepKeepsServiceContext == IInv /\ ServiceContext /\ [Next]_vars => ServiceContext'
<1> SUFFICES ASSUME IInv, ServiceContext, [Next]_vars PROVE ServiceContext'
  OBVIOUS
<1>1. ASSUME NEW g \in Clients, NEW c \in Calls, BeginRewrite(g, c) PROVE ServiceContext'
  BY <1>1 DEF IInv, TypeOK, ServiceContext, BeginRewrite, Move
<1>2. ASSUME NEW g \in Clients, AnswerRewrite(g) \/ ReturnRewrite(g) PROVE ServiceContext'
  BY <1>2 DEF IInv, TypeOK, ServiceContext, AnswerRewrite, ReturnRewrite, Move
<1>3. ASSUME NEW g \in Clients, StatementFails(g) \/ ReadLast(g) PROVE ServiceContext'
  BY <1>3 DEF IInv, TypeOK, ServiceContext, StatementFails, ReadLast, Move
<1>4. ASSUME NEW g \in Clients, StatementEnds(g) PROVE ServiceContext'
  BY <1>4 DEF IInv, TypeOK, ServiceContext, StatementEnds
<1>5. ASSUME NEW g \in Clients, TellNative(g) PROVE ServiceContext'
  BY <1>5 DEF IInv, TypeOK, ServiceContext, TellNative, Move
<1>6. ASSUME NEW g \in Clients, RunAgain(g) PROVE ServiceContext'
  BY <1>6 DEF IInv, TypeOK, ServiceContext, RunAgain, Move
<1>7. ASSUME NEW g \in Clients, TellService(g) PROVE ServiceContext'
  BY <1>7 DEF IInv, TypeOK, ServiceContext, TellService, Move
<1>8. CASE CloseClears \/ CloseEngine \/ UNCHANGED vars
  BY <1>8 DEF ServiceContext, CloseClears, CloseEngine, vars
<1> QED BY <1>1, <1>2, <1>3, <1>4, <1>5, <1>6, <1>7, <1>8 DEF Next, Client

(* What the inversion lets through holds no hidden name of its call. *)
LEMMA InvertedHidesNames ==
    ASSUME NEW m, NEW ctx
    PROVE  Inverted(m, ctx).names \cap Hidden[ctx.call] = {}
  BY DEF Inverted, Withheld, Text

(* The Service tells no hidden name of the statement, whatever its second  *)
(* run answers and whenever Close comes, for any number of goroutines      *)
(* (RewriteErrorMessage, service.go 60-85).                                *)
THEOREM ServiceLeaksNothing == Spec => []ServiceNeverLeaks
<1>1. Init => ServiceContext
  BY DEF Init, ServiceContext
<1>2. ServiceContext => ServiceNeverLeaks
  BY InvertedHidesNames DEF ServiceContext, ServiceNeverLeaks
<1> QED BY <1>1, <1>2, Bookkeeping, StepKeepsServiceContext, PTL DEF Spec

---------------------------------------------------------------------------
(* One client at a time. *)
OneClient == \A g, h \in Clients : g = h

(* What a stashed context says of goroutine g's statement. *)
OwnContext(g) == [call |-> call[g], kind |-> answer[g].kind]

(* While the connection is open, the context a statement's error text is   *)
(* inverted with is the statement's own, from its return to the text.      *)
NativeContext ==
    closing = "open" =>
        \A g \in Clients : answer[g].kind # "error" =>
            /\ step[g] \in {"returned", "failed"} => last = OwnContext(g)
            /\ step[g] \in {"asked", "toldNative"} => context[g] = OwnContext(g)
            /\ step[g] = "toldNative" => told[g] = Inverted(message[g], context[g])

LEMMA StepKeepsNativeContext ==
    OneClient => (IInv /\ NativeContext /\ [Next]_vars => NativeContext')
<1> SUFFICES ASSUME OneClient, IInv, NativeContext, [Next]_vars PROVE NativeContext'
  OBVIOUS
<1>1. ASSUME NEW g \in Clients, NEW c \in Calls, BeginRewrite(g, c) PROVE NativeContext'
  BY <1>1 DEF IInv, TypeOK, NativeContext, OneClient, OwnContext, BeginRewrite, Move
<1>2. ASSUME NEW g \in Clients, AnswerRewrite(g) PROVE NativeContext'
  BY <1>2 DEF IInv, TypeOK, NativeContext, OneClient, OwnContext, AnswerRewrite, Move
<1>3. ASSUME NEW g \in Clients, ReturnRewrite(g) PROVE NativeContext'
  BY <1>3 DEF IInv, TypeOK, NativeContext, OneClient, OwnContext, ReturnRewrite, Move
<1>4. ASSUME NEW g \in Clients, StatementFails(g) \/ ReadLast(g) PROVE NativeContext'
  BY <1>4 DEF IInv, TypeOK, NativeContext, OneClient, OwnContext, StatementFails, ReadLast, Move
<1>5. ASSUME NEW g \in Clients, StatementEnds(g) PROVE NativeContext'
  BY <1>5 DEF IInv, TypeOK, NativeContext, OneClient, OwnContext, StatementEnds
<1>6. ASSUME NEW g \in Clients, TellNative(g) PROVE NativeContext'
  <2>1. closing = "open" /\ answer[g].kind # "error" => context[g] = OwnContext(g)
    BY <1>6 DEF NativeContext, TellNative, Move
  <2>2. OwnContext(g) # NoContext
    BY <1>6 DEF IInv, Working, Kinds, OwnContext, NoContext, TellNative, Move
  <2> QED BY <1>6, <2>1, <2>2 DEF IInv, TypeOK, NativeContext, OneClient, OwnContext, TellNative, Move
<1>7. ASSUME NEW g \in Clients, RunAgain(g) \/ TellService(g) PROVE NativeContext'
  BY <1>7 DEF IInv, TypeOK, NativeContext, OneClient, OwnContext, RunAgain, TellService, Move
<1>8. CASE CloseClears \/ CloseEngine
  BY <1>8 DEF NativeContext, CloseClears, CloseEngine
<1>9. CASE UNCHANGED vars
  BY <1>9 DEF NativeContext, OwnContext, vars
<1> QED BY <1>1, <1>2, <1>3, <1>4, <1>5, <1>6, <1>7, <1>8, <1>9 DEF Next, Client

(* With one client, what NativeRewriter tells it while the connection is   *)
(* open holds no hidden name of the statement, unless its Rewrite ended in *)
(* a Go error (RewriteErrorMessage, native.go 486-502).                    *)
THEOREM NativeLeaksNothing == OneClient => (Spec => []NoHiddenNameTold)
<1> SUFFICES ASSUME OneClient PROVE Spec => []NoHiddenNameTold
  OBVIOUS
<1>1. Init => NativeContext
  BY DEF Init, NativeContext
<1>2. IInv /\ NativeContext /\ [Next]_vars => NativeContext'
  BY StepKeepsNativeContext
<1>3. NativeContext => NoHiddenNameTold
  <2> SUFFICES ASSUME NativeContext, NEW g \in Clients,
                      step[g] = "toldNative", closing = "open", answer[g].kind # "error"
               PROVE  told[g].names \cap Hidden[call[g]] = {}
    BY DEF NoHiddenNameTold
  <2>1. context[g] = OwnContext(g) /\ told[g] = Inverted(message[g], context[g])
    BY DEF NativeContext
  <2>2. context[g].call = call[g]
    BY <2>1 DEF OwnContext
  <2> QED BY <2>1, <2>2, InvertedHidesNames
<1> QED BY <1>1, <1>2, <1>3, Bookkeeping, PTL DEF Spec
==============================================================================
