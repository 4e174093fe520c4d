--------------------------- MODULE RewritePipeline ---------------------------
(***************************************************************************)
(* One call of doRewrite (native.go), stage by stage: normalise the EMPTY  *)
(* and COMMENT forms, validate the options, parse, run the gates and the   *)
(* handlers in order, finalize the answer (its own gates included), and    *)
(* put the stripped clause back.  Between any two stages another goroutine *)
(* may close the engine, and every stage that asks the engine may fail.    *)
(***************************************************************************)
EXTENDS ObjectHandler

CONSTANTS
    Requests,    \* the calls a client may make: records [opts, st]
    NoRequest    \* no call is being made

ASSUME RequestAssumption == NoRequest \notin Requests

ASSUME StatementAssumption == \A r \in Requests : WellFormed(r.st)

ASSUME OptionsAssumption == \A r \in Requests : WellFormedOptions(r.opts)

VARIABLES
    req,        \* the request being rewritten
    pc,         \* the stage the call is in
    text,       \* which text rewriteStatement works on: "caller" or "stripped"
    stripErr,   \* StripCreateTableEmpty failed
    resp,       \* the response built so far
    siv,        \* siVersion, the acknowledged storage-integrity contract
    ec,         \* existence_clause of the parsed statement
    closed      \* the engine has been closed

vars == <<req, pc, text, stripErr, resp, siv, ec, closed>>

Stages == {"idle", "strip", "validate", "parse", "liveView", "parsedInFull", "preflight",
           "write", "dblevel", "describe", "exists", "grant", "select", "tail",
           "systemGate", "regenerated", "identity", "restore", "done", "goError"}

Sel == FindActive(req.opts)
Dynamic == Sel.Mode = "dynamic"

(* What the engine parses: without the strip, the EMPTY body or the view's *)
(* COMMENT is a tail the parser does not consume.                          *)
ParsedStatement ==
    IF text = "stripped" \/ req.st.form = "plain" THEN req.st
    ELSE [req.st EXCEPT !.marks = @ \cup {"unparsedTail"},
                        !.reads = IF req.st.form = "empty" THEN <<>> ELSE @]

---------------------------------------------------------------------------
(* finalize.                                                               *)

(* A refusal names the SI object that the statement's grammar proves,      *)
(* unless an SI handler already answered.  Message only.                   *)
AnnotateStorageIntegrityReject(r) ==
    LET st == ParsedStatement
        a  == Sel.Dynamic
        physical(x) == IsStorageIntegrityPhysicalDatabase(
                          IF x.table = NoTable THEN x.db ELSE LogicalOf(x.db, a), a)
        bad   == {i \in DOMAIN st.named : physical(st.named[i])
                     \/ IsStorageIntegrity(st.named[i].db, st.named[i].table, a)}
        reads == st.kind # "command" /\ \E i \in DOMAIN st.reads :
                     st.reads[i].db # "" /\ physical(st.reads[i])
    IN  IF \/ r.Message = "identifierParameter" \/ ~SIActive(Sel)
           \/ touchesStorageIntegrity(r.Accessed)
           \/ bad = {} /\ ~reads
        THEN r
        ELSE [r EXCEPT !.Message = IF bad # {} /\ ~physical(FirstOf(st.named, bad))
                                   THEN "siWrite" ELSE "siPhysical"]

(* The end of finalize on a refusal: no statement type, the SQL echoed. *)
Refused(r) ==
    LET done == [r EXCEPT !.StatementType = "UNSPECIFIED",
                          !.After = IF @ = NoText THEN Echo(text) ELSE @]
    IN  IF siv = "UNSPECIFIED" THEN done ELSE AnnotateStorageIntegrityReject(done)

(* Mutant: the handler's response leaves without the contract version. *)
FinalizeUnstamped(r) ==
    IF r.Code = "Success"
    THEN pc' = "systemGate" /\ resp' = [r EXCEPT !.ec = ec]
    ELSE pc' = "restore" /\ resp' = Refused([r EXCEPT !.ec = ec])

(* A response leaves a handler: stamped; a Success goes on to the gates.   *)
Finalize(r) ==
    LET stamped == [r EXCEPT !.ec = ec, !.siv = siv]
    IN  IF r.Code = "Success"
        THEN pc' = "systemGate" /\ resp' = stamped
        ELSE pc' = "restore" /\ resp' = Refused(stamped)

(* A gate of finalize refuses a would-be Success. *)
RefuseSuccess(r, msg) ==
    /\ pc' = "restore"
    /\ resp' = Refused([Rejected(r, "UnsupportedStatement", msg) EXCEPT !.After = Echo(text)])

(* Mutant: only an active SI surface is sealed. *)
SealOnlySI ==
    IF siv = "UNSPECIFIED" THEN pc' = "goError" /\ UNCHANGED resp
    ELSE Finalize(Rejected(resp, "UnsupportedStatement", "siUnmodelled"))

(* An engine failure inside a handler: a Go error only where no dynamic    *)
(* policy is in force.                                                     *)
sealStorageIntegrityHandlerError ==
    IF siv = "UNSPECIFIED" /\ ~Dynamic
    THEN pc' = "goError" /\ UNCHANGED resp
    ELSE Finalize(Rejected(resp, "UnsupportedStatement",
                           IF siv = "UNSPECIFIED" THEN "notSupported" ELSE "siUnmodelled"))

---------------------------------------------------------------------------
(* doRewrite up to rewriteStatement.                                       *)

Call(r) ==
    /\ pc = "idle"
    /\ req' = r /\ pc' = "strip"
    /\ UNCHANGED <<text, stripErr, resp, siv, ec, closed>>

NothingToStrip ==
    /\ pc = "strip" /\ req.st.form = "plain"
    /\ pc' = "validate"
    /\ UNCHANGED <<req, text, stripErr, resp, siv, ec, closed>>

(* The clause is found and cut out of the text, or the engine fails and    *)
(* the text goes on as it is.                                              *)
StripViewComment ==
    /\ pc = "strip" /\ req.st.form = "comment"
    /\ \/ ~closed /\ text' = "stripped"
       \/ UNCHANGED text
    /\ pc' = "validate"
    /\ UNCHANGED <<req, stripErr, resp, siv, ec, closed>>

(* A failed parse leaves the text to the SyntaxError of the main parse; a  *)
(* failed tokenizer is remembered.                                         *)
StripCreateTableEmpty ==
    /\ pc = "strip" /\ req.st.form = "empty"
    /\ \/ ~closed /\ text' = "stripped" /\ UNCHANGED stripErr
       \/ closed /\ UNCHANGED <<text, stripErr>>
       \/ stripErr' = TRUE /\ UNCHANGED text
    /\ pc' = "validate"
    /\ UNCHANGED <<req, resp, siv, ec, closed>>

---------------------------------------------------------------------------
(* rewriteStatement.                                                       *)

(* Mutant: the version is acknowledged before it is checked. *)
AcknowledgeFirst ==
    LET a == Sel.Dynamic
        stamped == [EmptyResponse(Echo(text)) EXCEPT !.siv = IF SIActive(Sel) THEN a.si.version ELSE @]
        ok == /\ SIActive(Sel) => a.si.version \in {"V1", "V2"} /\ ValidateStorageIntegrity(a)
              /\ Dynamic => ValidateProtectedDatabases(a)
    IN  /\ pc = "validate"
        /\ siv' = stamped.siv
        /\ resp' = IF ok THEN stamped
                   ELSE Rejected(stamped, "InvalidRewriteRequest", "badConfiguration")
        /\ pc' = IF ok THEN "parse" ELSE "restore"
        /\ UNCHANGED <<req, text, stripErr, ec, closed>>

(* The contract version, the SI configuration, the protected databases:    *)
(* the version is acknowledged once the first two pass.                    *)
ValidateRequest ==
    LET a == Sel.Dynamic
        base == EmptyResponse(Echo(text))
        siOK == SIActive(Sel) => a.si.version \in {"V1", "V2"} /\ ValidateStorageIntegrity(a)
        acked == IF SIActive(Sel) /\ siOK THEN a.si.version ELSE "UNSPECIFIED"
        stamped == [base EXCEPT !.siv = acked]
        ok == siOK /\ (Dynamic => ValidateProtectedDatabases(a))
    IN  /\ pc = "validate"
        /\ siv' = acked
        /\ resp' = IF ok THEN stamped
                   ELSE Rejected(stamped, "InvalidRewriteRequest", "badConfiguration")
        /\ pc' = IF ok THEN "parse" ELSE "restore"
        /\ UNCHANGED <<req, text, stripErr, ec, closed>>

(* Mutant: a failed parse is an internal error. *)
ParseErrorIsGoError ==
    /\ pc = "parse"
    /\ \/ /\ ~closed
          /\ resp' = [resp EXCEPT !.StatementType = classify(ParsedStatement)]
          /\ ec' = ParsedStatement.ec
          /\ pc' = "liveView"
       \/ /\ pc' = IF Dynamic THEN "restore" ELSE "goError"
          /\ resp' = Rejected(resp, "SyntaxError", "syntax")
          /\ UNCHANGED ec
    /\ UNCHANGED <<req, text, stripErr, siv, closed>>

ParseOne ==
    /\ pc = "parse"
    /\ \/ /\ ~closed
          /\ resp' = [resp EXCEPT !.StatementType = classify(ParsedStatement)]
          /\ ec' = ParsedStatement.ec
          /\ pc' = "liveView"
       \/ /\ resp' = Rejected(resp, "SyntaxError", "syntax")
          /\ pc' = "restore"
          /\ UNCHANGED ec
    /\ UNCHANGED <<req, text, stripErr, siv, closed>>

(* While SI is active, a live view, or a failure to tell, is refused; only *)
(* these kinds can be one.                                                 *)
ClassifyLiveView ==
    LET candidate == siv # "UNSPECIFIED" /\ ParsedStatement.kind \in {"create_view", "raw", "command"}
    IN  /\ pc = "liveView"
        /\ \/ /\ candidate => ~closed /\ "liveView" \notin ParsedStatement.marks
              /\ pc' = "parsedInFull" /\ UNCHANGED resp
           \/ /\ candidate
              /\ Finalize(Rejected(resp, "UnsupportedStatement", "siUnmodelled"))
        /\ UNCHANGED <<req, text, stripErr, siv, ec, closed>>

CheckParsedInFull ==
    /\ pc = "parsedInFull"
    /\ \/ /\ ~closed /\ "unparsedTail" \notin ParsedStatement.marks
          /\ pc' = "preflight" /\ UNCHANGED resp
       \/ Finalize(Rejected(resp, "UnsupportedStatement", "notSupported"))
    /\ UNCHANGED <<req, text, stripErr, siv, ec, closed>>

(* A handler answers, declines, or fails.  It fails only where it asks the *)
(* engine: for its verdict (asks), or to write the SQL of a Success, which *)
(* a closed engine cannot do.                                              *)
Handler(stage, next, result, asks) ==
    /\ pc = stage
    /\ \/ /\ result.handled
          /\ closed => result.resp.Code # "Success"
          /\ Finalize(result.resp)
       \/ /\ ~result.handled
          /\ pc' = next /\ UNCHANGED resp
       \/ /\ asks \/ (result.handled /\ result.resp.Code = "Success")
          /\ sealStorageIntegrityHandlerError
    /\ UNCHANGED <<req, text, stripErr, siv, ec, closed>>

(* The targets of a command, of an ALTER's raw action and a V2 DROP are    *)
(* read from tokens, and so is what the SI preflight looks for.            *)
WriteAsks(st) ==
    \/ st.sub \in {"rename", "exchange", "alterUpdate", "bareReject"}
    \/ Dynamic /\ st.kind \in {"command", "alter_table"}
    \/ st.kind = "drop_table" /\ StorageIntegrityDropContract(Sel)
    \/ SIActive(Sel) /\ ~IsReadRoot(st)

(* The other handlers tokenize a command, and leave the rest unread. *)
IsCommand == ParsedStatement.kind = "command"

RunPreflight ==
    Handler("preflight", "write", PreflightTableReferences(ParsedStatement, text, Sel), Dynamic)

RunWrite ==
    Handler("write", "dblevel", RewriteWrite(ParsedStatement, text, req.opts),
            WriteAsks(ParsedStatement))

RunDBLevel ==
    Handler("dblevel", "describe", RewriteDBLevel(ParsedStatement, text, req.opts), IsCommand)

RunDescribe ==
    Handler("describe", "exists", RewriteDescribe(ParsedStatement, req.opts), IsCommand)

RunExists ==
    Handler("exists", "grant", RewriteExistsShowCreate(ParsedStatement, req.opts), IsCommand)

RunGrant == Handler("grant", "select", RewriteGrant(ParsedStatement, req.opts), IsCommand)

RunSelect ==
    Handler("select", "tail", IF IsReadRoot(ParsedStatement)
                              THEN Handled(RewriteSelect(ParsedStatement, req.opts))
                              ELSE NotHandled,
            IsReadRoot(ParsedStatement) /\ SIActive(Sel))

(* Only a session SET of plain settings is admitted in dynamic mode. *)
sessionSet == ParsedStatement.sub = "set" /\ "badSetting" \notin ParsedStatement.marks

(* A statement no handler models.  A failed Generate leaves the echo.      *)
PassThrough ==
    LET st == ParsedStatement
        unchanged == {OutRef("table", st.reads[i].db, st.reads[i].table, st.reads[i], "caller") :
                        i \in DOMAIN st.reads}
        passed == [resp EXCEPT !.Message = "success"]
    IN  /\ pc = "tail"
        /\ \/ /\ siv # "UNSPECIFIED"
              /\ Finalize(Rejected(resp, "UnsupportedStatement", "siUnmodelled"))
           \/ /\ siv = "UNSPECIFIED" /\ Dynamic /\ ~sessionSet
              /\ Finalize(Rejected(resp, "UnsupportedStatement", "notSupported"))
           \/ /\ siv = "UNSPECIFIED" /\ (Dynamic => sessionSet)
              /\ \/ ~closed /\ Finalize([passed EXCEPT !.After = Generated(unchanged)])
                 \/ Finalize(passed)
        /\ UNCHANGED <<req, text, stripErr, siv, ec, closed>>

---------------------------------------------------------------------------
(* The gates of finalize, on a would-be Success.                           *)

SystemTableGate ==
    /\ pc = "systemGate"
    /\ \/ /\ ~RejectSystemTablesOnSuccess(ParsedStatement, Sel)
          /\ pc' = "regenerated" /\ UNCHANGED resp
       \/ /\ RejectSystemTablesOnSuccess(ParsedStatement, Sel)
          /\ pc' = "restore"
          /\ resp' = Refused([rejectSystemTable(resp, ParsedStatement, Sel) EXCEPT
                                 !.After = Echo(text)])
       \/ /\ SIActive(Sel)
          /\ RefuseSuccess([resp EXCEPT !.TableRewrites = EmptyMap, !.DatabaseRewrites = EmptyMap,
                                     !.PrivilegesDeltas = <<>>], "siUnmodelled")
    /\ UNCHANGED <<req, text, stripErr, siv, ec, closed>>

(* Mutant: the drop gate guards dynamic requests only. *)
RegeneratedIfDynamic ==
    /\ pc = "regenerated"
    /\ \/ /\ Dynamic => ~closed /\ "dropsTokens" \notin ParsedStatement.marks
          /\ pc' = IF Dynamic THEN "identity" ELSE "restore"
          /\ UNCHANGED resp
       \/ Dynamic /\ RefuseSuccess(resp, "notSupported")
    /\ UNCHANGED <<req, text, stripErr, siv, ec, closed>>

(* The regenerated text must spell the input; a refusal keeps the maps. *)
CheckRegenerated ==
    /\ pc = "regenerated"
    /\ \/ /\ ~closed /\ "dropsTokens" \notin ParsedStatement.marks
          /\ pc' = IF Dynamic THEN "identity" ELSE "restore"
          /\ UNCHANGED resp
       \/ RefuseSuccess(resp, "notSupported")
    /\ UNCHANGED <<req, text, stripErr, siv, ec, closed>>

FirstDeploymentIdentityName ==
    /\ pc = "identity"
    /\ \/ /\ ~closed /\ "identity" \notin ParsedStatement.marks
          /\ pc' = "restore" /\ UNCHANGED resp
       \/ RefuseSuccess(resp, "notSupported")
    /\ UNCHANGED <<req, text, stripErr, siv, ec, closed>>

---------------------------------------------------------------------------
(* doRewrite after rewriteStatement.                                       *)

(* Mutant: the clause that cannot be put back is an internal error. *)
SealWithGoError == pc' = "goError" /\ UNCHANGED resp

sealCreateTableEmpty ==
    IF ~Dynamic THEN pc' = "goError" /\ UNCHANGED resp
    ELSE /\ pc' = "done"
         /\ resp' = [EmptyResponse(Echo("caller")) EXCEPT
                        !.Code = "UnsupportedStatement",
                        !.Message = IF resp.siv = "UNSPECIFIED" THEN "notSupported" ELSE "siUnmodelled",
                        !.ec = resp.ec, !.siv = resp.siv]

(* New SQL with the clause put back. *)
Restored(after) == [text |-> "restored", out |-> after.out]

(* Mutant: a refusal keeps the text it was decided on. *)
RestoreOnSuccessOnly ==
    /\ pc = "restore"
    /\ \/ /\ resp.Code # "Success" \/ (text = "caller" /\ ~stripErr)
          /\ pc' = "done" /\ UNCHANGED resp
       \/ /\ text = "stripped" /\ resp.Code = "Success"
          /\ pc' = "done" /\ resp' = [resp EXCEPT !.After = Restored(@)]
       \/ /\ stripErr /\ resp.Code = "Success"
          /\ sealCreateTableEmpty
    /\ UNCHANGED <<req, text, stripErr, siv, ec, closed>>

(* Mutant: the clause is put back where EMPTY was cut, not for a COMMENT. *)
RestoreEmptyOnly ==
    /\ pc = "restore"
    /\ \/ /\ req.st.form # "empty"
          /\ pc' = "done"
          /\ resp' = IF resp.Code = "Success" THEN resp ELSE [resp EXCEPT !.After = Echo("caller")]
       \/ /\ req.st.form = "empty" /\ resp.Code # "Success"
          /\ pc' = "done" /\ resp' = [resp EXCEPT !.After = Echo("caller")]
       \/ /\ req.st.form = "empty" /\ resp.Code = "Success"
          /\ pc' = "done" /\ resp' = [resp EXCEPT !.After = Restored(@)]
    /\ UNCHANGED <<req, text, stripErr, siv, ec, closed>>

(* The stripped clause goes back on a Success; a refusal echoes the        *)
(* caller's SQL.                                                           *)
Restore ==
    /\ pc = "restore"
    /\ \/ /\ text = "caller" /\ ~stripErr
          /\ pc' = "done" /\ UNCHANGED resp
       \/ /\ text = "stripped" \/ stripErr
          /\ resp.Code # "Success"
          /\ pc' = "done" /\ resp' = [resp EXCEPT !.After = Echo("caller")]
       \/ /\ text = "stripped" /\ resp.Code = "Success"
          /\ IF req.st.form = "comment" THEN "noTrailingParen" \notin req.st.marks ELSE ~closed
          /\ pc' = "done" /\ resp' = [resp EXCEPT !.After = Restored(@)]
       \/ /\ resp.Code = "Success"
          /\ \/ stripErr
             \/ /\ text = "stripped"
                /\ req.st.form = "comment" => "noTrailingParen" \in req.st.marks
          /\ sealCreateTableEmpty
    /\ UNCHANGED <<req, text, stripErr, siv, ec, closed>>

(* The caller takes the answer. *)
Return ==
    /\ pc \in {"done", "goError"}
    /\ pc' = "idle" /\ req' = NoRequest /\ text' = "caller" /\ stripErr' = FALSE
    /\ resp' = EmptyResponse(NoText) /\ siv' = "UNSPECIFIED" /\ ec' = "none"
    /\ UNCHANGED closed

(* Service.Close, from any goroutine at any time. *)
Close ==
    /\ ~closed /\ closed' = TRUE
    /\ UNCHANGED <<req, pc, text, stripErr, resp, siv, ec>>

---------------------------------------------------------------------------
Init ==
    /\ req = NoRequest /\ pc = "idle" /\ text = "caller" /\ stripErr = FALSE
    /\ resp = EmptyResponse(NoText) /\ siv = "UNSPECIFIED" /\ ec = "none"
    /\ closed = FALSE

Step ==
    \/ NothingToStrip \/ StripViewComment \/ StripCreateTableEmpty
    \/ ValidateRequest \/ ParseOne \/ ClassifyLiveView \/ CheckParsedInFull
    \/ RunPreflight \/ RunWrite \/ RunDBLevel \/ RunDescribe \/ RunExists \/ RunGrant
    \/ RunSelect \/ PassThrough
    \/ SystemTableGate \/ CheckRegenerated \/ FirstDeploymentIdentityName
    \/ Restore

Next == (\E r \in Requests : Call(r)) \/ Step \/ Return \/ Close

(* A call is one goroutine that runs to its end: its steps are never       *)
(* postponed for ever.  Calls and Close happen at the caller's will.       *)
Spec == Init /\ [][Next]_vars /\ WF_vars(Step)
==============================================================================
