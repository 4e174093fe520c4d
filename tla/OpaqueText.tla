----------------------------- MODULE OpaqueText -----------------------------
(***************************************************************************)
(* The scans of text that Polyglot does not structure and the rewriter     *)
(* forwards as written (engine/ungoverned.go, the SHOW body of dblevel.go).*)
(* Nothing in such a text is rewritten, so a text through which ClickHouse *)
(* would read or copy another table has to be refused, on its tokens.      *)
(*                                                                         *)
(* A client composes a text from fragments.  In which texts a fragment     *)
(* makes ClickHouse read a table or run a statement is part of it (reads); *)
(* the scans see the tokens only.  A text is balanced: it has been parsed. *)
(***************************************************************************)
EXTENDS Tokens

CONSTANTS
    Fragments,  \* expressions: [toks, reads, plain, qualifiers]
    Actions,    \* ALTER actions without an expression, likewise
    Names,      \* names of a view, a target and a SHOW object, as tokens
    MaxActions, \* bound: the actions of an ALTER
    MaxItems    \* bound: the items of a view's column list

VARIABLES
    kind,       \* "alter", "insert", "show" or "view": who carries the text
    parts,      \* the actions or items written so far, as fragments
    header,     \* of a view: [name, refresh, to, inner]
    texts,      \* the opaque texts, as Polyglot hands them over
    status,     \* "writing", "handed" or "scanned"
    refused,    \* the scan's answer
    runs        \* the qualified names it reports

ovars == <<kind, parts, header, texts, status, refused, runs>>

Opens == {"L_PAREN", "L_BRACKET"}
Closes == {"R_PAREN", "R_BRACKET"}
Group(s) == <<Kw("L_PAREN")>> \o s \o <<Kw("R_PAREN")>>
(* The bracket depth before s[i]. *)
Depth(s, i) == Cardinality({k \in 1..(i - 1) : s[k].type \in Opens}) - Cardinality({k \in 1..(i - 1) : s[k].type \in Closes})
FirstIn(set, else) == IF set = {} THEN else ELSE CHOOSE i \in set : \A m \in set : i <= m
Join(seqs) == FoldLeft(LAMBDA acc, s : IF acc = <<>> THEN s ELSE acc \o <<Kw("COMMA")>> \o s, <<>>, seqs)

(* s cut at the indices in cuts. *)
CutAt(s, cuts) ==
    LET ends == SetToSortSeq(cuts \cup {Len(s) + 1}, LAMBDA a, b : a < b)
    IN  [n \in DOMAIN ends |-> SubSeq(s, IF n = 1 THEN 1 ELSE ends[n - 1] + 1, ends[n] - 1)]

---------------------------------------------------------------------------
(* The IN rule. *)

inFamilyCanonical == {<<"in">>, <<"notIn">>, <<"globalIn">>}
isCallableInName(tok) == tok.type \in NameTypes /\ tok.text \in inFamilyCanonical

Literals == {"NUMBER", "STRING", "NULL", "TRUE", "FALSE", "COMMA", "DASH", "PLUS"} \cup Opens \cup Closes
opaqueInLiteralToken(tok) == tok.type \in Literals

NoRegion == [ok |-> FALSE, region |-> <<>>]

(* Mutant: a sign is an operand of its own. *)
SignIsOperand(s, i) == IF i \in DOMAIN s THEN [ok |-> TRUE, region |-> <<s[i]>>] ELSE NoRegion

(* What an IN at s[i - 1] applies to: signs, then a bracket group, the     *)
(* arguments of tuple( or array(, or one token.                            *)
opaqueInOperandRegion(s, i) ==
    LET first == FirstIn({k \in i..Len(s) : s[k].type \notin {"PLUS", "DASH"}}, Len(s) + 1)
        built == TypeAt(s, first) = "VAR" /\ TextAt(s, first) \in {<<"tuple">>, <<"array">>} /\ TypeAt(s, first + 1) = "L_PAREN"
        open  == IF built THEN first + 1 ELSE first
        close == FirstIn({k \in open..Len(s) : s[k].type \in Closes /\ Depth(s, k) = Depth(s, open) + 1}, 0)
    IN  IF first > Len(s) \/ s[open].type \in Closes \cup {"COMMA"} THEN NoRegion
        ELSE IF s[open].type \notin Opens THEN [ok |-> TRUE, region |-> SubSeq(s, i, open)]
        ELSE IF close = 0 THEN NoRegion
        ELSE [ok |-> TRUE, region |-> SubSeq(s, i, first - 1) \o SubSeq(s, open, close)]

(* An IN, or a function of its family, over anything but literals. *)
OpaqueInRefusedAt(s, i) ==
    LET keyword == s[i].type = "IN"
        operand == opaqueInOperandRegion(s, i + 1)
    IN  /\ keyword \/ isCallableInName(s[i])
        /\ ~(keyword /\ Word(s, i + 1, "PARTITION"))
        /\ ~operand.ok \/ \E k \in DOMAIN operand.region : ~opaqueInLiteralToken(operand.region[k])

(* The five tokens of an Identifier parameter. *)
tokensHoldIdentifierParameter(s) ==
    \E i \in DOMAIN s : /\ TypeAt(s, i) = "L_BRACE" /\ TypeAt(s, i + 2) = "COLON"
                        /\ TextAt(s, i + 3) = <<"Identifier">> /\ TypeAt(s, i + 4) = "R_BRACE"

---------------------------------------------------------------------------
(* ALTER texts and the items of a view's column list. *)

opaqueActionSegments(s) == CutAt(s, {i \in DOMAIN s : s[i].type = "COMMA" /\ Depth(s, i) <= 0})

opaqueProjectionBody(s) ==
    \/ Len(s) >= 2 /\ TextAt(s, 1) = <<"PROJECTION">>
    \/ Len(s) >= 3 /\ TextAt(s, 1) = <<"ADD">> /\ TextAt(s, 2) = <<"PROJECTION">>

(* One SELECT, which has no FROM, is the projection's own. *)
opaqueProjectionIsUngoverned(s) ==
    \/ \E i \in DOMAIN s : OpaqueInRefusedAt(s, i) \/ \E w \in {"WITH", "FROM", "JOIN"} : Word(s, i, w)
    \/ Cardinality({i \in DOMAIN s : Word(s, i, "SELECT")}) > 1

(* What copies or moves data between tables, or depends on another view. *)
opaqueCrossTableAction(s) ==
    LET part(i) == Word(s, i, "PARTITION") \/ Word(s, i, "PART")
    IN  \/ \E i, j \in DOMAIN s : i <= j /\ Word(s, i, "REFRESH") /\ Word(s, j, "DEPENDS") /\ Word(s, j + 1, "ON")
        \/ \E i \in DOMAIN s :
              /\ part(i + 1)
              /\ \/ Word(s, i, "FETCH")
                 \/ (Word(s, i, "ATTACH") \/ Word(s, i, "REPLACE")) /\ \E j \in DOMAIN s : j >= i + 2 /\ Word(s, j, "FROM")
                 \/ Word(s, i, "MOVE") /\ \E j \in DOMAIN s : j >= i + 2 /\ Word(s, j, "TO") /\ Word(s, j + 1, "TABLE")

segmentIsUngoverned(s) ==
    IF opaqueProjectionBody(s) THEN opaqueProjectionIsUngoverned(s)
    ELSE \/ \E i \in DOMAIN s : \/ OpaqueInRefusedAt(s, i)
                                \/ Word(s, i, "SELECT")
                                \/ Word(s, i, "WITH") /\ TextAt(s, i + 1) # <<"NAME">>
         \/ opaqueCrossTableAction(s)

explains(s) == \E i \in DOMAIN s : i > 1 /\ s[i - 1].type = "L_PAREN" /\ Word(s, i, "EXPLAIN")

(* Mutant: the text is judged as one action. *)
JudgedWhole(s) == tokensHoldIdentifierParameter(s) \/ explains(s) \/ segmentIsUngoverned(s)

OpaqueTextIsUngoverned(s) ==
    \/ tokensHoldIdentifierParameter(s)
    \/ explains(s)
    \/ \E n \in DOMAIN opaqueActionSegments(s) : segmentIsUngoverned(opaqueActionSegments(s)[n])

(* Mutant: a run may begin at the table of the one before it. *)
EveryRun(s, from) ==
    {<<s[i].text, s[i + 2].text>> : i \in {k \in from..(Len(s) - 2) : isNameTok(s[k]) /\ s[k + 1].type = "DOT" /\ isNameTok(s[k + 2])}}

(* The db.table runs of a text; the table of a longer run qualifies nothing. *)
qualifiedNameRuns(s, from) ==
    {<<s[i].text, s[i + 2].text>> :
        i \in {k \in from..(Len(s) - 2) : /\ isNameTok(s[k]) /\ s[k + 1].type = "DOT" /\ isNameTok(s[k + 2])
                                          /\ TypeAt(s, k - 1) # "DOT"}}

---------------------------------------------------------------------------
(* The query of an INSERT, and what follows the target of a SHOW. *)

IsStringLookup == {<<"dictGet">>}

OpaqueInsertQueryIsUngoverned(s) ==
    \/ tokensHoldIdentifierParameter(s)
    \/ \E i \in DOMAIN s : \/ OpaqueInRefusedAt(s, i)
                           \/ s[i].type # "STRING" /\ s[i].text \in IsStringLookup /\ TypeAt(s, i + 1) = "L_PAREN"
                           \/ \E w \in {"FROM", "JOIN", "WITH"} : Word(s, i, w)
    \/ Cardinality({i \in DOMAIN s : Word(s, i, "SELECT")}) > 1

(* The first clause keyword after the target. *)
showBodyStart(s) ==
    FirstIn({i \in 3..Len(s) : Depth(s, i) = 0 /\ \E w \in {"WHERE", "LIKE", "LIMIT", "SETTINGS", "FORMAT", "INTO"} : Word(s, i, w)},
            Len(s) + 1)

ShowBodyIsUngoverned(s) ==
    \E i \in showBodyStart(s)..Len(s) :
        \/ isNameTok(s[i]) /\ TypeAt(s, i + 1) = "L_PAREN"
        \/ Word(s, i, "SELECT") \/ Word(s, i, "WITH")
        \/ s[i].type = "QUOTED_IDENTIFIER" /\ \E k \in DOMAIN s[i].text : s[i].text[k] = "."
        \/ s[i].type = "L_BRACE"
        \/ OpaqueInRefusedAt(s, i)

ShowBodyQualifiedNames(s) == qualifiedNameRuns(s, showBodyStart(s))

---------------------------------------------------------------------------
(* The header of a CREATE VIEW. *)

(* A token that can only be a name: after VIEW, TO or CLUSTER, or a dot. *)
viewHeaderNamePosition(s, i) ==
    TypeAt(s, i - 1) = "DOT" \/ \E w \in {"VIEW", "EXISTS", "TO", "CLUSTER"} : Word(s, i - 1, w)

(* Mutant: a name is taken for a clause keyword. *)
ListBeforeAnyKeyword(s) ==
    LET clause(i) == Depth(s, i) = 0 /\ \E w \in {"AS", "ENGINE", "SELECT", "WITH"} : Word(s, i, w)
        open == FirstIn({i \in DOMAIN s : s[i].type = "L_PAREN"}, 0)
    IN  IF open = 0 \/ \E i \in 1..(open - 1) : clause(i) THEN 0 ELSE open

(* The ( of the column list, 0 if a clause keyword comes first. *)
columnListStart(s) ==
    LET clause(i) == /\ Depth(s, i) = 0 /\ ~viewHeaderNamePosition(s, i)
                     /\ \E w \in {"AS", "ENGINE", "POPULATE", "EMPTY", "SELECT", "WITH"} : Word(s, i, w)
        open == FirstIn({i \in DOMAIN s : s[i].type = "L_PAREN"}, 0)
    IN  IF open = 0 \/ \E i \in 1..(open - 1) : clause(i) THEN 0 ELSE open

(* The items of the column list; <<>> for an error. *)
viewColumnListItemSpans(s) ==
    LET open  == columnListStart(s)
        close == FirstIn({k \in (open + 1)..Len(s) : s[k].type \in Closes /\ Depth(s, k) = 1}, 0)
        items == CutAt(SubSeq(s, open + 1, close - 1),
                       {k - open : k \in {m \in (open + 1)..(close - 1) : s[m].type = "COMMA" /\ Depth(s, m) = 1}})
    IN  IF open = 0 \/ close = 0 \/ \E n \in DOMAIN items : items[n] = <<>> THEN <<>> ELSE items

(* The raw items, all but the one column; <<>>, which refuses, if the text *)
(* does not hold as many items as were parsed.                             *)
ViewColumnListRawTexts(s, items) ==
    LET spans == viewColumnListItemSpans(s) IN IF Len(spans) # items THEN <<>> ELSE Tail(spans)

(* The depth-0 tokens before a bare SELECT or WITH that is no name of names. *)
headerTokens(s, names) ==
    LET body == FirstIn({i \in DOMAIN s \ names : Depth(s, i) = 0 /\ (Word(s, i, "SELECT") \/ Word(s, i, "WITH"))}, Len(s) + 1)
    IN  {i \in 1..(body - 1) : Depth(s, i) = 0 /\ s[i].type \notin {"L_PAREN", "R_PAREN"}}

(* A REFRESH of the header that is not the view's name or the target's; the *)
(* scan steps over those two names, whatever they are.                      *)
CreateViewHasRefresh(s) ==
    LET run(i)  == IF TypeAt(s, i + 1) = "DOT" THEN {i, i + 1, i + 2} ELSE {i}
        view    == run(FirstIn({i \in DOMAIN s : Word(s, i, "VIEW")}, 0) + 1)
        targets == {i \in headerTokens(s, view) \ view : Word(s, i, "TO")}
        names   == view \cup UNION {run(i + 1) : i \in targets}
    IN  \E i \in headerTokens(s, names) \ names : Word(s, i, "REFRESH")

(* INNER UUID or INNER ENGINE; a name of the header may end this scan.      *)
CreateHeaderHasInnerStorage(s) ==
    \E i \in headerTokens(s, {}) : /\ Word(s, i, "INNER") /\ TypeAt(s, i - 1) # "DOT"
                                   /\ Word(s, i + 1, "UUID") \/ Word(s, i + 1, "ENGINE")

---------------------------------------------------------------------------
(* What a client writes. *)

NoHeader == [name |-> <<>>, refresh |-> FALSE, to |-> <<>>, inner |-> FALSE]

OpaqueInit ==
    /\ kind \in {"alter", "insert", "show", "view"}
    /\ parts = <<>>
    /\ header \in IF kind = "view"
                  THEN [name : Names, refresh : BOOLEAN, to : Names \cup {<<>>}, inner : BOOLEAN]
                  ELSE IF kind = "show" THEN {[NoHeader EXCEPT !.name = n] : n \in Names} ELSE {NoHeader}
    /\ texts = <<>> /\ status = "writing" /\ refused = FALSE /\ runs = {}

(* An action of an ALTER or an item of a column list: one without an       *)
(* expression, or a predicate or a projection with one.                    *)
Predicate(f)  == [f EXCEPT !.toks = <<Var("DELETE"), Kw("WHERE")>> \o @]
Projection(f) == [f EXCEPT !.toks = <<Var("ADD"), Var("PROJECTION"), Var("p")>> \o Group(<<Kw("SELECT")>> \o @)]
Reading(f)    == [f EXCEPT !.toks = <<Var("ADD"), Var("PROJECTION"), Var("p")>> \o Group(<<Kw("SELECT")>> \o @ \o <<Kw("FROM"), Var("t")>>), !.reads = {"alter"}, !.plain = FALSE]
Index(f)      == [f EXCEPT !.toks = <<Kw("INDEX"), Var("i")>> \o @ \o <<Var("TYPE"), Var("m")>>]
Item(f)       == [f EXCEPT !.toks = <<Var("PROJECTION"), Var("p")>> \o Group(<<Kw("SELECT")>> \o @)]

WritePart ==
    /\ status = "writing"
    /\ Len(parts) < CASE kind = "alter" -> MaxActions [] kind = "view" -> MaxItems [] OTHER -> 1
    /\ \/ kind = "alter" /\ \E a \in Actions : parts' = Append(parts, a)
       \/ kind = "alter" /\ \E f \in Fragments : \E a \in {Predicate(f), Projection(f), Reading(f)} : parts' = Append(parts, a)
       \/ kind = "view" /\ \E f \in Fragments : \E a \in {Index(f), Item(f)} : parts' = Append(parts, a)
       \/ kind \in {"insert", "show"} /\ \E f \in Fragments : parts' = Append(parts, f)
    /\ UNCHANGED <<kind, header, texts, status, refused, runs>>

Whole == Join([n \in DOMAIN parts |-> parts[n].toks])

(* CREATE [MATERIALIZED] VIEW name [REFRESH ...] [TO t] (a, items) [INNER ENGINE = e] AS SELECT refresh *)
ViewText ==
    <<Kw("CREATE"), Kw("VIEW")>> \o header.name
    \o (IF header.refresh THEN <<Kw("REFRESH"), Var("EVERY"), Var("1")>> ELSE <<>>)
    \o (IF header.to # <<>> THEN <<Kw("TO")>> \o header.to ELSE <<>>)
    \o Group(<<Var("a"), Var("T"), Kw("COMMA")>> \o Whole)
    \o (IF header.inner THEN <<Kw("INNER"), Kw("ENGINE"), Kw("EQ"), Var("e")>> ELSE <<>>)
    \o <<Kw("AS"), Kw("SELECT"), Kw("REFRESH")>>

ShowText == <<Kw("SHOW"), Var("INDEX"), Kw("FROM")>> \o header.name \o <<Kw("WHERE")>> \o Whole
InsertText == <<Kw("SETTINGS"), Var("s"), Kw("EQ"), Kw("NUMBER"), Kw("SELECT")>> \o Whole

(* OpaqueStatementTexts: Polyglot cuts the actions of an ALTER at every    *)
(* comma, inside brackets too; a view's items come from its own text.      *)
HandOver ==
    /\ status = "writing" /\ parts # <<>> /\ status' = "handed"
    /\ texts' = CASE kind = "alter"  -> CutAt(Whole, {i \in DOMAIN Whole : Whole[i].type = "COMMA"})
                  [] kind = "view"   -> ViewColumnListRawTexts(ViewText, Len(parts) + 1)
                  [] kind = "show"   -> <<ShowText>>
                  [] kind = "insert" -> <<InsertText>>
    /\ UNCHANGED <<kind, parts, header, refused, runs>>

(* Mutant: each piece is judged alone. *)
PiecewiseScan(ts) == \E n \in DOMAIN ts : OpaqueTextIsUngoverned(ts[n])

(* The pieces of one statement are scanned as one text. *)
joinedScan(ts) == OpaqueTextIsUngoverned(Join(ts))

ScanTexts ==
    /\ status = "handed" /\ status' = "scanned"
    /\ refused' = CASE kind = "alter"  -> joinedScan(texts)
                    [] kind = "view"   -> \/ CreateViewHasRefresh(ViewText) \/ CreateHeaderHasInnerStorage(ViewText)
                                          \/ texts = <<>> \/ joinedScan(texts)
                    [] kind = "show"   -> ShowBodyIsUngoverned(texts[1])
                    [] kind = "insert" -> OpaqueInsertQueryIsUngoverned(texts[1])
    /\ runs' = IF kind = "show" THEN ShowBodyQualifiedNames(texts[1])
               ELSE UNION {qualifiedNameRuns(texts[n], 1) : n \in DOMAIN texts}
    /\ UNCHANGED <<kind, parts, header, texts>>

OpaqueNext == WritePart \/ HandOver \/ ScanTexts

OpaqueSpec == OpaqueInit /\ [][OpaqueNext]_ovars

---------------------------------------------------------------------------
Scanned == status = "scanned"

(* The type invariant: what is handed over is the text, cut and no more.   *)
OpaqueTypeOK ==
    /\ status \in {"writing", "handed", "scanned"} /\ refused \in BOOLEAN
    /\ (status # "writing" /\ kind \in {"alter", "view"}) => Join(texts) = Whole

(* No text through which ClickHouse would read or copy another table is    *)
(* forwarded, whatever stands around it, and no view that refreshes.  One  *)
(* that stores in an inner table is not forwarded either, unless one of    *)
(* the header's names is the bare word WITH, at which the scan ends.       *)
OpaqueReadsRefused ==
    (Scanned /\ ~refused) => /\ \A n \in DOMAIN parts : kind \notin parts[n].reads
                             /\ ~header.refresh
                             /\ header.inner => <<Kw("WITH")>> \in {header.name, header.to}

(* A text of literals, quoted names and strings is not refused: neither a  *)
(* quoted `select`, nor the bracket group Polyglot cut in two, nor a view  *)
(* or a target that is named like a clause.                                *)
PlainTextPasses ==
    (Scanned /\ ~header.refresh /\ ~header.inner /\ \A n \in DOMAIN parts : parts[n].plain) => ~refused

(* The actions of one statement are judged each on its own: adding one     *)
(* never turns the answer for another.                                     *)
ActionsJudgedAlone ==
    (Scanned /\ kind = "alter") => (refused <=> \E n \in DOMAIN parts : OpaqueTextIsUngoverned(parts[n].toks))

(* The databases reported to the protected-database check are the          *)
(* qualifiers of the text, all of them and nothing else.                   *)
QualifiersReported ==
    Scanned => {r[1] : r \in runs} = UNION {parts[n].qualifiers : n \in DOMAIN parts}

(* A text is judged by what it reads: what reads is refused, what is plain *)
(* passes, action by action, and its qualifiers are all reported.          *)
OpaqueJudged ==
    /\ OpaqueTypeOK /\ OpaqueReadsRefused /\ PlainTextPasses
    /\ ActionsJudgedAlone /\ QualifiersReported
============================================================================
