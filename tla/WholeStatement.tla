--------------------------- MODULE WholeStatement ---------------------------
(***************************************************************************)
(* CheckParsedInFull (engine/wholestmt.go).  Polyglot does not say how far *)
(* it read: its ClickHouse dialect drops what follows the point where its  *)
(* grammar stops, and closes open brackets at the end of the input.  The   *)
(* gate measures it, by parsing the statement again without its end.       *)
(*                                                                         *)
(* The point where Polyglot stops is chosen by the environment.  An AST is *)
(* the tokens that made it (of a command, those of the text Polyglot makes *)
(* of it); closing brackets at its end make no difference.                 *)
(* The refusal of a glued # (rejectHashGluedTokens), which looks at one    *)
(* token at a time, is left out.                                           *)
(***************************************************************************)
EXTENDS Integers, Sequences, FiniteSets

CONSTANTS
    MaxTokens   \* bound: the tokens before the tail

ASSUME TokensAssumption == MaxTokens \in Nat

VARIABLES
    stmt,       \* the statement: token types
    insert,     \* is it an INSERT ... FORMAT, as its AST says?
    stop,       \* the first token Polyglot did not read, 0 while the client writes
    lo, hi,     \* the bounds of the search for it
    stage,      \* "writing", "parsed", "searching" or "done"
    judged      \* "none", "ok", "brackets" or "ignored"

wvars == <<stmt, insert, stop, lo, hi, stage, judged>>

(* A token of no width ends the text after INSERT ... FORMAT name. *)
Words == {"word", "FORMAT"}
Endings == {<<>>, <<"SEMICOLON">>, <<"zero">>}

closerOf == [t \in {"L_PAREN", "L_BRACE"} |-> IF t = "L_PAREN" THEN "R_PAREN" ELSE "R_BRACE"]
isClosingBracket(t) == t \in {closerOf[o] : o \in DOMAIN closerOf}
isBracketToken(t) == isClosingBracket(t) \/ t \in DOMAIN closerOf

---------------------------------------------------------------------------
(* Polyglot, outside the repository: the AST of s[1..(n - 1)].             *)
Parsed(s, n) ==
    LET read == {i \in 1..(n - 1) : i < stop}
    IN  SubSeq(s, 1, Cardinality({i \in read : \E j \in read : i <= j /\ ~isClosingBracket(s[j])}))

(* The tokens that are checked: of an INSERT ... FORMAT up to the name of  *)
(* its format, without the semicolons at the end.                          *)
Checked(s, formatted) ==
    LET formats == {i \in DOMAIN s : s[i] = "FORMAT" /\ i < Len(s)}
        cut == IF formatted /\ formats # {} THEN SubSeq(s, 1, (CHOOSE i \in formats : \A j \in formats : j <= i) + 1) ELSE s
        end == {i \in DOMAIN cut : cut[i] # "SEMICOLON"}
    IN  SubSeq(cut, 1, IF end = {} THEN 0 ELSE CHOOSE i \in end : \A j \in end : j <= i)

(* The opening brackets of s[i..j] less the closing ones. *)
Net(s, i, j) == Cardinality({k \in i..j : s[k] \in DOMAIN closerOf}) - Cardinality({k \in i..j : isClosingBracket(s[k])})

(* Mutant: a closing bracket closes whatever is open. *)
AnyCloser(s) == Net(s, 1, Len(s)) = 0 /\ \A j \in DOMAIN s : Net(s, 1, j) >= 0

(* Every bracket is closed, and by its own kind: the one a closing bracket *)
(* closes is the last one that is open there.                              *)
checkBrackets(s) ==
    /\ Net(s, 1, Len(s)) = 0
    /\ \A j \in DOMAIN s :
          isClosingBracket(s[j]) =>
              \E i \in 1..(j - 1) : /\ s[i] \in DOMAIN closerOf /\ closerOf[s[i]] = s[j]
                                    /\ Net(s, i, j) = 0 /\ \A k \in (i + 1)..j : Net(s, k, j) < 0

(* Mutant: the token at the very end, whatever it is. *)
VeryLast(s) == Len(s)

(* The last token that is no bracket and has a width, 0 for none. *)
LastToken(s) ==
    LET ends == {i \in DOMAIN s : ~isBracketToken(s[i]) /\ s[i] # "zero"}
    IN  IF ends = {} THEN 0 ELSE CHOOSE i \in ends : \A j \in ends : j <= i

sameAST(n) == Parsed(stmt, n) = Parsed(stmt, Len(stmt) + 1)

(* Does the statement cut before token n parse to the same AST?  Cut       *)
(* before the point where Polyglot stops, it may not parse at all (fails). *)
parsesAlike(n, fails) == ~(fails /\ n < stop) /\ sameAST(n)

---------------------------------------------------------------------------
WholeInit ==
    /\ stmt = <<>> /\ insert = FALSE /\ stop = 0
    /\ lo = 0 /\ hi = 0 /\ stage = "writing" /\ judged = "none"

WriteToken ==
    /\ stage = "writing" /\ Len(stmt) < MaxTokens
    /\ \E t \in Words \cup DOMAIN closerOf \cup {closerOf[o] : o \in DOMAIN closerOf} : stmt' = Append(stmt, t)
    /\ UNCHANGED <<insert, stop, lo, hi, stage, judged>>

(* Polyglot reads at least one token.  It knows an INSERT by its format,   *)
(* whose name it reads; the payload after it is data.                      *)
Parse ==
    /\ stage = "writing" /\ stmt # <<>>
    /\ \E tail \in Endings, formatted \in BOOLEAN :
          /\ stmt' = stmt \o tail /\ insert' = formatted
          /\ formatted => \E i \in DOMAIN stmt : stmt[i] = "FORMAT" /\ i < Len(stmt)
          /\ stop' \in 2..(Len(stmt') + 1)
          /\ tail = <<"zero">> => formatted
          /\ formatted => stop' > Len(Checked(stmt', TRUE))
    /\ stage' = "parsed"
    /\ UNCHANGED <<lo, hi, judged>>

CheckParsedInFull ==
    /\ stage = "parsed"
    /\ \E s \in {Checked(stmt, insert)}, fails \in BOOLEAN : \E last \in {LastToken(s)} :
           IF ~checkBrackets(s) THEN stage' = "done" /\ judged' = "brackets" /\ UNCHANGED <<lo, hi>>
           ELSE IF last <= 1 \/ ~parsesAlike(last, fails) THEN stage' = "done" /\ judged' = "ok" /\ UNCHANGED <<lo, hi>>
           ELSE stage' = "searching" /\ lo' = 2 /\ hi' = last /\ UNCHANGED judged
    /\ UNCHANGED <<stmt, insert, stop>>

(* Mutant: the lower half loses the middle. *)
NarrowPast(mid) ==
    \E fails \in BOOLEAN :
        IF parsesAlike(mid, fails) THEN lo' = lo /\ hi' = mid - 1 ELSE lo' = mid + 1 /\ hi' = hi

Narrow(mid) ==
    \E fails \in BOOLEAN :
        IF parsesAlike(mid, fails) THEN lo' = lo /\ hi' = mid ELSE lo' = mid + 1 /\ hi' = hi

(* firstIgnoredToken: one iteration of the binary search, then the closing *)
(* brackets Polyglot supplies itself are passed.                           *)
Bisect ==
    /\ stage = "searching" /\ lo < hi
    /\ Narrow((lo + hi) \div 2)
    /\ UNCHANGED <<stmt, insert, stop, stage, judged>>

(* Mutant: the closing brackets are not passed. *)
FirstAlike == hi

PastClosers ==
    LET last == LastToken(Checked(stmt, insert))
        rest == {i \in hi..last : i = last \/ ~isClosingBracket(stmt[i])}
    IN  CHOOSE i \in rest : \A j \in rest : i <= j

firstIgnoredToken ==
    /\ stage = "searching" /\ lo >= hi
    /\ hi' = PastClosers /\ stage' = "done" /\ judged' = "ignored"
    /\ UNCHANGED <<stmt, insert, stop, lo>>

Check == CheckParsedInFull \/ Bisect \/ firstIgnoredToken

WholeNext == WriteToken \/ Parse \/ Check

WholeSpec == WholeInit /\ [][WholeNext]_wvars

---------------------------------------------------------------------------
Ignored == {i \in DOMAIN Checked(stmt, insert) : i >= stop}

(* The type invariant: the search stays inside the statement.              *)
WholeTypeOK ==
    /\ stage \in {"writing", "parsed", "searching", "done"} /\ judged \in {"none", "ok", "brackets", "ignored"}
    /\ stop <= Len(stmt) + 1 /\ hi <= Len(stmt) /\ (stage = "searching" => lo \in 2..hi)

(* What passes has been read to its last word: Polyglot dropped no token   *)
(* but brackets, and none of those is missing or of the wrong kind.        *)
AcceptedInFull ==
    judged = "ok" => /\ \A i \in Ignored : isBracketToken(stmt[i])
                     /\ \A o \in DOMAIN closerOf :
                           Cardinality({i \in DOMAIN Checked(stmt, insert) : stmt[i] = o})
                             = Cardinality({i \in DOMAIN Checked(stmt, insert) : stmt[i] = closerOf[o]})

(* A statement that was read to its end is not refused for it.             *)
ReadInFullAccepted == judged = "ignored" => \E i \in Ignored : ~isBracketToken(stmt[i])

(* The token named in the refusal is the first that Polyglot dropped and   *)
(* would not have supplied itself, however the search came to it.          *)
NamesFirstIgnored ==
    judged = "ignored" => /\ hi \in Ignored /\ ~isClosingBracket(stmt[hi])
                          /\ \A i \in Ignored : i < hi => isClosingBracket(stmt[i])

(* The measurement is right in both directions, and in what it reports.    *)
ParseMeasured == WholeTypeOK /\ AcceptedInFull /\ ReadInFullAccepted /\ NamesFirstIgnored
============================================================================
