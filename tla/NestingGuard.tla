---------------------------- MODULE NestingGuard ----------------------------
(***************************************************************************)
(* exceedsNestingDepth (engine/guard.go): the scan that keeps a statement  *)
(* nested deeper than MaxDepth from the native parser, which would         *)
(* overflow its stack on it.  The scan works on bytes, knows quotes and    *)
(* brackets and nothing else.  One step is one iteration of its loops.     *)
(***************************************************************************)
EXTENDS Integers, Sequences, FiniteSets

CONSTANTS
    Alphabet,   \* the bytes a client writes, a subset of Bytes
    MaxDepth,   \* maxParseDepth
    MaxLength   \* bound: the length of a text

Quotes == {"apostrophe", "backtick"}
Bytes == Quotes \cup {"(", ")", "backslash", "-", "newline"}

ASSUME GuardAssumption == Alphabet \subseteq Bytes /\ MaxDepth \in Nat /\ MaxLength \in Nat

VARIABLES
    bytes,      \* what the client wrote
    parserAt,   \* parserAt[i]: how the parser meets byte i (history, no part of the scan)
    at,         \* the scan's position, 0 while the client writes
    quote,      \* the literal the scan is inside, "" outside
    depth,      \* the brackets it counts as open
    outcome     \* "none", "over" or "ok"

nvars == <<bytes, parserAt, at, quote, depth, outcome>>

---------------------------------------------------------------------------
(* What the parser sees: where a text is code, a literal or a comment      *)
(* (-- to the end of the line).                                            *)

InCode == [mode |-> "code", escape |-> FALSE, dash |-> FALSE]
ReadByte(r, c) ==
    CASE r.mode = "comment" -> IF c = "newline" THEN InCode ELSE r
      [] r.mode \in Quotes /\ r.escape -> [r EXCEPT !.escape = FALSE]
      [] r.mode \in Quotes /\ ~r.escape ->
            IF c = "backslash" THEN [r EXCEPT !.escape = TRUE] ELSE IF c = r.mode THEN InCode ELSE r
      [] r.mode = "code" -> IF c = "-" /\ r.dash THEN [InCode EXCEPT !.mode = "comment"]
                            ELSE IF c \in Quotes THEN [InCode EXCEPT !.mode = c]
                            ELSE [InCode EXCEPT !.dash = (c = "-")]

(* The mode in which byte i is read. *)
ModeAt(i) == parserAt[i].mode

Structural(c) == {i \in DOMAIN bytes : bytes[i] = c /\ ModeAt(i) = "code"}

(* The brackets that i..j leaves open. *)
LeftOpen(i, j) == Cardinality(Structural("(") \cap i..j) - Cardinality(Structural(")") \cap i..j)

(* Some stretch of the text leaves more than MaxDepth brackets open. *)
NestsDeeper == \E i \in DOMAIN bytes : \E j \in i..Len(bytes) : LeftOpen(i, j) > MaxDepth

Comments == {i \in DOMAIN bytes : ModeAt(i) = "comment"}

---------------------------------------------------------------------------
GuardInit ==
    /\ bytes = <<>> /\ parserAt = <<InCode>>
    /\ at = 0 /\ quote = "" /\ depth = 0 /\ outcome = "none"

WriteByte ==
    /\ at = 0 /\ Len(bytes) < MaxLength
    /\ \E c \in Alphabet : /\ bytes' = Append(bytes, c)
                           /\ parserAt' = Append(parserAt, ReadByte(parserAt[Len(parserAt)], c))
    /\ UNCHANGED <<at, quote, depth, outcome>>

Call == at = 0 /\ at' = 1 /\ UNCHANGED <<bytes, parserAt, quote, depth, outcome>>

Scanning == at \in DOMAIN bytes /\ outcome = "none"
Follows(c) == at < Len(bytes) /\ bytes[at + 1] = c

OpenQuote ==
    /\ Scanning /\ quote = "" /\ bytes[at] \in Quotes
    /\ quote' = bytes[at] /\ at' = at + 1
    /\ UNCHANGED <<bytes, parserAt, depth, outcome>>

(* Mutant: a backslash escapes nothing. *)
DoubledOnly == bytes[at] = quote /\ Follows(quote)

(* A backslash with the byte after it, or a doubled quote. *)
Escaped == (bytes[at] = "backslash" /\ at < Len(bytes)) \/ (bytes[at] = quote /\ Follows(quote))

InLiteral ==
    /\ Scanning /\ quote # ""
    /\ at' = IF Escaped THEN at + 2 ELSE at + 1
    /\ quote' = IF ~Escaped /\ bytes[at] = quote THEN "" ELSE quote
    /\ UNCHANGED <<bytes, parserAt, depth, outcome>>

(* Mutant: the bracket just opened is not counted. *)
OverBefore == depth > MaxDepth

Over == depth + 1 > MaxDepth

EnterBracket ==
    /\ Scanning /\ quote = "" /\ bytes[at] = "("
    /\ depth' = depth + 1 /\ outcome' = IF Over THEN "over" ELSE "none"
    /\ at' = at + 1
    /\ UNCHANGED <<bytes, parserAt, quote>>

LeaveBracket ==
    /\ Scanning /\ quote = "" /\ bytes[at] = ")"
    /\ depth' = (IF depth > 0 THEN depth - 1 ELSE 0) /\ at' = at + 1
    /\ UNCHANGED <<bytes, parserAt, quote, outcome>>

OtherByte ==
    /\ Scanning /\ quote = "" /\ bytes[at] \notin Quotes \cup {"(", ")"}
    /\ at' = at + 1
    /\ UNCHANGED <<bytes, parserAt, quote, depth, outcome>>

(* An unterminated literal ends with the text. *)
EndOfText ==
    /\ at > Len(bytes) /\ outcome = "none"
    /\ outcome' = "ok"
    /\ UNCHANGED <<bytes, parserAt, at, quote, depth>>

ScanByte == OpenQuote \/ InLiteral \/ EnterBracket \/ LeaveBracket \/ OtherByte \/ EndOfText

GuardNext == WriteByte \/ Call \/ ScanByte

GuardSpec == GuardInit /\ [][GuardNext]_nvars

---------------------------------------------------------------------------
(* The type invariant; the depth reported is never more than one too many. *)
GuardTypeOK ==
    /\ at \in 0..(MaxLength + 2) /\ quote \in Quotes \cup {""} /\ outcome \in {"none", "over", "ok"}
    /\ depth \in 0..(MaxDepth + 1) /\ (depth > MaxDepth) = (outcome = "over")

(* No statement nested too deeply passes, whatever its literals hold, as   *)
(* long as no comment holds a quote or a closing bracket: these two the    *)
(* scan takes for code, against its comment, which says that a miscount    *)
(* can only add to the depth (guard.go:19-21).                             *)
DeepStatementsStopped ==
    (outcome = "ok" /\ \A i \in Comments : bytes[i] \notin Quotes \cup {")"}) => ~NestsDeeper

(* Brackets inside literals never make the scan stop a statement.          *)
LiteralsNotCounted == (outcome = "over" /\ Comments = {}) => NestsDeeper

(* The guard counts the brackets the parser sees, no fewer and no more.    *)
GuardExact == GuardTypeOK /\ DeepStatementsStopped /\ LiteralsNotCounted
============================================================================
