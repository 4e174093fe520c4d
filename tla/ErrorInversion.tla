--------------------------- MODULE ErrorInversion ---------------------------
(***************************************************************************)
(* reverse.Invert and the check that follows it: the rewritten SQL and the *)
(* physical names in an error text are put back to what the caller wrote,  *)
(* one map entry per step, and a text that still names physical routing is *)
(* withheld.  Texts are sequences of ASCII bytes.  The position stage is   *)
(* OffsetMap; parsing the digits of "position N" is left out.              *)
(***************************************************************************)
EXTENDS Integers, Sequences, SequencesExt

CONSTANT Errors   \* [message, original, rewritten, tables, databases, hidden, literals, ...]

Byte == 0..127

ASSUME ErrorsAssumption ==
    \A e \in Errors :
        /\ {e.message, e.original, e.rewritten} \subseteq Seq(Byte)
        /\ \A m \in {e.tables, e.databases} :
              DOMAIN m \subseteq Seq(Byte) /\ \A origin \in DOMAIN m : m[origin] \in Seq(Byte)

VARIABLES err,    \* the call: an element of Errors
          stage,  \* "sql", "tables", "databases", "check", "done"
          keys,   \* the names whose map entries are still to substitute, or to look for
          from,   \* where ContainsIdentifier searches on
          text    \* the text so far

inversionVars == <<err, stage, keys, from, text>>

Quote == 96
Dot == 46
Withheld == <<-1>>      \* WithheldMessage: not a byte of any text

---------------------------------------------------------------------------
(* Matching. *)

isWordByte(b) == b = 95 \/ b \in 48..57 \/ b \in 65..90 \/ b \in 97..122
isSpace(b) == b \in {9, 10, 12, 13, 32}

Fold(s) == [i \in DOMAIN s |-> IF s[i] \in 65..90 THEN s[i] + 32 ELSE s[i]]

At(s, i, p) == i + Len(p) - 1 <= Len(s) /\ SubSeq(s, i, i + Len(p) - 1) = p

(* The bytes around a match are not consumed. *)
Delimited(s, i, n) ==
    /\ i = 1 \/ ~isWordByte(s[i - 1])
    /\ i + n > Len(s) \/ ~isWordByte(s[i + n])

(* The pieces one comes to from the start of a text of n bytes. *)
Pieces(n, piece, next) ==
    LET rest[i \in 1..(n + 1)] ==
            IF i > n THEN <<>> ELSE piece[i] \o rest[next[i]]
    IN  rest[1]

(* s with the leftmost, non-overlapping matches replaced: longest[i] is    *)
(* the length of the longest match at i, 0 without one, and a match that   *)
(* does not start in qualified is passed over whole.                       *)
ReplaceMatches(s, longest, qualified, repl) ==
    LET next == [i \in DOMAIN s |-> i + IF longest[i] = 0 THEN 1 ELSE longest[i]]
    IN  Pieces(Len(s), [i \in DOMAIN s |-> IF longest[i] # 0 /\ i \in qualified THEN repl
                                           ELSE SubSeq(s, i, next[i] - 1)], next)

Longest(lengths) == Max({0} \cup lengths)

(* core is the set of spellings, matched without regard to case. *)
substituteBoundary(s, core, repl) ==
    LET folded    == Fold(s)
        spellings == {Fold(q) : q \in core}
        longest   == [i \in DOMAIN s |-> Longest({Len(q) : q \in {c \in spellings : At(folded, i, c)}})]
    IN  ReplaceMatches(s, longest, {i \in DOMAIN s : Delimited(s, i, longest[i])}, repl)

(* A name with the backticks the formatter may print around it. *)
Backticked(ident) == {<<Quote>> \o ident \o <<Quote>>}
identCore(ident) == {ident, <<Quote>> \o ident, ident \o <<Quote>>} \cup Backticked(ident)

(* Mutant: the name is split on its last dot. *)
SplitLast(qualified) == Max({i \in DOMAIN qualified : qualified[i] = Dot})

(* table_rewrites packs the dynamic prefix into the table half. *)
SplitFirst(qualified) == Min({i \in DOMAIN qualified : qualified[i] = Dot})

(* A table half with a dot of its own is always backticked. *)
qualifiedCore(qualified) ==
    IF Dot \notin Range(qualified) THEN identCore(qualified)
    ELSE LET dot   == SplitFirst(qualified)
             table == SubSeq(qualified, dot + 1, Len(qualified))
         IN  {db \o <<Dot>> \o t : db \in identCore(SubSeq(qualified, 1, dot - 1)),
                                  t \in IF Dot \in Range(table) THEN Backticked(table)
                                        ELSE identCore(table)}

substituteIdent(s, target, repl) == substituteBoundary(s, identCore(target), repl)
substituteQualified(s, qualified, repl) == substituteBoundary(s, qualifiedCore(qualified), repl)

---------------------------------------------------------------------------
(* The whole-SQL swap. *)

(* Case folded, every run of whitespace as one blank. *)
flexible(s) ==
    LET kept == SelectSeq([i \in DOMAIN s |-> i],
                          LAMBDA i : ~(isSpace(s[i]) /\ i > 1 /\ isSpace(s[i - 1])))
    IN  [j \in DOMAIN kept |-> IF isSpace(s[kept[j]]) THEN 32 ELSE Fold(s)[kept[j]]]

(* The first verbatim copy; without one, every copy up to case and space. *)
flexibleSQLReplace(s, rewritten, original) ==
    LET hits == {i \in DOMAIN s : At(s, i, rewritten)}
    IN  IF rewritten = <<>> THEN s
        ELSE IF hits # {} THEN SubSeq(s, 1, Min(hits) - 1) \o original
                               \o SubSeq(s, Min(hits) + Len(rewritten), Len(s))
        ELSE LET pattern == flexible(rewritten)
                 lengths(i) ==
                    IF flexible(<<s[i]>>) # <<pattern[1]>> THEN {}
                    ELSE {n \in 1..(Len(s) - i + 1) : flexible(SubSeq(s, i, i + n - 1)) = pattern}
             IN  ReplaceMatches(s, [i \in DOMAIN s |-> Longest(lengths(i))], DOMAIN s, original)

---------------------------------------------------------------------------
(* Byte order of two names. *)
Before(a, b) ==
    LET differ == {i \in DOMAIN a \cap DOMAIN b : a[i] # b[i]}
    IN  IF differ = {} THEN Len(a) < Len(b) ELSE a[Min(differ)] < b[Min(differ)]

(* Map entries are substituted in the order of their names. *)
FirstKey(names, key) ==
    key \in names /\ \A other \in names \ {key} : Before(key, other)

InversionInit ==
    /\ err \in Errors /\ text = err.message /\ keys = {} /\ from = 1
    /\ stage = IF err.message = <<>> THEN "done" ELSE "sql"

(* Invert's first stage, when the SQL was changed at all. *)
SwapSQL ==
    /\ stage = "sql" /\ stage' = "tables"
    /\ text' = IF err.rewritten = <<>> \/ err.rewritten = err.original THEN text
               ELSE flexibleSQLReplace(text, err.rewritten, err.original)
    /\ keys' = DOMAIN err.tables
    /\ UNCHANGED <<err, from>>

(* An entry that renames nothing is skipped. *)
Substituted(m, origin, s) == IF m[origin] \in {origin, <<>>} THEN text ELSE s

SubstituteTable ==
    /\ stage = "tables"
    /\ \E origin \in keys :
          /\ FirstKey(keys, origin)
          /\ text' = Substituted(err.tables, origin,
                                 substituteQualified(text, err.tables[origin], origin))
          /\ keys' = keys \ {origin}
    /\ UNCHANGED <<err, stage, from>>

TablesDone ==
    /\ stage = "tables" /\ keys = {}
    /\ stage' = "databases" /\ keys' = DOMAIN err.databases /\ UNCHANGED <<err, from, text>>

SubstituteDatabase ==
    /\ stage = "databases"
    /\ \E origin \in keys :
          /\ FirstKey(keys, origin)
          /\ text' = Substituted(err.databases, origin,
                                 substituteIdent(text, err.databases[origin], origin))
          /\ keys' = keys \ {origin}
    /\ UNCHANGED <<err, stage, from>>

(* RewriteErrorMessage fails closed on what the inversion left behind:     *)
(* the hidden identifiers are looked for one after another.                *)
DatabasesDone ==
    /\ stage = "databases" /\ keys = {}
    /\ stage' = "check" /\ keys' = err.hidden /\ UNCHANGED <<err, from, text>>

Sought == CHOOSE ident \in keys : FirstKey(keys, ident)

(* Case-sensitive: a stored name is printed as stored. *)
Hits == {i \in DOMAIN text : i >= from /\ Sought # <<>> /\ At(text, i, Sought)}
FirstHit == Min(Hits)
Looking == stage = "check" /\ keys # {}
HitStands == FirstHit \in {i \in Hits : Delimited(text, i, Len(Sought))}

WithholdText == stage' = "done" /\ text' = Withheld /\ UNCHANGED <<err, keys, from>>

IdentifierFound == Looking /\ Hits # {} /\ HitStands /\ WithholdText

(* Mutant: the search goes on behind the whole hit. *)
SkipWholeHit ==
    /\ Looking /\ Hits # {} /\ ~HitStands
    /\ from' = FirstHit + Len(Sought) /\ UNCHANGED <<err, stage, keys, text>>

(* The hit is part of a longer word: the next may begin inside it. *)
SkipHit ==
    /\ Looking /\ Hits # {} /\ ~HitStands
    /\ from' = FirstHit + 1 /\ UNCHANGED <<err, stage, keys, text>>

IdentifierAbsent ==
    /\ Looking /\ Hits = {}
    /\ keys' = keys \ {Sought} /\ from' = 1 /\ UNCHANGED <<err, stage, text>>

LiteralFound == \E lit \in err.literals : lit # <<>> /\ \E i \in DOMAIN text : At(text, i, lit)

CheckLiterals ==
    /\ stage = "check" /\ keys = {}
    /\ IF LiteralFound THEN WithholdText
       ELSE stage' = "done" /\ UNCHANGED <<err, keys, from, text>>

InversionNext ==
    \/ SwapSQL \/ SubstituteTable \/ TablesDone \/ SubstituteDatabase \/ DatabasesDone
    \/ IdentifierFound \/ SkipHit \/ IdentifierAbsent \/ CheckLiterals

InversionSpec == InversionInit /\ [][InversionNext]_inversionVars

---------------------------------------------------------------------------
(* The round trip: an error text about the rewritten statement, its names  *)
(* standing alone however they are quoted, cased or repeated, comes back   *)
(* as the text about the caller's statement, and words that only contain a *)
(* name stay as they are (Invert).  White space may differ: only one copy  *)
(* of the SQL is swapped verbatim.                                         *)
NamesComeBack == stage = "done" /\ err.clean => flexible(text) = flexible(err.logical)

(* The name stands in the text as a name: it is no part of a longer word.  *)
StandsIn(name, s) ==
    /\ name # <<>>
    /\ \E i, j \in DOMAIN s :
          /\ i <= j /\ SubSeq(s, i, j) = name
          /\ i = 1 \/ ~isWordByte(s[i - 1])
          /\ j = Len(s) \/ ~isWordByte(s[j + 1])

(* Whatever the message, no hidden name stands in what the caller is told, *)
(* however it overlaps itself in the text: a name the substitutions miss   *)
(* withholds the text (RewriteErrorMessage).                               *)
NoHiddenNameLeft ==
    stage = "done" /\ text # Withheld => \A name \in err.hidden : ~StandsIn(name, text)
=============================================================================
