-------------------------- MODULE RegeneratedGate --------------------------
(***************************************************************************)
(* CheckRegenerated: the SQL that Polyglot generates from its reading of a *)
(* statement is compared with the statement as a bag of spellings, which   *)
(* sees neither order nor brackets.  Some operators are printed in another *)
(* spelling that binds differently; the gate accepts that only where no    *)
(* neighbour can regroup the operands.                                     *)
(*                                                                         *)
(* A text is a sequence of tokens, SELECT and its expressions.  NOT LIKE   *)
(* and IS NOT DISTINCT FROM are the tokens they are made of.  LIKE stands  *)
(* for LIKE and ILIKE, DIV for DIV, MOD and REGEXP, = for the comparisons. *)
(***************************************************************************)
EXTENDS Integers, Sequences, FiniteSets, SequencesExt

CONSTANTS
    Operands,          \* the operands, in the order they are written
    Infix,          \* the operators the writer uses, as token sequences
    Levels,         \* Levels[op]: how tightly ClickHouse binds an operator
    PolyglotLevels, \* the levels Polyglot may read a statement with
    Verbatim,       \* the sets of operators a generation may print as written
    MaxOperators,   \* bound: the operators between operands
    MaxForms        \* bound: the operands that are more than a name, brackets and NOTs

Operators == {"OR", "AND", "NOT", "IND", "BETWEEN", "=", "<=>", "LIKE", "NOT LIKE", "+", "DIV"}

(* Both readers bind AND and OR looser than anything else but the ternary. *)
ASSUME LooseOperators ==
    \A table \in PolyglotLevels \cup {Levels} :
        /\ table \in [Operators -> Nat]
        /\ table["OR"] < table["AND"]
        /\ \A op \in Operators \ {"OR", "AND"} : table["AND"] < table[op]

VARIABLES
    text,       \* the statement, as tokens
    open,       \* the brackets the writer has open
    wants,      \* what comes next: "operand" or "operator"
    used,       \* names, operators and forms written so far
    output,     \* the generated SQL, once there is some
    verdict     \* "none", "rejected" (no parse), "ok" or "differs"

gvars == <<text, open, wants, used, output, verdict>>

Atoms == Range(Operands)
Openers == {"(", "{", "CASE"}
unitCloser(t) == CASE t = "(" -> ")" [] t = "{" -> "}" [] t = "CASE" -> "END"
Closers == {unitCloser(t) : t \in Openers}

---------------------------------------------------------------------------
(* The precedence rules. *)

(* Polyglot has no token of its own for DIV: it is a word like any other. *)
isAtomicToken(t) == t \in Atoms \cup {"DIV"}

(* The start of the operand that ends at j, 0 if it is none the rules take: *)
(* a name, a dotted name, a parameter.                                      *)
operandBefore(s, j) ==
    LET named == {k \in 1..j : \A m \in k..j : IF (j - m) % 2 = 0 THEN isAtomicToken(s[m]) ELSE s[m] = "."}
        brace == {k \in 1..(j - 1) : s[k] = "{" /\ \A m \in (k + 1)..(j - 1) : s[m] \notin Openers \cup Closers}
    IN  IF j < 1 THEN 0
        ELSE IF s[j] = "}" /\ brace # {} THEN CHOOSE k \in brace : TRUE
        ELSE IF isAtomicToken(s[j])
             THEN CHOOSE k \in named : (j - k) % 2 = 0 /\ \A m \in named : (j - m) % 2 = 0 => k <= m
        ELSE 0

(* The index past the operand that starts at k, or 0. *)
operandAfter(s, k) ==
    LET named == {j \in k..Len(s) : (j - k) % 2 = 0 /\ \A m \in k..j : IF (m - k) % 2 = 0 THEN isAtomicToken(s[m]) ELSE s[m] = "."}
        brace == {j \in (k + 1)..Len(s) : s[j] = "}" /\ \A m \in (k + 1)..(j - 1) : s[m] \notin Openers \cup Closers}
    IN  IF k > Len(s) THEN 0
        ELSE IF s[k] = "{" /\ brace # {} THEN (CHOOSE j \in brace : TRUE) + 1
        ELSE IF isAtomicToken(s[k]) THEN (CHOOSE j \in named : \A m \in named : m <= j) + 1
        ELSE 0

opensExpression == {"(", ",", "SELECT", "DISTINCT", "WHEN", "THEN", "AND", "OR"}
closesExpression == {")", ",", "FROM", "WHEN", "THEN", "END", "AND", "OR"}
andBorders == {",", "SELECT", "WHEN", "THEN", "OR"}
andChainOperators == {".", "=", "<=>", "+", "NOT", "LIKE", "IS"}

andChainToken(s, k) ==
    LET prev(n) == IF k > n THEN s[k - n] ELSE ""
    IN  \/ s[k] = "DISTINCT" /\ prev(1) \in {"SELECT", "IS", "NOT"}
        \/ s[k] = "FROM" /\ prev(1) = "DISTINCT" /\ prev(2) \in {"IS", "NOT"}
        \/ isAtomicToken(s[k])
        \/ s[k] \in andChainOperators

(* Is the AND at j proven not to be a BETWEEN's?  The scan goes back over  *)
(* its left operands to their border; then each BETWEEN owns the next AND. *)
isLogicalAnd(s, j) ==
    LET step(acc, k) ==
            LET t == s[k] IN
            IF acc.done THEN acc
            ELSE IF t \in Closers THEN [acc EXCEPT !.units = Append(@, t)]
            ELSE IF t \in Openers
                 THEN IF acc.units = <<>> THEN [acc EXCEPT !.done = TRUE]
                      ELSE IF unitCloser(t) # Last(acc.units) THEN [acc EXCEPT !.done = TRUE, !.bad = TRUE]
                      ELSE [acc EXCEPT !.units = Front(@)]
            ELSE IF acc.units # <<>> THEN acc
            ELSE IF t \in andBorders THEN [acc EXCEPT !.done = TRUE]
            ELSE IF t \in {"BETWEEN", "AND"} THEN [acc EXCEPT !.chain = <<t>> \o @]
            ELSE IF andChainToken(s, k) THEN acc
            ELSE [acc EXCEPT !.done = TRUE, !.bad = TRUE]
        scan  == FoldLeft(step, [done |-> FALSE, bad |-> FALSE, units |-> <<>>, chain |-> <<>>],
                          [i \in 1..(j - 1) |-> j - i])
        chain == scan.chain
        twice == \E i \in 1..(Len(chain) - 1) : chain[i] = "BETWEEN" /\ chain[i + 1] = "BETWEEN"
    IN  /\ ~scan.bad /\ scan.units = <<>>
        /\ ~twice
        /\ chain = <<>> \/ Last(chain) = "AND"

(* Mutant: the border on the left is not looked at. *)
RightBorderOnly(s, first, last) ==
    LET start == operandBefore(s, first - 1)
        end   == operandAfter(s, last + 1)
    IN  /\ start > 0 /\ end > 0
        /\ end <= Len(s) => s[end] \in closesExpression

(* Mutant: the operand after the operator may not end the text. *)
EndIsNoBorder(s, first, last) ==
    LET start == operandBefore(s, first - 1)
        end   == operandAfter(s, last + 1)
    IN  /\ start > 0 /\ end > 0
        /\ end <= Len(s) /\ s[end] \in closesExpression
        /\ start > 1 => /\ s[start - 1] \in opensExpression
                        /\ s[start - 1] = "AND" => isLogicalAnd(s, start - 1)

(* The operator s[first..last] has two single operands and a border on both *)
(* sides: no neighbour can regroup it in either spelling.                   *)
isolated(s, first, last) ==
    LET start == operandBefore(s, first - 1)
        end   == operandAfter(s, last + 1)
    IN  /\ start > 0 /\ end > 0
        /\ end <= Len(s) => s[end] \in closesExpression
        /\ start > 1 => /\ s[start - 1] \in opensExpression
                        /\ s[start - 1] = "AND" => isLogicalAnd(s, start - 1)

ternaryOperators == {"=", "+", "AND", "OR", "NOT", "LIKE", "BETWEEN", "IS", "."}
ternaryOpens == {",", "SELECT", "DISTINCT", "WHEN", "THEN"}
ternaryCloses == {",", "FROM", "WHEN", "THEN", "END"}
ternaryElseRejects == {"OR"}

(* The brackets of s[i..j] as a balance; CASE is no bracket here. *)
Balance(s, i, j) == Cardinality({k \in i..j : s[k] \in {"(", "{"}}) - Cardinality({k \in i..j : s[k] \in {")", "}"}})

(* Mutant: the first : of the text. *)
AnyColon(s, q) ==
    LET colons == {k \in DOMAIN s : s[k] = ":"}
    IN  IF colons = {} THEN 0 ELSE CHOOSE k \in colons : \A m \in colons : k <= m

(* The : of the ternary whose ? is s[q], if IF(a, b, c) regroups nothing:  *)
(* the whole ternary is bordered and made of known operators.  0 if not.   *)
ternaryColon(s, q) ==
    LET starts == {k \in 1..(q - 1) : Balance(s, k + 1, q - 1) = 0 /\ s[k] \in {"(", "{"} \cup ternaryOpens}
        ends   == {k \in (q + 1)..Len(s) : Balance(s, q + 1, k - 1) = 0 /\ s[k] \in {")", "}"} \cup ternaryCloses}
        start  == IF starts = {} THEN 1 ELSE 1 + CHOOSE k \in starts : \A m \in starts : m <= k
        end    == IF ends = {} THEN Len(s) ELSE (CHOOSE k \in ends : \A m \in ends : k <= m) - 1
        step(acc, k) ==
            LET t == s[k]
                fail == [acc EXCEPT !.bad = TRUE]
            IN  IF acc.bad THEN acc
                ELSE IF t \in {"(", "{"}
                     THEN IF acc.depth = 0 /\ acc.after /\ ~(t = "(" /\ isAtomicToken(s[k - 1])) THEN fail
                          ELSE [acc EXCEPT !.depth = @ + 1]
                ELSE IF t \in {")", "}"} THEN [acc EXCEPT !.depth = @ - 1, !.after = @ \/ acc.depth = 1]
                ELSE IF acc.depth > 0 THEN acc
                ELSE IF k = q \/ (t = ":" /\ acc.colon = 0 /\ k > q)
                     THEN IF ~acc.after THEN fail
                          ELSE [acc EXCEPT !.after = FALSE, !.colon = IF k = q THEN @ ELSE k]
                ELSE IF isAtomicToken(t) THEN IF acc.after THEN fail ELSE [acc EXCEPT !.after = TRUE]
                ELSE IF acc.colon > 0 /\ t \in ternaryElseRejects THEN fail
                ELSE IF t \in ternaryOperators THEN [acc EXCEPT !.after = FALSE]
                ELSE fail
        walk == FoldLeft(step, [bad |-> FALSE, depth |-> 0, after |-> FALSE, colon |-> 0],
                         [i \in 1..(end - start + 1) |-> start + i - 1])
    IN  IF walk.bad \/ ~walk.after THEN 0 ELSE walk.colon

---------------------------------------------------------------------------
(* The spellings compared. *)

Punctuation == {",", "(", ")", "."}
negatedOperators == {"LIKE"}
negated(s, i) == s[i] = "NOT" /\ i < Len(s) /\ s[i + 1] \in negatedOperators

(* A word before a bracket is a call, no operator. *)
called(s, i) == i < Len(s) /\ s[i + 1] = "("

(* The respelled operators that the generated text still spells as the     *)
(* input does.                                                             *)
operatorsKept(s) ==
    ({s[i] : i \in {j \in DOMAIN s : s[j] = "DIV" => ~called(s, j)}} \cap {"<=>", "?", "DIV"}) \cup {"NOT LIKE" : i \in {j \in DOMAIN s : negated(s, j)}}

(* What the input's token i is spelled as: the generator's spelling where  *)
(* that regroups nothing, its own otherwise.                               *)
respelling(s, i, kept) ==
    LET drops(op) == op \notin kept IN
    CASE s[i] = "DIV" /\ ~called(s, i) /\ drops("DIV") /\ isolated(s, i, i) -> <<"INTDIV">>
      [] s[i] = "<=>" /\ drops("<=>") /\ isolated(s, i, i) -> <<"IS", "NOT", "DISTINCT", "FROM">>
      [] negated(s, i) -> IF drops("NOT LIKE") /\ isolated(s, i, i + 1) THEN <<"NOT">> ELSE <<"NOT LIKE">>
      [] s[i] = "?" /\ drops("?") /\ ternaryColon(s, i) > 0 -> <<"IF">>
      [] OTHER -> <<s[i]>>

(* The spellings of a text; those of the input with its respellings, and   *)
(* without the : of each ternary respelled.                                *)
fidelitySpellings(s, input, kept) ==
    LET skip == IF input /\ "?" \notin kept THEN {ternaryColon(s, i) : i \in {j \in DOMAIN s : s[j] = "?"}} ELSE {}
        spell(i) == IF s[i] \in Punctuation \/ i \in skip THEN <<>>
                    ELSE IF input THEN respelling(s, i, kept)
                    ELSE IF negated(s, i) THEN <<"NOT LIKE">> ELSE <<s[i]>>
    IN  FlattenSeq([i \in DOMAIN s |-> spell(i)])

(* No spelling lost and none added, but an AS, an = or a CROSS JOIN.       *)
spellingDiff(in, out) ==
    LET count(seq, w) == Cardinality({i \in DOMAIN seq : seq[i] = w})
        added(w) == count(out, w) - count(in, w)
        cross == LET c == added("CROSS") j == added("JOIN") IN IF c > 0 /\ j > 0 THEN IF c < j THEN c ELSE j ELSE 0
    IN  \E w \in Range(in) \cup Range(out) :
            LET n == IF w \in {"CROSS", "JOIN"} THEN added(w) - cross ELSE added(w)
            IN  n < 0 \/ (n > 0 /\ w \notin {"AS", "="})

differs(in, out) == spellingDiff(fidelitySpellings(in, TRUE, operatorsKept(out)), fidelitySpellings(out, FALSE, {}))

---------------------------------------------------------------------------
(* The two readers and the generator, outside the repository: an           *)
(* expression is a tree, built by splitting at its loosest operator.       *)

Node(op, args) == [op |-> op, args |-> args]
Bad == Node("bad", <<>>)

Compound == [p \in {<<"NOT", "LIKE">>, <<"IS", "NOT">>, <<"IS NOT", "DISTINCT">>, <<"IS NOT DISTINCT", "FROM">>} |->
                CASE p[2] = "LIKE" -> "NOT LIKE"     [] p[2] = "NOT" -> "IS NOT"
                  [] p[2] = "DISTINCT" -> "IS NOT DISTINCT" [] OTHER -> "IND"]
Lex(s) ==
    LET join(acc, t) == IF acc # <<>> /\ <<Last(acc), t>> \in DOMAIN Compound
                        THEN Append(Front(acc), Compound[<<Last(acc), t>>])
                        ELSE Append(acc, t)
    IN  FoldLeft(join, <<>>, s)

(* The indices of s outside every bracket and CASE. *)
Nesting(s, i) == Cardinality({k \in 1..(i - 1) : s[k] \in Openers}) - Cardinality({k \in 1..i : s[k] \in Closers})
Outside(s) == {i \in DOMAIN s : s[i] \notin Openers \cup Closers /\ Nesting(s, i) = 0}
Least(set) == CHOOSE x \in set : \A y \in set : x <= y
Greatest(set) == CHOOSE x \in set : \A y \in set : y <= x

(* The AND of the BETWEEN at i, 0 if there is none. *)
AndOf(s, i) ==
    LET ands == {k \in Outside(s) : k > i /\ s[k] = "AND"} IN IF ands = {} THEN 0 ELSE Least(ands)
Betweens(s) == {i \in Outside(s) : s[i] = "BETWEEN"}
Bounds(s) == UNION {i + 1 .. AndOf(s, i) : i \in Betweens(s)}

RECURSIVE Read(_, _), ReadList(_, _)

ReadList(s, table) ==
    LET commas == {i \in Outside(s) : s[i] = ","} IN
    IF commas = {} THEN <<Read(s, table)>>
    ELSE <<Read(SubSeq(s, 1, Least(commas) - 1), table)>> \o ReadList(SubSeq(s, Least(commas) + 1, Len(s)), table)

Unit(s, table) ==
    LET inner(k) == SubSeq(s, k, Len(s) - 1) IN
    CASE Len(s) = 1 /\ s[1] \in Atoms -> Node(s[1], <<>>)
      [] Len(s) = 3 /\ s[2] = "." -> Node("path", <<Node(s[1], <<>>), Node(s[3], <<>>)>>)
      [] Len(s) = 3 /\ s[1] = "{" -> Node("param", <<Node(s[2], <<>>)>>)
      [] Len(s) > 2 /\ s[1] = "(" /\ Last(s) = ")" -> Node("()", ReadList(inner(2), table))
      [] Len(s) > 3 /\ s[1] \in {"IF", "INTDIV"} /\ s[2] = "(" -> Node(s[1], ReadList(inner(3), table))
      [] Len(s) = 6 /\ s[1] = "CASE" -> Node("CASE", <<Node(s[3], <<>>), Node(s[5], <<>>)>>)
      [] OTHER -> Bad

(* The loosest operator of s, the last of its level; a NOT hides what it   *)
(* binds, a BETWEEN what stands between it and its AND.                    *)
Loosest(s, table) ==
    LET ops == {i \in Outside(s) : s[i] \in Operators /\ i \notin Bounds(s)}
        hidden(i) == \E k \in ops : /\ k < i /\ s[k] = "NOT" /\ table[s[i]] >= table["NOT"]
                                    /\ \A m \in ops : k < m /\ m < i => table[s[m]] >= table["NOT"]
        seen == {i \in ops : s[i] # "NOT" /\ ~hidden(i)}
    IN  IF seen = {} THEN 0
        ELSE Greatest({i \in seen : \A m \in seen : table[s[i]] <= table[s[m]]})

Read(s, table) ==
    LET part(i, j) == Read(SubSeq(s, i, j), table)
        marks == {i \in Outside(s) : s[i] = "?"}
        q == Least(marks)
        colons == {c \in Outside(s) : /\ c > q /\ s[c] = ":"
                                      /\ Cardinality({i \in marks : i < c})
                                            = Cardinality({i \in Outside(s) : s[i] = ":" /\ q < i /\ i <= c})}
        top == Loosest(s, table)
    IN  IF s = <<>> THEN Bad
        ELSE IF marks # {}
             THEN IF colons = {} THEN Bad
                  ELSE Node("?", <<part(1, q - 1), part(q + 1, Least(colons) - 1), part(Least(colons) + 1, Len(s))>>)
        ELSE IF top = 0
             THEN IF s[1] = "NOT" THEN Node("NOT", <<part(2, Len(s))>>) ELSE Unit(s, table)
        ELSE IF s[top] = "BETWEEN"
             THEN LET a == AndOf(s, top) IN
                  IF a = 0 THEN Bad ELSE Node("BETWEEN", <<part(1, top - 1), part(top + 1, a - 1), part(a + 1, Len(s))>>)
        ELSE Node(s[top], <<part(1, top - 1), part(top + 1, Len(s))>>)

(* The select list of a text. *)
Statement(s, table) == Node("SELECT", ReadList(Lex(Tail(s)), table))

RECURSIVE Faulty(_), Rejected(_), Meaning(_), Generated(_, _)

Faulty(tree) == tree = Bad \/ \E i \in DOMAIN tree.args : Faulty(tree.args[i])
(* ClickHouse does not read an OR at the top of an else branch. *)
Rejected(tree) ==
    \/ tree.op = "?" /\ tree.args[3].op = "OR"
    \/ \E i \in DOMAIN tree.args : Rejected(tree.args[i])

(* What a tree computes, whatever the spelling. *)
Meaning(tree) ==
    LET args == [i \in DOMAIN tree.args |-> Meaning(tree.args[i])] IN
    CASE tree.op = "()" /\ Len(args) = 1 -> args[1]
      [] tree.op = "DIV" -> Node("INTDIV", args)
      [] tree.op = "<=>" -> Node("IND", args)
      [] tree.op = "NOT LIKE" -> Node("NOT", <<Node("LIKE", args)>>)
      [] tree.op = "?" -> Node("IF", args)
      [] OTHER -> Node(tree.op, args)

ClickHouse(s) == LET tree == Statement(s, Levels) IN IF Faulty(tree) \/ Rejected(tree) THEN Bad ELSE Meaning(tree)

Listed(args) == FoldLeft(LAMBDA acc, a : IF acc = <<>> THEN a ELSE acc \o <<",">> \o a, <<>>, args)

(* The generator's spelling of a tree; the operators in kept are printed   *)
(* as they were written.                                                   *)
Generated(tree, kept) ==
    LET op == tree.op
        a == [i \in DOMAIN tree.args |-> Generated(tree.args[i], kept)]
        infix(tokens) == a[1] \o tokens \o a[2]
        call(f) == <<f, "(">> \o Listed(a) \o <<")">>
    IN  CASE a = <<>> -> <<op>>
          [] op = "SELECT" -> <<op>> \o Listed(a)
          [] op = "path" -> infix(<<".">>)
          [] op = "param" -> <<"{">> \o a[1] \o <<"}">>
          [] op = "()" -> <<"(">> \o Listed(a) \o <<")">>
          [] op \in {"IF", "INTDIV"} -> call(op)
          [] op = "CASE" -> <<"CASE", "WHEN">> \o a[1] \o <<"THEN">> \o a[2] \o <<"END">>
          [] op = "NOT" -> <<"NOT">> \o a[1]
          [] op = "BETWEEN" -> a[1] \o <<"BETWEEN">> \o a[2] \o <<"AND">> \o a[3]
          [] op = "IND" -> infix(<<"IS", "NOT", "DISTINCT", "FROM">>)
          [] op = "?" -> IF "?" \in kept THEN a[1] \o <<"?">> \o a[2] \o <<":">> \o a[3] ELSE call("IF")
          [] op = "NOT LIKE" -> IF op \in kept THEN infix(<<"NOT", "LIKE">>) ELSE <<"NOT">> \o infix(<<"LIKE">>)
          [] op = "DIV" /\ op \notin kept -> call("INTDIV")
          [] op = "<=>" /\ op \notin kept -> infix(<<"IS", "NOT", "DISTINCT", "FROM">>)
          [] OTHER -> infix(<<op>>)

---------------------------------------------------------------------------
(* A client writes a statement, Polyglot reads and prints it, the gate     *)
(* compares.                                                               *)

GateInit ==
    /\ text = <<"SELECT">> /\ open = 0 /\ wants = "operand"
    /\ used = [names |-> 0, operators |-> 0, forms |-> 0]
    /\ output = <<>> /\ verdict = "none"

Writing == output = <<>> /\ verdict = "none"

WriteName ==
    /\ Writing /\ wants = "operand" /\ used.names < Len(Operands)
    /\ text' = Append(text, Operands[used.names + 1])
    /\ used' = [used EXCEPT !.names = @ + 1]
    /\ wants' = "operator"
    /\ UNCHANGED <<open, output, verdict>>

(* t.a, {p:T}, CASE WHEN c THEN d END *)
WriteForm ==
    /\ Writing /\ wants = "operand" /\ used.forms < MaxForms
    /\ LET n(k) == Operands[used.names + k] IN
       \/ /\ used.names + 2 <= Len(Operands)
          /\ text' \in {text \o <<n(1), ".", n(2)>>, text \o <<"CASE", "WHEN", n(1), "THEN", n(2), "END">>}
          /\ used' = [used EXCEPT !.names = @ + 2, !.forms = @ + 1]
       \/ /\ used.names < Len(Operands)
          /\ text' = text \o <<"{", n(1), "}">>
          /\ used' = [used EXCEPT !.names = @ + 1, !.forms = @ + 1]
    /\ wants' = "operator"
    /\ UNCHANGED <<open, output, verdict>>

WriteNot ==
    /\ Writing /\ wants = "operand" /\ used.forms < MaxForms
    /\ Last(text) \in {"SELECT", "(", ",", "AND", "OR", "?", ":"}
    /\ text' = Append(text, "NOT")
    /\ used' = [used EXCEPT !.forms = @ + 1]
    /\ UNCHANGED <<open, wants, output, verdict>>

WriteOperator ==
    /\ Writing /\ wants = "operator" /\ used.operators < MaxOperators
    /\ \E op \in Infix : text' = text \o op
    /\ used' = [used EXCEPT !.operators = @ + 1]
    /\ wants' = "operand"
    /\ UNCHANGED <<open, output, verdict>>

OpenBracket ==
    /\ Writing /\ wants = "operand" /\ used.forms < MaxForms
    /\ text' = Append(text, "(") /\ open' = open + 1
    /\ used' = [used EXCEPT !.forms = @ + 1]
    /\ UNCHANGED <<wants, output, verdict>>

CloseBracket ==
    /\ Writing /\ wants = "operator" /\ open > 0
    /\ text' = Append(text, ")") /\ open' = open - 1
    /\ UNCHANGED <<wants, used, output, verdict>>

Finished == wants = "operator" /\ open = 0

Regenerate ==
    /\ Writing /\ Finished
    /\ \E table \in PolyglotLevels, kept \in Verbatim :
          LET tree == Statement(text, table) IN
          IF Faulty(tree) THEN verdict' = "rejected" /\ UNCHANGED output
          ELSE output' = Generated(tree, kept) /\ UNCHANGED verdict
    /\ UNCHANGED <<text, open, wants, used>>

(* Some clauses are read into nothing: here the last name of the text. *)
ReadIntoNothing ==
    /\ output # <<>> /\ verdict = "none" /\ Last(output) \in Atoms
    /\ Last(output) = Operands[used.names]
    /\ output' = Front(output)
    /\ UNCHANGED <<text, open, wants, used, verdict>>

CheckRegenerated ==
    /\ output # <<>> /\ verdict = "none"
    /\ verdict' = IF differs(text, output) THEN "differs" ELSE "ok"
    /\ UNCHANGED <<text, open, wants, used, output>>

GateNext ==
    \/ WriteName \/ WriteForm \/ WriteNot \/ WriteOperator \/ OpenBracket \/ CloseBracket
    \/ Regenerate \/ ReadIntoNothing \/ CheckRegenerated

GateSpec == GateInit /\ [][GateNext]_gvars

---------------------------------------------------------------------------

(* The type invariant: a text has its brackets closed when it is checked,  *)
(* and ternaryColon answers with a : after the ? it is asked about.        *)
GateTypeOK ==
    /\ wants \in {"operand", "operator"} /\ open \in 0..MaxForms
    /\ used \in [names : 0..Len(Operands), operators : 0..MaxOperators, forms : 0..MaxForms]
    /\ verdict \in {"none", "rejected", "ok", "differs"}
    /\ verdict # "none" => Finished /\ Balance(text, 1, Len(text)) = 0
    /\ \A q \in DOMAIN text :
          (text[q] = "?" /\ ternaryColon(text, q) > 0) => ternaryColon(text, q) > q /\ text[ternaryColon(text, q)] = ":"

(* Whatever levels Polyglot reads with, a generated statement the gate     *)
(* accepts means to ClickHouse what the client's statement means to it,    *)
(* and is rejected by it where the client's is: no respelling has moved an *)
(* operand from one operator to another.                                   *)
RespellingFaithful == verdict = "ok" => ClickHouse(output) = ClickHouse(text)

(* A statement of one operator that Polyglot reads as ClickHouse does, and *)
(* prints in its own spelling, is accepted: the borders at the start and   *)
(* at the end of the text are borders.                                     *)
SimpleAccepted ==
    /\ used.operators = 1 /\ used.forms = 0 /\ ClickHouse(text) # Bad
    /\ output = Generated(Statement(text, Levels), {})
    => verdict # "differs"

(* The gate sees every regrouping, and refuses no plain statement of one   *)
(* operator.                                                               *)
RespellingJudged == GateTypeOK /\ RespellingFaithful /\ SimpleAccepted
============================================================================
