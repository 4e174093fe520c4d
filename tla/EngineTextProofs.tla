-------------------------- MODULE EngineTextProofs --------------------------
(***************************************************************************)
(* What the engine's loops over a text compute, for texts of every length: *)
(* the nesting guard counts the brackets the parser sees, and the search   *)
(* for the point where the parser stopped finds it.                        *)
(***************************************************************************)
EXTENDS NestingGuard, WholeStatement, FiniteSetTheorems, TLAPS

---------------------------------------------------------------------------
(* Numbers have a least element: the initial segments below one of them    *)
(* are finite sets, and strict inclusion of those is well founded.         *)
LEMMA Least ==
    ASSUME NEW T, T \subseteq Nat, T # {}
    PROVE  \E m \in T : \A n \in T : m <= n
<1>1. PICK b \in T : TRUE
  OBVIOUS
<1> DEFINE S == 0..b
           C == {0..k : k \in {j \in T : j <= b}}
<1>2. b \in Nat /\ IsFiniteSet(S)
  BY <1>1, FS_Interval
<1>3. C \subseteq SUBSET S /\ C # {}
  BY <1>1, <1>2
<1>4. IsWellFoundedOn(StrictSubsetOrdering(S), SUBSET S)
  <2>1. IsWellFoundedOn(StrictSubsetOrdering(S), FiniteSubsetsOf(S))
    BY FS_StrictSubsetOrderingWellFounded
  <2>2. FiniteSubsetsOf(S) = SUBSET S
    BY <1>2, FS_Subset DEF FiniteSubsetsOf
  <2> QED BY <2>1, <2>2
<1> HIDE DEF S, C
<1>5. PICK x \in C : \A y \in C : ~(<<y, x>> \in StrictSubsetOrdering(S))
  BY <1>3, <1>4, WFMin
<1> USE DEF S, C
<1>6. PICK m \in T : m <= b /\ x = 0..m
  BY <1>5
<1>7. ASSUME NEW n \in T PROVE m <= n
  <2> SUFFICES ASSUME n < m PROVE FALSE
    BY <1>6
  <2>1. 0..n \in C
    BY <1>2, <1>6
  <2>2. <<0..n, x>> \in StrictSubsetOrdering(S)
    <3>1. 0..n \subseteq x /\ 0..n # x
      <4>1. m \in x /\ m \notin 0..n
        BY <1>6
      <4> QED BY <4>1, <1>6
    <3>2. 0..n \in SUBSET S /\ x \in SUBSET S
      BY <1>3, <2>1, <1>5
    <3> QED BY <3>1, <3>2 DEF StrictSubsetOrdering
  <2> QED BY <2>1, <2>2, <1>5
<1> QED BY <1>7

LEMMA Greatest ==
    ASSUME NEW S, S \subseteq Nat, S # {}, NEW b \in Nat, \A n \in S : n <= b
    PROVE  \E m \in S : \A n \in S : n <= m
<1> DEFINE T == {k \in Nat : \A n \in S : n <= k}
<1>1. T \subseteq Nat /\ b \in T
  OBVIOUS
<1>2. PICK m \in T : \A n \in T : m <= n
  <2> HIDE DEF T
  <2>1. T # {}
    BY <1>1
  <2> QED BY <1>1, <2>1, Least
<1>3. PICK x \in S : TRUE
  OBVIOUS
<1>4. m \in S
  <2> SUFFICES ASSUME m \notin S PROVE FALSE
    OBVIOUS
  <2>1. \A n \in S : n \in Nat /\ n <= m /\ n # m
    BY <1>2
  <2>2. m \in Nat /\ x \in Nat /\ x <= m /\ x # m
    BY <1>2, <1>3, <2>1
  <2>3. m - 1 \in Nat /\ \A n \in S : n <= m - 1
    BY <2>1, <2>2
  <2>4. m - 1 \in T
    BY <2>3
  <2>5. m <= m - 1
    BY <1>2, <2>4
  <2> QED BY <2>2, <2>5
<1> QED BY <1>2, <1>4

---------------------------------------------------------------------------
(* Counting the members of a set of positions, one position at a time.     *)

LEMMA CountEmpty ==
    ASSUME NEW S, NEW i \in Int, NEW j \in Int, j < i
    PROVE  Cardinality(S \cap i..j) = 0
<1>1. S \cap i..j = {}
  OBVIOUS
<1> QED BY <1>1, FS_EmptySet

LEMMA CountNat ==
    ASSUME NEW S, NEW i \in Int, NEW j \in Int
    PROVE  IsFiniteSet(S \cap i..j) /\ Cardinality(S \cap i..j) \in Nat
<1>1. IsFiniteSet(i..j)
  BY FS_Interval
<1>2. S \cap i..j \subseteq i..j
  OBVIOUS
<1>3. IsFiniteSet(S \cap i..j)
  BY <1>1, <1>2, FS_Subset
<1> QED BY <1>3, FS_CardinalityType

LEMMA CountUpTo == ASSUME NEW n \in Nat PROVE IsFiniteSet(1..n) /\ Cardinality(1..n) = n
<1>1. 1 \in Int /\ n \in Int /\ (1 > n <=> n = 0) /\ n - 1 + 1 = n
  OBVIOUS
<1>2. IsFiniteSet(1..n) /\ Cardinality(1..n) = IF 1 > n THEN 0 ELSE n - 1 + 1
  BY <1>1, FS_Interval
<1>3. CASE 1 > n
  BY <1>1, <1>2, <1>3
<1>4. CASE ~(1 > n)
  BY <1>1, <1>2, <1>4
<1> QED BY <1>3, <1>4

LEMMA CountNext ==
    ASSUME NEW S, NEW i \in Int, NEW j \in Int, i <= j
    PROVE  Cardinality(S \cap i..j) = Cardinality(S \cap i..(j - 1)) + (IF j \in S THEN 1 ELSE 0)
<1> DEFINE A == S \cap i..(j - 1)
<1>1. IsFiniteSet(A) /\ Cardinality(A) \in Nat
  <2>1. j - 1 \in Int
    OBVIOUS
  <2> QED BY <2>1, CountNat
<1>2. j \notin A
  OBVIOUS
<1>3. CASE j \in S
  <2>1. S \cap i..j = A \cup {j}
    BY <1>3
  <2> HIDE DEF A
  <2>2. Cardinality(A \cup {j}) = Cardinality(A) + 1
    BY <1>1, <1>2, FS_AddElement
  <2> QED BY <1>3, <2>1, <2>2 DEF A
<1>4. CASE j \notin S
  <2>1. S \cap i..j = A
    BY <1>4
  <2>2. Cardinality(A) = Cardinality(A) + 0
    BY <1>1
  <2> HIDE DEF A
  <2>3. Cardinality(S \cap i..j) = Cardinality(A) + (IF j \in S THEN 1 ELSE 0)
    BY <1>4, <2>1, <2>2
  <2> QED BY <2>3 DEF A
<1> QED BY <1>3, <1>4

---------------------------------------------------------------------------
(* The guard's scan.                                                       *)

Modes == Quotes \cup {"code", "comment"}
ParserStates == [mode : Modes, escape : BOOLEAN, dash : BOOLEAN]

(* What byte j adds to the brackets open. *)
Bracket(j) == IF j \in Structural("(") THEN 1 ELSE IF j \in Structural(")") THEN -1 ELSE 0

(* No stretch of the text before byte a leaves more than d open at its     *)
(* end, one leaves as many, and none before it leaves more than MaxDepth.  *)
AtMost(a, d) == \A i \in 1..a : LeftOpen(i, a - 1) <= d
AtLeast(a, d) == \E i \in 1..a : LeftOpen(i, a - 1) >= d
Within(a) == \A j \in 1..(a - 1) : \A i \in 1..j : LeftOpen(i, j) <= MaxDepth

(* The scan, at byte a with quote q, agrees with the parser on where       *)
(* literals are.                                                           *)
Aligned(a, q) ==
    IF q = "" THEN ModeAt(a) \in {"code", "comment"}
    ELSE ModeAt(a) = q /\ (a <= Len(bytes) => ~parserAt[a].escape)

(* No comment hides a byte the scan takes for a quote or a bracket less. *)
ClearComments == \A i \in Comments : bytes[i] \notin Quotes \cup {")"}

ScanQuotes == Quotes \cup {""}

GuardTyped ==
    /\ bytes \in Seq(Bytes) /\ Len(bytes) <= MaxLength
    /\ parserAt \in Seq(ParserStates) /\ Len(parserAt) = Len(bytes) + 1
    /\ at \in Nat /\ at <= Len(bytes) + 1
    /\ quote \in ScanQuotes /\ outcome \in {"none", "over", "ok"}
    /\ depth \in Nat /\ depth <= MaxDepth + 1 /\ (depth > MaxDepth <=> outcome = "over")
    /\ at = 0 => quote = "" /\ depth = 0 /\ outcome = "none"

ParserReads ==
    /\ parserAt[1] = InCode
    /\ \A i \in 1..Len(bytes) : parserAt[i + 1] = ReadByte(parserAt[i], bytes[i])

(* The scan's count bounds the brackets open from above, and from below    *)
(* where there are no comments.                                            *)
Counted ==
    at >= 1 /\ ClearComments =>
        /\ Aligned(at, quote)
        /\ AtMost(at, depth)
        /\ outcome # "over" => Within(at)

CountedOnly ==
    at >= 1 /\ Comments = {} => AtLeast(at, depth)

GuardInv ==
    /\ GuardTyped /\ ParserReads /\ Counted /\ CountedOnly
    /\ outcome = "ok" => at = Len(bytes) + 1

LEMMA LeftOpenInt ==
    ASSUME NEW i \in Int, NEW j \in Int
    PROVE  LeftOpen(i, j) \in Int
<1> DEFINE o == Cardinality(Structural("(") \cap i..j)
           c == Cardinality(Structural(")") \cap i..j)
<1>1. o \in Nat /\ c \in Nat
  BY CountNat
<1>2. LeftOpen(i, j) = o - c
  BY DEF LeftOpen
<1> HIDE DEF o, c
<1> QED BY <1>1, <1>2

LEMMA LeftOpenNone ==
    ASSUME NEW i \in Int, NEW j \in Int, j < i
    PROVE  LeftOpen(i, j) = 0
  BY CountEmpty DEF LeftOpen

LEMMA LeftOpenNext ==
    ASSUME NEW i \in Int, NEW j \in Int, i <= j
    PROVE  LeftOpen(i, j) = LeftOpen(i, j - 1) + Bracket(j)
<1> DEFINE O == Structural("(")
           C == Structural(")")
           o(k) == Cardinality(O \cap i..k)
           c(k) == Cardinality(C \cap i..k)
<1>0. j - 1 \in Int
  OBVIOUS
<1>3. ~(j \in O /\ j \in C)
  BY DEF Structural
<1>4. LeftOpen(i, j) = o(j) - c(j) /\ LeftOpen(i, j - 1) = o(j - 1) - c(j - 1)
  BY DEF LeftOpen
<1>5. Bracket(j) = IF j \in O THEN 1 ELSE IF j \in C THEN -1 ELSE 0
  BY DEF Bracket
<1> HIDE DEF O, C
<1>1. /\ o(j) = o(j - 1) + (IF j \in O THEN 1 ELSE 0)
      /\ c(j) = c(j - 1) + (IF j \in C THEN 1 ELSE 0)
  BY CountNext
<1>2. o(j - 1) \in Nat /\ c(j - 1) \in Nat
  BY <1>0, CountNat
<1> HIDE DEF o, c
<1> QED BY <1>1, <1>2, <1>3, <1>4, <1>5

LEMMA BracketInt == ASSUME NEW j PROVE Bracket(j) \in {-1, 0, 1}
  BY DEF Bracket

(* The scan passes byte a, with depth d before it and e after it. *)
LEMMA PassAtMost ==
    ASSUME NEW a \in Nat, a >= 1, NEW d \in Nat, NEW e \in Nat, AtMost(a, d), d + Bracket(a) <= e
    PROVE  AtMost(a + 1, e) /\ (Within(a) /\ e <= MaxDepth => Within(a + 1))
<1>1. Bracket(a) \in Int
  BY BracketInt
<1>2. ASSUME NEW i \in 1..a PROVE LeftOpen(i, a) <= e /\ LeftOpen(i, a) \in Int
  <2>a. i \in Int /\ a \in Int /\ a - 1 \in Int /\ i <= a
    OBVIOUS
  <2>1. LeftOpen(i, a) = LeftOpen(i, a - 1) + Bracket(a) /\ LeftOpen(i, a - 1) \in Int
    BY <2>a, LeftOpenNext, LeftOpenInt
  <2>2. LeftOpen(i, a - 1) <= d
    BY DEF AtMost
  <2> QED BY <1>1, <2>1, <2>2
<1>3. LeftOpen(a + 1, a) = 0
  BY LeftOpenNone
<1>4. AtMost(a + 1, e)
  <2> SUFFICES ASSUME NEW i \in 1..(a + 1) PROVE LeftOpen(i, a) <= e
    BY DEF AtMost
  <2>1. CASE i = a + 1
    BY <1>3, <2>1
  <2>2. CASE i # a + 1
    <3>1. i \in 1..a
      BY <2>2
    <3> QED BY <1>2, <3>1
  <2> QED BY <2>1, <2>2
<1>5. ASSUME Within(a), e <= MaxDepth PROVE Within(a + 1)
  <2> SUFFICES ASSUME NEW j \in 1..a, NEW i \in 1..j PROVE LeftOpen(i, j) <= MaxDepth
    BY DEF Within
  <2>1. CASE j = a
    <3>1. LeftOpen(i, a) <= e /\ LeftOpen(i, a) \in Int
      BY <1>2, <2>1
    <3> QED BY <1>5, <2>1, <3>1, GuardAssumption
  <2>2. CASE j # a
    <3>1. j \in 1..(a - 1)
      BY <2>2
    <3> QED BY <1>5, <3>1 DEF Within
  <2> QED BY <2>1, <2>2
<1> QED BY <1>4, <1>5

LEMMA PassAtLeast ==
    ASSUME NEW a \in Nat, a >= 1, NEW d \in Nat, NEW e \in Nat, AtLeast(a, d), e = 0 \/ e <= d + Bracket(a)
    PROVE  AtLeast(a + 1, e)
<1>1. CASE e = 0
  <2>1. LeftOpen(a + 1, a) = 0
    BY LeftOpenNone
  <2>2. a + 1 \in 1..(a + 1) /\ (a + 1) - 1 = a
    OBVIOUS
  <2> QED BY <1>1, <2>1, <2>2 DEF AtLeast
<1>2. CASE e <= d + Bracket(a)
  <2>1. PICK i \in 1..a : LeftOpen(i, a - 1) >= d
    BY DEF AtLeast
  <2>a. i \in Int /\ a \in Int /\ a - 1 \in Int /\ i <= a
    OBVIOUS
  <2>2. LeftOpen(i, a) = LeftOpen(i, a - 1) + Bracket(a) /\ LeftOpen(i, a - 1) \in Int
    BY <2>a, LeftOpenNext, LeftOpenInt
  <2>3. LeftOpen(i, a) >= e
    BY <1>2, <2>1, <2>2, BracketInt
  <2>4. i \in 1..(a + 1) /\ (a + 1) - 1 = a
    OBVIOUS
  <2> QED BY <2>3, <2>4 DEF AtLeast
<1> QED BY <1>1, <1>2

LEMMA Lengths ==
    ASSUME GuardTyped
    PROVE  /\ bytes \in Seq(Bytes) /\ Len(bytes) \in Nat /\ DOMAIN bytes = 1..Len(bytes)
           /\ parserAt \in Seq(ParserStates) /\ Len(parserAt) = Len(bytes) + 1
           /\ DOMAIN parserAt = 1..(Len(bytes) + 1)
           /\ at \in Nat /\ at <= Len(bytes) + 1 /\ depth \in Nat /\ depth <= MaxDepth + 1
<1>1. /\ bytes \in Seq(Bytes) /\ parserAt \in Seq(ParserStates) /\ Len(parserAt) = Len(bytes) + 1
      /\ at \in Nat /\ at <= Len(bytes) + 1 /\ depth \in Nat /\ depth <= MaxDepth + 1
  BY Zenon DEF GuardTyped
<1> QED BY <1>1

LEMMA ReaderTyped ==
    ASSUME NEW r \in ParserStates, NEW c \in Bytes
    PROVE  ReadByte(r, c) \in ParserStates
  BY DEF ReadByte, ParserStates, Modes, InCode, Quotes, Bytes

(* What is known of byte a, and of the parser there. *)
LEMMA AtByte ==
    ASSUME GuardTyped, ParserReads, NEW a \in 1..Len(bytes)
    PROVE  /\ a \in DOMAIN bytes /\ bytes[a] \in Bytes /\ parserAt[a] \in ParserStates
           /\ parserAt[a + 1] = ReadByte(parserAt[a], bytes[a])
           /\ Bracket(a) = IF ModeAt(a) # "code" THEN 0
                           ELSE IF bytes[a] = "(" THEN 1 ELSE IF bytes[a] = ")" THEN -1 ELSE 0
<1>1. /\ a \in DOMAIN bytes /\ bytes[a] \in Bytes /\ parserAt[a] \in ParserStates
      /\ parserAt[a + 1] = ReadByte(parserAt[a], bytes[a])
  BY Lengths DEF ParserReads
<1>2. /\ a \in Structural("(") <=> bytes[a] = "(" /\ ModeAt(a) = "code"
      /\ a \in Structural(")") <=> bytes[a] = ")" /\ ModeAt(a) = "code"
  BY <1>1 DEF Structural
<1> QED BY <1>1, <1>2 DEF Bracket

(* Outside literals, the scan and the parser stay together. *)
LEMMA OutsideLiteral ==
    ASSUME GuardTyped, ParserReads, NEW a \in 1..Len(bytes), ClearComments, Aligned(a, "")
    PROVE  /\ bytes[a] \in Quotes => Aligned(a + 1, bytes[a]) /\ Bracket(a) = 0
           /\ bytes[a] \notin Quotes => Aligned(a + 1, "")
           /\ bytes[a] = "(" => Bracket(a) \in {0, 1} /\ (Comments = {} => Bracket(a) = 1)
           /\ bytes[a] = ")" => Bracket(a) = -1
           /\ bytes[a] \notin {"(", ")"} => Bracket(a) = 0
<1> DEFINE p == parserAt[a]
           c == bytes[a]
<1>1. /\ a \in DOMAIN bytes /\ c \in Bytes /\ p \in ParserStates
      /\ parserAt[a + 1] = ReadByte(p, c)
      /\ Bracket(a) = IF p.mode # "code" THEN 0 ELSE IF c = "(" THEN 1 ELSE IF c = ")" THEN -1 ELSE 0
  BY AtByte DEF ModeAt
<1>2. p.mode \in {"code", "comment"}
  BY DEF Aligned, ModeAt
<1>3. p.mode = "comment" => a \in Comments
  BY <1>1 DEF Comments, ModeAt
<1>4. p.mode = "comment" => c \notin Quotes \cup {")"}
  BY <1>3 DEF ClearComments
<1> HIDE DEF p, c
<1>5. c \in Quotes => ReadByte(p, c).mode = c /\ ~ReadByte(p, c).escape
  BY <1>2, <1>4 DEF ReadByte, InCode, Quotes
<1>6. c \notin Quotes => ReadByte(p, c).mode \in {"code", "comment"}
  BY <1>1, <1>2 DEF ReadByte, InCode, Quotes, ParserStates
<1>7. "" \notin Quotes
  BY DEF Quotes
<1>8. c \in Quotes => Aligned(a + 1, c) /\ Bracket(a) = 0
  <2> SUFFICES ASSUME c \in Quotes PROVE Aligned(a + 1, c) /\ Bracket(a) = 0
    OBVIOUS
  <2>1. c # "" /\ c # "(" /\ c # ")"
    BY DEF Quotes
  <2>2. parserAt[a + 1].mode = c /\ ~parserAt[a + 1].escape
    BY <1>1, <1>5
  <2> QED BY <1>1, <2>1, <2>2 DEF Aligned, ModeAt
<1>9. c \notin Quotes => Aligned(a + 1, "")
  BY <1>1, <1>6 DEF Aligned, ModeAt
<1>10. c = "(" => Bracket(a) \in {0, 1} /\ (Comments = {} => Bracket(a) = 1)
  BY <1>1, <1>2, <1>3
<1>11. c = ")" => Bracket(a) = -1
  BY <1>1, <1>2, <1>4
<1>12. c \notin {"(", ")"} => Bracket(a) = 0
  BY <1>1
<1> QED BY <1>8, <1>9, <1>10, <1>11, <1>12 DEF c

(* Inside one, no byte is a bracket, and both leave it together. *)
LEMMA InsideLiteral ==
    ASSUME GuardTyped, ParserReads, at \in 1..Len(bytes), quote \in Quotes, Aligned(at, quote)
    PROVE  /\ Bracket(at) = 0
           /\ ~Escaped => Aligned(at + 1, IF bytes[at] = quote THEN "" ELSE quote)
           /\ Escaped => /\ at + 1 <= Len(bytes) /\ Bracket(at + 1) = 0
                         /\ Aligned(at + 2, quote)
<1> DEFINE p == parserAt[at]
           c == bytes[at]
           r == parserAt[at + 1]
           d == bytes[at + 1]
<1>1. /\ c \in Bytes /\ p \in ParserStates /\ r = ReadByte(p, c)
      /\ Bracket(at) = IF p.mode # "code" THEN 0 ELSE IF c = "(" THEN 1 ELSE IF c = ")" THEN -1 ELSE 0
  BY AtByte DEF ModeAt
<1>a. quote # "" /\ quote \notin {"code", "comment", "(", ")", "backslash"}
  BY DEF Quotes
<1>2. p.mode = quote /\ ~p.escape /\ quote # "" /\ quote \notin {"code", "comment", "(", ")", "backslash"}
  <2>1. at <= Len(bytes)
    BY Lengths
  <2>2. ModeAt(at) = quote /\ ~parserAt[at].escape
    BY <1>a, <2>1 DEF Aligned
  <2> QED BY <1>a, <2>2 DEF ModeAt
<1>3. at \in Nat /\ Len(bytes) \in Nat
  BY Lengths
<1>4. ASSUME at + 1 <= Len(bytes)
      PROVE  /\ d \in Bytes /\ r \in ParserStates /\ parserAt[at + 2] = ReadByte(r, d)
             /\ Bracket(at + 1) = IF r.mode # "code" THEN 0
                                  ELSE IF d = "(" THEN 1 ELSE IF d = ")" THEN -1 ELSE 0
  <2>1. at + 1 \in 1..Len(bytes) /\ (at + 1) + 1 = at + 2
    BY <1>3, <1>4
  <2> QED BY <2>1, AtByte DEF ModeAt
<1>5. Escaped <=> (c = "backslash" /\ at < Len(bytes)) \/ (c = quote /\ at < Len(bytes) /\ d = quote)
  BY DEF Escaped, Follows
<1> HIDE DEF p, c, r, d
<1>6. r = IF c = "backslash" THEN [p EXCEPT !.escape = TRUE] ELSE IF c = quote THEN InCode ELSE p
  BY <1>1, <1>2 DEF ReadByte
<1>7. Bracket(at) = 0
  BY <1>1, <1>2
<1>8. ASSUME ~Escaped PROVE Aligned(at + 1, IF c = quote THEN "" ELSE quote)
  <2>1. CASE c = quote
    <3>1. r.mode = "code"
      BY <1>2, <1>6, <2>1 DEF InCode
    <3> QED BY <2>1, <3>1 DEF Aligned, ModeAt, r
  <2>2. CASE c # quote
    <3>1. r.mode = quote
      BY <1>1, <1>2, <1>6, <2>2 DEF ParserStates
    <3>2. at + 1 <= Len(bytes) => ~r.escape
      <4> SUFFICES ASSUME at + 1 <= Len(bytes) PROVE ~r.escape
        OBVIOUS
      <4>1. c # "backslash"
        BY <1>3, <1>5, <1>8
      <4> QED BY <1>2, <1>6, <2>2, <4>1
    <3> QED BY <1>2, <2>2, <3>1, <3>2 DEF Aligned, ModeAt, r
  <2> QED BY <2>1, <2>2
<1>9. ASSUME Escaped
      PROVE  at + 1 <= Len(bytes) /\ Bracket(at + 1) = 0 /\ Aligned(at + 2, quote)
  <2>1. at + 1 <= Len(bytes)
    BY <1>3, <1>5, <1>9
  <2>2. CASE c = "backslash"
    <3>1. r.mode = quote /\ r.escape
      BY <1>1, <1>2, <1>6, <2>2 DEF ParserStates
    <3>2. ReadByte(r, d) = [r EXCEPT !.escape = FALSE]
      BY <1>2, <3>1 DEF ReadByte
    <3>3. ReadByte(r, d).mode = quote /\ ~ReadByte(r, d).escape
      BY <1>4, <2>1, <3>1, <3>2 DEF ParserStates
    <3> QED BY <1>2, <1>4, <2>1, <3>1, <3>3 DEF Aligned, ModeAt
  <2>3. CASE c # "backslash"
    <3>1. c = quote /\ d = quote
      BY <1>5, <1>9, <2>3
    <3>2. r = InCode
      BY <1>6, <2>3, <3>1
    <3>3. ReadByte(r, d) = [InCode EXCEPT !.mode = quote]
      <4>1. r.mode = "code" /\ r.mode \notin Quotes
        BY <3>2 DEF InCode, Quotes
      <4>2. d # "-" /\ d \in Quotes
        BY <3>1 DEF Quotes
      <4> QED BY <3>1, <4>1, <4>2 DEF ReadByte
    <3>4. ReadByte(r, d).mode = quote /\ ~ReadByte(r, d).escape
      BY <3>3 DEF InCode
    <3> QED BY <1>2, <1>4, <2>1, <3>1, <3>4 DEF Aligned, ModeAt
  <2> QED BY <2>1, <2>2, <2>3
<1> QED BY <1>7, <1>8, <1>9 DEF c

(* The scan changes neither the text nor what the parser makes of it. *)
LEMMA Frozen ==
    ASSUME bytes' = bytes, parserAt' = parserAt
    PROVE  /\ \A i, j : LeftOpen(i, j)' = LeftOpen(i, j)
           /\ Comments' = Comments /\ ClearComments' = ClearComments
           /\ ParserReads' = ParserReads /\ \A a, q : Aligned(a, q)' = Aligned(a, q)
  BY DEF LeftOpen, Structural, ModeAt, Comments, ClearComments, ParserReads, Aligned

LEMMA FrozenCounts ==
    ASSUME bytes' = bytes, parserAt' = parserAt
    PROVE  /\ \A a, d : AtMost(a, d)' = AtMost(a, d) /\ AtLeast(a, d)' = AtLeast(a, d)
           /\ \A a : Within(a)' = Within(a)
  BY DEF AtMost, AtLeast, Within, LeftOpen, Structural, ModeAt

LEMMA GuardStarts == GuardInit => GuardInv
<1> SUFFICES ASSUME GuardInit PROVE GuardInv
  OBVIOUS
<1>1. bytes = <<>> /\ parserAt = <<InCode>> /\ at = 0 /\ quote = "" /\ depth = 0 /\ outcome = "none"
  BY DEF GuardInit
<1>a. at = 0 /\ outcome = "none"
  BY <1>1
<1>b. bytes = <<>> /\ parserAt = <<InCode>>
  BY <1>1
<1>2. InCode \in ParserStates
  BY DEF InCode, ParserStates, Modes
<1>3. /\ bytes \in Seq(Bytes) /\ Len(bytes) = 0 /\ parserAt \in Seq(ParserStates) /\ Len(parserAt) = 1
      /\ parserAt[1] = InCode
  <2> DEFINE c == InCode
  <2> HIDE DEF c
  <2>1. <<c>> \in Seq({c}) /\ Len(<<c>>) = 1 /\ <<c>>[1] = c
    OBVIOUS
  <2>2. c \in ParserStates
    BY <1>2 DEF c
  <2>3. <<c>> \in Seq(ParserStates)
    BY <2>2
  <2>4. bytes = <<>> /\ parserAt = <<c>>
    BY <1>b DEF c
  <2> QED BY <2>1, <2>3, <2>4 DEF c
<1>4. GuardTyped
  <2>1. Len(bytes) <= MaxLength /\ Len(parserAt) = Len(bytes) + 1 /\ 0 <= Len(bytes) + 1
    BY <1>3, GuardAssumption
  <2>2. 0 <= MaxDepth + 1 /\ ~(0 > MaxDepth)
    BY GuardAssumption
  <2> QED BY <1>1, <1>3, <2>1, <2>2 DEF GuardTyped, ScanQuotes
<1>5. ParserReads
  BY <1>3 DEF ParserReads
<1>6. ~(at >= 1) /\ outcome # "ok"
  BY <1>a
<1> QED BY <1>4, <1>5, <1>6 DEF GuardInv, Counted, CountedOnly

LEMMA WriteByteSteps == ASSUME GuardInv, WriteByte PROVE GuardInv'
<1>1. PICK c \in Alphabet : /\ bytes' = Append(bytes, c)
                            /\ parserAt' = Append(parserAt, ReadByte(parserAt[Len(parserAt)], c))
  BY DEF WriteByte
<1>2. /\ at = 0 /\ Len(bytes) < MaxLength /\ UNCHANGED <<at, quote, depth, outcome>>
      /\ GuardTyped /\ ParserReads
  BY DEF WriteByte, GuardInv
<1>3. /\ bytes \in Seq(Bytes) /\ Len(bytes) \in Nat /\ DOMAIN bytes = 1..Len(bytes)
      /\ parserAt \in Seq(ParserStates) /\ Len(parserAt) = Len(bytes) + 1
      /\ DOMAIN parserAt = 1..(Len(bytes) + 1)
  BY <1>2, Lengths
<1>4. c \in Bytes
  BY GuardAssumption
<1> DEFINE n == Len(bytes)
           r == ReadByte(parserAt[n + 1], c)
<1>5. parserAt[n + 1] \in ParserStates
  BY <1>3
<1>6. r \in ParserStates
  BY <1>4, <1>5, ReaderTyped
<1> HIDE DEF r
<1>7. parserAt' = Append(parserAt, r)
  BY <1>1, <1>3 DEF r
<1>8. /\ bytes' \in Seq(Bytes) /\ Len(bytes') = n + 1
      /\ parserAt' \in Seq(ParserStates) /\ Len(parserAt') = n + 2
      /\ \A i \in 1..n : bytes'[i] = bytes[i]
      /\ \A i \in 1..(n + 1) : parserAt'[i] = parserAt[i]
      /\ bytes'[n + 1] = c /\ parserAt'[n + 2] = r
  BY <1>1, <1>3, <1>4, <1>6, <1>7
<1>9. quote = "" /\ depth = 0 /\ outcome = "none"
  BY <1>2 DEF GuardTyped
<1> HIDE DEF n
<1>10. n \in Nat /\ n < MaxLength
  BY <1>2, <1>3 DEF n
<1>11. GuardTyped'
  <2>1. Len(bytes') <= MaxLength /\ Len(parserAt') = Len(bytes') + 1 /\ 0 <= Len(bytes') + 1
    BY <1>8, <1>10, GuardAssumption
  <2>2. 0 <= MaxDepth + 1 /\ ~(0 > MaxDepth)
    BY GuardAssumption
  <2>3. at' = 0 /\ quote' = "" /\ depth' = 0 /\ outcome' = "none"
    BY <1>2, <1>9
  <2> QED BY <1>8, <2>1, <2>2, <2>3 DEF GuardTyped, ScanQuotes
<1>12. ParserReads'
  <2>1. parserAt'[1] = InCode
    BY <1>2, <1>8, <1>10 DEF ParserReads
  <2>2. ASSUME NEW i \in 1..(n + 1) PROVE parserAt'[i + 1] = ReadByte(parserAt'[i], bytes'[i])
    <3>1. CASE i = n + 1
      BY <1>8, <1>10, <3>1 DEF r
    <3>2. CASE i # n + 1
      <4>1. i \in 1..n /\ i + 1 \in 1..(n + 1) /\ i \in 1..(n + 1)
        BY <1>10, <3>2
      <4>2. parserAt[i + 1] = ReadByte(parserAt[i], bytes[i])
        BY <1>2, <4>1 DEF ParserReads, n
      <4> QED BY <1>8, <4>1, <4>2
    <3> QED BY <3>1, <3>2
  <2> QED BY <1>8, <2>1, <2>2 DEF ParserReads
<1>a. at' = 0 /\ outcome' = "none"
  BY <1>2, <1>9
<1>13. ~(at' >= 1) /\ outcome' # "ok"
  BY <1>a
<1> QED BY <1>11, <1>12, <1>13 DEF GuardInv, Counted, CountedOnly

LEMMA CallSteps == ASSUME GuardInv, Call PROVE GuardInv'
<1>1. /\ at = 0 /\ at' = 1 /\ UNCHANGED <<bytes, parserAt, quote, depth, outcome>>
      /\ GuardTyped /\ ParserReads
  BY DEF Call, GuardInv
<1>2. quote = "" /\ depth = 0 /\ outcome = "none"
  BY <1>1 DEF GuardTyped
<1>3. LeftOpen(1, 0) = 0
  BY LeftOpenNone
<1>4. Aligned(1, "")
  BY <1>1 DEF Aligned, ModeAt, ParserReads, InCode
<1>5. AtMost(1, 0) /\ AtLeast(1, 0) /\ Within(1)
  BY <1>3 DEF AtMost, AtLeast, Within
<1>6. GuardTyped' /\ ParserReads'
  <2>1. Len(bytes) \in Nat /\ 1 <= Len(bytes) + 1
    BY <1>1, Lengths
  <2>2. ParserReads'
    BY <1>1, Frozen
  <2> QED BY <1>1, <1>2, <2>1, <2>2 DEF GuardTyped
<1>7. Aligned(1, "")' /\ AtMost(1, 0)' /\ AtLeast(1, 0)' /\ Within(1)'
  BY <1>1, <1>4, <1>5, Frozen, FrozenCounts
<1>8. Counted'
  BY <1>1, <1>2, <1>7 DEF Counted
<1>9. CountedOnly'
  BY <1>1, <1>2, <1>7 DEF CountedOnly
<1> QED BY <1>1, <1>2, <1>6, <1>8, <1>9 DEF GuardInv

(* A step of the scan to byte b, where the counts and the parser agree. *)
LEMMA Advances ==
    ASSUME GuardTyped, ParserReads, bytes' = bytes, parserAt' = parserAt,
           NEW b \in Nat, b >= 1, b <= Len(bytes) + 1, at' = b,
           NEW q \in ScanQuotes, quote' = q, NEW o \in {"none", "over"}, outcome' = o,
           NEW d \in Nat, depth' = d, d <= MaxDepth + 1, d > MaxDepth <=> o = "over",
           ClearComments => Aligned(b, q) /\ AtMost(b, d) /\ (o # "over" => Within(b)),
           Comments = {} => AtLeast(b, d)
    PROVE  GuardInv'
<1>1. GuardTyped'
  <2>1. at' \in Nat /\ at' <= Len(bytes') + 1 /\ at' # 0
    OBVIOUS
  <2> QED BY <2>1 DEF GuardTyped
<1>2. ParserReads' /\ ClearComments' = ClearComments /\ Comments' = Comments
  BY Frozen
<1>3. Aligned(b, q)' = Aligned(b, q) /\ AtMost(b, d)' = AtMost(b, d)
      /\ AtLeast(b, d)' = AtLeast(b, d) /\ Within(b)' = Within(b)
  BY Frozen, FrozenCounts
<1>4. /\ Aligned(at, quote)' = Aligned(b, q)' /\ AtMost(at, depth)' = AtMost(b, d)'
      /\ AtLeast(at, depth)' = AtLeast(b, d)' /\ Within(at)' = Within(b)'
  OBVIOUS
<1>5. ClearComments' => Aligned(at, quote)' /\ AtMost(at, depth)' /\ (outcome' # "over" => Within(at)')
  BY <1>2, <1>3, <1>4
<1>6. Comments' = {} => AtLeast(at, depth)'
  BY <1>2, <1>3, <1>4
<1>7. outcome' # "ok"
  OBVIOUS
<1> QED BY <1>1, <1>2, <1>5, <1>6, <1>7 DEF GuardInv, Counted, CountedOnly

(* The state in which the scan looks at a byte. *)
LEMMA AtScan ==
    ASSUME GuardInv, Scanning
    PROVE  /\ GuardTyped /\ ParserReads /\ at \in 1..Len(bytes) /\ at \in Nat /\ at >= 1 /\ Len(bytes) \in Nat
           /\ outcome = "none" /\ depth \in Nat /\ depth <= MaxDepth /\ Bracket(at) \in {-1, 0, 1}
           /\ ClearComments => Aligned(at, quote) /\ AtMost(at, depth) /\ Within(at)
           /\ Comments = {} => ClearComments /\ AtLeast(at, depth)
<1>1. GuardTyped /\ ParserReads /\ at \in DOMAIN bytes /\ outcome = "none" /\ Counted /\ CountedOnly
  BY DEF GuardInv, Scanning
<1>2. DOMAIN bytes = 1..Len(bytes) /\ Len(bytes) \in Nat /\ depth \in Nat
  BY <1>1, Lengths
<1>3. at \in 1..Len(bytes) /\ at \in Nat /\ at >= 1
  BY <1>1, <1>2
<1>4. ~(depth > MaxDepth)
  BY <1>1 DEF GuardTyped
<1>5. depth <= MaxDepth
  BY <1>2, <1>4, GuardAssumption
<1>6. ClearComments => Aligned(at, quote) /\ AtMost(at, depth) /\ Within(at)
  BY <1>1, <1>3 DEF Counted
<1>7. Comments = {} => ClearComments /\ AtLeast(at, depth)
  BY <1>1, <1>3 DEF CountedOnly, ClearComments
<1> QED BY <1>1, <1>2, <1>3, <1>5, <1>6, <1>7, BracketInt

(* One byte is passed, the brackets counted as the parser counts them. *)
LEMMA OneByte ==
    ASSUME GuardInv, Scanning, bytes' = bytes, parserAt' = parserAt, at' = at + 1,
           NEW q \in ScanQuotes, quote' = q, NEW o \in {"none", "over"}, outcome' = o,
           NEW d \in Nat, depth' = d, d <= MaxDepth + 1, d > MaxDepth <=> o = "over",
           ClearComments => Aligned(at + 1, q) /\ depth + Bracket(at) <= d,
           Comments = {} => d = 0 \/ d <= depth + Bracket(at)
    PROVE  GuardInv'
<1>1. /\ GuardTyped /\ ParserReads /\ at \in Nat /\ at >= 1 /\ depth \in Nat /\ Len(bytes) \in Nat
      /\ at + 1 \in Nat /\ at + 1 >= 1 /\ at + 1 <= Len(bytes) + 1
  BY AtScan
<1>2. o # "over" => d <= MaxDepth
  BY GuardAssumption
<1>3. ASSUME ClearComments PROVE Aligned(at + 1, q) /\ AtMost(at + 1, d) /\ (o # "over" => Within(at + 1))
  <2>1. AtMost(at, depth) /\ Within(at)
    BY <1>3, AtScan
  <2> QED BY <1>1, <1>2, <1>3, <2>1, PassAtMost
<1>4. ASSUME Comments = {} PROVE AtLeast(at + 1, d)
  <2>1. AtLeast(at, depth)
    BY <1>4, AtScan
  <2> QED BY <1>1, <1>4, <2>1, PassAtLeast
<1> QED BY <1>1, <1>3, <1>4, Advances

LEMMA OpenQuoteSteps == ASSUME GuardInv, OpenQuote PROVE GuardInv'
<1>1. /\ Scanning /\ bytes[at] \in Quotes /\ bytes' = bytes /\ parserAt' = parserAt /\ at' = at + 1
      /\ quote' = bytes[at] /\ depth' = depth /\ outcome' = outcome
  BY DEF OpenQuote
<1>a. quote = ""
  BY DEF OpenQuote
<1>2. /\ GuardTyped /\ ParserReads /\ at \in 1..Len(bytes) /\ depth \in Nat /\ depth <= MaxDepth
      /\ Comments = {} => ClearComments
  BY <1>1, AtScan
<1>3. outcome = "none" /\ (ClearComments => Aligned(at, ""))
  BY <1>1, <1>a, AtScan
<1>4. ASSUME ClearComments PROVE Aligned(at + 1, bytes[at]) /\ Bracket(at) = 0
  BY <1>1, <1>2, <1>3, <1>4, OutsideLiteral
<1>5. bytes[at] \in ScanQuotes
  BY <1>1 DEF ScanQuotes
<1> DEFINE q == bytes[at]
<1> HIDE DEF q
<1>6. /\ q \in ScanQuotes /\ quote' = q /\ outcome' = "none"
      /\ ClearComments => Aligned(at + 1, q) /\ Bracket(at) = 0
  BY <1>1, <1>3, <1>4, <1>5 DEF q
<1>7. depth <= MaxDepth + 1 /\ ~(depth > MaxDepth)
  BY <1>2, GuardAssumption
<1>8. ClearComments => depth + Bracket(at) <= depth /\ depth <= depth + Bracket(at)
  BY <1>2, <1>6
<1> QED BY <1>1, <1>2, <1>6, <1>7, <1>8, OneByte

LEMMA EnterBracketSteps == ASSUME GuardInv, EnterBracket PROVE GuardInv'
<1> DEFINE o == IF Over THEN "over" ELSE "none"
           d == depth + 1
<1>1. /\ Scanning /\ bytes[at] = "(" /\ bytes' = bytes /\ parserAt' = parserAt /\ at' = at + 1
      /\ quote' = quote /\ depth' = d /\ outcome' = o
  BY DEF EnterBracket
<1>a. quote = "" /\ quote \in ScanQuotes
  BY DEF EnterBracket, ScanQuotes
<1>2. /\ GuardTyped /\ ParserReads /\ at \in 1..Len(bytes) /\ depth \in Nat /\ depth <= MaxDepth
      /\ Comments = {} => ClearComments
  BY <1>1, AtScan
<1>3. ClearComments => Aligned(at, "")
  BY <1>1, <1>a, AtScan
<1>4. ASSUME ClearComments
      PROVE  Aligned(at + 1, quote) /\ Bracket(at) \in {0, 1} /\ (Comments = {} => Bracket(at) = 1)
  <2>1. bytes[at] \notin Quotes
    BY <1>1 DEF Quotes
  <2> QED BY <1>1, <1>2, <1>3, <1>4, <1>a, <2>1, OutsideLiteral
<1>5. o \in {"none", "over"} /\ (d > MaxDepth <=> o = "over") /\ d \in Nat /\ d <= MaxDepth + 1
  BY <1>2, GuardAssumption DEF Over
<1>6. /\ ClearComments => depth + Bracket(at) <= d
      /\ Comments = {} => d <= depth + Bracket(at)
  BY <1>2, <1>4
<1>7. quote \in ScanQuotes
  BY <1>a
<1> HIDE DEF o, d
<1> QED BY <1>1, <1>4, <1>5, <1>6, <1>7, OneByte

LEMMA LeaveBracketSteps == ASSUME GuardInv, LeaveBracket PROVE GuardInv'
<1> DEFINE d == IF depth > 0 THEN depth - 1 ELSE 0
<1>1. /\ Scanning /\ bytes[at] = ")" /\ bytes' = bytes /\ parserAt' = parserAt /\ at' = at + 1
      /\ quote' = quote /\ depth' = d /\ outcome' = outcome
  BY DEF LeaveBracket
<1>a. quote = "" /\ quote \in ScanQuotes
  BY DEF LeaveBracket, ScanQuotes
<1>2. /\ GuardTyped /\ ParserReads /\ at \in 1..Len(bytes) /\ depth \in Nat /\ depth <= MaxDepth
      /\ Comments = {} => ClearComments
  BY <1>1, AtScan
<1>3. ClearComments => Aligned(at, "")
  BY <1>1, <1>a, AtScan
<1>4. ASSUME ClearComments PROVE Aligned(at + 1, quote) /\ Bracket(at) = -1
  <2>1. bytes[at] \notin Quotes
    BY <1>1 DEF Quotes
  <2> QED BY <1>1, <1>2, <1>3, <1>4, <1>a, <2>1, OutsideLiteral
<1>5. ~(d > MaxDepth) /\ d \in Nat /\ d <= MaxDepth + 1
  BY <1>2, GuardAssumption
<1>6. /\ ClearComments => depth + Bracket(at) <= d
      /\ Comments = {} => d = 0 \/ d <= depth + Bracket(at)
  BY <1>2, <1>4
<1>7. quote \in ScanQuotes /\ outcome' = "none"
  BY <1>1, <1>a, AtScan
<1> HIDE DEF d
<1> QED BY <1>1, <1>4, <1>5, <1>6, <1>7, OneByte

LEMMA OtherByteSteps == ASSUME GuardInv, OtherByte PROVE GuardInv'
<1>1. /\ Scanning /\ bytes[at] \notin Quotes \cup {"(", ")"} /\ bytes' = bytes /\ parserAt' = parserAt
      /\ at' = at + 1 /\ quote' = quote /\ depth' = depth /\ outcome' = outcome
  BY DEF OtherByte
<1>a. quote = "" /\ quote \in ScanQuotes
  BY DEF OtherByte, ScanQuotes
<1>2. /\ GuardTyped /\ ParserReads /\ at \in 1..Len(bytes) /\ depth \in Nat /\ depth <= MaxDepth
      /\ Comments = {} => ClearComments
  BY <1>1, AtScan
<1>3. ClearComments => Aligned(at, "")
  BY <1>1, <1>a, AtScan
<1>4. ASSUME ClearComments PROVE Aligned(at + 1, quote) /\ Bracket(at) = 0
  BY <1>1, <1>2, <1>3, <1>4, <1>a, OutsideLiteral
<1>5. ~(depth > MaxDepth) /\ depth <= MaxDepth + 1
  BY <1>2, GuardAssumption
<1>6. ClearComments => depth + Bracket(at) <= depth /\ depth <= depth + Bracket(at)
  BY <1>2, <1>4
<1>7. quote \in ScanQuotes /\ outcome' = "none"
  BY <1>1, <1>a, AtScan
<1> QED BY <1>1, <1>2, <1>4, <1>5, <1>6, <1>7, OneByte

LEMMA InLiteralSteps == ASSUME GuardInv, InLiteral PROVE GuardInv'
<1>1. /\ Scanning /\ bytes' = bytes /\ parserAt' = parserAt /\ depth' = depth /\ outcome' = outcome
      /\ at' = (IF Escaped THEN at + 2 ELSE at + 1)
  BY DEF InLiteral
<1>a. quote # "" /\ quote' = (IF ~Escaped /\ bytes[at] = quote THEN "" ELSE quote)
  BY DEF InLiteral
<1>2. /\ GuardTyped /\ ParserReads /\ at \in 1..Len(bytes) /\ at \in Nat /\ at >= 1 /\ Len(bytes) \in Nat
      /\ depth \in Nat /\ depth <= MaxDepth /\ outcome = "none"
      /\ ClearComments => Aligned(at, quote) /\ AtMost(at, depth) /\ Within(at)
      /\ Comments = {} => ClearComments /\ AtLeast(at, depth)
  BY <1>1, AtScan
<1>3. quote \in ScanQuotes /\ quote' \in ScanQuotes
  BY <1>2, <1>a DEF GuardTyped, ScanQuotes
<1>4. quote \in Quotes
  BY <1>3, <1>a DEF ScanQuotes
<1>5. ASSUME ClearComments
      PROVE  /\ Bracket(at) = 0
             /\ ~Escaped => Aligned(at + 1, IF bytes[at] = quote THEN "" ELSE quote)
             /\ Escaped => at + 1 <= Len(bytes) /\ Bracket(at + 1) = 0 /\ Aligned(at + 2, quote)
  BY <1>2, <1>4, <1>5, InsideLiteral
<1>6. depth <= MaxDepth + 1 /\ ~(depth > MaxDepth)
  BY <1>2, GuardAssumption
<1>7. CASE ~Escaped
  <2> DEFINE q == IF bytes[at] = quote THEN "" ELSE quote
  <2>1. quote' = q /\ at' = at + 1
    BY <1>1, <1>7, <1>a
  <2>2. q \in ScanQuotes
    BY <1>3, <2>1
  <2>3. ClearComments => Aligned(at + 1, q)
    BY <1>5, <1>7
  <2>a. ClearComments => Bracket(at) = 0
    BY <1>5
  <2>4. ClearComments => depth + Bracket(at) <= depth /\ depth <= depth + Bracket(at)
    BY <1>2, <2>a
  <2>5. outcome' = "none"
    BY <1>1, <1>2
  <2> HIDE DEF q
  <2> QED BY <1>1, <1>2, <1>6, <2>1, <2>2, <2>3, <2>4, <2>5, OneByte
<1>8. CASE Escaped
  <2>1. quote' = quote /\ at' = at + 2 /\ outcome' = "none"
    BY <1>1, <1>2, <1>8, <1>a
  <2>2. at + 1 <= Len(bytes)
    <3>1. at < Len(bytes)
      BY <1>2, <1>8 DEF Escaped, Follows
    <3> QED BY <1>2, <3>1
  <2>3. at + 1 \in Nat /\ at + 1 >= 1 /\ (at + 1) + 1 = at + 2 /\ at + 2 \in Nat /\ at + 2 >= 1
        /\ at + 2 <= Len(bytes) + 1
    BY <1>2, <2>2
  <2>a. ClearComments => Bracket(at) = 0 /\ Bracket(at + 1) = 0
    BY <1>5, <1>8
  <2>4. ClearComments => depth + Bracket(at) <= depth /\ depth + Bracket(at + 1) <= depth
                         /\ depth <= depth + Bracket(at) /\ depth <= depth + Bracket(at + 1)
    BY <1>2, <2>a
  <2>5. ASSUME ClearComments PROVE Aligned(at + 2, quote) /\ AtMost(at + 2, depth) /\ Within(at + 2)
    <3>1. AtMost(at + 1, depth) /\ Within(at + 1)
      BY <1>2, <2>4, <2>5, PassAtMost
    <3>2. AtMost((at + 1) + 1, depth) /\ Within((at + 1) + 1)
      BY <1>2, <2>3, <2>4, <2>5, <3>1, PassAtMost
    <3> QED BY <1>5, <1>8, <2>3, <2>5, <3>2
  <2>6. ASSUME Comments = {} PROVE AtLeast(at + 2, depth)
    <3>1. AtLeast(at + 1, depth)
      BY <1>2, <2>4, <2>6, PassAtLeast
    <3>2. AtLeast((at + 1) + 1, depth)
      BY <1>2, <2>3, <2>4, <2>6, <3>1, PassAtLeast
    <3> QED BY <2>3, <3>2
  <2> QED BY <1>1, <1>2, <1>3, <1>6, <2>1, <2>3, <2>5, <2>6, Advances
<1> QED BY <1>7, <1>8

LEMMA EndOfTextSteps == ASSUME GuardInv, EndOfText PROVE GuardInv'
<1>1. /\ at > Len(bytes) /\ outcome = "none" /\ outcome' = "ok"
      /\ bytes' = bytes /\ parserAt' = parserAt /\ at' = at /\ depth' = depth
  BY DEF EndOfText
<1>a. quote' = quote
  BY DEF EndOfText
<1>2. GuardTyped /\ ParserReads /\ Counted /\ CountedOnly
  BY DEF GuardInv
<1>3. at \in Nat /\ Len(bytes) \in Nat /\ at <= Len(bytes) + 1
  BY <1>2, Lengths
<1>4. at >= 1 /\ at # 0 /\ at = Len(bytes) + 1
  BY <1>1, <1>3
<1>5. ~(depth > MaxDepth)
  BY <1>1, <1>2 DEF GuardTyped
<1>6. GuardTyped'
  BY <1>1, <1>2, <1>4, <1>5, <1>a DEF GuardTyped
<1>7. ParserReads'
  BY <1>1, <1>2, Frozen
<1>8. Counted'
  <2>1. ClearComments => Aligned(at, quote) /\ AtMost(at, depth) /\ Within(at)
    BY <1>1, <1>2, <1>4 DEF Counted
  <2>2. ClearComments' = ClearComments /\ Aligned(at, quote)' = Aligned(at, quote)
        /\ AtMost(at, depth)' = AtMost(at, depth) /\ Within(at)' = Within(at)
    BY <1>1, <1>a DEF ClearComments, Comments, Aligned, AtMost, Within, LeftOpen, Structural, ModeAt
  <2> QED BY <2>1, <2>2 DEF Counted
<1>9. CountedOnly'
  <2>1. Comments = {} => AtLeast(at, depth)
    BY <1>2, <1>4 DEF CountedOnly
  <2>2. Comments' = Comments /\ AtLeast(at, depth)' = AtLeast(at, depth)
    BY <1>1 DEF Comments, AtLeast, LeftOpen, Structural, ModeAt
  <2> QED BY <2>1, <2>2 DEF CountedOnly
<1>10. at' = Len(bytes') + 1
  BY <1>1, <1>4
<1> QED BY <1>6, <1>7, <1>8, <1>9, <1>10 DEF GuardInv

LEMMA GuardSteps == ASSUME GuardInv, [GuardNext]_nvars PROVE GuardInv'
<1>1. CASE UNCHANGED nvars
  BY <1>1 DEF nvars, GuardInv, GuardTyped, ParserReads, Counted, CountedOnly, ClearComments, Comments,
              Aligned, AtMost, AtLeast, Within, LeftOpen, Structural, ModeAt
<1> QED BY <1>1, WriteByteSteps, CallSteps, OpenQuoteSteps, InLiteralSteps, EnterBracketSteps,
           LeaveBracketSteps, OtherByteSteps, EndOfTextSteps DEF GuardNext, ScanByte

LEMMA GuardInvExact == GuardInv => GuardExact
<1> SUFFICES ASSUME GuardInv PROVE GuardExact
  OBVIOUS
<1>1. /\ GuardTyped /\ Counted /\ CountedOnly /\ (outcome = "ok" => at = Len(bytes) + 1)
  BY DEF GuardInv
<1>2. /\ at \in Nat /\ Len(bytes) \in Nat /\ at <= Len(bytes) + 1 /\ DOMAIN bytes = 1..Len(bytes)
      /\ depth \in Nat /\ depth <= MaxDepth + 1
  BY <1>1, Lengths
<1>3. GuardTypeOK
  <2>1. Len(bytes) <= MaxLength /\ quote \in Quotes \cup {""} /\ outcome \in {"none", "over", "ok"}
        /\ (depth > MaxDepth <=> outcome = "over")
    BY <1>1 DEF GuardTyped, ScanQuotes
  <2>2. Len(bytes) <= MaxLength
    BY <2>1
  <2>3. at \in 0..(MaxLength + 2) /\ depth \in 0..(MaxDepth + 1)
    BY <1>2, <2>2, GuardAssumption
  <2>4. outcome \in {"none", "over", "ok"} /\ (depth > MaxDepth <=> outcome = "over")
    BY <2>1
  <2>5. (depth > MaxDepth) = (outcome = "over")
    BY <2>4
  <2> QED BY <2>1, <2>3, <2>5 DEF GuardTypeOK
<1>4. DeepStatementsStopped
  <2> SUFFICES ASSUME outcome = "ok", ClearComments, NEW i \in DOMAIN bytes, NEW j \in i..Len(bytes),
                      LeftOpen(i, j) > MaxDepth
               PROVE  FALSE
    BY DEF DeepStatementsStopped, ClearComments, NestsDeeper
  <2>1. at = Len(bytes) + 1 /\ at >= 1 /\ outcome # "over"
    BY <1>1, <1>2
  <2>2. Within(at)
    BY <1>1, <2>1 DEF Counted
  <2>3. j \in 1..(at - 1) /\ i \in 1..j /\ i \in Int /\ j \in Int
    BY <1>2, <2>1
  <2>4. LeftOpen(i, j) <= MaxDepth /\ LeftOpen(i, j) \in Int
    BY <2>2, <2>3, LeftOpenInt DEF Within
  <2> QED BY <2>4, GuardAssumption
<1>5. LiteralsNotCounted
  <2> SUFFICES ASSUME outcome = "over", Comments = {} PROVE NestsDeeper
    BY DEF LiteralsNotCounted
  <2>1. depth > MaxDepth /\ at # 0
    BY <1>1 DEF GuardTyped
  <2>2. at >= 1
    BY <1>2, <2>1
  <2>3. PICK i \in 1..at : LeftOpen(i, at - 1) >= depth
    BY <1>1, <2>2 DEF CountedOnly, AtLeast
  <2>4. i \in Int /\ at - 1 \in Int
    BY <1>2
  <2>5. LeftOpen(i, at - 1) \in Int
    BY <2>4, LeftOpenInt
  <2>6. LeftOpen(i, at - 1) > MaxDepth /\ LeftOpen(i, at - 1) # 0
    BY <1>2, <2>1, <2>3, <2>5, GuardAssumption
  <2>7. ~(at - 1 < i)
    BY <2>4, <2>6, LeftOpenNone
  <2>8. i \in DOMAIN bytes /\ at - 1 \in i..Len(bytes)
    BY <1>2, <2>4, <2>7
  <2> QED BY <2>6, <2>8 DEF NestsDeeper
<1> QED BY <1>3, <1>4, <1>5 DEF GuardExact

(* The guard counts the brackets the parser sees, no fewer and no more, in *)
(* a text of any length and for every limit: no statement nested too       *)
(* deeply passes unless a comment hides it, and no bracket of a literal    *)
(* stops one.                                                              *)
THEOREM GuardCounts == GuardSpec => []GuardExact
<1>1. GuardInit => GuardInv
  BY GuardStarts
<1>2. GuardInv /\ [GuardNext]_nvars => GuardInv'
  BY GuardSteps
<1>3. GuardInv => GuardExact
  BY GuardInvExact
<1> QED BY <1>1, <1>2, <1>3, PTL DEF GuardSpec

---------------------------------------------------------------------------
(* The search for the point where the parser stopped.                      *)

Openers == {"L_PAREN", "L_BRACE"}
Closers == {"R_PAREN", "R_BRACE"}
TokenTypes == Words \cup Openers \cup Closers \cup {"SEMICOLON", "zero"}

LEMMA BracketTypes ==
    /\ DOMAIN closerOf = Openers /\ closerOf["L_PAREN"] = "R_PAREN" /\ closerOf["L_BRACE"] = "R_BRACE"
    /\ \A t : isClosingBracket(t) <=> t \in Closers
    /\ \A t : isBracketToken(t) <=> t \in Openers \cup Closers
    /\ \A t : ~(t \in Openers /\ t \in Closers)
<1>1. DOMAIN closerOf = Openers /\ closerOf["L_PAREN"] = "R_PAREN" /\ closerOf["L_BRACE"] = "R_BRACE"
  BY DEF closerOf, Openers
<1>2. {closerOf[o] : o \in DOMAIN closerOf} = Closers
  BY <1>1 DEF Openers, Closers
<1>3. \A t : isClosingBracket(t) <=> t \in Closers
  BY <1>2 DEF isClosingBracket
<1> QED BY <1>1, <1>3 DEF isBracketToken, Openers, Closers

(* The beginning of a sequence. *)
Begins(c, s) ==
    /\ Len(c) \in Nat /\ Len(c) <= Len(s) /\ DOMAIN c = 1..Len(c)
    /\ \A i \in 1..Len(c) : c[i] = s[i]

LEMMA CutBegins ==
    ASSUME NEW X, NEW s \in Seq(X), NEW n \in 0..Len(s)
    PROVE  SubSeq(s, 1, n) \in Seq(X) /\ Len(SubSeq(s, 1, n)) = n /\ Begins(SubSeq(s, 1, n), s)
<1> DEFINE c == SubSeq(s, 1, n)
<1>1. Len(s) \in Nat /\ n \in Nat /\ n <= Len(s)
  OBVIOUS
<1>2. c = [i \in 1..n |-> s[i]]
  BY <1>1
<1>3. \A i \in 1..n : s[i] \in X
  BY <1>1
<1>4. c \in Seq(X) /\ Len(c) = n /\ DOMAIN c = 1..n /\ \A i \in 1..n : c[i] = s[i]
  BY <1>1, <1>2, <1>3
<1> HIDE DEF c
<1> QED BY <1>1, <1>4 DEF Begins, c

LEMMA BeginsTrans ==
    ASSUME NEW s, NEW c, NEW d, Len(s) \in Nat, Begins(c, s), Begins(d, c)
    PROVE  Begins(d, s)
<1>1. \A i \in 1..Len(d) : i \in 1..Len(c)
  BY DEF Begins
<1> QED BY <1>1 DEF Begins

(* The last element of a set of positions. *)
LEMMA LastOf ==
    ASSUME NEW S, NEW n \in Nat, S \subseteq 1..n, S # {}
    PROVE  LET m == CHOOSE i \in S : \A j \in S : j <= i
           IN  m \in S /\ \A j \in S : j <= m
<1>1. S \subseteq Nat /\ \A j \in S : j <= n
  OBVIOUS
<1>2. \E i \in S : \A j \in S : j <= i
  BY <1>1, Greatest
<1> QED BY <1>2

LEMMA CheckedBegins ==
    ASSUME NEW X, NEW s \in Seq(X), NEW f
    PROVE  Checked(s, f) \in Seq(X) /\ Begins(Checked(s, f), s)
<1> DEFINE formats == {i \in DOMAIN s : s[i] = "FORMAT" /\ i < Len(s)}
           k == CHOOSE i \in formats : \A j \in formats : j <= i
           cut == IF f /\ formats # {} THEN SubSeq(s, 1, k + 1) ELSE s
           end == {i \in DOMAIN cut : cut[i] # "SEMICOLON"}
           m == IF end = {} THEN 0 ELSE CHOOSE i \in end : \A j \in end : j <= i
<1>1. Len(s) \in Nat /\ DOMAIN s = 1..Len(s)
  OBVIOUS
<1>2. cut \in Seq(X) /\ Begins(cut, s)
  <2>1. CASE f /\ formats # {}
    <3>1. formats \subseteq 1..Len(s) /\ \A i \in formats : i < Len(s)
      BY <1>1
    <3>a. cut = SubSeq(s, 1, k + 1)
      BY <2>1
    <3> HIDE DEF formats, cut
    <3>2. k \in formats
      BY <1>1, <2>1, <3>1, LastOf
    <3> HIDE DEF k
    <3>b. k \in 1..Len(s) /\ k < Len(s)
      BY <3>1, <3>2
    <3>3. k + 1 \in 0..Len(s)
      BY <1>1, <3>b
    <3>4. SubSeq(s, 1, k + 1) \in Seq(X) /\ Begins(SubSeq(s, 1, k + 1), s)
      BY <3>3, CutBegins
    <3> QED BY <3>a, <3>4
  <2>2. CASE ~(f /\ formats # {})
    <3>1. cut = s
      BY <2>2
    <3>2. Begins(s, s)
      BY <1>1 DEF Begins
    <3> HIDE DEF cut
    <3> QED BY <3>1, <3>2
  <2> QED BY <2>1, <2>2
<1>3. Checked(s, f) = SubSeq(cut, 1, m)
  BY DEF Checked
<1> HIDE DEF cut
<1>4. m \in 0..Len(cut)
  <2>1. Len(cut) \in Nat /\ end \subseteq 1..Len(cut)
    BY <1>2
  <2> HIDE DEF end
  <2>2. CASE end = {}
    BY <2>1, <2>2
  <2>3. CASE end # {}
    <3>1. m \in end
      BY <2>1, <2>3, LastOf
    <3> HIDE DEF m
    <3> QED BY <2>1, <3>1
  <2> QED BY <2>2, <2>3
<1> HIDE DEF m
<1>5. SubSeq(cut, 1, m) \in Seq(X) /\ Begins(SubSeq(cut, 1, m), cut)
  BY <1>2, <1>4, CutBegins
<1> QED BY <1>1, <1>2, <1>3, <1>5, BeginsTrans

LEMMA LastTokenIs ==
    ASSUME NEW X, NEW s \in Seq(X)
    PROVE  /\ LastToken(s) \in 0..Len(s)
           /\ LastToken(s) # 0 => ~isBracketToken(s[LastToken(s)]) /\ s[LastToken(s)] # "zero"
           /\ \A i \in 1..Len(s) : i <= LastToken(s) \/ isBracketToken(s[i]) \/ s[i] = "zero"
<1> DEFINE ends == {i \in DOMAIN s : ~isBracketToken(s[i]) /\ s[i] # "zero"}
           m == IF ends = {} THEN 0 ELSE CHOOSE i \in ends : \A j \in ends : j <= i
<1>1. Len(s) \in Nat /\ ends \subseteq 1..Len(s)
      /\ \A i \in 1..Len(s) : i \in ends <=> ~isBracketToken(s[i]) /\ s[i] # "zero"
  OBVIOUS
<1>2. LastToken(s) = m
  BY DEF LastToken
<1> HIDE DEF ends
<1>3. (m = 0 /\ ends = {}) \/ (m \in ends /\ \A j \in ends : j <= m)
  BY <1>1, LastOf
<1> HIDE DEF m
<1>4. m \in 0..Len(s) /\ (m # 0 => m \in ends /\ m \in 1..Len(s))
  <2>1. CASE m = 0
    BY <1>1, <2>1
  <2>2. CASE m \in ends
    <3>1. m \in 1..Len(s)
      BY <1>1, <2>2
    <3> QED BY <1>1, <2>2, <3>1
  <2> QED BY <1>3, <2>1, <2>2
<1>5. m # 0 => ~isBracketToken(s[m]) /\ s[m] # "zero"
  BY <1>1, <1>4
<1>6. ASSUME NEW i \in 1..Len(s) PROVE i <= m \/ isBracketToken(s[i]) \/ s[i] = "zero"
  <2>1. CASE i \in ends
    BY <1>3, <2>1
  <2>2. CASE i \notin ends
    BY <1>1, <2>2
  <2> QED BY <2>1, <2>2
<1> QED BY <1>2, <1>4, <1>5, <1>6

(* From token n on the parser has read nothing but closing brackets. *)
OnlyClosers(n) == \A j \in n..(stop - 1) : isClosingBracket(stmt[j])

(* What a statement cut before token n parses to tells where the parser    *)
(* stopped.                                                                *)
LEMMA SameMeans ==
    ASSUME NEW X, stmt \in Seq(X), stop \in Nat, stop <= Len(stmt) + 1, NEW n \in 1..(Len(stmt) + 1)
    PROVE  sameAST(n) <=> OnlyClosers(n)
<1> DEFINE L == Len(stmt)
           R(k) == {i \in 1..(k - 1) : i < stop}
           P(k) == {i \in R(k) : \E j \in R(k) : i <= j /\ ~isClosingBracket(stmt[j])}
<1>1. L \in Nat /\ stop \in Nat /\ stop <= L + 1 /\ n \in 1..(L + 1)
  OBVIOUS
<1>2. \A k : Parsed(stmt, k) = SubSeq(stmt, 1, Cardinality(P(k)))
  BY DEF Parsed
<1>3. sameAST(n) <=> Parsed(stmt, n) = Parsed(stmt, L + 1)
  BY DEF sameAST
<1> HIDE DEF L
<1>4. /\ \A i : i \in R(n) <=> i \in 1..L /\ i < n /\ i < stop
      /\ \A i : i \in R(L + 1) <=> i \in 1..L /\ i < stop
  BY <1>1
<1>5. /\ \A i : i \in P(n) <=> i \in R(n) /\ \E j \in R(n) : i <= j /\ ~isClosingBracket(stmt[j])
      /\ \A i : i \in P(L + 1) <=> i \in R(L + 1) /\ \E j \in R(L + 1) : i <= j /\ ~isClosingBracket(stmt[j])
  OBVIOUS
<1> DEFINE A == P(n)
           B == P(L + 1)
<1> HIDE DEF R
<1>6. A \subseteq B /\ B \subseteq 1..L
  BY <1>4, <1>5
<1>7. ASSUME OnlyClosers(n) PROVE A = B
  <2> SUFFICES ASSUME NEW i \in B PROVE i \in A
    BY <1>6
  <2>1. PICK j \in R(L + 1) : i <= j /\ ~isClosingBracket(stmt[j])
    BY <1>5
  <2>2. i \in 1..L /\ i < stop /\ j \in 1..L /\ j < stop
    BY <1>4, <1>5, <2>1
  <2>3. j \notin n..(stop - 1)
    BY <1>7, <2>1 DEF OnlyClosers
  <2>4. j < n /\ i < n
    BY <1>1, <2>1, <2>2, <2>3
  <2> QED BY <1>4, <1>5, <2>1, <2>2, <2>4
<1>8. ASSUME ~OnlyClosers(n) PROVE A # B
  <2>1. PICK j \in n..(stop - 1) : ~isClosingBracket(stmt[j])
    BY <1>8 DEF OnlyClosers
  <2>2. j \in 1..L /\ j < stop /\ ~(j < n) /\ j <= j
    BY <1>1
  <2>3. j \in R(L + 1) /\ j \notin R(n)
    BY <1>4, <2>2
  <2>4. j \in B /\ j \notin A
    BY <1>5, <2>1, <2>2, <2>3
  <2> QED BY <2>4
<1> HIDE DEF P
<1>9. Parsed(stmt, n) = SubSeq(stmt, 1, Cardinality(A)) /\ Parsed(stmt, L + 1) = SubSeq(stmt, 1, Cardinality(B))
  BY <1>2
<1> HIDE DEF A, B
<1>10. /\ IsFiniteSet(A) /\ IsFiniteSet(B) /\ Cardinality(A) \in 0..L /\ Cardinality(B) \in 0..L
       /\ (Cardinality(A) = Cardinality(B) => A = B)
  <2>1. IsFiniteSet(1..L) /\ Cardinality(1..L) = L
    BY <1>1, CountUpTo
  <2>2. IsFiniteSet(B) /\ Cardinality(B) <= L
    BY <1>6, <2>1, FS_Subset
  <2>3. IsFiniteSet(A) /\ Cardinality(A) <= Cardinality(B) /\ (Cardinality(B) = Cardinality(A) => B = A)
    BY <1>6, <2>2, FS_Subset
  <2>4. Cardinality(A) \in Nat /\ Cardinality(B) \in Nat
    BY <2>2, <2>3, FS_CardinalityType
  <2> QED BY <1>1, <2>2, <2>3, <2>4
<1>11. Len(SubSeq(stmt, 1, Cardinality(A))) = Cardinality(A) /\ Len(SubSeq(stmt, 1, Cardinality(B))) = Cardinality(B)
  BY <1>10, CutBegins DEF L
<1>12. sameAST(n) <=> A = B
  BY <1>3, <1>9, <1>10, <1>11
<1> QED BY <1>7, <1>8, <1>12

(* A cut that parses alike loses closing brackets only; one that does not  *)
(* is before the parser's stop.                                            *)
LEMMA AlikeMeans ==
    ASSUME NEW X, stmt \in Seq(X), stop \in Nat, stop <= Len(stmt) + 1, NEW n \in 1..(Len(stmt) + 1), NEW fails
    PROVE  /\ parsesAlike(n, fails) => OnlyClosers(n)
           /\ ~parsesAlike(n, fails) => n < stop
<1>1. sameAST(n) <=> OnlyClosers(n)
  BY SameMeans
<1>2. n >= stop => OnlyClosers(n)
  BY DEF OnlyClosers
<1> QED BY <1>1, <1>2 DEF parsesAlike

(* The positions at which tokens of D stand. *)
Spots(s, D) == {k \in Int : s[k] \in D}

Count(S, i, j) == Cardinality(S \cap i..j)
Follow(j, k) == k = j + 1

LEMMA CountSplit ==
    ASSUME NEW S, NEW i \in Int, NEW j \in Int, NEW k \in Int, NEW m \in Int, Follow(j, k), i <= k, j <= m
    PROVE  Count(S, i, m) = Count(S, i, j) + Count(S, k, m)
<1> DEFINE A == S \cap i..j
           B == S \cap k..m
<1>1. S \cap i..m = A \cup B /\ A \cap B = {}
  BY DEF Follow
<1>3. IsFiniteSet(A) /\ Cardinality(A) \in Nat /\ IsFiniteSet(B) /\ Cardinality(B) \in Nat
  BY CountNat
<1> HIDE DEF A, B
<1>4. Cardinality(A \cup B) = Cardinality(A) + Cardinality(B) - Cardinality(A \cap B)
  BY <1>3, FS_Union
<1>a. Cardinality(A \cap B) = 0
  BY <1>1, FS_EmptySet, Zenon
<1>5. Cardinality(A \cup B) = Cardinality(A) + Cardinality(B)
  BY <1>3, <1>4, <1>a
<1>6. Cardinality(S \cap i..m) = Cardinality(A \cup B)
  BY <1>1, Zenon
<1>7. Cardinality(S \cap i..m) = Cardinality(A) + Cardinality(B)
  BY <1>5, <1>6, Zenon
<1> QED BY <1>7 DEF A, B, Count

LEMMA NetCounts ==
    ASSUME NEW s, NEW i \in Int, NEW j \in Int
    PROVE  /\ Net(s, i, j) = Cardinality(Spots(s, Openers) \cap i..j) - Cardinality(Spots(s, Closers) \cap i..j)
           /\ Net(s, i, j) \in Int
<1> DEFINE O == Spots(s, Openers) \cap i..j
           C == Spots(s, Closers) \cap i..j
<1>1. O = {k \in i..j : s[k] \in DOMAIN closerOf} /\ C = {k \in i..j : isClosingBracket(s[k])}
  BY BracketTypes DEF Spots
<1>2. Net(s, i, j) = Cardinality(O) - Cardinality(C)
  BY <1>1 DEF Net
<1>3. Cardinality(O) \in Nat /\ Cardinality(C) \in Nat
  BY CountNat
<1> HIDE DEF O, C
<1>4. Net(s, i, j) = Cardinality(O) - Cardinality(C) /\ Net(s, i, j) \in Int
  BY <1>2, <1>3
<1> QED BY <1>4 DEF O, C

LEMMA NetSplit ==
    ASSUME NEW s, NEW i \in Int, NEW j \in Int, NEW k \in Int, NEW m \in Int, Follow(j, k), i <= k, j <= m
    PROVE  Net(s, i, m) = Net(s, i, j) + Net(s, k, m)
<1> DEFINE O == Spots(s, Openers)
           C == Spots(s, Closers)
<1>1. ASSUME NEW a \in Int, NEW b \in Int
      PROVE  Net(s, a, b) = Count(O, a, b) - Count(C, a, b) /\ Count(O, a, b) \in Int /\ Count(C, a, b) \in Int
  <2>1. Net(s, a, b) = Count(O, a, b) - Count(C, a, b)
    BY NetCounts DEF Count
  <2>2. Count(O, a, b) \in Nat /\ Count(C, a, b) \in Nat
    BY CountNat DEF Count
  <2> QED BY <2>1, <2>2
<1> HIDE DEF O, C
<1>2. Count(O, i, m) = Count(O, i, j) + Count(O, k, m)
  BY CountSplit
<1>3. Count(C, i, m) = Count(C, i, j) + Count(C, k, m)
  BY CountSplit
<1> QED BY <1>1, <1>2, <1>3

(* The closing bracket at j closes the one that opens at i. *)
Closes(s, i, j) ==
    /\ i \in 1..(j - 1) /\ s[i] \in Openers /\ closerOf[s[i]] = s[j]
    /\ Net(s, i, j) = 0 /\ \A k \in (i + 1)..j : Net(s, k, j) < 0

Standing(s, t) == {i \in 1..Len(s) : s[i] = t}

LEMMA ClosedOnce ==
    ASSUME NEW s, NEW i, NEW j \in Int, NEW m \in Int, Closes(s, i, j), Closes(s, i, m)
    PROVE  ~(j < m)
<1> SUFFICES ASSUME j < m PROVE FALSE
  OBVIOUS
<1>1. i \in Int /\ i < j /\ i <= j + 1 /\ j <= m /\ j + 1 \in Int
  BY DEF Closes
<1> DEFINE k == j + 1
<1>2. k \in (i + 1)..m /\ k \in Int /\ i <= k /\ Follow(j, k)
  BY <1>1 DEF Follow
<1> HIDE DEF k
<1>3. Net(s, i, m) = Net(s, i, j) + Net(s, k, m)
  BY <1>1, <1>2, NetSplit
<1>4. Net(s, i, m) = 0 /\ Net(s, i, j) = 0 /\ Net(s, k, m) < 0
  BY <1>2 DEF Closes
<1>5. Net(s, k, m) \in Int
  BY <1>2, NetCounts
<1> QED BY <1>3, <1>4, <1>5

(* Each closing bracket has an opening one of its own. *)
LEMMA FewerClosers ==
    ASSUME NEW s, Len(s) \in Nat, DOMAIN s = 1..Len(s), checkBrackets(s), NEW o \in Openers
    PROVE  Cardinality(Standing(s, closerOf[o])) <= Cardinality(Standing(s, o))
<1> DEFINE J == Standing(s, closerOf[o])
           O == Standing(s, o)
           f == [j \in J |-> CHOOSE i \in O : Closes(s, i, j)]
<1>1. /\ J \subseteq Int /\ O \subseteq Int
      /\ \A j : j \in J <=> j \in 1..Len(s) /\ s[j] = closerOf[o]
      /\ \A j : j \in O <=> j \in 1..Len(s) /\ s[j] = o
  BY DEF Standing
<1>2. IsFiniteSet(O)
  <2>1. IsFiniteSet(1..Len(s))
    BY CountUpTo
  <2> QED BY <2>1, FS_Subset DEF Standing
<1> HIDE DEF J, O
<1>3. closerOf[o] \in Closers /\ \A t \in Openers : closerOf[t] = closerOf[o] => t = o
  BY BracketTypes DEF Openers, Closers
<1>4. ASSUME NEW j \in J PROVE \E i \in O : Closes(s, i, j)
  <2>1. j \in DOMAIN s /\ s[j] = closerOf[o] /\ j \in Int /\ j <= Len(s)
    BY <1>1
  <2>2. isClosingBracket(s[j])
    BY <1>3, <2>1, BracketTypes
  <2>3. PICK i \in 1..(j - 1) : /\ s[i] \in DOMAIN closerOf /\ closerOf[s[i]] = s[j]
                               /\ Net(s, i, j) = 0 /\ \A k \in (i + 1)..j : Net(s, k, j) < 0
    BY <2>1, <2>2 DEF checkBrackets
  <2>4. s[i] \in Openers
    BY <2>3, BracketTypes
  <2>5. Closes(s, i, j)
    BY <2>3, <2>4 DEF Closes
  <2>6. s[i] = o
    BY <1>3, <2>1, <2>3, <2>4
  <2>7. i \in 1..Len(s)
    BY <2>1, <2>3
  <2> QED BY <1>1, <2>5, <2>6, <2>7
<1>5. \A j \in J : f[j] \in O /\ Closes(s, f[j], j)
  BY <1>4
<1>6. f \in [J -> O]
  BY <1>5
<1> HIDE DEF f
<1>7. \A j, m \in J : f[j] = f[m] => j = m
  <2> SUFFICES ASSUME NEW j \in J, NEW m \in J, f[j] = f[m] PROVE j = m
    OBVIOUS
  <2> DEFINE i == f[j]
  <2>1. Closes(s, i, j) /\ Closes(s, i, m) /\ j \in Int /\ m \in Int
    BY <1>1, <1>5
  <2> HIDE DEF i
  <2>2. ~(j < m) /\ ~(m < j)
    BY <2>1, ClosedOnce
  <2> QED BY <2>1, <2>2
<1>8. f \in Injection(J, O)
  BY <1>6, <1>7 DEF Injection, IsInjective
<1>9. Cardinality(J) <= Cardinality(O)
  BY <1>2, <1>8, FS_Injection
<1> QED BY <1>9 DEF J, O

(* The tokens of two types together. *)
Together(s, t, u) == Cardinality({i \in 1..Len(s) : s[i] \in {t, u}})

LEMMA StandingBoth ==
    ASSUME NEW s, Len(s) \in Nat, NEW t, NEW u, t # u
    PROVE  /\ Together(s, t, u) = Cardinality(Standing(s, t)) + Cardinality(Standing(s, u))
           /\ Cardinality(Standing(s, t)) \in Nat /\ Cardinality(Standing(s, u)) \in Nat
<1> DEFINE A == Standing(s, t)
           B == Standing(s, u)
<1>1. {i \in 1..Len(s) : s[i] \in {t, u}} = A \cup B /\ A \cap B = {}
  BY DEF Standing
<1>2. IsFiniteSet(A) /\ IsFiniteSet(B)
  <2>1. IsFiniteSet(1..Len(s))
    BY CountUpTo
  <2> QED BY <2>1, FS_Subset DEF Standing
<1> HIDE DEF A, B
<1>3. Cardinality(A) \in Nat /\ Cardinality(B) \in Nat
  BY <1>2, FS_CardinalityType
<1>4. Cardinality(A \cup B) = Cardinality(A) + Cardinality(B) - Cardinality(A \cap B)
  BY <1>2, FS_Union
<1>5. Cardinality(A \cap B) = 0
  BY <1>1, FS_EmptySet, Zenon
<1>6. Cardinality(A \cup B) = Cardinality(A) + Cardinality(B)
  BY <1>3, <1>4, <1>5
<1>7. Cardinality({i \in 1..Len(s) : s[i] \in {t, u}}) = Cardinality(A \cup B)
  BY <1>1, Zenon
<1>8. Cardinality({i \in 1..Len(s) : s[i] \in {t, u}}) = Cardinality(A) + Cardinality(B)
  BY <1>6, <1>7, Zenon
<1> QED BY <1>3, <1>8 DEF A, B, Together

(* When every bracket is closed by its own kind, there are as many of each *)
(* kind that close as that open.                                           *)
LEMMA Balanced ==
    ASSUME NEW s, Len(s) \in Nat, DOMAIN s = 1..Len(s), checkBrackets(s), NEW o \in Openers
    PROVE  Cardinality(Standing(s, o)) = Cardinality(Standing(s, closerOf[o]))
<1> DEFINE n(t) == Cardinality(Standing(s, t))
<1>1. Net(s, 1, Len(s)) = 0
  BY DEF checkBrackets
<1>2. Net(s, 1, Len(s)) = Together(s, "L_PAREN", "L_BRACE") - Together(s, "R_PAREN", "R_BRACE")
  <2>1. {i \in 1..Len(s) : s[i] \in DOMAIN closerOf} = {i \in 1..Len(s) : s[i] \in {"L_PAREN", "L_BRACE"}}
    BY BracketTypes DEF Openers
  <2>2. {i \in 1..Len(s) : isClosingBracket(s[i])} = {i \in 1..Len(s) : s[i] \in {"R_PAREN", "R_BRACE"}}
    BY BracketTypes DEF Closers
  <2> QED BY <2>1, <2>2, Zenon DEF Net, Together
<1>3. /\ Together(s, "L_PAREN", "L_BRACE") = n("L_PAREN") + n("L_BRACE")
      /\ n("L_PAREN") \in Nat /\ n("L_BRACE") \in Nat
  BY StandingBoth
<1>4. /\ Together(s, "R_PAREN", "R_BRACE") = n("R_PAREN") + n("R_BRACE")
      /\ n("R_PAREN") \in Nat /\ n("R_BRACE") \in Nat
  BY StandingBoth
<1>5. n("R_PAREN") <= n("L_PAREN") /\ n("R_BRACE") <= n("L_BRACE")
  BY FewerClosers, BracketTypes DEF Openers
<1> HIDE DEF n
<1>6. n("R_PAREN") = n("L_PAREN") /\ n("R_BRACE") = n("L_BRACE")
  BY <1>1, <1>2, <1>3, <1>4, <1>5
<1>7. n(o) = n(closerOf[o])
  BY <1>6, BracketTypes DEF Openers
<1> QED BY <1>7 DEF n

NoZero(s) == \A i \in DOMAIN s : s[i] # "zero"

WTyped ==
    /\ stmt \in Seq(TokenTypes) /\ stop \in Nat /\ hi \in Nat /\ lo \in Nat
    /\ stage \in {"writing", "parsed", "searching", "done"} /\ judged \in {"none", "ok", "brackets", "ignored"}
    /\ stop <= Len(stmt) + 1 /\ hi <= Len(stmt)
    /\ judged # "none" => stage = "done"

(* Polyglot reads a token at least, and the whole of an INSERT's head.     *)
ReadSome ==
    /\ stage = "writing" => NoZero(stmt)
    /\ stage # "writing" => /\ stop >= 2
                            /\ insert => stop > Len(Checked(stmt, insert))
                            /\ ~insert => NoZero(stmt)

(* The parser stopped before the closing brackets that end at hi, and not  *)
(* before lo.                                                              *)
Bracketing(last) ==
    /\ 2 <= lo /\ lo <= hi /\ hi <= last
    /\ OnlyClosers(hi) /\ (lo > 2 => lo - 1 < stop)

WholeInv ==
    /\ WTyped /\ ReadSome /\ (stage = "searching" => Bracketing(LastToken(Checked(stmt, insert))))
    /\ AcceptedInFull /\ ReadInFullAccepted /\ NamesFirstIgnored

(* Until the verdict there is nothing to be right about. *)
LEMMA NotJudged == judged = "none" => AcceptedInFull /\ ReadInFullAccepted /\ NamesFirstIgnored
BY DEF AcceptedInFull, ReadInFullAccepted, NamesFirstIgnored

LEMMA WholeStarts == WholeInit => WholeInv
<1> SUFFICES ASSUME WholeInit PROVE WholeInv
  OBVIOUS
<1>1. /\ stmt = <<>> /\ stop = 0 /\ lo = 0 /\ hi = 0 /\ stage = "writing" /\ judged = "none"
  BY DEF WholeInit
<1>2. stmt \in Seq(TokenTypes) /\ Len(stmt) = 0 /\ DOMAIN stmt = {}
  BY <1>1
<1>3. WTyped
  BY <1>1, <1>2 DEF WTyped
<1>4. ReadSome
  BY <1>1, <1>2 DEF ReadSome, NoZero
<1> QED BY <1>1, <1>3, <1>4, NotJudged DEF WholeInv

LEMMA WriteTokenSteps == ASSUME WholeInv, WriteToken PROVE WholeInv'
<1>1. /\ stage = "writing" /\ insert' = insert /\ stop' = stop /\ lo' = lo /\ hi' = hi /\ stage' = stage
      /\ judged' = judged
  BY DEF WriteToken
<1>2. WTyped /\ NoZero(stmt)
  BY <1>1 DEF WholeInv, ReadSome
<1>3. PICK t \in Words \cup DOMAIN closerOf \cup {closerOf[o] : o \in DOMAIN closerOf} : stmt' = Append(stmt, t)
  BY DEF WriteToken
<1>4. t \in TokenTypes /\ t # "zero"
  <2>1. t \in Words \cup Openers \cup Closers
    BY <1>3, BracketTypes DEF Openers, Closers
  <2> QED BY <2>1 DEF TokenTypes, Words, Openers, Closers
<1>5. /\ stmt \in Seq(TokenTypes) /\ stop \in Nat /\ stop <= Len(stmt) + 1 /\ hi \in Nat /\ hi <= Len(stmt)
      /\ judged = "none"
  BY <1>1, <1>2 DEF WTyped
<1>6. /\ stmt' \in Seq(TokenTypes) /\ Len(stmt') = Len(stmt) + 1 /\ Len(stmt) \in Nat
      /\ DOMAIN stmt' = 1..(Len(stmt) + 1) /\ DOMAIN stmt = 1..Len(stmt)
      /\ \A i \in 1..(Len(stmt) + 1) : stmt'[i] = IF i <= Len(stmt) THEN stmt[i] ELSE t
  BY <1>3, <1>4, <1>5
<1>7. WTyped'
  BY <1>1, <1>2, <1>5, <1>6 DEF WTyped
<1>8. NoZero(stmt)'
  <2> SUFFICES ASSUME NEW i \in 1..(Len(stmt) + 1) PROVE stmt'[i] # "zero"
    BY <1>6 DEF NoZero
  <2>1. CASE i <= Len(stmt)
    BY <1>2, <1>6, <2>1 DEF NoZero
  <2>2. CASE ~(i <= Len(stmt))
    BY <1>4, <1>6, <2>2
  <2> QED BY <2>1, <2>2
<1>9. ReadSome'
  BY <1>1, <1>8 DEF ReadSome
<1>10. (AcceptedInFull /\ ReadInFullAccepted /\ NamesFirstIgnored)'
  BY <1>1, <1>5 DEF AcceptedInFull, ReadInFullAccepted, NamesFirstIgnored
<1> QED BY <1>1, <1>7, <1>9, <1>10 DEF WholeInv

LEMMA ParseSteps == ASSUME WholeInv, Parse PROVE WholeInv'
<1>1. /\ stage = "writing" /\ stage' = "parsed" /\ lo' = lo /\ hi' = hi /\ judged' = judged
  BY DEF Parse
<1>2. PICK tail \in Endings, formatted \in BOOLEAN :
          /\ stmt' = stmt \o tail /\ insert' = formatted
          /\ formatted => \E i \in DOMAIN stmt : stmt[i] = "FORMAT" /\ i < Len(stmt)
          /\ stop' \in 2..(Len(stmt') + 1)
          /\ tail = <<"zero">> => formatted
          /\ formatted => stop' > Len(Checked(stmt', TRUE))
  BY DEF Parse
<1>3. /\ stmt \in Seq(TokenTypes) /\ hi \in Nat /\ hi <= Len(stmt) /\ lo \in Nat /\ judged = "none" /\ NoZero(stmt)
  BY <1>1 DEF WholeInv, WTyped, ReadSome
<1>4. /\ tail \in Seq(TokenTypes) /\ Len(tail) \in Nat /\ DOMAIN tail = 1..Len(tail)
      /\ (tail # <<"zero">> => \A i \in 1..Len(tail) : tail[i] # "zero")
  <2>1. "SEMICOLON" \in TokenTypes /\ "zero" \in TokenTypes
    BY DEF TokenTypes
  <2>2. CASE tail = <<>>
    BY <2>2
  <2>3. CASE tail = <<"SEMICOLON">>
    BY <2>1, <2>3
  <2>4. CASE tail = <<"zero">>
    BY <2>1, <2>4
  <2> QED BY <1>2, <2>2, <2>3, <2>4 DEF Endings
<1>5. /\ stmt' \in Seq(TokenTypes) /\ Len(stmt') = Len(stmt) + Len(tail) /\ Len(stmt) \in Nat
      /\ DOMAIN stmt' = 1..(Len(stmt) + Len(tail)) /\ DOMAIN stmt = 1..Len(stmt)
      /\ \A i \in 1..(Len(stmt) + Len(tail)) : stmt'[i] = IF i <= Len(stmt) THEN stmt[i] ELSE tail[i - Len(stmt)]
  BY <1>2, <1>3, <1>4
<1>6. stop' \in Nat /\ stop' <= Len(stmt') + 1 /\ stop' >= 2
  BY <1>2, <1>4, <1>5
<1>7. WTyped'
  BY <1>1, <1>3, <1>4, <1>5, <1>6 DEF WTyped
<1>8. ~insert' => NoZero(stmt)'
  <2> SUFFICES ASSUME ~insert', NEW i \in 1..(Len(stmt) + Len(tail)) PROVE stmt'[i] # "zero"
    BY <1>5 DEF NoZero
  <2>1. tail # <<"zero">>
    BY <1>2
  <2>2. CASE i <= Len(stmt)
    BY <1>3, <1>5, <2>2 DEF NoZero
  <2>3. CASE ~(i <= Len(stmt))
    <3>1. i - Len(stmt) \in 1..Len(tail)
      BY <1>4, <1>5, <2>3
    <3> QED BY <1>4, <1>5, <2>1, <2>3, <3>1
  <2> QED BY <2>2, <2>3
<1>9. insert' => stop' > Len(Checked(stmt', insert'))
  <2>1. CASE formatted
    <3>1. insert' = TRUE
      BY <1>2, <2>1
    <3> QED BY <1>2, <2>1, <3>1
  <2>2. CASE ~formatted
    BY <1>2, <2>2
  <2> QED BY <2>1, <2>2
<1>10. ReadSome'
  BY <1>1, <1>6, <1>8, <1>9 DEF ReadSome
<1>11. (AcceptedInFull /\ ReadInFullAccepted /\ NamesFirstIgnored)'
  BY <1>1, <1>3 DEF AcceptedInFull, ReadInFullAccepted, NamesFirstIgnored
<1> QED BY <1>1, <1>7, <1>10, <1>11 DEF WholeInv

(* The tokens that are checked begin the statement; the ones among them    *)
(* that the parser did not read have a width.                              *)
LEMMA CheckedTokens ==
    ASSUME WTyped, ReadSome, stage # "writing", NEW c, c = Checked(stmt, insert)
    PROVE  /\ c \in Seq(TokenTypes) /\ Begins(c, stmt) /\ Len(c) \in Nat /\ DOMAIN c = 1..Len(c)
           /\ \A i \in 1..Len(c) : c[i] = stmt[i]
           /\ \A i : i \in Ignored <=> i \in 1..Len(c) /\ i >= stop
           /\ \A i \in Ignored : stmt[i] # "zero"
           /\ stmt \in Seq(TokenTypes) /\ stop \in Nat /\ 2 <= stop /\ stop <= Len(stmt) + 1
<1>1. /\ stmt \in Seq(TokenTypes) /\ stop \in Nat /\ stop <= Len(stmt) + 1 /\ 2 <= stop
      /\ (insert => stop > Len(c)) /\ (~insert => NoZero(stmt))
  BY DEF WTyped, ReadSome
<1>2. c \in Seq(TokenTypes) /\ Begins(c, stmt)
  BY <1>1, CheckedBegins
<1>3. Len(c) \in Nat /\ Len(c) <= Len(stmt) /\ DOMAIN c = 1..Len(c) /\ \A i \in 1..Len(c) : c[i] = stmt[i]
  BY <1>2 DEF Begins
<1>4. \A i : i \in Ignored <=> i \in 1..Len(c) /\ i >= stop
  BY <1>3 DEF Ignored
<1>5. ASSUME NEW i \in Ignored PROVE stmt[i] # "zero"
  <2>1. i \in 1..Len(c) /\ i >= stop
    BY <1>4
  <2>2. ~insert
    BY <1>1, <1>3, <2>1
  <2>3. i \in DOMAIN stmt
    BY <1>1, <1>3, <2>1
  <2> QED BY <1>1, <2>2, <2>3 DEF NoZero
<1> QED BY <1>1, <1>2, <1>3, <1>4, <1>5

LEMMA LastTokenRead ==
    ASSUME WTyped, ReadSome, stage # "writing", NEW c, c = Checked(stmt, insert), NEW last, last = LastToken(c)
    PROVE  /\ last \in 0..Len(c) /\ last \in 0..Len(stmt)
           /\ last # 0 => ~isBracketToken(stmt[last]) /\ last \in 1..Len(c)
           /\ \A i \in Ignored : i <= last \/ isBracketToken(stmt[i])
<1>1. /\ c \in Seq(TokenTypes) /\ Begins(c, stmt) /\ Len(c) \in Nat
      /\ \A i \in 1..Len(c) : c[i] = stmt[i]
      /\ \A i : i \in Ignored <=> i \in 1..Len(c) /\ i >= stop
      /\ \A i \in Ignored : stmt[i] # "zero"
      /\ Len(stmt) \in Nat
  BY CheckedTokens
<1>2. /\ last \in 0..Len(c)
      /\ last # 0 => ~isBracketToken(c[last])
      /\ \A i \in 1..Len(c) : i <= last \/ isBracketToken(c[i]) \/ c[i] = "zero"
  BY <1>1, LastTokenIs
<1>3. Len(c) <= Len(stmt)
  BY <1>1 DEF Begins
<1>4. last \in 0..Len(stmt) /\ (last # 0 => last \in 1..Len(c))
  BY <1>1, <1>2, <1>3
<1>5. last # 0 => ~isBracketToken(stmt[last])
  BY <1>1, <1>2, <1>4
<1>6. ASSUME NEW i \in Ignored PROVE i <= last \/ isBracketToken(stmt[i])
  <2>1. i \in 1..Len(c) /\ c[i] = stmt[i] /\ stmt[i] # "zero"
    BY <1>1
  <2>2. i <= last \/ isBracketToken(c[i]) \/ c[i] = "zero"
    BY <1>2, <2>1
  <2> QED BY <2>1, <2>2
<1> QED BY <1>2, <1>4, <1>5, <1>6

(* What is read to its last word is read in full. *)
Fully ==
    /\ \A i \in Ignored : isBracketToken(stmt[i])
    /\ \A o \in DOMAIN closerOf :
           Cardinality({i \in DOMAIN Checked(stmt, insert) : stmt[i] = o})
             = Cardinality({i \in DOMAIN Checked(stmt, insert) : stmt[i] = closerOf[o]})

LEMMA FullyRead ==
    ASSUME WTyped, ReadSome, stage # "writing", NEW c, c = Checked(stmt, insert), NEW last, last = LastToken(c),
           checkBrackets(c), NEW fails, last <= 1 \/ ~parsesAlike(last, fails)
    PROVE  Fully
<1>1. /\ Len(c) \in Nat /\ DOMAIN c = 1..Len(c)
      /\ \A i \in 1..Len(c) : c[i] = stmt[i]
      /\ \A i : i \in Ignored <=> i \in 1..Len(c) /\ i >= stop
      /\ stmt \in Seq(TokenTypes) /\ stop \in Nat /\ 2 <= stop /\ stop <= Len(stmt) + 1
  BY CheckedTokens
<1>2. /\ last \in 0..Len(stmt)
      /\ \A i \in Ignored : i <= last \/ isBracketToken(stmt[i])
  BY LastTokenRead
<1>3. last <= 1 \/ last < stop
  <2> SUFFICES ASSUME ~(last <= 1) PROVE last < stop
    OBVIOUS
  <2>1. last \in 1..(Len(stmt) + 1)
    BY <1>1, <1>2
  <2> QED BY <1>1, <2>1, AlikeMeans
<1>4. ASSUME NEW i \in Ignored PROVE isBracketToken(stmt[i])
  <2>1. ~(i <= last)
    BY <1>1, <1>2, <1>3
  <2> QED BY <1>2, <2>1
<1>5. ASSUME NEW o \in DOMAIN closerOf
      PROVE  Cardinality({i \in DOMAIN Checked(stmt, insert) : stmt[i] = o})
               = Cardinality({i \in DOMAIN Checked(stmt, insert) : stmt[i] = closerOf[o]})
  <2>1. Cardinality(Standing(c, o)) = Cardinality(Standing(c, closerOf[o]))
    BY <1>1, BracketTypes, Balanced
  <2>2. \A t : Standing(c, t) = {i \in DOMAIN Checked(stmt, insert) : stmt[i] = t}
    BY <1>1 DEF Standing
  <2> QED BY <2>1, <2>2, Zenon
<1> QED BY <1>4, <1>5 DEF Fully

LEMMA CheckParsedSteps == ASSUME WholeInv, CheckParsedInFull PROVE WholeInv'
<1>1. stage = "parsed" /\ stmt' = stmt /\ insert' = insert /\ stop' = stop
  BY DEF CheckParsedInFull
<1>2. WTyped /\ ReadSome /\ judged = "none" /\ stage # "writing"
  BY <1>1 DEF WholeInv, WTyped
<1> DEFINE c == Checked(stmt, insert)
           last == LastToken(c)
<1>3. PICK fails \in BOOLEAN :
      \/ ~checkBrackets(c) /\ stage' = "done" /\ judged' = "brackets" /\ lo' = lo /\ hi' = hi
      \/ /\ checkBrackets(c) /\ (last <= 1 \/ ~parsesAlike(last, fails))
         /\ stage' = "done" /\ judged' = "ok" /\ lo' = lo /\ hi' = hi
      \/ /\ ~(last <= 1) /\ parsesAlike(last, fails)
         /\ stage' = "searching" /\ lo' = 2 /\ hi' = last /\ judged' = judged
  BY DEF CheckParsedInFull
<1>4. /\ stmt \in Seq(TokenTypes) /\ stop \in Nat /\ stop <= Len(stmt) + 1 /\ Len(stmt) \in Nat
  BY <1>2 DEF WTyped
<1>5. last \in 0..Len(stmt)
  BY <1>2, LastTokenRead
<1>6. ReadSome'
  <2>1. stage' # "writing"
    BY <1>3
  <2> QED BY <1>1, <1>2, <2>1 DEF ReadSome
<1>7. c' = c /\ OnlyClosers(last)' = OnlyClosers(last)
  BY <1>1 DEF OnlyClosers
<1>8. CASE /\ ~checkBrackets(c) /\ stage' = "done" /\ judged' = "brackets" /\ lo' = lo /\ hi' = hi
  <2>1. WTyped'
    BY <1>1, <1>2, <1>8 DEF WTyped
  <2>2. (AcceptedInFull /\ ReadInFullAccepted /\ NamesFirstIgnored)'
    BY <1>8 DEF AcceptedInFull, ReadInFullAccepted, NamesFirstIgnored
  <2> QED BY <1>6, <1>8, <2>1, <2>2 DEF WholeInv
<1>9. CASE /\ checkBrackets(c) /\ (last <= 1 \/ ~parsesAlike(last, fails))
           /\ stage' = "done" /\ judged' = "ok" /\ lo' = lo /\ hi' = hi
  <2>1. WTyped'
    BY <1>1, <1>2, <1>9 DEF WTyped
  <2>2. Fully
    BY <1>2, <1>9, FullyRead
  <2>3. Fully'
    BY <1>1, <2>2 DEF Fully, Ignored
  <2>4. (AcceptedInFull /\ ReadInFullAccepted /\ NamesFirstIgnored)'
    BY <1>9, <2>3 DEF AcceptedInFull, ReadInFullAccepted, NamesFirstIgnored, Fully
  <2> QED BY <1>6, <1>9, <2>1, <2>4 DEF WholeInv
<1>10. CASE /\ ~(last <= 1) /\ parsesAlike(last, fails)
            /\ stage' = "searching" /\ lo' = 2 /\ hi' = last /\ judged' = judged
  <2>1. last \in 1..(Len(stmt) + 1) /\ 2 <= last /\ last \in Nat /\ last <= Len(stmt)
    BY <1>4, <1>5, <1>10
  <2>2. OnlyClosers(last)
    BY <1>4, <1>10, <2>1, AlikeMeans
  <2> HIDE DEF last
  <2>3. WTyped'
    BY <1>1, <1>2, <1>10, <2>1 DEF WTyped
  <2>4. OnlyClosers(hi)'
    BY <1>1, <1>10, <2>2 DEF OnlyClosers
  <2>5. LastToken(Checked(stmt, insert))' = last
    BY <1>1 DEF last
  <2>6. Bracketing(LastToken(Checked(stmt, insert)))'
    BY <1>10, <2>1, <2>4, <2>5 DEF Bracketing
  <2>7. (AcceptedInFull /\ ReadInFullAccepted /\ NamesFirstIgnored)'
    BY <1>2, <1>10 DEF AcceptedInFull, ReadInFullAccepted, NamesFirstIgnored
  <2> QED BY <1>6, <1>10, <2>3, <2>6, <2>7 DEF WholeInv
<1> QED BY <1>3, <1>8, <1>9, <1>10

LEMMA BisectSteps == ASSUME WholeInv, Bisect PROVE WholeInv'
<1>1. /\ stage = "searching" /\ lo < hi /\ stmt' = stmt /\ insert' = insert /\ stop' = stop
      /\ stage' = stage /\ judged' = judged
  BY DEF Bisect
<1> DEFINE mid == (lo + hi) \div 2
           last == LastToken(Checked(stmt, insert))
<1>2. PICK fails \in BOOLEAN :
      \/ parsesAlike(mid, fails) /\ lo' = lo /\ hi' = mid
      \/ ~parsesAlike(mid, fails) /\ lo' = mid + 1 /\ hi' = hi
  BY DEF Bisect, Narrow
<1>3. WTyped /\ ReadSome /\ Bracketing(last)
  BY <1>1 DEF WholeInv
<1>4. /\ stmt \in Seq(TokenTypes) /\ stop \in Nat /\ stop <= Len(stmt) + 1 /\ Len(stmt) \in Nat
      /\ lo \in Nat /\ hi \in Nat /\ hi <= Len(stmt) /\ judged = "none"
  BY <1>1, <1>3 DEF WTyped
<1>5. 2 <= lo /\ lo <= hi /\ hi <= last /\ OnlyClosers(hi) /\ (lo > 2 => lo - 1 < stop)
  BY <1>3 DEF Bracketing
<1>6. last \in Int
  BY <1>1, <1>3, LastTokenRead
<1> HIDE DEF last
<1>7. mid \in Nat /\ lo <= mid /\ mid < hi
  BY <1>1, <1>4
<1> HIDE DEF mid
<1>8. mid \in 1..(Len(stmt) + 1)
  BY <1>4, <1>5, <1>7
<1>9. (parsesAlike(mid, fails) => OnlyClosers(mid)) /\ (~parsesAlike(mid, fails) => mid < stop)
  BY <1>4, <1>8, AlikeMeans
<1>11. lo' \in Nat /\ hi' \in Nat /\ 2 <= lo' /\ lo' <= hi' /\ hi' <= last /\ hi' <= Len(stmt)
  BY <1>2, <1>4, <1>5, <1>6, <1>7
<1>12. OnlyClosers(hi)' /\ (lo' > 2 => lo' - 1 < stop')
  <2>1. CASE parsesAlike(mid, fails) /\ lo' = lo /\ hi' = mid
    <3>1. OnlyClosers(mid) /\ (lo > 2 => lo - 1 < stop)
      BY <1>5, <1>9, <2>1
    <3> QED BY <1>1, <2>1, <3>1 DEF OnlyClosers
  <2>2. CASE ~parsesAlike(mid, fails) /\ lo' = mid + 1 /\ hi' = hi
    <3>1. OnlyClosers(hi) /\ mid < stop
      BY <1>5, <1>9, <2>2
    <3>2. lo' - 1 = mid
      BY <1>7, <2>2
    <3> QED BY <1>1, <2>2, <3>1, <3>2 DEF OnlyClosers
  <2> QED BY <1>2, <2>1, <2>2
<1>13. LastToken(Checked(stmt, insert))' = last
  BY <1>1 DEF last
<1>14. Bracketing(LastToken(Checked(stmt, insert)))'
  BY <1>11, <1>12, <1>13 DEF Bracketing
<1>15. WTyped'
  BY <1>1, <1>3, <1>11 DEF WTyped
<1>16. ReadSome'
  BY <1>1, <1>3 DEF ReadSome
<1>17. (AcceptedInFull /\ ReadInFullAccepted /\ NamesFirstIgnored)'
  BY <1>1, <1>4 DEF AcceptedInFull, ReadInFullAccepted, NamesFirstIgnored
<1> QED BY <1>14, <1>15, <1>16, <1>17 DEF WholeInv

(* The token n is the first that Polyglot dropped and would not supply.    *)
NamesFirst(n) ==
    /\ n \in Ignored /\ ~isClosingBracket(stmt[n])
    /\ \A i \in Ignored : i < n => isClosingBracket(stmt[i])

(* The search ends at the parser's stop or in brackets before it. *)
LEMMA SearchEnds ==
    ASSUME WTyped, ReadSome, stage # "writing", Bracketing(LastToken(Checked(stmt, insert))), ~(lo < hi)
    PROVE  /\ \E i \in Ignored : ~isBracketToken(stmt[i])
           /\ NamesFirst(PastClosers) /\ PastClosers \in Nat /\ PastClosers <= Len(stmt)
<1> DEFINE c == Checked(stmt, insert)
           last == LastToken(c)
           rest == {i \in hi..last : i = last \/ ~isClosingBracket(stmt[i])}
           h == CHOOSE i \in rest : \A j \in rest : i <= j
<1>1. /\ Len(c) \in Nat /\ Len(c) <= Len(stmt)
      /\ \A i : i \in Ignored <=> i \in 1..Len(c) /\ i >= stop
      /\ stop \in Nat /\ 2 <= stop /\ Len(stmt) \in Nat
  <2>1. Begins(c, stmt) /\ stmt \in Seq(TokenTypes)
    BY CheckedTokens
  <2> QED BY <2>1, CheckedTokens DEF Begins
<1>2. last \in 0..Len(c) /\ (last # 0 => ~isBracketToken(stmt[last]) /\ last \in 1..Len(c))
  BY LastTokenRead
<1>3. 2 <= lo /\ lo <= hi /\ hi <= last /\ OnlyClosers(hi) /\ (lo > 2 => lo - 1 < stop)
  BY DEF Bracketing
<1>4. PastClosers = h
  BY DEF PastClosers
<1> HIDE DEF c, last
<1>5. lo \in Nat /\ hi \in Nat /\ lo = hi
  BY <1>3 DEF WTyped
<1>6. last \in 1..Len(c) /\ ~isBracketToken(stmt[last]) /\ ~isClosingBracket(stmt[last])
  BY <1>1, <1>2, <1>3, <1>5 DEF isBracketToken
<1>7. hi <= stop
  <2>1. CASE lo > 2
    <3>1. lo - 1 < stop
      BY <1>3, <2>1
    <3> QED BY <1>1, <1>5, <3>1
  <2>2. CASE ~(lo > 2)
    BY <1>1, <1>5, <2>2
  <2> QED BY <2>1, <2>2
<1>8. ASSUME NEW i \in hi..last, ~isClosingBracket(stmt[i]) PROVE i \in Ignored
  <2>1. i \notin hi..(stop - 1)
    BY <1>3, <1>8 DEF OnlyClosers
  <2>2. i >= stop /\ i \in 1..Len(c)
    BY <1>1, <1>3, <1>5, <1>6, <2>1
  <2> QED BY <1>1, <2>2
<1>9. last \in hi..last /\ last \in Ignored
  BY <1>1, <1>3, <1>5, <1>6, <1>8
<1>10. h \in rest /\ \A j \in rest : h <= j
  <2>1. rest \subseteq Nat /\ last \in rest
    BY <1>1, <1>5, <1>6, <1>9
  <2> HIDE DEF rest
  <2>2. \E i \in rest : \A j \in rest : i <= j
    BY <2>1, Least
  <2> QED BY <2>2
<1> HIDE DEF h
<1>11. h \in hi..last /\ ~isClosingBracket(stmt[h])
  BY <1>6, <1>10
<1>12. h \in Ignored
  BY <1>8, <1>11
<1>13. ASSUME NEW i \in Ignored, i < h PROVE isClosingBracket(stmt[i])
  <2> SUFFICES ASSUME ~isClosingBracket(stmt[i]) PROVE FALSE
    OBVIOUS
  <2>1. i \in 1..Len(c) /\ i >= stop
    BY <1>1
  <2>2. i \in hi..last /\ h \in Int
    BY <1>1, <1>5, <1>6, <1>7, <1>11, <1>13, <2>1
  <2>3. i \in rest
    BY <2>2
  <2>4. h <= i
    BY <1>10, <2>3
  <2> QED BY <1>13, <2>2, <2>4
<1>14. NamesFirst(h)
  BY <1>11, <1>12, <1>13 DEF NamesFirst
<1>15. h \in Nat /\ h <= Len(stmt)
  BY <1>1, <1>5, <1>6, <1>11
<1> QED BY <1>4, <1>6, <1>9, <1>14, <1>15

LEMMA firstIgnoredTokenSteps == ASSUME WholeInv, firstIgnoredToken PROVE WholeInv'
<1>1. /\ stage = "searching" /\ lo >= hi /\ hi' = PastClosers /\ stage' = "done" /\ judged' = "ignored"
      /\ stmt' = stmt /\ insert' = insert /\ stop' = stop /\ lo' = lo
  BY DEF firstIgnoredToken
<1>2. WTyped /\ ReadSome /\ Bracketing(LastToken(Checked(stmt, insert)))
  BY <1>1 DEF WholeInv
<1>3. ~(lo < hi)
  BY <1>1, <1>2 DEF WTyped
<1> DEFINE h == PastClosers
<1>4. /\ \E i \in Ignored : ~isBracketToken(stmt[i])
      /\ NamesFirst(h) /\ h \in Nat /\ h <= Len(stmt)
  BY <1>1, <1>2, <1>3, SearchEnds
<1> HIDE DEF h
<1>5. hi' = h
  BY <1>1 DEF h
<1>6. WTyped'
  BY <1>1, <1>2, <1>4, <1>5 DEF WTyped
<1>7. ReadSome'
  BY <1>1, <1>2 DEF ReadSome
<1>8. Ignored' = Ignored
  BY <1>1 DEF Ignored
<1>9. AcceptedInFull' /\ ReadInFullAccepted'
  BY <1>1, <1>4, <1>8 DEF AcceptedInFull, ReadInFullAccepted
<1>10. NamesFirstIgnored'
  BY <1>1, <1>4, <1>5, <1>8 DEF NamesFirstIgnored, NamesFirst
<1> QED BY <1>1, <1>6, <1>7, <1>9, <1>10 DEF WholeInv

LEMMA WholeSteps == ASSUME WholeInv, [WholeNext]_wvars PROVE WholeInv'
<1>1. CASE UNCHANGED wvars
  BY <1>1 DEF wvars, WholeInv, WTyped, ReadSome, NoZero, Bracketing, OnlyClosers, Ignored,
              AcceptedInFull, ReadInFullAccepted, NamesFirstIgnored
<1> QED BY <1>1, WriteTokenSteps, ParseSteps, CheckParsedSteps, BisectSteps, firstIgnoredTokenSteps
        DEF WholeNext, Check

LEMMA WholeInvMeasured == WholeInv => ParseMeasured
<1> SUFFICES ASSUME WholeInv PROVE ParseMeasured
  OBVIOUS
<1>1. WTyped /\ (stage = "searching" => Bracketing(LastToken(Checked(stmt, insert))))
  BY DEF WholeInv
<1>2. stage = "searching" => lo \in 2..hi
  BY <1>1 DEF WTyped, Bracketing
<1>3. WholeTypeOK
  BY <1>1, <1>2 DEF WTyped, WholeTypeOK
<1> QED BY <1>3 DEF WholeInv, ParseMeasured

(* CheckParsedInFull measures where the parser stopped, for a statement of *)
(* any length and a parser that stops anywhere: what it passes was read to *)
(* its last word and its brackets match, what it refuses was not, and the  *)
(* token it names is the first that was dropped.                           *)
THEOREM MeasuresTheParse == WholeSpec => []ParseMeasured
<1>1. WholeInit => WholeInv
  BY WholeStarts
<1>2. WholeInv /\ [WholeNext]_wvars => WholeInv'
  BY WholeSteps
<1>3. WholeInv => ParseMeasured
  BY WholeInvMeasured
<1> QED BY <1>1, <1>2, <1>3, PTL DEF WholeSpec
=============================================================================
