--------------------------- MODULE ErrorTextProofs ---------------------------
(***************************************************************************)
(* Whatever the error text says and whatever was rewritten: no hidden name *)
(* is told (the names half of reverse.Invert), the map of positions is     *)
(* that of a shortest edit (the positions half), and the physical names    *)
(* that two logical databases are given stay apart.                        *)
(***************************************************************************)
EXTENDS OffsetMap, DynamicNames, FiniteSetTheorems, TLAPS

---------------------------------------------------------------------------
(* Numbers have a least element: the initial segments below one of them    *)
(* are finite sets, and strict inclusion of those is well founded.         *)
LEMMA Least ==
    ASSUME NEW T, T \subseteq Nat, T # {}
    PROVE  \E m \in T : \A n \in T : m <= n
<1>1. PICK b \in T : TRUE
  OBVIOUS
<1> DEFINE S == 0..b
           C == {0..i : i \in {j \in T : j <= b}}
<1>2. b \in Nat /\ IsFiniteSet(S)
  BY <1>1, FS_Interval
<1>3. C \subseteq SUBSET S /\ C # {}
  BY <1>1, <1>2
<1>4. IsWellFoundedOn(StrictSubsetOrdering(S), SUBSET S)
  <2>1. IsWellFoundedOn(StrictSubsetOrdering(S), FiniteSubsetsOf(S))
    BY FS_StrictSubsetOrderingWellFounded
  <2>2. FiniteSubsetsOf(S) = SUBSET S
    BY <1>2, FS_Subset DEF FiniteSubsetsOf
  <2> QED BY <2>1, <2>2
<1> HIDE DEF S, C
<1>5. PICK c \in C : \A e \in C : ~(<<e, c>> \in StrictSubsetOrdering(S))
  BY <1>3, <1>4, WFMin
<1> USE DEF S, C
<1>6. PICK m \in T : m <= b /\ c = 0..m
  BY <1>5
<1>7. ASSUME NEW n \in T PROVE m <= n
  <2> SUFFICES ASSUME n < m PROVE FALSE
    BY <1>6
  <2>1. 0..n \in C
    BY <1>2, <1>6
  <2>2. <<0..n, c>> \in StrictSubsetOrdering(S)
    <3>1. 0..n \subseteq c /\ 0..n # c
      <4>1. m \in c /\ m \notin 0..n
        BY <1>6
      <4> QED BY <4>1, <1>6
    <3>2. 0..n \in SUBSET S /\ c \in SUBSET S
      BY <1>3, <2>1, <1>5
    <3> QED BY <3>1, <3>2 DEF StrictSubsetOrdering
  <2> QED BY <2>1, <2>2, <1>5
<1> QED BY <1>7

(* The greatest of finitely many numbers. *)
LEMMA MaxIs ==
    ASSUME NEW S, S \subseteq Nat, S # {}, NEW b \in Nat, \A n \in S : n <= b
    PROVE  Max(S) \in S /\ \A n \in S : n <= Max(S)
<1> DEFINE T == {n \in Nat : \A i \in S : i <= n}
<1>1. T \subseteq Nat /\ b \in T
  OBVIOUS
<1>2. PICK m \in T : \A n \in T : m <= n
  <2> HIDE DEF T
  <2>1. T # {}
    BY <1>1
  <2> QED BY <1>1, <2>1, Least
<1>3. PICK e \in S : TRUE
  OBVIOUS
<1>4. m \in S
  <2> SUFFICES ASSUME m \notin S PROVE FALSE
    OBVIOUS
  <2>1. \A n \in S : n \in Nat /\ n <= m /\ n # m
    BY <1>2
  <2>2. m \in Nat /\ e \in Nat /\ e <= m /\ e # m
    BY <1>2, <1>3, <2>1
  <2>3. m - 1 \in Nat /\ \A n \in S : n <= m - 1
    BY <2>1, <2>2
  <2>4. m - 1 \in T
    BY <2>3
  <2>5. m <= m - 1
    BY <1>2, <2>4
  <2> QED BY <2>2, <2>5
<1>5. m \in S /\ \A n \in S : m >= n
  BY <1>2, <1>4
<1> QED BY <1>5 DEF Max

LEMMA MinIs ==
    ASSUME NEW S, S \subseteq Nat, S # {}
    PROVE  Min(S) \in S /\ \A n \in S : Min(S) <= n
<1>1. PICK m \in S : \A n \in S : m <= n
  BY Least
<1> QED BY <1>1 DEF Min

---------------------------------------------------------------------------
(* Texts are put together of texts.                                        *)

(* What remains from each of the first n bytes on. *)
Rests(f, n, piece, next) ==
    f = [i \in 1..(n + 1) |-> IF i > n THEN <<>> ELSE piece[i] \o f[next[i]]]

(* The pieces that remain exist, whatever they are. *)
LEMMA PiecesExist ==
    ASSUME NEW n \in Nat, NEW piece, NEW next, \A i \in 1..n : next[i] \in (i + 1)..(n + 1)
    PROVE  \E f : Rests(f, n, piece, next)
<1> DEFINE Tail0(f, i) == IF i > n THEN <<>> ELSE piece[i] \o f[next[i]]
           Upper(f, a) == f = [i \in (n + 1 - a)..(n + 1) |-> Tail0(f, i)]
           Good == {a \in 0..n : \E f : Upper(f, a)}
<1>1. \A a \in 0..n : a \in Good <=> \E f : Upper(f, a)
  OBVIOUS
<1> HIDE DEF Good
<1>2. 0 \in Good
  <2>1. n + 1 - 0 = n + 1 /\ 0 \in 0..n /\ \A i \in (n + 1)..(n + 1) : i > n
    OBVIOUS
  <2> DEFINE f == [i \in (n + 1)..(n + 1) |-> <<>>]
  <2>2. \A i \in (n + 1)..(n + 1) : Tail0(f, i) = <<>>
    BY <2>1
  <2> HIDE DEF Tail0
  <2>3. f = [i \in (n + 1)..(n + 1) |-> Tail0(f, i)]
    BY <2>2
  <2> HIDE DEF f
  <2>4. Upper(f, 0)
    BY <2>1, <2>3
  <2> QED BY <1>1, <2>1, <2>4
<1>3. ASSUME NEW a \in 1..n, a - 1 \in Good PROVE a \in Good
  <2>1. a - 1 \in 0..n /\ a \in 0..n
    OBVIOUS
  <2>2. PICK f : Upper(f, a - 1)
    BY <1>1, <1>3, <2>1
  <2>3. PICK top : top = n + 1 - a
    OBVIOUS
  <2>4. top \in 1..n /\ n + 1 - (a - 1) = top + 1
    BY <2>3
  <2>5. f = [i \in (top + 1)..(n + 1) |-> Tail0(f, i)]
    BY <2>2, <2>4
  <2> DEFINE g == [i \in top..(n + 1) |-> IF i = top THEN piece[i] \o f[next[i]] ELSE f[i]]
  <2>6. g[top] = piece[top] \o f[next[top]] /\ \A i \in (top + 1)..(n + 1) : g[i] = f[i]
    <3>1. top \in top..(n + 1) /\ \A i \in (top + 1)..(n + 1) : i \in top..(n + 1) /\ i # top
      BY <2>4
    <3> QED BY <3>1
  <2>7. g = [i \in top..(n + 1) |-> g[i]]
    OBVIOUS
  <2> HIDE DEF g
  <2>8. \A i \in top..n : g[next[i]] = f[next[i]]
    <3>1. \A i \in top..n : next[i] \in (top + 1)..(n + 1)
      <4>1. ASSUME NEW i \in top..n PROVE next[i] \in (top + 1)..(n + 1)
        <5>1. i \in 1..n
          BY <2>4
        <5>2. next[i] \in (i + 1)..(n + 1)
          BY <5>1
        <5> QED BY <5>1, <5>2, <2>4
      <4> QED BY <4>1
    <3> QED BY <2>6, <3>1
  <2>9. ASSUME NEW i \in top..(n + 1) PROVE g[i] = Tail0(g, i)
    <3>1. CASE i = top
      <4>1. top \in top..n /\ ~(top > n)
        BY <2>4
      <4>2. Tail0(g, top) = piece[top] \o g[next[top]]
        BY <4>1
      <4> HIDE DEF Tail0
      <4> QED BY <3>1, <2>6, <2>8, <4>1, <4>2
    <3>2. CASE i # top
      <4>1. i \in (top + 1)..(n + 1) /\ (i > n \/ i \in top..n)
        BY <3>2, <2>4
      <4>2. g[i] = f[i] /\ f[i] = Tail0(f, i)
        <5> HIDE DEF Tail0
        <5> QED BY <4>1, <2>5, <2>6
      <4> QED BY <4>1, <4>2, <2>8
    <3> QED BY <3>1, <3>2
  <2> HIDE DEF Tail0
  <2>10. g = [i \in top..(n + 1) |-> Tail0(g, i)]
    BY <2>7, <2>9
  <2>11. Upper(g, a)
    BY <2>3, <2>10
  <2> HIDE DEF Upper
  <2> QED BY <1>1, <2>1, <2>11
<1> HIDE DEF Upper
<1>4. n \in Good
  <2> DEFINE Bad == (0..n) \ Good
  <2> SUFFICES ASSUME Bad # {} PROVE FALSE
    OBVIOUS
  <2>1. PICK a \in Bad : \A b \in Bad : a <= b
    <3>1. Bad \subseteq Nat
      OBVIOUS
    <3> HIDE DEF Bad
    <3> QED BY <3>1, Least
  <2>2. a \in 1..n /\ a - 1 \in 0..n /\ a - 1 \notin Bad
    BY <2>1, <1>2
  <2> QED BY <2>1, <2>2, <1>3
<1>5. n \in 0..n /\ n + 1 - n = 1
  OBVIOUS
<1>6. PICK f : Upper(f, n)
  BY <1>1, <1>4, <1>5
<1>7. f = [i \in 1..(n + 1) |-> Tail0(f, i)]
  BY <1>5, <1>6 DEF Upper
<1> QED BY <1>7 DEF Rests

LEMMA PiecesText ==
    ASSUME NEW X, NEW n \in Nat, NEW piece, NEW next,
           \A i \in 1..n : piece[i] \in Seq(X),
           \A i \in 1..n : next[i] \in (i + 1)..(n + 1)
    PROVE  Pieces(n, piece, next) \in Seq(X)
<1> DEFINE g == CHOOSE rest : rest = [i \in 1..(n + 1) |-> IF i > n THEN <<>> ELSE piece[i] \o rest[next[i]]]
<1>1. n \in Nat
  OBVIOUS
<1>2. Pieces(n, piece, next) = g[1]
  BY DEF Pieces
<1>3. \E f : f = [i \in 1..(n + 1) |-> IF i > n THEN <<>> ELSE piece[i] \o f[next[i]]]
  <2>1. \E f : Rests(f, n, piece, next)
    BY PiecesExist
  <2> QED BY <2>1 DEF Rests
<1>4. g = [i \in 1..(n + 1) |-> IF i > n THEN <<>> ELSE piece[i] \o g[next[i]]]
  BY <1>3
<1>5. /\ \A i \in 1..n : piece[i] \in Seq(X) /\ next[i] \in (i + 1)..(n + 1)
      /\ g[n + 1] = <<>> /\ \A i \in 1..n : g[i] = piece[i] \o g[next[i]]
  <2>1. \A i \in 1..n : piece[i] \in Seq(X) /\ next[i] \in (i + 1)..(n + 1)
    OBVIOUS
  <2> HIDE DEF g
  <2>2. n + 1 \in 1..(n + 1) /\ n + 1 > n /\ \A i \in 1..n : i \in 1..(n + 1) /\ ~(i > n)
    BY <1>1
  <2> QED BY <1>4, <2>1, <2>2
<1> HIDE DEF g
<1> DEFINE Bad == {a \in 0..n : g[n + 1 - a] \notin Seq(X)}
<1>6. Bad = {}
  <2> SUFFICES ASSUME Bad # {} PROVE FALSE
    OBVIOUS
  <2>1. PICK a \in Bad : \A b \in Bad : a <= b
    <3>1. Bad \subseteq Nat
      OBVIOUS
    <3> HIDE DEF Bad
    <3> QED BY <3>1, Least
  <2>2. CASE a = 0
    <3>1. n + 1 - 0 = n + 1
      BY <1>1
    <3>2. g[n + 1 - 0] = <<>>
      BY <3>1, <1>5
    <3>3. <<>> \in Seq(X)
      OBVIOUS
    <3> QED BY <2>1, <2>2, <3>2, <3>3
  <2>3. CASE a # 0
    <3>1. n + 1 - a \in 1..n /\ a \in 0..n
      BY <2>1, <2>3, <1>1
    <3>7. PICK top : top = n + 1 - a
      OBVIOUS
    <3>8. PICK b : b = n + 1 - next[top]
      OBVIOUS
    <3>2. next[top] \in (top + 1)..(n + 1) /\ g[top] = piece[top] \o g[next[top]] /\ piece[top] \in Seq(X)
      BY <3>1, <3>7, <1>5
    <3>3. b \in 0..n /\ b < a /\ n + 1 - b = next[top]
      <4>1. PICK beyond : beyond = next[top]
        OBVIOUS
      <4>2. beyond \in (top + 1)..(n + 1) /\ b = n + 1 - beyond
        BY <3>2, <3>8, <4>1
      <4>3. b \in 0..n /\ b < a /\ n + 1 - b = beyond
        BY <3>1, <3>7, <4>2, <1>1
      <4> QED BY <4>1, <4>3
    <3>4. b \notin Bad
      BY <2>1, <3>1, <3>3
    <3>5. g[next[top]] \in Seq(X)
      BY <3>3, <3>4
    <3>6. g[top] \in Seq(X)
      BY <3>2, <3>5
    <3> QED BY <2>1, <3>6, <3>7
  <2> QED BY <2>2, <2>3
<1>7. n \in 0..n /\ n + 1 - n = 1
  BY <1>1
<1> QED BY <1>2, <1>6, <1>7

LEMMA ReplacedText ==
    ASSUME NEW X, NEW s \in Seq(X), NEW repl \in Seq(X), NEW longest, NEW qualified,
           \A i \in 1..Len(s) : longest[i] \in 0..(Len(s) - i + 1)
    PROVE  ReplaceMatches(s, longest, qualified, repl) \in Seq(X)
<1> DEFINE n == Len(s)
           next == [i \in DOMAIN s |-> i + IF longest[i] = 0 THEN 1 ELSE longest[i]]
           piece == [i \in DOMAIN s |-> IF longest[i] # 0 /\ i \in qualified THEN repl
                                       ELSE SubSeq(s, i, next[i] - 1)]
<1>1. n \in Nat /\ DOMAIN s = 1..n
  OBVIOUS
<1>2. ASSUME NEW i \in 1..n PROVE next[i] \in (i + 1)..(n + 1)
  <2>1. longest[i] \in 0..(n - i + 1)
    OBVIOUS
  <2>2. next[i] = IF longest[i] = 0 THEN i + 1 ELSE i + longest[i]
    BY <1>1
  <2> HIDE DEF n, next
  <2> QED BY <1>1, <2>1, <2>2
<1> HIDE DEF next
<1>3. ASSUME NEW i \in 1..n PROVE piece[i] \in Seq(X)
  <2>1. next[i] - 1 \in i..n
    <3> HIDE DEF n
    <3> QED BY <1>1, <1>2
  <2>2. SubSeq(s, i, next[i] - 1) \in Seq(X)
    BY <2>1
  <2> QED BY <1>1, <2>2
<1> HIDE DEF piece
<1>4. Pieces(n, piece, next) \in Seq(X)
  <2> HIDE DEF n
  <2> QED BY <1>1, <1>2, <1>3, PiecesText
<1> QED BY <1>4 DEF ReplaceMatches, piece, next

LEMMA LongestIs ==
    ASSUME NEW n \in Nat, NEW lengths, lengths \subseteq 0..n
    PROVE  Longest(lengths) \in 0..n
<1> DEFINE S == {0} \cup lengths
<1>1. S \subseteq Nat /\ S # {} /\ \A i \in S : i <= n
  OBVIOUS
<1> HIDE DEF S
<1>2. Max(S) \in S
  BY <1>1, MaxIs
<1>3. Longest(lengths) = Max(S)
  BY DEF S, Longest
<1>4. S \subseteq 0..n
  BY DEF S
<1> QED BY <1>2, <1>3, <1>4

---------------------------------------------------------------------------
(* Every substitution makes a text of a text.                              *)

LEMMA FoldText ==
    ASSUME NEW s \in Seq(Byte)
    PROVE  Fold(s) \in Seq(Int) /\ Len(Fold(s)) = Len(s)
<1>0. DOMAIN s = 1..Len(s) /\ Len(s) \in Nat /\ \A i \in 1..Len(s) : s[i] \in Byte
  OBVIOUS
<1>1. \A i \in 1..Len(s) : s[i] \in Int
  <2>1. \A b \in Byte : b \in Int
    BY DEF Byte
  <2> QED BY <1>0, <2>1
<1>2. \A i \in 1..Len(s) : (IF s[i] \in 65..90 THEN s[i] + 32 ELSE s[i]) \in Int
  BY <1>1
<1>3. Fold(s) \in [1..Len(s) -> Int] /\ Len(s) \in Nat
  BY <1>0, <1>2 DEF Fold
<1> QED BY <1>3

LEMMA BoundaryText ==
    ASSUME NEW s \in Seq(Byte), NEW repl \in Seq(Byte), NEW core, core \subseteq Seq(Byte)
    PROVE  substituteBoundary(s, core, repl) \in Seq(Byte)
<1> DEFINE folded == Fold(s)
           spellings == {Fold(q) : q \in core}
           Lengths(i) == {Len(q) : q \in {c \in spellings : At(folded, i, c)}}
           longest == [i \in DOMAIN s |-> Longest(Lengths(i))]
           qualified == {i \in DOMAIN s : Delimited(s, i, longest[i])}
<1>1. \A c \in spellings : Len(c) \in Nat
  BY FoldText
<1>2. Len(folded) = Len(s) /\ Len(s) \in Nat
  BY FoldText
<1> HIDE DEF folded, spellings
<1>3. ASSUME NEW i \in 1..Len(s) PROVE Lengths(i) \subseteq 0..(Len(s) - i + 1)
  BY <1>1, <1>2 DEF At
<1>4. ASSUME NEW i \in 1..Len(s) PROVE longest[i] \in 0..(Len(s) - i + 1)
  <2>1. longest[i] = Longest(Lengths(i))
    OBVIOUS
  <2>2. Len(s) - i + 1 \in Nat
    BY <1>2
  <2> HIDE DEF Lengths, longest
  <2> QED BY <1>3, <2>1, <2>2, LongestIs
<1> HIDE DEF longest, qualified
<1>5. ReplaceMatches(s, longest, qualified, repl) \in Seq(Byte)
  BY <1>4, ReplacedText
<1>6. substituteBoundary(s, core, repl) = ReplaceMatches(s, longest, qualified, repl)
  BY DEF substituteBoundary, longest, qualified, folded, spellings
<1> QED BY <1>5, <1>6

LEMMA CoreText ==
    ASSUME NEW ident \in Seq(Byte)
    PROVE  identCore(ident) \subseteq Seq(Byte) /\ Backticked(ident) \subseteq Seq(Byte)
<1>1. <<Quote>> \in Seq(Byte)
  BY DEF Quote, Byte
<1>2. PICK quote : quote = <<Quote>>
  OBVIOUS
<1>3. quote \o ident \in Seq(Byte) /\ ident \o quote \in Seq(Byte) /\ (quote \o ident) \o quote \in Seq(Byte)
  BY <1>1, <1>2
<1> QED BY <1>2, <1>3 DEF identCore, Backticked

LEMMA QualifiedText ==
    ASSUME NEW qualified \in Seq(Byte)
    PROVE  qualifiedCore(qualified) \subseteq Seq(Byte)
<1>1. CASE Dot \notin Range(qualified)
  BY <1>1, CoreText DEF qualifiedCore
<1>2. CASE Dot \in Range(qualified)
  <2> DEFINE S == {i \in DOMAIN qualified : qualified[i] = Dot}
             dot == SplitFirst(qualified)
             db == SubSeq(qualified, 1, dot - 1)
             table == SubSeq(qualified, dot + 1, Len(qualified))
  <2>1. S \subseteq Nat /\ S # {}
    BY <1>2 DEF Range
  <2> HIDE DEF S
  <2>2. Min(S) \in S
    BY <2>1, MinIs
  <2>3. dot \in 1..Len(qualified)
    BY <2>2 DEF SplitFirst, S
  <2> HIDE DEF dot
  <2>4. db \in Seq(Byte) /\ table \in Seq(Byte)
    BY <2>3
  <2>5. <<Dot>> \in Seq(Byte)
    BY DEF Dot, Byte
  <2>6. qualifiedCore(qualified) =
          {left \o <<Dot>> \o right : left \in identCore(db),
                                      right \in IF Dot \in Range(table) THEN Backticked(table)
                                                ELSE identCore(table)}
    BY <1>2 DEF qualifiedCore, dot
  <2> HIDE DEF db, table
  <2>7. ASSUME NEW left \in identCore(db), NEW right \in identCore(table) \cup Backticked(table)
        PROVE  left \o <<Dot>> \o right \in Seq(Byte)
    <3>1. left \in Seq(Byte) /\ right \in Seq(Byte)
      BY <2>4, CoreText
    <3> QED BY <2>5, <3>1
  <2>8. ASSUME NEW c \in qualifiedCore(qualified) PROVE c \in Seq(Byte)
    <3>1. PICK left \in identCore(db),
               right \in IF Dot \in Range(table) THEN Backticked(table) ELSE identCore(table) :
               c = left \o <<Dot>> \o right
      BY <2>6
    <3> QED BY <2>7, <3>1
  <2> QED BY <2>8
<1> QED BY <1>1, <1>2

LEMMA SwappedText ==
    ASSUME NEW s \in Seq(Byte), NEW was \in Seq(Byte), NEW caller \in Seq(Byte)
    PROVE  flexibleSQLReplace(s, was, caller) \in Seq(Byte)
<1> DEFINE hits == {i \in DOMAIN s : At(s, i, was)}
           pattern == flexible(was)
           Lengths(i) == IF flexible(<<s[i]>>) # <<pattern[1]>> THEN {}
                         ELSE {n \in 1..(Len(s) - i + 1) : flexible(SubSeq(s, i, i + n - 1)) = pattern}
           longest == [i \in DOMAIN s |-> Longest(Lengths(i))]
<1>1. CASE was = <<>>
  BY <1>1 DEF flexibleSQLReplace
<1>2. CASE was # <<>> /\ hits # {}
  <2> DEFINE first == Min(hits)
             before == SubSeq(s, 1, first - 1)
             behind == SubSeq(s, first + Len(was), Len(s))
  <2>1. hits \subseteq Nat
    OBVIOUS
  <2>2. first \in hits
    <3> HIDE DEF hits
    <3> QED BY <1>2, <2>1, MinIs
  <2>3. first \in 1..Len(s)
    <3> HIDE DEF first
    <3> QED BY <2>2
  <2> HIDE DEF first
  <2>4. before \in Seq(Byte) /\ behind \in Seq(Byte)
    BY <2>3
  <2>5. flexibleSQLReplace(s, was, caller) = before \o caller \o behind
    BY <1>2 DEF flexibleSQLReplace, first
  <2> HIDE DEF before, behind
  <2> QED BY <2>4, <2>5
<1>3. CASE was # <<>> /\ hits = {}
  <2>1. ASSUME NEW i \in 1..Len(s) PROVE Lengths(i) \subseteq 0..(Len(s) - i + 1)
    <3> HIDE DEF pattern
    <3> QED OBVIOUS
  <2>2. ASSUME NEW i \in 1..Len(s) PROVE longest[i] \in 0..(Len(s) - i + 1)
    <3>1. longest[i] = Longest(Lengths(i))
      <4> HIDE DEF Lengths
      <4> QED OBVIOUS
    <3>2. Len(s) - i + 1 \in Nat
      OBVIOUS
    <3> HIDE DEF Lengths, longest
    <3> QED BY <2>1, <3>1, <3>2, LongestIs
  <2>3. flexibleSQLReplace(s, was, caller) = ReplaceMatches(s, longest, DOMAIN s, caller)
    BY <1>3 DEF flexibleSQLReplace
  <2> HIDE DEF longest
  <2> QED BY <2>2, <2>3, ReplacedText
<1> QED BY <1>1, <1>2, <1>3

---------------------------------------------------------------------------
(* The inversion. *)

(* Every place before n where the name stands in the text is part of a     *)
(* longer word.                                                            *)
Rejected(name, n) ==
    \A i \in DOMAIN text : i < n /\ At(text, i, name) => ~Delimited(text, i, Len(name))

(* The names still to substitute are names of the map under way, and the   *)
(* text stays a text.  While it is judged, the identifiers done with stand *)
(* nowhere in it, and the one sought does not stand before from.           *)
EInv ==
    /\ err \in Errors /\ from \in Nat \ {0}
    /\ stage \in {"sql", "tables", "databases", "check", "done"}
    /\ stage \in {"sql", "tables", "databases"} => from = 1
    /\ stage = "tables" => keys \subseteq DOMAIN err.tables
    /\ stage = "databases" => keys \subseteq DOMAIN err.databases
    /\ stage = "check" => /\ \A name \in err.hidden \ keys : ~StandsIn(name, text)
                          /\ Rejected(Sought, from)
    /\ text = Withheld \/ text \in Seq(Byte)
    /\ stage # "done" => text \in Seq(Byte)
    /\ NoHiddenNameLeft

LEMMA EInit == InversionInit => EInv
<1> SUFFICES ASSUME InversionInit PROVE EInv
  OBVIOUS
<1>1. err \in Errors /\ text \in Seq(Byte) /\ from = 1
  BY ErrorsAssumption DEF InversionInit
<1>2. stage \in {"sql", "done"}
  BY DEF InversionInit
<1>3. NoHiddenNameLeft
  <2> SUFFICES ASSUME stage = "done" PROVE \A name \in err.hidden : ~StandsIn(name, text)
    BY DEF NoHiddenNameLeft
  <2>1. text = <<>>
    BY DEF InversionInit
  <2> QED BY <2>1 DEF StandsIn
<1> QED BY <1>1, <1>2, <1>3 DEF EInv

(* A name that stands in a text is a delimited match of ContainsIdentifier. *)
LEMMA NameStands ==
    ASSUME NEW s \in Seq(Byte), NEW name, StandsIn(name, s)
    PROVE  name # <<>> /\ \E i \in DOMAIN s : At(s, i, name) /\ Delimited(s, i, Len(name))
<1>1. PICK i \in DOMAIN s, j \in DOMAIN s :
         /\ i <= j /\ SubSeq(s, i, j) = name
         /\ i = 1 \/ ~isWordByte(s[i - 1])
         /\ j = Len(s) \/ ~isWordByte(s[j + 1])
  BY DEF StandsIn
<1>2. i \in 1..Len(s) /\ j \in 1..Len(s) /\ i <= j
  BY <1>1
<1>3. Len(name) = j - i + 1
  BY <1>1, <1>2
<1>4. i + Len(name) - 1 = j /\ i + Len(name) = j + 1
  BY <1>2, <1>3
<1>5. At(s, i, name)
  <2>1. j <= Len(s) /\ SubSeq(s, i, j) = name
    BY <1>1, <1>2
  <2> QED BY <1>4, <2>1 DEF At
<1>6. Delimited(s, i, Len(name))
  <2>1. j = Len(s) => j + 1 > Len(s)
    BY <1>2
  <2> QED BY <1>1, <1>4, <2>1 DEF Delimited
<1> QED BY <1>1, <1>5, <1>6 DEF StandsIn

(* The first hit is one, and none lies before it. *)
LEMMA FirstHitIs ==
    ASSUME EInv, Hits # {}
    PROVE  FirstHit \in Hits /\ FirstHit \in Nat /\ \A i \in Hits : FirstHit <= i
<1>1. Hits \subseteq Nat
  <2>1. DOMAIN text \subseteq Nat
    <3>1. text \in Seq(Byte) \/ text = <<-1>>
      BY DEF EInv, Withheld
    <3> QED BY <3>1
  <2> QED BY <2>1 DEF Hits
<1> QED BY <1>1, MinIs DEF FirstHit

LEMMA EStep == EInv /\ [InversionNext]_inversionVars => EInv'
<1> SUFFICES ASSUME EInv, [InversionNext]_inversionVars PROVE EInv'
  OBVIOUS
<1>0. /\ err \in Errors
      /\ {err.message, err.original, err.rewritten} \subseteq Seq(Byte)
      /\ DOMAIN err.tables \subseteq Seq(Byte)
      /\ \A origin \in DOMAIN err.tables : err.tables[origin] \in Seq(Byte)
      /\ DOMAIN err.databases \subseteq Seq(Byte)
      /\ \A origin \in DOMAIN err.databases : err.databases[origin] \in Seq(Byte)
  <2>1. err \in Errors
    BY DEF EInv
  <2>2. err.tables \in {err.tables, err.databases} /\ err.databases \in {err.tables, err.databases}
    OBVIOUS
  <2> QED BY <2>1, <2>2, ErrorsAssumption
<1>1. CASE SwapSQL
  <2>1. text \in Seq(Byte) /\ stage' = "tables" /\ err' = err /\ keys' = DOMAIN err.tables /\ from' = from /\ from = 1
    BY <1>1 DEF SwapSQL, EInv
  <2>2. text' \in Seq(Byte)
    BY <1>0, <1>1, <2>1, SwappedText DEF SwapSQL
  <2> QED BY <1>0, <2>1, <2>2 DEF EInv, NoHiddenNameLeft
<1>2. CASE SubstituteTable
  <2>1. text \in Seq(Byte) /\ stage' = "tables" /\ err' = err /\ keys \subseteq DOMAIN err.tables /\ from' = from /\ from = 1
    BY <1>2 DEF SubstituteTable, EInv
  <2>2. PICK origin \in keys :
          /\ text' = Substituted(err.tables, origin, substituteQualified(text, err.tables[origin], origin))
          /\ keys' = keys \ {origin}
    BY <1>2 DEF SubstituteTable
  <2>3. origin \in Seq(Byte) /\ err.tables[origin] \in Seq(Byte)
    BY <1>0, <2>1
  <2>4. substituteQualified(text, err.tables[origin], origin) \in Seq(Byte)
    BY <2>1, <2>3, QualifiedText, BoundaryText DEF substituteQualified
  <2>5. text' \in Seq(Byte)
    BY <2>1, <2>2, <2>4 DEF Substituted
  <2> QED BY <1>0, <2>1, <2>2, <2>5 DEF EInv, NoHiddenNameLeft
<1>3. CASE TablesDone
  BY <1>0, <1>3 DEF TablesDone, EInv, NoHiddenNameLeft
<1>4. CASE SubstituteDatabase
  <2>1. text \in Seq(Byte) /\ stage' = "databases" /\ err' = err /\ keys \subseteq DOMAIN err.databases /\ from' = from /\ from = 1
    BY <1>4 DEF SubstituteDatabase, EInv
  <2>2. PICK origin \in keys :
          /\ text' = Substituted(err.databases, origin, substituteIdent(text, err.databases[origin], origin))
          /\ keys' = keys \ {origin}
    BY <1>4 DEF SubstituteDatabase
  <2>3. origin \in Seq(Byte) /\ err.databases[origin] \in Seq(Byte)
    BY <1>0, <2>1
  <2>4. substituteIdent(text, err.databases[origin], origin) \in Seq(Byte)
    BY <2>1, <2>3, CoreText, BoundaryText DEF substituteIdent
  <2>5. text' \in Seq(Byte)
    BY <2>1, <2>2, <2>4 DEF Substituted
  <2> QED BY <1>0, <2>1, <2>2, <2>5 DEF EInv, NoHiddenNameLeft
<1>5. CASE DatabasesDone
  <2>1. /\ text \in Seq(Byte) /\ stage' = "check" /\ err' = err /\ text' = text /\ keys' = err.hidden
        /\ from' = from /\ from = 1
    BY <1>5 DEF DatabasesDone, EInv
  <2>2. Rejected(Sought, from)'
    <3>1. \A i \in DOMAIN text : ~(i < 1)
      BY <2>1
    <3> QED BY <2>1, <3>1 DEF Rejected
  <2> QED BY <1>0, <2>1, <2>2 DEF EInv, NoHiddenNameLeft
<1>6. CASE IdentifierFound
  <2>1. stage' = "done" /\ err' = err /\ from' = from /\ text' = Withheld
    BY <1>6 DEF IdentifierFound, WithholdText
  <2> QED BY <1>0, <2>1 DEF EInv, NoHiddenNameLeft
<1>7. CASE SkipHit
  <2>1. /\ stage = "check" /\ Hits # {} /\ ~HitStands /\ from' = FirstHit + 1
        /\ stage' = stage /\ err' = err /\ keys' = keys /\ text' = text
    BY <1>7 DEF SkipHit, Looking
  <2>2. FirstHit \in Hits /\ FirstHit \in Nat /\ \A i \in Hits : FirstHit <= i
    BY <2>1, FirstHitIs
  <2>3. Sought' = Sought
    BY <2>1 DEF Sought
  <2>4. Rejected(Sought, FirstHit + 1)
    <3> SUFFICES ASSUME NEW i \in DOMAIN text, i < FirstHit + 1, At(text, i, Sought)
                 PROVE  ~Delimited(text, i, Len(Sought))
      BY DEF Rejected
    <3>1. text \in Seq(Byte) /\ Rejected(Sought, from) /\ from \in Nat /\ i \in Nat
      BY <2>1 DEF EInv
    <3>2. CASE i < from
      BY <3>1, <3>2 DEF Rejected
    <3>3. CASE ~(i < from)
      <4>1. Sought # <<>>
        BY <2>1 DEF Hits
      <4>2. i \in Hits
        BY <3>1, <3>3, <4>1 DEF Hits
      <4>3. i = FirstHit
        BY <2>2, <3>1, <4>2
      <4> QED BY <2>1, <4>2, <4>3 DEF HitStands
    <3> QED BY <3>2, <3>3
  <2>5. Rejected(Sought, from)'
    <3>1. Rejected(Sought, from)' <=> Rejected(Sought, FirstHit + 1)
      BY <2>1, <2>3 DEF Rejected
    <3> QED BY <2>4, <3>1
  <2>6. from' \in Nat \ {0}
    BY <2>1, <2>2
  <2> QED BY <2>1, <2>5, <2>6 DEF EInv, NoHiddenNameLeft
<1>8. CASE IdentifierAbsent
  <2>1. /\ stage = "check" /\ Hits = {} /\ keys' = keys \ {Sought} /\ from' = 1
        /\ stage' = stage /\ err' = err /\ text' = text /\ text \in Seq(Byte)
    BY <1>8 DEF IdentifierAbsent, Looking, EInv
  <2>2. ~StandsIn(Sought, text)
    <3> SUFFICES ASSUME StandsIn(Sought, text) PROVE FALSE
      OBVIOUS
    <3>1. PICK i \in DOMAIN text : Sought # <<>> /\ At(text, i, Sought) /\ Delimited(text, i, Len(Sought))
      BY <2>1, NameStands
    <3>2. i < from \/ i >= from
      BY <2>1 DEF EInv
    <3>3. Rejected(Sought, from)
      BY <2>1 DEF EInv
    <3> QED BY <2>1, <3>1, <3>2, <3>3 DEF Rejected, Hits
  <2>3. \A name \in err.hidden \ keys' : ~StandsIn(name, text)
    BY <2>1, <2>2 DEF EInv
  <2>4. Rejected(Sought, from)'
    <3>1. \A i \in DOMAIN text : ~(i < 1)
      BY <2>1
    <3> QED BY <2>1, <3>1 DEF Rejected
  <2> QED BY <2>1, <2>3, <2>4 DEF EInv, NoHiddenNameLeft
<1>9. CASE CheckLiterals
  <2>1. /\ stage = "check" /\ keys = {} /\ stage' = "done" /\ err' = err /\ from' = from
        /\ text' \in {text, Withheld}
    BY <1>9 DEF CheckLiterals, WithholdText
  <2>2. \A name \in err.hidden : ~StandsIn(name, text)
    BY <2>1 DEF EInv
  <2> QED BY <1>0, <2>1, <2>2 DEF EInv, NoHiddenNameLeft
<1>10. CASE UNCHANGED inversionVars
  <2>1. Sought' = Sought /\ (Rejected(Sought, from)' <=> Rejected(Sought, from))
    BY <1>10 DEF inversionVars, Sought, Rejected
  <2> QED BY <1>10, <2>1 DEF inversionVars, EInv, NoHiddenNameLeft
<1> QED BY <1>1, <1>2, <1>3, <1>4, <1>5, <1>6, <1>7, <1>8, <1>9, <1>10 DEF InversionNext

(* RewriteErrorMessage: whatever the message, the rewrite and its maps,    *)
(* and in whatever order names hide in each other or overlap themselves,   *)
(* no hidden physical name stands in a text it returns.                    *)
THEOREM HiddenNamesWithheld == InversionSpec => []NoHiddenNameLeft
<1>1. EInv => NoHiddenNameLeft
  BY DEF EInv
<1> QED BY <1>1, EInit, EStep, PTL DEF InversionSpec

---------------------------------------------------------------------------
(* The names of tables that share a physical database. *)

(* What stands between a logical database and a table in every name.       *)
Between(a) ==
    Pieces(Len(a.extra), [i \in DOMAIN a.extra |-> delimOf(a) \o a.extra[i]],
           [i \in DOMAIN a.extra |-> i + 1]) \o <<Dot>>

(* What is put behind a text is in the text. *)
LEMMA Behind ==
    ASSUME NEW X, NEW s \in Seq(X), NEW e \in X
    PROVE  s \o <<e>> \in Seq(X) /\ e \in Range(s \o <<e>>)
<1>1. s \o <<e>> \in Seq(X) /\ Len(s \o <<e>>) = Len(s) + 1
  OBVIOUS
<1>2. Len(s) + 1 \in DOMAIN (s \o <<e>>) /\ (s \o <<e>>)[Len(s) + 1] = e
  BY <1>1
<1> QED BY <1>2 DEF Range

(* Every name of a table has the same text between its two ends. *)
LEMMA NamesAre ==
    ASSUME NEW a \in Arguments, NEW logical \in Seq(Byte)
    PROVE  /\ Between(a) \in Seq(Byte) /\ Dot \in Range(Between(a))
           /\ BuildDynamicTablePrefix(logical, a) = logical \o Between(a)
           /\ \A table \in Seq(Byte) :
                 table # <<>> => buildDynamicTableName(logical, table, a) = (logical \o Between(a)) \o table
<1> DEFINE piece == [i \in DOMAIN a.extra |-> delimOf(a) \o a.extra[i]]
           next == [i \in DOMAIN a.extra |-> i + 1]
           extras == Pieces(Len(a.extra), piece, next)
<1>1. a.delim \in Seq(Byte) /\ a.extra \in Seq(Seq(Byte))
  BY NamesAssumption
<1>2. delimOf(a) \in Seq(Byte)
  <2>1. <<95>> \in Seq(Byte)
    BY DEF Byte
  <2> QED BY <1>1, <2>1 DEF delimOf
<1>3. Len(a.extra) \in Nat /\ DOMAIN a.extra = 1..Len(a.extra) /\ \A i \in 1..Len(a.extra) : a.extra[i] \in Seq(Byte)
  BY <1>1
<1>4. \A i \in 1..Len(a.extra) : piece[i] \in Seq(Byte) /\ next[i] \in (i + 1)..(Len(a.extra) + 1)
  BY <1>2, <1>3
<1> HIDE DEF piece, next
<1>5. extras \in Seq(Byte)
  BY <1>3, <1>4, PiecesText
<1>6. Between(a) = extras \o <<Dot>> /\ Joined(logical, a) = logical \o extras
  BY DEF Between, Joined, extras, piece, next
<1>7. PICK dot : dot = <<Dot>>
  OBVIOUS
<1>8. dot \in Seq(Byte) /\ Len(dot) = 1 /\ dot[1] = Dot
  BY <1>7 DEF Dot, Byte
<1> HIDE DEF extras
<1>9. Between(a) \in Seq(Byte) /\ Dot \in Range(Between(a))
  <2>1. dot = <<Dot>> /\ Dot \in Byte
    BY <1>7 DEF Dot, Byte
  <2>2. extras \o dot \in Seq(Byte) /\ Dot \in Range(extras \o dot)
    BY <1>5, <2>1, Behind
  <2> QED BY <1>6, <1>7, <2>2
<1>10. (logical \o extras) \o dot = logical \o (extras \o dot)
  BY <1>5, <1>8
<1> QED BY <1>6, <1>7, <1>9, <1>10 DEF BuildDynamicTablePrefix, buildDynamicTableName

(* The first dot of a name stands in what all names have in common, so two *)
(* names that begin alike begin with the same logical database.            *)
LEMMA PrefixOwns ==
    ASSUME NEW mid \in Seq(Byte), Dot \in Range(mid),
           NEW own \in Seq(Byte), NEW other \in Seq(Byte), NEW table \in Seq(Byte),
           ~Dotted(own), ~Dotted(other), IsPrefix(own \o mid, (other \o mid) \o table)
    PROVE  own = other
<1> DEFINE S == {i \in DOMAIN mid : mid[i] = Dot}
           p == own \o mid
           q == (other \o mid) \o table
<1>1. PICK f \in S : \A i \in S : f <= i
  <2>1. S \subseteq Nat /\ S # {}
    BY DEF Range
  <2> HIDE DEF S
  <2> QED BY <2>1, Least
<1>2. f \in 1..Len(mid) /\ mid[f] = Dot /\ \A i \in 1..Len(mid) : i < f => mid[i] # Dot
  BY <1>1
<1>3. /\ \A i \in 1..Len(own) : own[i] # Dot
      /\ \A i \in 1..Len(other) : other[i] # Dot
  BY DEF Dotted, Range
<1>4. /\ Len(own) \in Nat /\ Len(other) \in Nat /\ Len(mid) \in Nat /\ Len(table) \in Nat
      /\ p \in Seq(Byte) /\ q \in Seq(Byte)
      /\ Len(p) = Len(own) + Len(mid) /\ Len(q) = Len(other) + Len(mid) + Len(table)
      /\ \A i \in 1..Len(own) : p[i] = own[i]
      /\ \A i \in 1..Len(mid) : p[Len(own) + i] = mid[i]
      /\ \A i \in 1..Len(other) : q[i] = other[i]
      /\ \A i \in 1..Len(mid) : q[Len(other) + i] = mid[i]
  OBVIOUS
<1>5. Len(p) <= Len(q) /\ \A i \in 1..Len(p) : p[i] = q[i]
  BY <1>4 DEF IsPrefix
<1>6. p[Len(own) + f] = Dot /\ \A i \in 1..(Len(own) + f - 1) : p[i] # Dot
  <2>1. p[Len(own) + f] = Dot
    BY <1>2, <1>4
  <2>2. ASSUME NEW i \in 1..(Len(own) + f - 1) PROVE p[i] # Dot
    <3>1. CASE i <= Len(own)
      BY <1>3, <1>4, <3>1
    <3>2. CASE i > Len(own)
      <4>1. PICK j : j = i - Len(own)
        OBVIOUS
      <4>2. j \in 1..Len(mid) /\ j < f /\ i = Len(own) + j
        BY <1>2, <1>4, <3>2, <4>1
      <4> QED BY <1>2, <1>4, <4>2
    <3> QED BY <1>4, <3>1, <3>2
  <2> QED BY <2>1, <2>2
<1>7. q[Len(other) + f] = Dot /\ \A i \in 1..(Len(other) + f - 1) : q[i] # Dot
  <2>1. q[Len(other) + f] = Dot
    BY <1>2, <1>4
  <2>2. ASSUME NEW i \in 1..(Len(other) + f - 1) PROVE q[i] # Dot
    <3>1. CASE i <= Len(other)
      BY <1>3, <1>4, <3>1
    <3>2. CASE i > Len(other)
      <4>1. PICK j : j = i - Len(other)
        OBVIOUS
      <4>2. j \in 1..Len(mid) /\ j < f /\ i = Len(other) + j
        BY <1>2, <1>4, <3>2, <4>1
      <4> QED BY <1>2, <1>4, <4>2
    <3> QED BY <1>4, <3>1, <3>2
  <2> QED BY <2>1, <2>2
<1>8. Len(own) = Len(other)
  <2> HIDE DEF p, q
  <2>1. ~(Len(own) < Len(other))
    <3> SUFFICES ASSUME Len(own) < Len(other) PROVE FALSE
      OBVIOUS
    <3>1. PICK i : i = Len(own) + f
      OBVIOUS
    <3>2. i \in 1..Len(p) /\ i \in 1..(Len(other) + f - 1)
      BY <1>2, <1>4, <3>1
    <3> QED BY <1>5, <1>6, <1>7, <3>1, <3>2
  <2>2. ~(Len(other) < Len(own))
    <3> SUFFICES ASSUME Len(other) < Len(own) PROVE FALSE
      OBVIOUS
    <3>1. PICK i : i = Len(other) + f
      OBVIOUS
    <3>2. i \in 1..Len(p) /\ i \in 1..(Len(own) + f - 1)
      BY <1>2, <1>4, <3>1
    <3> QED BY <1>5, <1>6, <1>7, <3>1, <3>2
  <2> QED BY <1>4, <2>1, <2>2
<1>9. \A i \in 1..Len(own) : own[i] = other[i]
  <2> HIDE DEF p, q
  <2> SUFFICES ASSUME NEW i \in 1..Len(own) PROVE own[i] = other[i]
    OBVIOUS
  <2>1. i \in 1..Len(p) /\ i \in 1..Len(other)
    BY <1>4, <1>8
  <2> QED BY <1>4, <1>5, <2>1
<1> QED BY <1>8, <1>9

(* The names in the physical database are texts. *)
NamesInv == args \in Arguments /\ stored \subseteq Seq(Byte)

LEMMA NamesStay == NamesInv /\ [NamesNext]_nameVars => NamesInv'
<1> SUFFICES ASSUME NamesInv, [NamesNext]_nameVars PROVE NamesInv'
  OBVIOUS
<1>1. CASE UNCHANGED nameVars
  BY <1>1 DEF NamesInv, nameVars
<1>2. CASE NamesNext
  <2>1. PICK logical \in LogicalDatabases, table \in OriginTables :
           CreateTable(logical, table) \/ DropTable(logical, table)
    BY <1>2 DEF NamesNext
  <2>2. logical \in Seq(Byte) /\ table \in Seq(Byte) /\ args \in Arguments
    BY NamesAssumption DEF NamesInv
  <2>3. table # <<>> /\ args' = args
    BY <2>1 DEF CreateTable, DropTable
  <2>4. buildDynamicTableName(logical, table, args) \in Seq(Byte)
    <3>1. Between(args) \in Seq(Byte)
          /\ buildDynamicTableName(logical, table, args) = (logical \o Between(args)) \o table
      BY <2>2, <2>3, NamesAre
    <3> QED BY <2>2, <3>1
  <2> QED BY <2>1, <2>3, <2>4 DEF NamesInv, CreateTable, DropTable
<1> QED BY <1>1, <1>2

(* A name in the physical database is listed for a logical database only   *)
(* if it was made for it, and then as the table it was made for.           *)
LEMMA ListedOnce ==
    ASSUME NEW a \in Arguments, NEW own \in Seq(Byte), NEW other \in Seq(Byte), NEW table \in Seq(Byte),
           table # <<>>, ~Dotted(own), ~Dotted(other)
    PROVE  LET prefix == BuildDynamicTablePrefix(own, a)
               name   == buildDynamicTableName(other, table, a)
           IN  /\ IsPrefix(prefix, name) <=> own = other
               /\ own = other => /\ SubSeq(name, Len(prefix) + 1, Len(name)) = table
                                 /\ \A n \in Seq(Byte) :
                                       IsPrefix(prefix, n) /\ SubSeq(n, Len(prefix) + 1, Len(n)) = table
                                          => n = name
<1>1. PICK mid, prefix, name :
         mid = Between(a) /\ prefix = BuildDynamicTablePrefix(own, a) /\ name = buildDynamicTableName(other, table, a)
  OBVIOUS
<1>2. mid \in Seq(Byte) /\ Dot \in Range(mid) /\ prefix = own \o mid /\ name = (other \o mid) \o table
  BY <1>1, NamesAre
<1>3. IsPrefix(prefix, name) => own = other
  BY <1>2, PrefixOwns
<1>4. ASSUME own = other
      PROVE  /\ IsPrefix(prefix, name) /\ SubSeq(name, Len(prefix) + 1, Len(name)) = table
             /\ \A n \in Seq(Byte) : IsPrefix(prefix, n) /\ SubSeq(n, Len(prefix) + 1, Len(n)) = table => n = name
  <2>1. prefix \in Seq(Byte) /\ name = prefix \o table
    BY <1>2, <1>4
  <2>2. IsPrefix(prefix, name)
    <3>1. Len(name) = Len(prefix) + Len(table) /\ Len(prefix) \in Nat /\ Len(table) \in Nat /\ name \in Seq(Byte)
      BY <2>1
    <3>2. \A i \in 1..Len(prefix) : name[i] = prefix[i]
      BY <2>1
    <3>3. SubSeq(name, 1, Len(prefix)) = SubSeq(prefix, 1, Len(prefix))
      BY <2>1, <3>1, <3>2
    <3> QED BY <3>1, <3>3 DEF IsPrefix
  <2>3. SubSeq(name, Len(prefix) + 1, Len(name)) = table
    BY <2>1
  <2>4. ASSUME NEW n \in Seq(Byte), IsPrefix(prefix, n), SubSeq(n, Len(prefix) + 1, Len(n)) = table
        PROVE  n = name
    <3>1. Len(prefix) <= Len(n) /\ \A i \in 1..Len(prefix) : n[i] = prefix[i]
      BY <2>1, <2>4 DEF IsPrefix
    <3>2. Len(n) = Len(prefix) + Len(table) /\ Len(prefix) \in Nat /\ Len(table) \in Nat
      BY <2>1, <2>4, <3>1
    <3>3. \A i \in 1..Len(table) : n[Len(prefix) + i] = table[i]
      BY <2>4, <3>2
    <3>4. Len(name) = Len(n) /\ name \in Seq(Byte)
      BY <2>1, <3>2
    <3>5. ASSUME NEW i \in 1..Len(n) PROVE n[i] = name[i]
      <4>1. CASE i <= Len(prefix)
        BY <2>1, <3>1, <3>2, <4>1
      <4>2. CASE i > Len(prefix)
        <5>1. PICK j : j = i - Len(prefix)
          OBVIOUS
        <5>2. j \in 1..Len(table) /\ i = Len(prefix) + j
          BY <3>2, <4>2, <5>1
        <5> QED BY <2>1, <3>3, <5>2
      <4> QED BY <3>2, <4>1, <4>2
    <3> QED BY <3>4, <3>5
  <2> QED BY <2>2, <2>3, <2>4
<1> QED BY <1>1, <1>3, <1>4

(* buildDynamicTableName, BuildDynamicTablePrefix: in a physical database  *)
(* that any number of logical databases share, a statement on a table of   *)
(* one changes that table in its listing and nothing in another's, for any *)
(* names without a dot of the logical databases and any delimiter, extra   *)
(* arguments and table names.                                              *)
THEOREM TenantsStayApart == NamesSpec => TenantsApart
<1> DEFINE Apart ==
      \A own, other \in LogicalDatabases, table \in OriginTables :
          ~Dotted(own) /\ ~Dotted(other) =>
             LET named == IF own = other THEN {table} ELSE {}
             IN  /\ CreateTable(other, table) => ShowTables(own)' = ShowTables(own) \cup named
                 /\ DropTable(other, table) => ShowTables(own)' = ShowTables(own) \ named
<1>1. NamesInv /\ [NamesNext]_nameVars => [Apart]_nameVars
  <2> SUFFICES ASSUME NamesInv,
                      NEW own \in LogicalDatabases, NEW other \in LogicalDatabases, NEW table \in OriginTables,
                      ~Dotted(own), ~Dotted(other), CreateTable(other, table) \/ DropTable(other, table)
               PROVE  LET named == IF own = other THEN {table} ELSE {}
                      IN  /\ CreateTable(other, table) => ShowTables(own)' = ShowTables(own) \cup named
                          /\ DropTable(other, table) => ShowTables(own)' = ShowTables(own) \ named
    BY DEF nameVars
  <2>1. /\ own \in Seq(Byte) /\ other \in Seq(Byte) /\ table \in Seq(Byte)
        /\ args \in Arguments /\ stored \subseteq Seq(Byte) /\ table # <<>> /\ args' = args
    BY NamesAssumption DEF NamesInv, CreateTable, DropTable
  <2>2. PICK prefix, name :
           prefix = BuildDynamicTablePrefix(own, args) /\ name = buildDynamicTableName(other, table, args)
    OBVIOUS
  <2> DEFINE Cut(n) == SubSeq(n, Len(prefix) + 1, Len(n))
             Listing(names) == {Cut(n) : n \in {m \in names : IsPrefix(prefix, m)}}
  <2>3. /\ IsPrefix(prefix, name) <=> own = other
        /\ own = other => Cut(name) = table /\ \A n \in Seq(Byte) : IsPrefix(prefix, n) /\ Cut(n) = table => n = name
    BY <2>1, <2>2, ListedOnce
  <2>4. ShowTables(own) = Listing(stored) /\ ShowTables(own)' = Listing(stored')
    BY <2>1, <2>2 DEF ShowTables
  <2>5. /\ CreateTable(other, table) => stored' = stored \cup {name}
        /\ DropTable(other, table) => stored' = stored \ {name}
    BY <2>2 DEF CreateTable, DropTable
  <2> HIDE DEF Cut
  <2>6. Listing(stored \cup {name}) = Listing(stored) \cup (IF own = other THEN {table} ELSE {})
    BY <2>3
  <2>7. Listing(stored \ {name}) = Listing(stored) \ (IF own = other THEN {table} ELSE {})
    BY <2>1, <2>3
  <2> QED BY <2>4, <2>5, <2>6, <2>7
<1>2. NamesInit => NamesInv
  BY DEF NamesInit, NamesInv
<1>3. TenantsApart <=> [][Apart]_nameVars
  BY DEF TenantsApart
<1> HIDE DEF Apart
<1> QED BY <1>1, <1>2, <1>3, NamesStay, PTL DEF NamesSpec

LEMMA MaxOfTwo ==
    ASSUME NEW a \in Nat, NEW b \in Nat
    PROVE  /\ Max({a, b}) \in {a, b} /\ Max({a, b}) >= a /\ Max({a, b}) >= b
<1> DEFINE S == {a, b}
<1>1. S \subseteq Nat /\ S # {} /\ a + b \in Nat /\ \A n \in S : n <= a + b
  OBVIOUS
<1>2. Max(S) \in S /\ \A n \in S : n <= Max(S)
  <2> HIDE DEF S
  <2> QED BY <1>1, MaxIs
<1>3. Max(S) \in Nat
  BY <1>1, <1>2
<1> QED BY <1>2, <1>3

---------------------------------------------------------------------------
(* The reference: longest common subsequences, for any pairs of twins.     *)

CommonAt(twins, c, t) ==
    IF t[1] = 0 \/ t[2] = 0 THEN 0
    ELSE IF t \in twins THEN 1 + c[<<t[1] - 1, t[2] - 1>>]
    ELSE Max({c[<<t[1] - 1, t[2]>>], c[<<t[1], t[2] - 1>>]})

(* The pairs of offsets that add up to no more than n.                     *)
Corner(n) == {t \in Nat \X Nat : t[1] + t[2] <= n}

IsCommon(twins, c, n) == c = [t \in Corner(n) |-> CommonAt(twins, c, t)]

(* What CommonAt reads lies nearer to the corner.                          *)
LEMMA CornerReads ==
    ASSUME NEW n \in Nat, NEW t \in Corner(n), t[1] # 0, t[2] # 0
    PROVE  /\ <<t[1] - 1, t[2] - 1>> \in Corner(n) /\ <<t[1] - 1, t[2]>> \in Corner(n)
           /\ <<t[1], t[2] - 1>> \in Corner(n)
           /\ n # 0 => /\ <<t[1] - 1, t[2] - 1>> \in Corner(n - 1)
                       /\ <<t[1] - 1, t[2]>> \in Corner(n - 1)
                       /\ <<t[1], t[2] - 1>> \in Corner(n - 1)
  BY DEF Corner

LEMMA CommonAtSame ==
    ASSUME NEW twins, NEW c, NEW e, NEW t \in Nat \X Nat,
           (t[1] # 0 /\ t[2] # 0) =>
                /\ c[<<t[1] - 1, t[2] - 1>>] = e[<<t[1] - 1, t[2] - 1>>]
                /\ c[<<t[1] - 1, t[2]>>] = e[<<t[1] - 1, t[2]>>]
                /\ c[<<t[1], t[2] - 1>>] = e[<<t[1], t[2] - 1>>]
    PROVE  CommonAt(twins, c, t) = CommonAt(twins, e, t)
  BY DEF CommonAt

LEMMA CornerExists ==
    ASSUME NEW twins, NEW n \in Nat
    PROVE  \E c : IsCommon(twins, c, n)
<1> DEFINE Bad == {a \in Nat : ~\E c : IsCommon(twins, c, a)}
<1> SUFFICES ASSUME Bad # {} PROVE FALSE
  OBVIOUS
<1>1. PICK a \in Bad : \A b \in Bad : a <= b
  <2>1. Bad \subseteq Nat
    OBVIOUS
  <2> HIDE DEF Bad
  <2> QED BY <2>1, Least
<1>2. a \in Nat /\ ~\E c : IsCommon(twins, c, a)
  BY <1>1
<1>3. CASE a = 0
  <2> DEFINE c == [t \in Corner(0) |-> 0]
  <2>1. \A t \in Corner(0) : t[1] = 0 /\ t[2] = 0
    BY DEF Corner
  <2>2. \A t \in Corner(0) : CommonAt(twins, c, t) = 0
    <3> HIDE DEF c
    <3> QED BY <2>1 DEF CommonAt
  <2>3. c = [t \in Corner(0) |-> CommonAt(twins, c, t)]
    <3> DEFINE e == c
    <3>1. e = [t \in Corner(0) |-> 0] /\ \A t \in Corner(0) : CommonAt(twins, e, t) = 0
      BY <2>2
    <3> HIDE DEF e
    <3>2. e = [t \in Corner(0) |-> CommonAt(twins, e, t)]
      BY <3>1
    <3> QED BY <3>2 DEF e
  <2> HIDE DEF c
  <2> QED BY <1>2, <1>3, <2>3 DEF IsCommon
<1>4. CASE a # 0
  <2>1. a - 1 \in Nat /\ a - 1 \notin Bad
    BY <1>1, <1>2, <1>4
  <2>2. PICK c : IsCommon(twins, c, a - 1)
    BY <2>1
  <2> DEFINE e == [t \in Corner(a) |-> CommonAt(twins, c, t)]
  <2>3. \A t \in Corner(a - 1) : t \in Corner(a) /\ c[t] = CommonAt(twins, c, t)
    <3>1. \A t \in Corner(a - 1) : t \in Corner(a)
      BY <1>2 DEF Corner
    <3>2. \A t \in Corner(a - 1) : c[t] = CommonAt(twins, c, t)
      BY <2>2 DEF IsCommon
    <3> QED BY <3>1, <3>2
  <2>4. \A t \in Corner(a - 1) : e[t] = c[t]
    BY <2>3
  <2>5. \A t \in Corner(a) : e[t] = CommonAt(twins, c, t)
    OBVIOUS
  <2>9. DOMAIN e = Corner(a) /\ e = [t \in Corner(a) |-> e[t]]
    OBVIOUS
  <2> HIDE DEF e
  <2>6. ASSUME NEW t \in Corner(a) PROVE CommonAt(twins, e, t) = CommonAt(twins, c, t)
    <3>1. t \in Nat \X Nat
      BY DEF Corner
    <3>2. (t[1] # 0 /\ t[2] # 0) =>
            /\ <<t[1] - 1, t[2] - 1>> \in Corner(a - 1)
            /\ <<t[1] - 1, t[2]>> \in Corner(a - 1)
            /\ <<t[1], t[2] - 1>> \in Corner(a - 1)
      BY <1>2, <1>4, CornerReads
    <3>3. (t[1] # 0 /\ t[2] # 0) =>
            /\ e[<<t[1] - 1, t[2] - 1>>] = c[<<t[1] - 1, t[2] - 1>>]
            /\ e[<<t[1] - 1, t[2]>>] = c[<<t[1] - 1, t[2]>>]
            /\ e[<<t[1], t[2] - 1>>] = c[<<t[1], t[2] - 1>>]
      BY <3>2, <2>4
    <3> QED BY <3>1, <3>3, CommonAtSame
  <2>7. e = [t \in Corner(a) |-> CommonAt(twins, e, t)]
    BY <2>5, <2>6, <2>9
  <2> QED BY <1>2, <2>7 DEF IsCommon
<1> QED BY <1>3, <1>4

(* There is only one, however far it goes.                                 *)
LEMMA CornersAgree ==
    ASSUME NEW twins, NEW n \in Nat, NEW m \in Nat, NEW c, NEW e,
           IsCommon(twins, c, n), IsCommon(twins, e, m), NEW t \in Corner(n) \cap Corner(m)
    PROVE  c[t] = e[t]
<1> DEFINE Bad == {s \in Nat : \E u \in Corner(n) \cap Corner(m) : u[1] + u[2] = s /\ c[u] # e[u]}
<1>1. t[1] + t[2] \in Nat
  BY DEF Corner
<1> SUFFICES ASSUME Bad # {} PROVE FALSE
  BY <1>1
<1>2. PICK s \in Bad : \A b \in Bad : s <= b
  <2>1. Bad \subseteq Nat
    OBVIOUS
  <2> HIDE DEF Bad
  <2> QED BY <2>1, Least
<1>3. PICK u \in Corner(n) \cap Corner(m) : u[1] + u[2] = s /\ c[u] # e[u]
  BY <1>2
<1>4. \A w \in Corner(n) \cap Corner(m) : w[1] + w[2] < s => c[w] = e[w]
  <2> SUFFICES ASSUME NEW w \in Corner(n) \cap Corner(m), w[1] + w[2] < s PROVE c[w] = e[w]
    OBVIOUS
  <2>1. w[1] + w[2] \in Nat /\ s \in Nat
    BY <1>2 DEF Corner
  <2>2. w[1] + w[2] \notin Bad
    BY <1>2, <2>1
  <2> QED BY <2>1, <2>2
<1> HIDE DEF Bad
<1>5. c[u] = CommonAt(twins, c, u) /\ e[u] = CommonAt(twins, e, u)
  BY <1>3 DEF IsCommon
<1>6. u \in Nat \X Nat
  BY <1>3 DEF Corner
<1>7. (u[1] # 0 /\ u[2] # 0) =>
        /\ c[<<u[1] - 1, u[2] - 1>>] = e[<<u[1] - 1, u[2] - 1>>]
        /\ c[<<u[1] - 1, u[2]>>] = e[<<u[1] - 1, u[2]>>]
        /\ c[<<u[1], u[2] - 1>>] = e[<<u[1], u[2] - 1>>]
  <2> SUFFICES ASSUME u[1] # 0, u[2] # 0
               PROVE  \A w \in {<<u[1] - 1, u[2] - 1>>, <<u[1] - 1, u[2]>>, <<u[1], u[2] - 1>>} : c[w] = e[w]
    OBVIOUS
  <2>1. \A w \in {<<u[1] - 1, u[2] - 1>>, <<u[1] - 1, u[2]>>, <<u[1], u[2] - 1>>} :
            w \in Corner(n) \cap Corner(m)
    BY <1>3, CornerReads
  <2>2. \A w \in {<<u[1] - 1, u[2] - 1>>, <<u[1] - 1, u[2]>>, <<u[1], u[2] - 1>>} : w[1] + w[2] < s
    BY <1>3, <1>6
  <2> QED BY <1>4, <2>1, <2>2
<1>8. CommonAt(twins, c, u) = CommonAt(twins, e, u)
  BY <1>6, <1>7, CommonAtSame
<1> QED BY <1>3, <1>5, <1>8

LEMMA CommonIs ==
    ASSUME NEW twins, NEW i \in Nat, NEW j \in Nat
    PROVE  Common(twins)[<<i, j>>] = CommonAt(twins, Common(twins), <<i, j>>)
<1> DEFINE part[n \in Nat] == CHOOSE c : IsCommon(twins, c, n)
           whole == [t \in Nat \X Nat |-> part[t[1] + t[2]][t]]
<1>1. ASSUME NEW n \in Nat PROVE IsCommon(twins, part[n], n)
  <2>1. part[n] = CHOOSE c : IsCommon(twins, c, n)
    OBVIOUS
  <2> HIDE DEF part
  <2> QED BY <2>1, CornerExists
<1> HIDE DEF part
<1>2. ASSUME NEW n \in Nat, NEW t \in Corner(n) PROVE whole[t] = part[n][t]
  <2>1. t \in Nat \X Nat /\ t[1] + t[2] \in Nat /\ t \in Corner(t[1] + t[2])
    BY DEF Corner
  <2>2. PICK s : s = t[1] + t[2]
    OBVIOUS
  <2>3. whole[t] = part[s][t]
    BY <2>1, <2>2
  <2>4. IsCommon(twins, part[s], s) /\ IsCommon(twins, part[n], n)
    BY <1>1, <2>1, <2>2
  <2> HIDE DEF whole
  <2>5. t \in Corner(s) \cap Corner(n) /\ s \in Nat
    BY <2>1, <2>2
  <2> QED BY <2>3, <2>4, <2>5, CornersAgree
<1>3. ASSUME NEW t \in Nat \X Nat PROVE whole[t] = CommonAt(twins, whole, t)
  <2>1. PICK n \in Nat : n = t[1] + t[2]
    OBVIOUS
  <2>2. t \in Corner(n)
    BY <2>1 DEF Corner
  <2> HIDE DEF whole
  <2>3. part[n][t] = CommonAt(twins, part[n], t)
    <3>1. IsCommon(twins, part[n], n)
      BY <1>1
    <3>2. PICK c : c = part[n]
      OBVIOUS
    <3>3. c = [v \in Corner(n) |-> CommonAt(twins, c, v)]
      BY <3>1, <3>2 DEF IsCommon
    <3>4. c[t] = CommonAt(twins, c, t)
      BY <3>3, <2>2
    <3> QED BY <3>2, <3>4
  <2>4. (t[1] # 0 /\ t[2] # 0) =>
        /\ whole[<<t[1] - 1, t[2] - 1>>] = part[n][<<t[1] - 1, t[2] - 1>>]
        /\ whole[<<t[1] - 1, t[2]>>] = part[n][<<t[1] - 1, t[2]>>]
        /\ whole[<<t[1], t[2] - 1>>] = part[n][<<t[1], t[2] - 1>>]
    BY <1>2, <2>2, CornerReads
  <2>5. CommonAt(twins, whole, t) = CommonAt(twins, part[n], t)
    BY <2>4, CommonAtSame
  <2> QED BY <1>2, <2>2, <2>3, <2>5
<1>4. whole = [t \in Nat \X Nat |-> CommonAt(twins, whole, t)]
  <2>1. whole = [t \in Nat \X Nat |-> whole[t]]
    OBVIOUS
  <2> HIDE DEF whole
  <2> QED BY <1>3, <2>1
<1> HIDE DEF whole
<1>5. Common(twins) = [t \in Nat \X Nat |-> CommonAt(twins, Common(twins), t)]
  <2>1. \E c : c = [t \in Nat \X Nat |-> CommonAt(twins, c, t)]
    BY <1>4
  <2> QED BY <2>1 DEF Common, CommonAt
<1>6. PICK c : c = Common(twins)
  OBVIOUS
<1>7. c = [t \in Nat \X Nat |-> CommonAt(twins, c, t)] /\ <<i, j>> \in Nat \X Nat
  BY <1>5, <1>6
<1>8. c[<<i, j>>] = CommonAt(twins, c, <<i, j>>)
  BY <1>7
<1> QED BY <1>6, <1>8

---------------------------------------------------------------------------
(* What two beginnings share, and what it costs to turn one into the other.*)

Shared(twins, i, j) == Common(twins)[<<i, j>>]
Cost(twins, i, j) == i + j - 2 * Shared(twins, i, j)

LEMMA SharedIs ==
    ASSUME NEW twins, NEW i \in Nat, NEW j \in Nat
    PROVE  /\ i = 0 \/ j = 0 => Shared(twins, i, j) = 0
           /\ i # 0 /\ j # 0 /\ <<i, j>> \in twins =>
                Shared(twins, i, j) = 1 + Shared(twins, i - 1, j - 1)
           /\ i # 0 /\ j # 0 /\ <<i, j>> \notin twins =>
                Shared(twins, i, j) = Max({Shared(twins, i - 1, j), Shared(twins, i, j - 1)})
<1>1. Common(twins)[<<i, j>>] = CommonAt(twins, Common(twins), <<i, j>>)
  BY CommonIs
<1>2. PICK c : c = Common(twins)
  OBVIOUS
<1>3. c[<<i, j>>] = CommonAt(twins, c, <<i, j>>)
  BY <1>1, <1>2
<1> QED BY <1>2, <1>3 DEF CommonAt, Shared

(* A least counterexample: with the sum of two offsets.                    *)
LEMMA LeastPair ==
    ASSUME NEW B, B \subseteq Nat \X Nat, B # {}
    PROVE  \E t \in B : \A u \in B : t[1] + t[2] <= u[1] + u[2]
<1> DEFINE S == {t[1] + t[2] : t \in B}
<1>1. S \subseteq Nat /\ S # {}
  OBVIOUS
<1>2. PICK n \in S : \A m \in S : n <= m
  <2> HIDE DEF S
  <2> QED BY <1>1, Least
<1>3. PICK t \in B : n = t[1] + t[2]
  BY <1>2
<1>4. \A u \in B : u[1] + u[2] \in S
  OBVIOUS
<1> HIDE DEF S
<1> QED BY <1>2, <1>3, <1>4

LEMMA SharedBounds ==
    ASSUME NEW twins, NEW i \in Nat, NEW j \in Nat
    PROVE  Shared(twins, i, j) \in Nat /\ Shared(twins, i, j) <= i /\ Shared(twins, i, j) <= j
<1> DEFINE Ok(a, b) == Shared(twins, a, b) \in Nat /\ Shared(twins, a, b) <= a /\ Shared(twins, a, b) <= b
           Bad == {t \in Nat \X Nat : ~Ok(t[1], t[2])}
<1> SUFFICES ASSUME Bad # {} PROVE FALSE
  BY <<i, j>> \in Nat \X Nat
<1>1. PICK t \in Bad : \A u \in Bad : t[1] + t[2] <= u[1] + u[2]
  <2>1. Bad \subseteq Nat \X Nat
    OBVIOUS
  <2> HIDE DEF Bad
  <2> QED BY <2>1, LeastPair
<1>2. PICK a \in Nat, b \in Nat : t = <<a, b>>
  BY <1>1
<1>3. ~Ok(a, b) /\ \A m, n \in Nat : m + n < a + b => Ok(m, n)
  <2>1. ~Ok(a, b)
    BY <1>1, <1>2
  <2>2. ASSUME NEW m \in Nat, NEW n \in Nat, m + n < a + b PROVE Ok(m, n)
    <3>1. <<m, n>> \notin Bad
      BY <1>1, <1>2, <2>2
    <3> QED BY <3>1
  <2> QED BY <2>1, <2>2
<1> HIDE DEF Bad
<1>4. a # 0 /\ b # 0
  <2>1. ~Ok(a, b)
    BY <1>3
  <2>2. (a = 0 \/ b = 0) => Shared(twins, a, b) = 0
    BY SharedIs
  <2> QED BY <2>1, <2>2
<1>5. Ok(a - 1, b - 1) /\ Ok(a - 1, b) /\ Ok(a, b - 1)
  <2>1. a - 1 \in Nat /\ b - 1 \in Nat /\ (a - 1) + (b - 1) < a + b /\ (a - 1) + b < a + b /\ a + (b - 1) < a + b
    BY <1>4
  <2> HIDE DEF Ok
  <2> QED BY <1>3, <2>1
<1>6. CASE <<a, b>> \in twins
  <2>1. Shared(twins, a, b) = 1 + Shared(twins, a - 1, b - 1)
    BY <1>4, <1>6, SharedIs
  <2>2. Ok(a, b)
    BY <1>4, <1>5, <2>1
  <2> HIDE DEF Ok
  <2> QED BY <1>3, <2>2
<1>7. CASE <<a, b>> \notin twins
  <2>1. Shared(twins, a, b) = Max({Shared(twins, a - 1, b), Shared(twins, a, b - 1)})
    BY <1>4, <1>7, SharedIs
  <2>2. Shared(twins, a, b) \in {Shared(twins, a - 1, b), Shared(twins, a, b - 1)}
    BY <1>5, <2>1, MaxOfTwo
  <2>3. Ok(a, b)
    BY <1>4, <1>5, <2>2
  <2> HIDE DEF Ok
  <2> QED BY <1>3, <2>3
<1> QED BY <1>6, <1>7

(* One byte more shares at most one byte more.                             *)
LEMMA SharedSteps ==
    ASSUME NEW twins, NEW i \in Nat, NEW j \in Nat
    PROVE  /\ Shared(twins, i, j) <= Shared(twins, i + 1, j)
           /\ Shared(twins, i + 1, j) <= Shared(twins, i, j) + 1
           /\ Shared(twins, i, j) <= Shared(twins, i, j + 1)
           /\ Shared(twins, i, j + 1) <= Shared(twins, i, j) + 1
<1> DEFINE C(a, b) == Shared(twins, a, b)
           Ok(a, b) == /\ C(a, b) <= C(a + 1, b) /\ C(a + 1, b) <= C(a, b) + 1
                       /\ C(a, b) <= C(a, b + 1) /\ C(a, b + 1) <= C(a, b) + 1
           Bad == {t \in Nat \X Nat : ~Ok(t[1], t[2])}
<1> SUFFICES ASSUME Bad # {} PROVE FALSE
  BY <<i, j>> \in Nat \X Nat
<1>1. PICK t \in Bad : \A u \in Bad : t[1] + t[2] <= u[1] + u[2]
  <2>1. Bad \subseteq Nat \X Nat
    OBVIOUS
  <2> HIDE DEF Bad
  <2> QED BY <2>1, LeastPair
<1>2. PICK a \in Nat, b \in Nat : t = <<a, b>>
  BY <1>1
<1>3. ~Ok(a, b) /\ \A m, n \in Nat : m + n < a + b => Ok(m, n)
  <2>1. ~Ok(a, b)
    BY <1>1, <1>2
  <2>2. ASSUME NEW m \in Nat, NEW n \in Nat, m + n < a + b PROVE Ok(m, n)
    <3>1. <<m, n>> \notin Bad
      BY <1>1, <1>2, <2>2
    <3> QED BY <3>1
  <2> QED BY <2>1, <2>2
<1> HIDE DEF Bad
<1>4. \A m, n \in Nat : C(m, n) \in Nat
  BY SharedBounds
<1>5. /\ \A m, n \in Nat : m = 0 \/ n = 0 => C(m, n) = 0
      /\ \A m, n \in Nat : m # 0 /\ n # 0 =>
            \/ <<m, n>> \in twins /\ C(m, n) = 1 + C(m - 1, n - 1)
            \/ /\ C(m, n) \in {C(m - 1, n), C(m, n - 1)}
               /\ C(m, n) >= C(m - 1, n) /\ C(m, n) >= C(m, n - 1)
  <2>1. ASSUME NEW m \in Nat, NEW n \in Nat, m # 0, n # 0, <<m, n>> \notin twins
        PROVE  /\ C(m, n) \in {C(m - 1, n), C(m, n - 1)}
               /\ C(m, n) >= C(m - 1, n) /\ C(m, n) >= C(m, n - 1)
    <3>1. C(m, n) = Max({C(m - 1, n), C(m, n - 1)})
      BY <2>1, SharedIs
    <3>2. m - 1 \in Nat /\ n - 1 \in Nat
      BY <2>1
    <3>3. C(m - 1, n) \in Nat /\ C(m, n - 1) \in Nat
      BY <1>4, <3>2
    <3> HIDE DEF C
    <3> QED BY <3>1, <3>3, MaxOfTwo
  <2> QED BY <2>1, SharedIs
<1> HIDE DEF C
<1>6. C(a, b) <= C(a + 1, b) /\ C(a + 1, b) <= C(a, b) + 1
  <2>1. CASE b = 0
    BY <1>5, <2>1
  <2>2. CASE b # 0
    <3>1. b - 1 \in Nat /\ a + 1 \in Nat /\ a + 1 # 0 /\ (a + 1) - 1 = a /\ (b - 1) + 1 = b /\ a + (b - 1) < a + b
      BY <2>2
    <3>2. Ok(a, b - 1)
      <4> HIDE DEF Ok
      <4> QED BY <1>3, <3>1
    <3>3. /\ C(a, b - 1) <= C(a + 1, b - 1) /\ C(a + 1, b - 1) <= C(a, b - 1) + 1
          /\ C(a, b - 1) <= C(a, b) /\ C(a, b) <= C(a, b - 1) + 1
      BY <3>1, <3>2
    <3>4. \/ C(a + 1, b) = 1 + C(a, b - 1)
          \/ /\ C(a + 1, b) \in {C(a, b), C(a + 1, b - 1)}
             /\ C(a + 1, b) >= C(a, b) /\ C(a + 1, b) >= C(a + 1, b - 1)
      BY <1>5, <2>2, <3>1
    <3>5. C(a, b) \in Nat /\ C(a, b - 1) \in Nat /\ C(a + 1, b - 1) \in Nat /\ C(a + 1, b) \in Nat
      BY <1>4, <3>1
    <3> HIDE DEF Ok
    <3> QED BY <3>3, <3>4, <3>5
  <2> QED BY <2>1, <2>2
<1>7. C(a, b) <= C(a, b + 1) /\ C(a, b + 1) <= C(a, b) + 1
  <2>1. CASE a = 0
    BY <1>5, <2>1
  <2>2. CASE a # 0
    <3>1. a - 1 \in Nat /\ b + 1 \in Nat /\ b + 1 # 0 /\ (b + 1) - 1 = b /\ (a - 1) + 1 = a /\ (a - 1) + b < a + b
      BY <2>2
    <3>2. Ok(a - 1, b)
      <4> HIDE DEF Ok
      <4> QED BY <1>3, <3>1
    <3>3. /\ C(a - 1, b) <= C(a, b) /\ C(a, b) <= C(a - 1, b) + 1
          /\ C(a - 1, b) <= C(a - 1, b + 1) /\ C(a - 1, b + 1) <= C(a - 1, b) + 1
      BY <3>1, <3>2
    <3>4. \/ C(a, b + 1) = 1 + C(a - 1, b)
          \/ /\ C(a, b + 1) \in {C(a - 1, b + 1), C(a, b)}
             /\ C(a, b + 1) >= C(a - 1, b + 1) /\ C(a, b + 1) >= C(a, b)
      BY <1>5, <2>2, <3>1
    <3>5. C(a, b) \in Nat /\ C(a - 1, b) \in Nat /\ C(a - 1, b + 1) \in Nat /\ C(a, b + 1) \in Nat
      BY <1>4, <3>1
    <3> HIDE DEF Ok
    <3> QED BY <3>3, <3>4, <3>5
  <2> QED BY <2>1, <2>2
<1> QED BY <1>3, <1>6, <1>7

LEMMA SharedDiagonal ==
    ASSUME NEW twins, NEW i \in Nat, NEW j \in Nat
    PROVE  /\ Shared(twins, i, j) <= Shared(twins, i + 1, j + 1)
           /\ Shared(twins, i + 1, j + 1) <= Shared(twins, i, j) + 1
<1>1. i + 1 \in Nat /\ j + 1 \in Nat /\ i + 1 # 0 /\ j + 1 # 0 /\ (i + 1) - 1 = i /\ (j + 1) - 1 = j
  OBVIOUS
<1>2. /\ Shared(twins, i, j) \in Nat /\ Shared(twins, i + 1, j) \in Nat
      /\ Shared(twins, i, j + 1) \in Nat /\ Shared(twins, i + 1, j + 1) \in Nat
  BY <1>1, SharedBounds
<1>3. /\ Shared(twins, i + 1, j) <= Shared(twins, i, j) + 1
      /\ Shared(twins, i, j + 1) <= Shared(twins, i, j) + 1
      /\ Shared(twins, i, j) <= Shared(twins, i + 1, j)
      /\ Shared(twins, i + 1, j) <= Shared(twins, i + 1, j + 1)
  BY <1>1, SharedSteps
<1>4. CASE <<i + 1, j + 1>> \in twins
  <2>1. Shared(twins, i + 1, j + 1) = 1 + Shared(twins, i, j)
    <3>1. PICK a, b : a = i + 1 /\ b = j + 1
      OBVIOUS
    <3>2. a \in Nat /\ b \in Nat /\ a # 0 /\ b # 0 /\ a - 1 = i /\ b - 1 = j /\ <<a, b>> \in twins
      BY <1>4, <3>1
    <3>3. Shared(twins, a, b) = 1 + Shared(twins, a - 1, b - 1)
      BY <3>2, SharedIs
    <3> QED BY <3>1, <3>2, <3>3
  <2> QED BY <1>2, <2>1
<1>5. CASE <<i + 1, j + 1>> \notin twins
  <2>1. Shared(twins, i + 1, j + 1) = Max({Shared(twins, i, j + 1), Shared(twins, i + 1, j)})
    <3>1. PICK a, b : a = i + 1 /\ b = j + 1
      OBVIOUS
    <3>2. a \in Nat /\ b \in Nat /\ a # 0 /\ b # 0 /\ a - 1 = i /\ b - 1 = j /\ <<a, b>> \notin twins
      BY <1>5, <3>1
    <3>3. Shared(twins, a, b) = Max({Shared(twins, a - 1, b), Shared(twins, a, b - 1)})
      BY <3>2, SharedIs
    <3> QED BY <3>1, <3>2, <3>3
  <2>2. Shared(twins, i + 1, j + 1) \in {Shared(twins, i, j + 1), Shared(twins, i + 1, j)}
    BY <1>2, <2>1, MaxOfTwo
  <2> QED BY <1>2, <1>3, <2>2
<1> QED BY <1>4, <1>5

(* Step by step to every number.                                           *)
LEMMA Climb ==
    ASSUME NEW S, 0 \in S, \A n \in Nat : n \in S => n + 1 \in S
    PROVE  \A n \in Nat : n \in S
<1> DEFINE Bad == {n \in Nat : n \notin S}
<1> SUFFICES ASSUME Bad # {} PROVE FALSE
  OBVIOUS
<1>1. PICK m \in Bad : \A n \in Bad : m <= n
  <2>1. Bad \subseteq Nat
    OBVIOUS
  <2> HIDE DEF Bad
  <2> QED BY <2>1, Least
<1>2. m \in Nat /\ m # 0 /\ m - 1 \in Nat /\ (m - 1) + 1 = m /\ m - 1 \notin Bad
  BY <1>1
<1>3. m - 1 \in S
  BY <1>2
<1>4. m \in S
  BY <1>2, <1>3
<1> QED BY <1>1, <1>4

LEMMA SharedFurther ==
    ASSUME NEW twins, NEW i \in Nat, NEW j \in Nat, NEW n \in Nat
    PROVE  /\ Shared(twins, i, j) <= Shared(twins, i + n, j)
           /\ Shared(twins, i + n, j) <= Shared(twins, i, j) + n
           /\ Shared(twins, i, j) <= Shared(twins, i, j + n)
           /\ Shared(twins, i, j) <= Shared(twins, i + n, j + n)
           /\ Shared(twins, i + n, j + n) <= Shared(twins, i, j) + n
<1> DEFINE C(a, b) == Shared(twins, a, b)
           Ok(a) == /\ C(i, j) <= C(i + a, j) /\ C(i + a, j) <= C(i, j) + a
                    /\ C(i, j) <= C(i, j + a)
                    /\ C(i, j) <= C(i + a, j + a) /\ C(i + a, j + a) <= C(i, j) + a
           S == {a \in Nat : Ok(a)}
<1>1. \A a, b \in Nat : C(a, b) \in Nat
  BY SharedBounds
<1>2. \A a, b \in Nat : /\ C(a, b) <= C(a + 1, b) /\ C(a + 1, b) <= C(a, b) + 1
                        /\ C(a, b) <= C(a, b + 1)
                        /\ C(a, b) <= C(a + 1, b + 1) /\ C(a + 1, b + 1) <= C(a, b) + 1
  BY SharedSteps, SharedDiagonal
<1> HIDE DEF C
<1>3. 0 \in S
  <2>1. i + 0 = i /\ j + 0 = j /\ C(i, j) \in Nat
    BY <1>1
  <2> QED BY <2>1
<1>4. ASSUME NEW a \in Nat, a \in S PROVE a + 1 \in S
  <2>1. PICK u, v : u = i + a /\ v = j + a
    OBVIOUS
  <2>2. u \in Nat /\ v \in Nat /\ u + 1 \in Nat /\ v + 1 \in Nat
        /\ i + (a + 1) = u + 1 /\ j + (a + 1) = v + 1
    BY <2>1
  <2>3. /\ C(i, j) <= C(u, j) /\ C(u, j) <= C(i, j) + a
        /\ C(i, j) <= C(i, v)
        /\ C(i, j) <= C(u, v) /\ C(u, v) <= C(i, j) + a
    BY <1>4, <2>1
  <2>4. /\ C(u, j) <= C(u + 1, j) /\ C(u + 1, j) <= C(u, j) + 1
        /\ C(i, v) <= C(i, v + 1)
        /\ C(u, v) <= C(u + 1, v + 1) /\ C(u + 1, v + 1) <= C(u, v) + 1
    BY <1>2, <2>2
  <2>5. /\ C(u, j) \in Nat /\ C(i, v) \in Nat /\ C(u, v) \in Nat /\ C(i, j) \in Nat
        /\ C(u + 1, j) \in Nat /\ C(i, v + 1) \in Nat /\ C(u + 1, v + 1) \in Nat
    BY <1>1, <2>2
  <2>6. Ok(a + 1)
    <3>1. /\ C(i, j) <= C(u + 1, j) /\ C(u + 1, j) <= C(i, j) + (a + 1)
          /\ C(i, j) <= C(i, v + 1)
          /\ C(i, j) <= C(u + 1, v + 1) /\ C(u + 1, v + 1) <= C(i, j) + (a + 1)
      BY <2>3, <2>4, <2>5
    <3> QED BY <2>2, <3>1
  <2> HIDE DEF Ok
  <2> QED BY <2>6
<1>5. n \in S
  <2> HIDE DEF S
  <2> QED BY <1>3, <1>4, Climb
<1> QED BY <1>5 DEF C

LEMMA SharedRun ==
    ASSUME NEW twins, NEW i \in Nat, NEW j \in Nat, NEW n \in Nat,
           \A m \in 1..n : <<i + m, j + m>> \in twins
    PROVE  Shared(twins, i + n, j + n) = Shared(twins, i, j) + n
<1> DEFINE S == {a \in Nat : a <= n => Shared(twins, i + a, j + a) = Shared(twins, i, j) + a}
<1>1. 0 \in S
  <2>1. i + 0 = i /\ j + 0 = j /\ Shared(twins, i, j) \in Nat
    BY SharedBounds
  <2> QED BY <2>1
<1>2. ASSUME NEW a \in Nat, a \in S PROVE a + 1 \in S
  <2> SUFFICES ASSUME a + 1 <= n
               PROVE  Shared(twins, i + (a + 1), j + (a + 1)) = Shared(twins, i, j) + (a + 1)
    OBVIOUS
  <2>1. Shared(twins, i + a, j + a) = Shared(twins, i, j) + a
    BY <1>2
  <2>2. PICK u, v : u = i + (a + 1) /\ v = j + (a + 1)
    OBVIOUS
  <2>3. u \in Nat /\ v \in Nat /\ u # 0 /\ v # 0 /\ u - 1 = i + a /\ v - 1 = j + a
    BY <2>2
  <2>4. <<u, v>> \in twins
    BY <2>2
  <2>5. Shared(twins, u, v) = 1 + Shared(twins, i + a, j + a)
    <3>1. Shared(twins, u, v) = 1 + Shared(twins, u - 1, v - 1)
      BY <2>3, <2>4, SharedIs
    <3> QED BY <2>3, <3>1
  <2>6. Shared(twins, i, j) \in Nat
    BY SharedBounds
  <2> HIDE DEF S
  <2>7. Shared(twins, u, v) = Shared(twins, i, j) + (a + 1)
    BY <2>1, <2>5, <2>6
  <2> QED BY <2>2, <2>7
<1>3. n \in S
  <2> HIDE DEF S
  <2> QED BY <1>1, <1>2, Climb
<1> QED BY <1>3

(* A byte without a twin shares nothing.                                   *)
LEMMA NoTwinRow ==
    ASSUME NEW twins, NEW i \in Nat, NEW j \in Nat, \A b \in Nat : <<i + 1, b>> \notin twins
    PROVE  Shared(twins, i + 1, j) = Shared(twins, i, j)
<1> DEFINE C(a, b) == Shared(twins, a, b)
           S == {b \in Nat : C(i + 1, b) = C(i, b)}
<1>1. i + 1 \in Nat /\ i + 1 # 0 /\ (i + 1) - 1 = i
  OBVIOUS
<1>2. 0 \in S
  <2>1. C(i + 1, 0) = 0 /\ C(i, 0) = 0
    BY <1>1, SharedIs
  <2> QED BY <2>1
<1>3. ASSUME NEW b \in Nat, b \in S PROVE b + 1 \in S
  <2>1. b + 1 \in Nat /\ b + 1 # 0 /\ (b + 1) - 1 = b /\ <<i + 1, b + 1>> \notin twins
    OBVIOUS
  <2>2. C(i + 1, b + 1) = Max({C(i, b + 1), C(i + 1, b)})
    <3>1. PICK u, v : u = i + 1 /\ v = b + 1
      OBVIOUS
    <3>2. Shared(twins, u, v) = Max({Shared(twins, u - 1, v), Shared(twins, u, v - 1)})
      BY <1>1, <2>1, <3>1, SharedIs
    <3> QED BY <1>1, <2>1, <3>1, <3>2
  <2>3. C(i + 1, b) = C(i, b)
    BY <1>3
  <2>4. C(i, b) \in Nat /\ C(i, b + 1) \in Nat /\ C(i, b) <= C(i, b + 1)
    BY <2>1, SharedBounds, SharedSteps
  <2> HIDE DEF C
  <2>5. C(i + 1, b + 1) = C(i, b + 1)
    BY <2>2, <2>3, <2>4, MaxOfTwo
  <2> QED BY <2>5
<1>4. j \in S
  <2> HIDE DEF S
  <2> QED BY <1>2, <1>3, Climb
<1> QED BY <1>4

LEMMA NoTwinColumn ==
    ASSUME NEW twins, NEW i \in Nat, NEW j \in Nat, \A a \in Nat : <<a, j + 1>> \notin twins
    PROVE  Shared(twins, i, j + 1) = Shared(twins, i, j)
<1> DEFINE C(a, b) == Shared(twins, a, b)
           S == {a \in Nat : C(a, j + 1) = C(a, j)}
<1>1. j + 1 \in Nat /\ j + 1 # 0 /\ (j + 1) - 1 = j
  OBVIOUS
<1>2. 0 \in S
  <2>1. C(0, j + 1) = 0 /\ C(0, j) = 0
    BY <1>1, SharedIs
  <2> QED BY <2>1
<1>3. ASSUME NEW a \in Nat, a \in S PROVE a + 1 \in S
  <2>1. a + 1 \in Nat /\ a + 1 # 0 /\ (a + 1) - 1 = a /\ <<a + 1, j + 1>> \notin twins
    OBVIOUS
  <2>2. C(a + 1, j + 1) = Max({C(a, j + 1), C(a + 1, j)})
    <3>1. PICK u, v : u = a + 1 /\ v = j + 1
      OBVIOUS
    <3>2. Shared(twins, u, v) = Max({Shared(twins, u - 1, v), Shared(twins, u, v - 1)})
      BY <1>1, <2>1, <3>1, SharedIs
    <3> QED BY <1>1, <2>1, <3>1, <3>2
  <2>3. C(a, j + 1) = C(a, j)
    BY <1>3
  <2>4. C(a, j) \in Nat /\ C(a + 1, j) \in Nat /\ C(a, j) <= C(a + 1, j)
    BY <2>1, SharedBounds, SharedSteps
  <2> HIDE DEF C
  <2>5. C(a + 1, j + 1) = C(a + 1, j)
    BY <2>2, <2>3, <2>4, MaxOfTwo
  <2> QED BY <2>5
<1>4. i \in S
  <2> HIDE DEF S
  <2> QED BY <1>2, <1>3, Climb
<1> QED BY <1>4

LEMMA NoTwinRows ==
    ASSUME NEW twins, NEW i \in Nat, NEW j \in Nat, NEW n \in Nat,
           \A a \in (i + 1)..(i + n), b \in Nat : <<a, b>> \notin twins
    PROVE  Shared(twins, i + n, j) = Shared(twins, i, j)
<1> DEFINE S == {a \in Nat : a <= n => Shared(twins, i + a, j) = Shared(twins, i, j)}
<1>1. 0 \in S
  <2>1. i + 0 = i
    OBVIOUS
  <2> QED BY <2>1
<1>2. ASSUME NEW a \in Nat, a \in S PROVE a + 1 \in S
  <2> SUFFICES ASSUME a + 1 <= n PROVE Shared(twins, i + (a + 1), j) = Shared(twins, i, j)
    OBVIOUS
  <2>1. Shared(twins, i + a, j) = Shared(twins, i, j)
    BY <1>2
  <2>2. i + a \in Nat /\ (i + a) + 1 = i + (a + 1) /\ (i + a) + 1 \in (i + 1)..(i + n)
    OBVIOUS
  <2>3. Shared(twins, (i + a) + 1, j) = Shared(twins, i + a, j)
    BY <2>2, NoTwinRow
  <2> QED BY <2>1, <2>2, <2>3
<1>3. n \in S
  <2> HIDE DEF S
  <2> QED BY <1>1, <1>2, Climb
<1> QED BY <1>3

LEMMA NoTwinColumns ==
    ASSUME NEW twins, NEW i \in Nat, NEW j \in Nat, NEW n \in Nat,
           \A a \in Nat, b \in (j + 1)..(j + n) : <<a, b>> \notin twins
    PROVE  Shared(twins, i, j + n) = Shared(twins, i, j)
<1> DEFINE S == {b \in Nat : b <= n => Shared(twins, i, j + b) = Shared(twins, i, j)}
<1>1. 0 \in S
  <2>1. j + 0 = j
    OBVIOUS
  <2> QED BY <2>1
<1>2. ASSUME NEW b \in Nat, b \in S PROVE b + 1 \in S
  <2> SUFFICES ASSUME b + 1 <= n PROVE Shared(twins, i, j + (b + 1)) = Shared(twins, i, j)
    OBVIOUS
  <2>1. Shared(twins, i, j + b) = Shared(twins, i, j)
    BY <1>2
  <2>2. j + b \in Nat /\ (j + b) + 1 = j + (b + 1) /\ (j + b) + 1 \in (j + 1)..(j + n)
    OBVIOUS
  <2>3. Shared(twins, i, (j + b) + 1) = Shared(twins, i, j + b)
    BY <2>2, NoTwinColumn
  <2> QED BY <2>1, <2>2, <2>3
<1>3. n \in S
  <2> HIDE DEF S
  <2> QED BY <1>1, <1>2, Climb
<1> QED BY <1>3

---------------------------------------------------------------------------
(* The search: what e edits reach on a diagonal.                           *)

Diagonals(e) == {e - 2 * h : h \in 0..e}

(* a is the furthest offset of the rewritten text that e edits reach on    *)
(* diagonal j, the texts continued by bytes without twins.                 *)
Reaches(twins, e, j, a) ==
    /\ a \in Nat /\ a - j \in Nat /\ Cost(twins, a, a - j) <= e
    /\ \A b \in Nat : b - j \in Nat /\ Cost(twins, b, b - j) <= e => b <= a

LEMMA ReachesOne ==
    ASSUME NEW twins, NEW e, NEW j, NEW a, NEW b, Reaches(twins, e, j, a), Reaches(twins, e, j, b)
    PROVE  a = b
<1>1. a \in Nat /\ b \in Nat /\ a <= b /\ b <= a
  BY DEF Reaches
<1> QED BY <1>1

LEMMA CostIs ==
    ASSUME NEW twins, NEW i \in Nat, NEW j \in Nat
    PROVE  /\ Cost(twins, i, j) \in Nat /\ Cost(twins, i, j) >= i - j /\ Cost(twins, i, j) >= j - i
           /\ Cost(twins, i, j) <= i + j
           /\ Cost(twins, i + 1, j) <= Cost(twins, i, j) + 1
           /\ Cost(twins, i, j + 1) <= Cost(twins, i, j) + 1
<1>1. /\ Shared(twins, i, j) \in Nat /\ Shared(twins, i + 1, j) \in Nat /\ Shared(twins, i, j + 1) \in Nat
      /\ Shared(twins, i, j) <= i /\ Shared(twins, i, j) <= j
  BY SharedBounds
<1>2. Shared(twins, i, j) <= Shared(twins, i + 1, j) /\ Shared(twins, i, j) <= Shared(twins, i, j + 1)
  BY SharedSteps
<1> QED BY <1>1, <1>2 DEF Cost

(* Between two bytes that are no twins the last edit is one of the two.    *)
LEMMA LastEdit ==
    ASSUME NEW twins, NEW i \in Nat, NEW j \in Nat, NEW e \in Nat,
           <<i + 1, j + 1>> \notin twins, Cost(twins, i + 1, j + 1) <= e
    PROVE  e # 0 /\ (Cost(twins, i, j + 1) <= e - 1 \/ Cost(twins, i + 1, j) <= e - 1)
<1>1. PICK u, v : u = i + 1 /\ v = j + 1
  OBVIOUS
<1>2. u \in Nat /\ v \in Nat /\ u # 0 /\ v # 0 /\ u - 1 = i /\ v - 1 = j /\ <<u, v>> \notin twins
  BY <1>1
<1>3. Shared(twins, u, v) = Max({Shared(twins, u - 1, v), Shared(twins, u, v - 1)})
  BY <1>2, SharedIs
<1>4. Shared(twins, i, v) \in Nat /\ Shared(twins, u, j) \in Nat
  BY <1>2, SharedBounds
<1>5. Shared(twins, u, v) \in {Shared(twins, i, v), Shared(twins, u, j)}
  BY <1>2, <1>3, <1>4, MaxOfTwo
<1>6. Cost(twins, i, v) <= e - 1 \/ Cost(twins, u, j) <= e - 1
  <2>1. u + v - 2 * Shared(twins, u, v) <= e
    BY <1>1 DEF Cost
  <2> QED BY <1>1, <1>4, <1>5, <2>1 DEF Cost
<1>7. Cost(twins, i, v) \in Nat /\ Cost(twins, u, j) \in Nat
  BY <1>2, CostIs
<1> QED BY <1>1, <1>6, <1>7

LEMMA Neighbours ==
    ASSUME NEW e \in Nat, NEW j \in Diagonals(e)
    PROVE  /\ j \in Int /\ -e <= j /\ j <= e
           /\ j # e => j + 1 \in Diagonals(e - 1) /\ j + 2 \in Diagonals(e) /\ e # 0
           /\ j # -e => j - 1 \in Diagonals(e - 1) /\ e # 0
           /\ e = 0 => j = 0
<1>1. PICK h \in 0..e : j = e - 2 * h
  BY DEF Diagonals
<1>2. j # e => /\ h - 1 \in 0..(e - 1) /\ j + 1 = (e - 1) - 2 * (h - 1)
               /\ h - 1 \in 0..e /\ j + 2 = e - 2 * (h - 1) /\ e # 0
  BY <1>1
<1>3. j # -e => h \in 0..(e - 1) /\ j - 1 = (e - 1) - 2 * h /\ e # 0
  BY <1>1
<1> QED BY <1>1, <1>2, <1>3 DEF Diagonals

(* Where e edits first come to on a diagonal.                              *)
LEMMA EntryReached ==
    ASSUME NEW twins, NEW e \in Nat, NEW j \in Diagonals(e), NEW W, NEW r,
           r = Reach(W, e, j),
           e = 0 => W[1] = 0,
           e # 0 => \A i \in Diagonals(e - 1) : Reaches(twins, e - 1, i, W[i])
    PROVE  r \in Nat /\ r - j \in Nat /\ Cost(twins, r, r - j) <= e
<1>1. /\ j \in Int /\ -e <= j /\ j <= e
      /\ j # e => j + 1 \in Diagonals(e - 1) /\ e # 0
      /\ j # -e => j - 1 \in Diagonals(e - 1) /\ e # 0
      /\ e = 0 => j = 0
  BY Neighbours
<1>2. Down(W, e, j) => (e = 0 /\ j = 0 /\ r = 0) \/ (j # e /\ r = W[j + 1])
  <2>1. Down(W, e, j) => r = W[j + 1]
    BY DEF Reach
  <2>2. Down(W, e, j) /\ j = e => j = -e
    BY DEF Down
  <2>3. j = e /\ j = -e => e = 0 /\ j = 0 /\ j + 1 = 1
    BY <1>1
  <2> QED BY <2>1, <2>2, <2>3
<1>3. ~Down(W, e, j) => j # -e /\ r = W[j - 1] + 1
  BY DEF Reach, Down
<1>4. r \in Nat /\ r - j \in Nat /\ Cost(twins, r, r - j) <= e
  <2>1. CASE e = 0 /\ j = 0 /\ r = 0
    <3>1. Shared(twins, 0, 0) = 0
      <4>1. PICK i : i = 0
        OBVIOUS
      <4>2. i \in Nat
        BY <4>1
      <4>3. Shared(twins, i, i) \in Nat /\ Shared(twins, i, i) <= i
        BY <4>2, SharedBounds
      <4> QED BY <4>1, <4>3
    <3>2. Cost(twins, 0, 0) = 0
      BY <3>1 DEF Cost
    <3>3. r = 0 /\ r - j = 0
      BY <2>1
    <3> QED BY <2>1, <3>2, <3>3
  <2>2. CASE j # e /\ r = W[j + 1]
    <3>1. Reaches(twins, e - 1, j + 1, r)
      BY <1>1, <2>2
    <3>2. PICK b : b = r - (j + 1)
      OBVIOUS
    <3>3. r \in Nat /\ b \in Nat /\ Cost(twins, r, b) <= e - 1
      BY <3>1, <3>2 DEF Reaches
    <3>4. b + 1 = r - j
      BY <1>1, <3>2, <3>3
    <3>5. Cost(twins, r, b + 1) <= Cost(twins, r, b) + 1 /\ Cost(twins, r, b) \in Nat /\ Cost(twins, r, b + 1) \in Nat
      BY <3>3, CostIs
    <3>6. Cost(twins, r, b + 1) <= e
      BY <3>3, <3>5
    <3> QED BY <3>3, <3>4, <3>6
  <2>3. CASE j # -e /\ r = W[j - 1] + 1
    <3>1. PICK a : a = W[j - 1]
      OBVIOUS
    <3>2. Reaches(twins, e - 1, j - 1, a)
      BY <1>1, <2>3, <3>1
    <3>3. PICK b : b = a - (j - 1)
      OBVIOUS
    <3>4. a \in Nat /\ b \in Nat /\ Cost(twins, a, b) <= e - 1
      BY <3>2, <3>3 DEF Reaches
    <3>5. r = a + 1 /\ r - j = b
      BY <1>1, <2>3, <3>1, <3>3, <3>4
    <3>6. Cost(twins, a + 1, b) <= Cost(twins, a, b) + 1 /\ Cost(twins, a, b) \in Nat /\ Cost(twins, a + 1, b) \in Nat
      BY <3>4, CostIs
    <3>7. Cost(twins, a + 1, b) <= e
      BY <3>4, <3>6
    <3> QED BY <3>4, <3>5, <3>7
  <2> QED BY <1>2, <1>3, <2>1, <2>2, <2>3
<1> QED BY <1>4

(* And where the equal run from there ends.                                *)
LEMMA FurthestReached ==
    ASSUME NEW twins, NEW e \in Nat, NEW j \in Diagonals(e), NEW W, NEW r, NEW s \in Nat,
           r = Reach(W, e, j),
           e = 0 => W[1] = 0,
           e # 0 => \A i \in Diagonals(e - 1) : Reaches(twins, e - 1, i, W[i]),
           \A m \in 1..s : <<r + m, (r - j) + m>> \in twins,
           <<r + s + 1, (r - j) + s + 1>> \notin twins
    PROVE  Reaches(twins, e, j, r + s)
<1>1. /\ j \in Int /\ -e <= j /\ j <= e
      /\ j # e => j + 1 \in Diagonals(e - 1) /\ e # 0
      /\ j # -e => j - 1 \in Diagonals(e - 1) /\ e # 0
      /\ e = 0 => j = 0
  BY Neighbours
<1>3. ~Down(W, e, j) => j # -e /\ r = W[j - 1] + 1
  BY DEF Reach, Down
<1>4. r \in Nat /\ r - j \in Nat /\ Cost(twins, r, r - j) <= e
  BY EntryReached
<1>5. PICK c : c = r - j
  OBVIOUS
<1>6. (r + s) \in Nat /\ (r + s) - j = c + s /\ c \in Nat
  BY <1>1, <1>4, <1>5
<1>7. Cost(twins, r + s, c + s) <= e
  <2>1. Shared(twins, r + s, c + s) = Shared(twins, r, c) + s
    <3>1. \A m \in 1..s : <<r + m, c + m>> \in twins
      BY <1>5
    <3>2. r \in Nat /\ c \in Nat /\ s \in Nat
      BY <1>4, <1>6
    <3> QED BY <3>1, <3>2, SharedRun
  <2>2. Shared(twins, r, c) \in Nat
    BY <1>4, <1>6, SharedBounds
  <2>3. r + c - 2 * Shared(twins, r, c) <= e
    BY <1>4, <1>5 DEF Cost
  <2> QED BY <1>4, <1>6, <2>1, <2>2, <2>3 DEF Cost
<1>8. ASSUME NEW b \in Nat, b - j \in Nat, Cost(twins, b, b - j) <= e PROVE b <= r + s
  <2> SUFFICES ASSUME b > r + s PROVE FALSE
    BY <1>6
  <2>1. PICK n : n = b - (r + s + 1)
    OBVIOUS
  <2>2. n \in Nat /\ (r + s + 1) + n = b /\ (c + s + 1) + n = b - j
    BY <1>1, <1>6, <2>1
  <2>3. PICK u, v : u = r + s /\ v = c + s
    OBVIOUS
  <2>4. u \in Nat /\ v \in Nat /\ (u + 1) + n = b /\ (v + 1) + n = b - j /\ u - v = j
    BY <1>1, <1>6, <2>2, <2>3
  <2>5. Cost(twins, u + 1, v + 1) <= e
    <3>0. u + 1 \in Nat /\ v + 1 \in Nat
      BY <2>4
    <3>1. Shared(twins, (u + 1) + n, (v + 1) + n) <= Shared(twins, u + 1, v + 1) + n
      BY <2>2, <3>0, SharedFurther
    <3>2. Shared(twins, u + 1, v + 1) \in Nat /\ Shared(twins, (u + 1) + n, (v + 1) + n) \in Nat
      BY <2>2, <2>4, SharedBounds
    <3>3. Cost(twins, (u + 1) + n, (v + 1) + n) <= e
      BY <1>8, <2>4
    <3> QED BY <2>2, <2>4, <3>1, <3>2, <3>3 DEF Cost
  <2>6. <<u + 1, v + 1>> \notin twins
    BY <1>5, <2>3
  <2>7. e # 0 /\ (Cost(twins, u, v + 1) <= e - 1 \/ Cost(twins, u + 1, v) <= e - 1)
    BY <2>4, <2>5, <2>6, LastEdit
  <2>8. CASE Cost(twins, u, v + 1) <= e - 1
    <3>1. u - (v + 1) = j - 1 /\ u - (j - 1) = v + 1 /\ v + 1 \in Nat
      BY <2>4
    <3>2. Cost(twins, u, v + 1) \in Nat /\ Cost(twins, u, v + 1) >= (v + 1) - u
      BY <2>4, <3>1, CostIs
    <3>3. j # -e
      BY <1>1, <2>4, <2>8, <3>1, <3>2
    <3>4. Reaches(twins, e - 1, j - 1, W[j - 1])
      BY <1>1, <3>3
    <3>5. u <= W[j - 1] /\ W[j - 1] \in Nat
      BY <2>4, <2>8, <3>1, <3>4 DEF Reaches
    <3>6. r >= W[j - 1] + 1
      <4>1. CASE ~Down(W, e, j)
        BY <1>3, <1>4, <4>1
      <4>2. CASE Down(W, e, j)
        <5>1. j # e /\ W[j - 1] < W[j + 1]
          BY <3>3, <4>2 DEF Down
        <5>2. r = W[j + 1]
          BY <4>2 DEF Reach
        <5> QED BY <1>4, <3>5, <5>1, <5>2
      <4> QED BY <4>1, <4>2
    <3> QED BY <1>4, <2>3, <3>5, <3>6
  <2>9. CASE Cost(twins, u + 1, v) <= e - 1
    <3>1. u + 1 \in Nat /\ (u + 1) - (j + 1) = v
      BY <1>1, <2>4
    <3>2. Cost(twins, u + 1, v) \in Nat /\ Cost(twins, u + 1, v) >= (u + 1) - v
      BY <2>4, <3>1, CostIs
    <3>3. j # e
      BY <1>1, <2>4, <2>9, <3>1, <3>2
    <3>4. Reaches(twins, e - 1, j + 1, W[j + 1])
      BY <1>1, <3>3
    <3>5. u + 1 <= W[j + 1] /\ W[j + 1] \in Nat
      BY <2>4, <2>9, <3>1, <3>4 DEF Reaches
    <3>6. r >= W[j + 1]
      <4>1. CASE Down(W, e, j)
        <5>1. r = W[j + 1]
          BY <4>1 DEF Reach
        <5> QED BY <3>5, <5>1
      <4>2. CASE ~Down(W, e, j)
        <5>1. j # -e /\ r = W[j - 1] + 1 /\ ~(W[j - 1] < W[j + 1])
          BY <1>3, <3>3, <4>2 DEF Down
        <5>2. W[j - 1] \in Nat
          BY <1>1, <5>1 DEF Reaches
        <5> QED BY <3>5, <5>1, <5>2
      <4> QED BY <4>1, <4>2
    <3> QED BY <1>4, <2>3, <2>4, <3>5, <3>6
  <2> QED BY <2>7, <2>8, <2>9
<1>9. Reaches(twins, e, j, r + s)
  <2>1. Cost(twins, r + s, (r + s) - j) <= e
    BY <1>6, <1>7
  <2> QED BY <1>6, <1>8, <2>1 DEF Reaches
<1> QED BY <1>9

---------------------------------------------------------------------------
(* The state of the search and of the walk. *)

Best == Cost(Twins, N, M)

(* Every round but the last is kept with what it reached.                  *)
Searched(e, tr) == \A a \in 1..e : \A j \in Diagonals(a - 1) : Reaches(Twins, a - 1, j, tr[a + 1][j])

(* Behind an offset: the bytes that map onto a twin.                       *)
Kept(f, u) == {i \in u..(N - 1) : f[i] < M /\ rewritten[i + 1] = original[f[i] + 1]}

(* The map behind offsets u and v: in order, beyond v, with a twin for     *)
(* every byte that is not shared before them, and true to a swapped name.  *)
MappedBehind(f, u, v) ==
    /\ \A i \in u..N : f[i] >= v
    /\ \A i, j \in u..N : i <= j => f[i] <= f[j]
    /\ Cardinality(Kept(f, u)) + Shared(Twins, u, v) >= Shared(Twins, N, M)
    /\ \A p, q \in 0..N : Swapped(p, q) =>
          /\ u >= p => Shared(Twins, u, v) = p + (IF u > N - q THEN u - (N - q) ELSE 0)
          /\ \A i \in p..(N - q - 1) : i >= u => f[i] = p

LEMMA TextsHave ==
    ASSUME rewritten \in Texts, original \in Texts
    PROVE  N \in Nat /\ M \in Nat /\ MaxD = N + M /\ MaxD \in Nat
  BY TextsAssumption DEF N, M, MaxD

LEMMA TwinsAre ==
    ASSUME N \in Nat, M \in Nat, NEW i, NEW j
    PROVE  <<i, j>> \in Twins <=> i \in 1..N /\ j \in 1..M /\ rewritten[i] = original[j]
  BY DEF Twins

LEMMA SlideIs ==
    ASSUME N \in Nat, M \in Nat, NEW a \in Nat, NEW b \in Nat
    PROVE  /\ Slide(a, b) \in Nat
           /\ \A m \in 1..Slide(a, b) : <<a + m, b + m>> \in Twins
           /\ <<a + Slide(a, b) + 1, b + Slide(a, b) + 1>> \notin Twins
<1> DEFINE S == {n \in 0..N : \A i \in 1..n : <<a + i, b + i>> \in Twins}
<1>1. 0 \in S /\ S \subseteq Nat /\ \A n \in S : n <= N
  OBVIOUS
<1>2. PICK s : s = Slide(a, b)
  OBVIOUS
<1>3. s \in S /\ \A n \in S : n <= s
  <2>1. s = Max(S)
    BY <1>2 DEF Slide
  <2> HIDE DEF S
  <2> QED BY <1>1, <2>1, MaxIs
<1>4. s \in Nat /\ \A m \in 1..s : <<a + m, b + m>> \in Twins
  BY <1>3
<1>5. <<a + s + 1, b + s + 1>> \notin Twins
  <2> SUFFICES ASSUME <<a + s + 1, b + s + 1>> \in Twins PROVE FALSE
    OBVIOUS
  <2>1. a + s + 1 \in 1..N
    BY TwinsAre
  <2>2. s + 1 \in 0..N
    BY <1>4, <2>1
  <2>3. ASSUME NEW i \in 1..(s + 1) PROVE <<a + i, b + i>> \in Twins
    <3>1. i \in 1..s \/ i = s + 1
      BY <1>4
    <3>2. i = s + 1 => a + i = a + s + 1 /\ b + i = b + s + 1
      BY <1>4
    <3> QED BY <1>4, <3>1, <3>2
  <2>4. s + 1 \in S
    BY <2>2, <2>3
  <2> HIDE DEF S
  <2>5. s + 1 <= s
    BY <1>3, <2>4
  <2> QED BY <1>4, <2>5
<1> QED BY <1>2, <1>4, <1>5

LEMMA FurthestIs ==
    ASSUME N \in Nat, M \in Nat, NEW e \in Nat, NEW j \in Diagonals(e), NEW W,
           e = 0 => W[1] = 0,
           e # 0 => \A i \in Diagonals(e - 1) : Reaches(Twins, e - 1, i, W[i])
    PROVE  \E r, s \in Nat :
              /\ r = Reach(W, e, j) /\ r - j \in Nat /\ Cost(Twins, r, r - j) <= e
              /\ \A m \in 1..s : <<r + m, (r - j) + m>> \in Twins
              /\ Furthest(W, e, j) = r + s
              /\ Reaches(Twins, e, j, r + s)
<1>1. PICK r : r = Reach(W, e, j)
  OBVIOUS
<1>2. r \in Nat /\ r - j \in Nat /\ Cost(Twins, r, r - j) <= e
  BY <1>1, EntryReached
<1>3. PICK s : s = Slide(r, r - j)
  OBVIOUS
<1>4. /\ s \in Nat /\ \A m \in 1..s : <<r + m, (r - j) + m>> \in Twins
      /\ <<r + s + 1, (r - j) + s + 1>> \notin Twins
  BY <1>2, <1>3, SlideIs
<1>5. Furthest(W, e, j) = r + s
  BY <1>1, <1>3 DEF Furthest
<1>6. Reaches(Twins, e, j, r + s)
  BY <1>1, <1>4, FurthestReached
<1> QED BY <1>1, <1>2, <1>4, <1>5, <1>6

LEMMA BestIs ==
    ASSUME N \in Nat, M \in Nat
    PROVE  /\ Best \in 0..(N + M) /\ N - M \in Diagonals(Best)
           /\ \A a, b \in Nat : a >= N /\ b >= M => Cost(Twins, a, b) = Best + (a - N) + (b - M)
<1>1. PICK c : c = Shared(Twins, N, M)
  OBVIOUS
<1>2. c \in Nat /\ c <= N /\ c <= M
  BY <1>1, SharedBounds
<1>3. Best = N + M - 2 * c
  BY <1>1 DEF Best, Cost
<1>4. M - c \in 0..Best /\ N - M = Best - 2 * (M - c)
  BY <1>2, <1>3
<1>5. ASSUME NEW a \in Nat, NEW b \in Nat, a >= N, b >= M
      PROVE  Cost(Twins, a, b) = Best + (a - N) + (b - M)
  <2>1. PICK n, m, u, v : n = N /\ m = M /\ u = a - N /\ v = b - M
    OBVIOUS
  <2>2. n \in Nat /\ m \in Nat /\ u \in Nat /\ v \in Nat /\ n + u = a /\ m + v = b
    BY <1>5, <2>1
  <2>3. Shared(Twins, n + u, b) = Shared(Twins, n, b)
    <3>1. ASSUME NEW i \in (n + 1)..(n + u), NEW j \in Nat PROVE <<i, j>> \notin Twins
      <4>1. i \notin 1..N
        BY <2>1, <2>2
      <4> QED BY <4>1, TwinsAre
    <3> QED BY <2>2, <3>1, NoTwinRows
  <2>4. Shared(Twins, n, m + v) = Shared(Twins, n, m)
    <3>1. ASSUME NEW i \in Nat, NEW j \in (m + 1)..(m + v) PROVE <<i, j>> \notin Twins
      <4>1. j \notin 1..M
        BY <2>1, <2>2
      <4> QED BY <4>1, TwinsAre
    <3>2. \A i \in Nat, j \in (m + 1)..(m + v) : <<i, j>> \notin Twins
      BY <3>1
    <3>3. n \in Nat /\ m \in Nat /\ v \in Nat
      BY <2>2
    <3> HIDE DEF Twins
    <3> QED BY ONLY <3>2, <3>3, NoTwinColumns
  <2>5. Shared(Twins, a, b) = c
    BY <1>1, <2>1, <2>2, <2>3, <2>4
  <2> QED BY <1>2, <1>3, <2>5 DEF Cost
<1>6. Best \in 0..(N + M)
  BY <1>2, <1>3
<1>7. N - M \in Diagonals(Best)
  BY <1>4 DEF Diagonals
<1> QED BY <1>5, <1>6, <1>7

---------------------------------------------------------------------------
(* Names that were swapped. *)

(* Before offset u of the rewritten text, no byte of the new name shares.  *)
LEMMA SwappedShares ==
    ASSUME N \in Nat, M \in Nat, NEW p \in 0..N, NEW q \in 0..N, Swapped(p, q),
           NEW u \in p..N, NEW v \in Nat
    PROVE  /\ Shared(Twins, u, v) <= p + (IF u > N - q THEN u - (N - q) ELSE 0)
           /\ v >= p => Shared(Twins, u, v) >= p
<1>1. /\ p \in Nat /\ q \in Nat /\ p + q < N /\ p + q < M
      /\ \A i \in 1..p : rewritten[i] = original[i]
      /\ \A i \in (p + 1)..(N - q), j \in 1..M : rewritten[i] # original[j]
  BY DEF Swapped, CommonPrefix
<1>2. PICK w, n, m : w = (IF u > N - q THEN N - q ELSE u) /\ n = w - p /\ m = u - w
  OBVIOUS
<1>3. w \in p..(N - q) /\ n \in Nat /\ m \in Nat /\ p + n = w /\ w + m = u /\ w \in Nat
  BY <1>1, <1>2
<1>4. Shared(Twins, p + n, v) = Shared(Twins, p, v)
  <2>1. ASSUME NEW i \in (p + 1)..(p + n), NEW j \in Nat PROVE <<i, j>> \notin Twins
    <3>1. i \in (p + 1)..(N - q)
      BY <1>1, <1>3
    <3> QED BY <1>1, <3>1, TwinsAre
  <2>2. p \in Nat /\ n \in Nat /\ v \in Nat
    BY <1>1, <1>3
  <2>3. \A i \in (p + 1)..(p + n), j \in Nat : <<i, j>> \notin Twins
    BY <2>1
  <2> QED BY ONLY <2>2, <2>3, NoTwinRows
<1>5. Shared(Twins, w + m, v) <= Shared(Twins, w, v) + m /\ Shared(Twins, w, v) <= Shared(Twins, w + m, v)
  BY <1>3, SharedFurther
<1>6. Shared(Twins, p, v) <= p /\ Shared(Twins, p, v) \in Nat /\ Shared(Twins, w, v) \in Nat
      /\ Shared(Twins, u, v) \in Nat
  BY <1>1, <1>3, SharedBounds
<1>7. Shared(Twins, u, v) <= p + m /\ Shared(Twins, p, v) <= Shared(Twins, u, v)
  BY <1>1, <1>3, <1>4, <1>5, <1>6
<1>8. m = IF u > N - q THEN u - (N - q) ELSE 0
  BY <1>2, <1>1
<1>9. ASSUME v >= p PROVE Shared(Twins, p, v) >= p
  <2>1. PICK h, o : h = v - p /\ o = 0
    OBVIOUS
  <2>2. h \in Nat /\ p + h = v /\ o \in Nat /\ o + p = p
    BY <1>1, <1>9, <2>1
  <2>3. Shared(Twins, p, p) <= Shared(Twins, p, p + h)
    BY <1>1, <2>2, SharedFurther
  <2>4. Shared(Twins, o + p, o + p) = Shared(Twins, o, o) + p
    <3>1. ASSUME NEW i \in 1..p PROVE <<o + i, o + i>> \in Twins
      <4>1. i \in 1..N /\ i \in 1..M /\ o + i = i
        BY <1>1, <2>1
      <4> QED BY <1>1, <4>1, TwinsAre
    <3> QED BY <1>1, <2>2, <3>1, SharedRun
  <2>5. Shared(Twins, o, o) \in Nat /\ Shared(Twins, p, p) \in Nat /\ Shared(Twins, p, v) \in Nat
    BY <1>1, <2>2, SharedBounds
  <2> QED BY <1>1, <2>2, <2>3, <2>4, <2>5
<1> QED BY <1>1, <1>6, <1>7, <1>8, <1>9

LEMMA SwappedAll ==
    ASSUME N \in Nat, M \in Nat, NEW p \in 0..N, NEW q \in 0..N, Swapped(p, q)
    PROVE  Shared(Twins, N, M) = p + q
<1>1. /\ p \in Nat /\ q \in Nat /\ p + q < N /\ p + q < M
      /\ \A i \in 0..(q - 1) : rewritten[N - i] = original[M - i]
  BY DEF Swapped
<1>2. PICK n, m, a, b : n = N /\ m = M /\ a = N - q /\ b = M - q
  OBVIOUS
<1>3. a \in Nat /\ b \in Nat /\ a + q = n /\ b + q = m /\ a \in p..N /\ b >= p /\ n \in p..N /\ m \in Nat
      /\ a <= N - q
  BY <1>1, <1>2
<1>4. Shared(Twins, a, b) >= p /\ Shared(Twins, n, m) <= p + q
  <2>1. Shared(Twins, n, m) <= p + (IF n > N - q THEN n - (N - q) ELSE 0)
    BY <1>3, SwappedShares
  <2>2. (IF n > N - q THEN n - (N - q) ELSE 0) = q
    BY <1>1, <1>2
  <2>3. Shared(Twins, a, b) >= p
    BY <1>3, SwappedShares
  <2> QED BY <2>1, <2>2, <2>3
<1>5. Shared(Twins, a + q, b + q) = Shared(Twins, a, b) + q
  <2>1. ASSUME NEW i \in 1..q PROVE <<a + i, b + i>> \in Twins
    <3>1. q - i \in 0..(q - 1) /\ N - (q - i) = a + i /\ M - (q - i) = b + i
      BY <1>1, <1>2
    <3>2. rewritten[a + i] = original[b + i]
      BY <1>1, <3>1
    <3>3. a + i \in 1..N /\ b + i \in 1..M
      BY <1>1, <1>2, <1>3
    <3> QED BY <3>2, <3>3, TwinsAre
  <2>2. \A i \in 1..q : <<a + i, b + i>> \in Twins
    BY <2>1
  <2>3. a \in Nat /\ b \in Nat /\ q \in Nat
    BY <1>1, <1>3
  <2> QED BY ONLY <2>2, <2>3, SharedRun
<1>6. Shared(Twins, a, b) \in Nat /\ Shared(Twins, n, m) \in Nat
  BY <1>3, SharedBounds
<1> QED BY <1>1, <1>2, <1>3, <1>4, <1>5, <1>6

---------------------------------------------------------------------------
(* The walk back. *)

LEMMA KeptFinite ==
    ASSUME N \in Nat, NEW f, NEW u \in Nat
    PROVE  IsFiniteSet(Kept(f, u)) /\ Cardinality(Kept(f, u)) \in Nat
<1>1. IsFiniteSet(u..(N - 1))
  BY FS_Interval
<1>2. Kept(f, u) \subseteq u..(N - 1)
  BY DEF Kept
<1>3. IsFiniteSet(Kept(f, u))
  BY <1>1, <1>2, FS_Subset
<1> QED BY <1>3, FS_CardinalityType

(* Nothing is mapped yet. *)
LEMMA EndsMapped ==
    ASSUME N \in Nat, M \in Nat, NEW f, f[N] = M
    PROVE  MappedBehind(f, N, M)
<1>1. \A i \in N..N : i = N
  OBVIOUS
<1>2. Cardinality(Kept(f, N)) + Shared(Twins, N, M) >= Shared(Twins, N, M)
  <2>1. Cardinality(Kept(f, N)) \in Nat /\ Shared(Twins, N, M) \in Nat
    BY KeptFinite, SharedBounds
  <2> QED BY <2>1
<1>3. ASSUME NEW p \in 0..N, NEW q \in 0..N, Swapped(p, q)
      PROVE  /\ N >= p => Shared(Twins, N, M) = p + (IF N > N - q THEN N - (N - q) ELSE 0)
             /\ \A i \in p..(N - q - 1) : i >= N => f[i] = p
  <2>1. Shared(Twins, N, M) = p + q
    BY <1>3, SwappedAll
  <2>2. (IF N > N - q THEN N - (N - q) ELSE 0) = q
    OBVIOUS
  <2>3. \A i \in p..(N - q - 1) : ~(i >= N)
    OBVIOUS
  <2> QED BY <2>1, <2>2, <2>3
<1> QED BY <1>1, <1>2, <1>3 DEF MappedBehind

(* Before the run: it maps byte to byte. *)
LEMMA RunMapped ==
    ASSUME N \in Nat, M \in Nat, x \in 0..N, y \in 0..M, NEW n \in Nat, n <= x, n <= y,
           NEW f, DOMAIN f = 0..N, \A i \in 0..N : f[i] \in 0..M,
           MappedBehind(f, x, y),
           \A m \in 1..n : <<(x - n) + m, (y - n) + m>> \in Twins
    PROVE  /\ MappedBehind(MapRun(f, n), x - n, y - n)
           /\ DOMAIN MapRun(f, n) = 0..N /\ \A i \in 0..N : MapRun(f, n)[i] \in 0..M
           /\ \A i \in (x - n)..(x - 1) : MapRun(f, n)[i] = y - (x - i)
<1>1. PICK g : g = MapRun(f, n)
  OBVIOUS
<1>2. DOMAIN g = 0..N /\ \A i \in 0..N : g[i] = IF i \in (x - n)..(x - 1) THEN y - (x - i) ELSE f[i]
  BY <1>1 DEF MapRun
<1>3. PICK a, b : a = x - n /\ b = y - n
  OBVIOUS
<1>4. a \in 0..N /\ b \in 0..M /\ a + n = x /\ b + n = y /\ a \in Nat /\ b \in Nat
  BY <1>3
<1>5. \A i \in a..(x - 1) : i \in 0..N /\ g[i] = y - (x - i) /\ g[i] \in b..(y - 1)
  BY <1>2, <1>3, <1>4
<1>6. ASSUME NEW i \in 0..N, ~(i \in a..(x - 1)) PROVE g[i] = f[i]
  <2>1. ~(i \in (x - n)..(x - 1))
    BY <1>3, <1>6, Zenon
  <2> QED BY <1>2, <2>1, Zenon
<1>7. ASSUME NEW i \in 0..N PROVE g[i] \in 0..M
  <2>1. CASE i \in a..(x - 1)
    <3>1. g[i] \in b..(y - 1)
      BY <1>5, <2>1
    <3>2. b..(y - 1) \subseteq 0..M
      BY <1>4
    <3> QED BY <3>1, <3>2
  <2>2. CASE ~(i \in a..(x - 1))
    <3>1. g[i] = f[i] /\ f[i] \in 0..M
      BY <1>6, <2>2, Zenon
    <3> QED BY <3>1
  <2> QED BY <2>1, <2>2
<1>8. \A i \in x..N : i \in 0..N /\ g[i] = f[i] /\ f[i] >= y /\ f[i] \in Nat
  <2>1. \A i \in x..N : i \in 0..N /\ ~(i \in a..(x - 1))
    BY <1>4
  <2>2. \A i \in x..N : f[i] >= y
    BY DEF MappedBehind
  <2> QED BY <1>6, <2>1, <2>2
<1>9. \A i \in a..N : i \in a..(x - 1) \/ i \in x..N
  BY <1>4
<1>10. \A i \in a..N : g[i] >= b
  BY <1>4, <1>5, <1>8, <1>9
<1>11. ASSUME NEW i \in a..N, NEW j \in a..N, i <= j PROVE g[i] <= g[j]
  <2>1. CASE i \in a..(x - 1) /\ j \in a..(x - 1)
    BY <1>4, <1>5, <1>11, <2>1
  <2>2. CASE i \in a..(x - 1) /\ j \in x..N
    BY <1>4, <1>5, <1>8, <2>2
  <2>3. CASE i \in x..N /\ j \in x..N
    <3>1. f[i] <= f[j]
      BY <1>11, <2>3 DEF MappedBehind
    <3> QED BY <1>8, <2>3, <3>1
  <2>4. CASE i \in x..N /\ j \in a..(x - 1)
    BY <1>4, <1>11, <2>4
  <2> QED BY <1>9, <2>1, <2>2, <2>3, <2>4
<1>12. Cardinality(Kept(g, a)) + Shared(Twins, a, b) >= Shared(Twins, N, M)
  <2>1. Kept(f, x) \cup a..(x - 1) \subseteq Kept(g, a)
    <3>1. ASSUME NEW i \in Kept(f, x) PROVE i \in Kept(g, a)
      <4>1. i \in x..(N - 1) /\ i \in x..N /\ i \in a..(N - 1)
        BY <1>4 DEF Kept
      <4>2. g[i] = f[i] /\ f[i] < M /\ rewritten[i + 1] = original[f[i] + 1]
        BY <1>8, <4>1 DEF Kept
      <4> QED BY <4>1, <4>2 DEF Kept
    <3>2. ASSUME NEW i \in a..(x - 1) PROVE i \in Kept(g, a)
      <4>1. PICK m : m = (i - a) + 1
        OBVIOUS
      <4>2. m \in 1..n /\ (x - n) + m = i + 1 /\ (y - n) + m = g[i] + 1
        BY <1>3, <1>4, <1>5, <4>1
      <4>3. <<i + 1, g[i] + 1>> \in Twins
        BY <4>2
      <4>4. rewritten[i + 1] = original[g[i] + 1]
        BY <4>3, TwinsAre
      <4>5. g[i] < M /\ i \in a..(N - 1)
        BY <1>4, <1>5
      <4> QED BY <4>4, <4>5 DEF Kept
    <3> QED BY <3>1, <3>2
  <2>2. IsFiniteSet(Kept(f, x)) /\ IsFiniteSet(Kept(g, a))
        /\ Cardinality(Kept(f, x)) \in Nat /\ Cardinality(Kept(g, a)) \in Nat
    BY <1>4, KeptFinite
  <2>3. IsFiniteSet(a..(x - 1)) /\ Cardinality(a..(x - 1)) = n
    <3>1. IsFiniteSet(a..(x - 1))
      BY <1>4, FS_Interval
    <3>2. Cardinality(a..(x - 1)) = IF a > x - 1 THEN 0 ELSE (x - 1) - a + 1
      BY <1>4, FS_Interval
    <3> QED BY <1>4, <3>1, <3>2
  <2>4. Kept(f, x) \cap a..(x - 1) = {}
    BY <1>4 DEF Kept
  <2>5. Cardinality(Kept(f, x) \cup a..(x - 1)) = Cardinality(Kept(f, x)) + n
    <3>1. IsFiniteSet({}) /\ Cardinality({}) = 0
      BY FS_EmptySet
    <3>2. Cardinality(Kept(f, x) \cup a..(x - 1)) =
            Cardinality(Kept(f, x)) + Cardinality(a..(x - 1)) - Cardinality(Kept(f, x) \cap a..(x - 1))
      BY <2>2, <2>3, FS_Union
    <3>3. Cardinality(Kept(f, x) \cap a..(x - 1)) = 0
      BY <2>4, <3>1
    <3>4. PICK i : i = Cardinality(Kept(f, x))
      OBVIOUS
    <3>5. i \in Nat /\ Cardinality(Kept(f, x) \cup a..(x - 1)) = i + n - 0
      BY <2>2, <2>3, <3>2, <3>3, <3>4
    <3>6. Cardinality(Kept(f, x) \cup a..(x - 1)) = i + n
      BY <3>5
    <3> QED BY <3>4, <3>6
  <2>6. Cardinality(Kept(f, x) \cup a..(x - 1)) <= Cardinality(Kept(g, a))
    BY <2>1, <2>2, FS_Subset
  <2>7. Shared(Twins, a + n, b + n) = Shared(Twins, a, b) + n
    <3>1. \A m \in 1..n : <<a + m, b + m>> \in Twins
      BY <1>3
    <3> QED BY <1>4, <3>1, SharedRun
  <2>8. Cardinality(Kept(f, x)) + Shared(Twins, x, y) >= Shared(Twins, N, M)
    BY DEF MappedBehind
  <2>9. Shared(Twins, a, b) \in Nat /\ Shared(Twins, N, M) \in Nat
    BY <1>4, SharedBounds
  <2>10. Shared(Twins, x, y) = Shared(Twins, a, b) + n
    BY <1>4, <2>7
  <2>11. PICK i, j, l, m : /\ i = Cardinality(Kept(f, x)) /\ j = Cardinality(Kept(g, a))
                           /\ l = Shared(Twins, a, b) /\ m = Shared(Twins, N, M)
    OBVIOUS
  <2>12. i + n <= j /\ i + (l + n) >= m /\ i \in Nat /\ j \in Nat /\ l \in Nat /\ m \in Nat
    BY <2>2, <2>5, <2>6, <2>8, <2>9, <2>10, <2>11
  <2>13. j + l >= m
    BY <2>12
  <2> QED BY <2>11, <2>13
<1>13. ASSUME NEW p \in 0..N, NEW q \in 0..N, Swapped(p, q)
       PROVE  /\ a >= p => Shared(Twins, a, b) = p + (IF a > N - q THEN a - (N - q) ELSE 0)
              /\ \A i \in p..(N - q - 1) : i >= a => g[i] = p
  <2>1. /\ p \in Nat /\ q \in Nat /\ p + q < N
        /\ \A i \in (p + 1)..(N - q), j \in 1..M : rewritten[i] # original[j]
    BY <1>13 DEF Swapped
  <2>2. /\ x >= p => Shared(Twins, x, y) = p + (IF x > N - q THEN x - (N - q) ELSE 0)
        /\ \A i \in p..(N - q - 1) : i >= x => f[i] = p
    BY <1>13 DEF MappedBehind
  <2>3. ASSUME NEW i \in a..(x - 1) PROVE i \notin p..(N - q - 1)
    <3>1. PICK m : m = (i - a) + 1
      OBVIOUS
    <3>2. m \in 1..n /\ (x - n) + m = i + 1
      BY <1>3, <1>4, <3>1
    <3>3. PICK j : j = (y - n) + m
      OBVIOUS
    <3>4. <<i + 1, j>> \in Twins
      BY <3>2, <3>3
    <3>5. i + 1 \in 1..N /\ j \in 1..M /\ rewritten[i + 1] = original[j]
      BY <3>4, TwinsAre
    <3>6. i + 1 \notin (p + 1)..(N - q)
      BY <2>1, <3>5
    <3>7. i \in Nat
      BY <1>4
    <3> QED BY <2>1, <3>6, <3>7
  <2>4. ASSUME NEW i \in p..(N - q - 1), i >= a PROVE g[i] = p
    <3>1. i \notin a..(x - 1)
      BY <2>3
    <3>2. i \in x..N
      BY <1>4, <2>1, <2>4, <3>1
    <3> QED BY <1>8, <2>2, <3>2
  <2>5. ASSUME a >= p
        PROVE  Shared(Twins, a, b) = p + (IF a > N - q THEN a - (N - q) ELSE 0)
    <3>1. Shared(Twins, a + n, b + n) = Shared(Twins, a, b) + n
      <4>1. \A m \in 1..n : <<a + m, b + m>> \in Twins
        BY <1>3
      <4> QED BY <1>4, <4>1, SharedRun
    <3>2. Shared(Twins, x, y) = p + (IF x > N - q THEN x - (N - q) ELSE 0)
      BY <1>4, <2>1, <2>2, <2>5
    <3>3. n = 0 \/ a >= N - q
      <4> SUFFICES ASSUME n # 0, a < N - q PROVE FALSE
        BY <1>4, <2>1
      <4>1. a \in a..(x - 1) /\ a \in p..(N - q - 1)
        BY <1>4, <2>1, <2>5
      <4> QED BY <2>3, <4>1
    <3>4. Shared(Twins, a, b) \in Nat
      BY <1>4, SharedBounds
    <3>5. Shared(Twins, x, y) = Shared(Twins, a, b) + n
      BY <1>4, <3>1
    <3>6. PICK l : l = Shared(Twins, a, b)
      OBVIOUS
    <3>7. l \in Nat /\ l + n = p + (IF x > N - q THEN x - (N - q) ELSE 0)
      BY <3>2, <3>4, <3>5, <3>6
    <3>8. l = p + (IF a > N - q THEN a - (N - q) ELSE 0)
      BY <1>4, <2>1, <3>3, <3>7
    <3> QED BY <3>6, <3>8
  <2> QED BY <2>4, <2>5
<1>14. MappedBehind(g, a, b)
  BY <1>10, <1>11, <1>12, <1>13 DEF MappedBehind
<1> QED BY <1>1, <1>2, <1>3, <1>5, <1>7, <1>14

(* Before an insertion: it moves no byte. *)
LEMMA InsertionMapped ==
    ASSUME N \in Nat, M \in Nat, NEW f, \A i \in 0..N : f[i] \in 0..M,
           NEW a \in 0..N, NEW b \in 1..M,
           MappedBehind(f, a, b), Shared(Twins, a, b - 1) = Shared(Twins, a, b)
    PROVE  MappedBehind(f, a, b - 1)
<1>1. ASSUME NEW i \in a..N PROVE f[i] >= b - 1
  <2>1. f[i] >= b /\ f[i] \in Nat
    BY DEF MappedBehind
  <2> QED BY <2>1
<1> QED BY <1>1 DEF MappedBehind

(* Before a deletion, made only where no insertion comes as far: it stands *)
(* where the original continues.                                           *)
LEMMA DeletionMapped ==
    ASSUME N \in Nat, M \in Nat, NEW f, DOMAIN f = 0..N, \A i \in 0..N : f[i] \in 0..M,
           NEW a \in 1..N, NEW b \in 0..M,
           MappedBehind(f, a, b), Shared(Twins, a - 1, b) = Shared(Twins, a, b),
           b # 0 => Shared(Twins, a, b - 1) # Shared(Twins, a, b)
    PROVE  /\ MappedBehind(MapDeleted(f, a - 1, b), a - 1, b)
           /\ DOMAIN MapDeleted(f, a - 1, b) = 0..N
           /\ \A i \in 0..N : MapDeleted(f, a - 1, b)[i] \in 0..M
<1>1. PICK g, c : g = MapDeleted(f, a - 1, b) /\ c = a - 1
  OBVIOUS
<1>2. c \in 0..(N - 1) /\ c \in 0..N /\ c + 1 = a /\ c < N /\ c \in Nat
  BY <1>1
<1>3. g = [f EXCEPT ![c] = b]
  BY <1>1, <1>2 DEF MapDeleted
<1>4. DOMAIN g = 0..N /\ g[c] = b /\ \A i \in 0..N : i # c => g[i] = f[i]
  BY <1>2, <1>3
<1>5. \A i \in 0..N : g[i] \in 0..M
  BY <1>4
<1>6. \A i \in c..N : i = c \/ i \in a..N
  BY <1>2
<1>7. \A i \in a..N : i \in 0..N /\ g[i] = f[i] /\ f[i] >= b
  <2>1. \A i \in a..N : i \in 0..N /\ i # c
    BY <1>2
  <2>2. \A i \in a..N : f[i] >= b
    BY DEF MappedBehind
  <2> QED BY <1>4, <2>1, <2>2
<1>8. \A i \in c..N : g[i] >= b
  BY <1>4, <1>6, <1>7
<1>9. ASSUME NEW i \in c..N, NEW j \in c..N, i <= j PROVE g[i] <= g[j]
  <2>1. CASE i = c
    BY <1>4, <1>8, <2>1
  <2>2. CASE i # c
    <3>1. i \in a..N /\ j \in a..N
      BY <1>2, <1>9, <2>2
    <3>2. f[i] <= f[j]
      BY <1>9, <3>1 DEF MappedBehind
    <3> QED BY <1>7, <3>1, <3>2
  <2> QED BY <2>1, <2>2
<1>10. Cardinality(Kept(g, c)) + Shared(Twins, c, b) >= Shared(Twins, N, M)
  <2>1. Kept(f, a) \subseteq Kept(g, c)
    <3>1. ASSUME NEW i \in Kept(f, a) PROVE i \in Kept(g, c)
      <4>1. i \in a..(N - 1) /\ i \in a..N /\ i \in c..(N - 1)
        BY <1>2 DEF Kept
      <4>2. g[i] = f[i] /\ f[i] < M /\ rewritten[i + 1] = original[f[i] + 1]
        BY <1>7, <4>1 DEF Kept
      <4> QED BY <4>1, <4>2 DEF Kept
    <3> QED BY <3>1
  <2>2. IsFiniteSet(Kept(g, c)) /\ Cardinality(Kept(g, c)) \in Nat /\ Cardinality(Kept(f, a)) \in Nat
    BY <1>2, KeptFinite
  <2>3. Cardinality(Kept(f, a)) <= Cardinality(Kept(g, c))
    BY <2>1, <2>2, FS_Subset
  <2>4. Cardinality(Kept(f, a)) + Shared(Twins, a, b) >= Shared(Twins, N, M)
    BY DEF MappedBehind
  <2>5. Shared(Twins, a, b) \in Nat /\ Shared(Twins, N, M) \in Nat /\ Shared(Twins, c, b) = Shared(Twins, a, b)
    BY <1>1, SharedBounds
  <2> QED BY <2>2, <2>3, <2>4, <2>5
<1>11. ASSUME NEW p \in 0..N, NEW q \in 0..N, Swapped(p, q)
       PROVE  /\ c >= p => Shared(Twins, c, b) = p + (IF c > N - q THEN c - (N - q) ELSE 0)
              /\ \A i \in p..(N - q - 1) : i >= c => g[i] = p
  <2>1. p \in Nat /\ q \in Nat /\ p + q < N
    BY <1>11 DEF Swapped
  <2>2. /\ a >= p => Shared(Twins, a, b) = p + (IF a > N - q THEN a - (N - q) ELSE 0)
        /\ \A i \in p..(N - q - 1) : i >= a => f[i] = p
    BY <1>11 DEF MappedBehind
  <2>3. ASSUME c >= p PROVE a <= N - q
    <3> SUFFICES ASSUME a > N - q PROVE FALSE
      BY <2>1
    <3>1. Shared(Twins, c, b) <= p + (IF c > N - q THEN c - (N - q) ELSE 0)
      <4>1. c \in p..N /\ b \in Nat
        BY <1>2, <2>1, <2>3
      <4> QED BY <1>11, <4>1, SwappedShares
    <3>2. Shared(Twins, c, b) = p + (a - (N - q))
      BY <1>1, <1>2, <2>1, <2>2, <2>3
    <3> QED BY <1>2, <2>1, <3>1, <3>2
  <2>4. ASSUME c >= p PROVE Shared(Twins, c, b) = p /\ b = p
    <3>1. Shared(Twins, a, b) = p /\ Shared(Twins, c, b) = p
      BY <1>1, <1>2, <2>1, <2>2, <2>3, <2>4
    <3>2. Shared(Twins, a, b) <= b
      BY SharedBounds
    <3>3. b >= p
      BY <3>1, <3>2
    <3>4. b <= p
      <4> SUFFICES ASSUME b > p PROVE FALSE
        BY <2>1
      <4>1. PICK v : v = b - 1
        OBVIOUS
      <4>2. v \in Nat /\ v >= p /\ a \in p..N /\ b # 0
        BY <1>2, <2>1, <2>4, <4>1
      <4>3. /\ Shared(Twins, a, v) <= p + (IF a > N - q THEN a - (N - q) ELSE 0)
            /\ Shared(Twins, a, v) >= p
        BY <1>11, <4>2, SwappedShares
      <4>4. Shared(Twins, a, v) \in Nat
        BY <4>2, SharedBounds
      <4>5. Shared(Twins, a, v) = p
        BY <2>1, <2>3, <2>4, <4>3, <4>4
      <4> QED BY <3>1, <4>1, <4>2, <4>5
    <3> QED BY <2>1, <3>1, <3>3, <3>4
  <2>5. ASSUME c >= p
        PROVE  Shared(Twins, c, b) = p + (IF c > N - q THEN c - (N - q) ELSE 0)
    BY <1>2, <2>1, <2>3, <2>4, <2>5
  <2>6. ASSUME NEW i \in p..(N - q - 1), i >= c PROVE g[i] = p
    <3>1. CASE i = c
      <4>1. c >= p
        BY <2>1, <3>1
      <4> QED BY <1>4, <2>4, <3>1, <4>1
    <3>2. CASE i # c
      <4>1. i \in a..N /\ i >= a
        BY <1>2, <2>1, <2>6, <3>2
      <4> QED BY <1>7, <2>2, <4>1
    <3> QED BY <3>1, <3>2
  <2> QED BY <2>5, <2>6
<1>12. MappedBehind(g, c, b)
  BY <1>8, <1>9, <1>10, <1>11 DEF MappedBehind
<1> QED BY <1>1, <1>4, <1>5, <1>12

---------------------------------------------------------------------------
(* The inductive invariant. *)

Rows == [(-MaxD)..MaxD -> Nat]

(* While the search runs: it has not gone past the shortest edit, the kept *)
(* rounds and the diagonals behind k hold the furthest offsets.            *)
Searching ==
    /\ N # 0 /\ M # 0 /\ x = N /\ y = M /\ posMap[N] = M
    /\ V \in Rows /\ trace \in Seq(Rows) /\ Len(trace) = d + 1 /\ trace[1][1] = 0
    /\ d <= Best /\ k \in Diagonals(d) /\ (d = Best => k <= N - M)
    /\ (d = 0 => V[1] = 0) /\ (d # 0 => \A j \in Diagonals(d - 1) : Reaches(Twins, d - 1, j, V[j]))
    /\ Searched(d, trace)
    /\ \A j \in Diagonals(d) : j < k => Reaches(Twins, d, j, V[j])

(* The walk stands where d edits reach furthest, and they are needed.      *)
Walking ==
    /\ N # 0 /\ M # 0 /\ d <= Best /\ Len(trace) = Best + 1 /\ trace[1][1] = 0
    /\ Searched(d, trace)
    /\ x - y \in Diagonals(d) /\ Reaches(Twins, d, x - y, x) /\ Cost(Twins, x, y) = d
    /\ MappedBehind(posMap, x, y)

(* The finished map. *)
Mapped ==
    /\ N # 0 /\ M # 0 => Len(trace) = Best + 1
    /\ \A i, j \in 0..N : i <= j => posMap[i] <= posMap[j]
    /\ Cardinality(Kept(posMap, 0)) >= Shared(Twins, N, M)
    /\ \A p, q \in 0..N : Swapped(p, q) => \A i \in p..(N - q - 1) : posMap[i] = p
    /\ \A n \in Nat \ {0} : CommonPrefix(n) => posMap[n - 1] = n - 1

OffsetInv ==
    /\ rewritten \in Texts /\ original \in Texts /\ (phase # "done" => position \in Nat)
    /\ OffsetTypeOK
    /\ phase = "forward" => Searching
    /\ phase = "back" => Walking
    /\ Done => Mapped

LEMMA SameTexts ==
    ASSUME rewritten' = rewritten, original' = original
    PROVE  /\ N' = N /\ M' = M /\ MaxD' = MaxD /\ Twins' = Twins /\ Best' = Best /\ Rows' = Rows
           /\ \A p, q : Swapped(p, q)' <=> Swapped(p, q)
           /\ \A n : CommonPrefix(n)' <=> CommonPrefix(n)
           /\ \A f, u : Kept(f, u)' = Kept(f, u)
<1>1. N' = N /\ M' = M
  BY DEF N, M
<1>2. MaxD' = MaxD /\ Twins' = Twins
  BY <1>1 DEF MaxD, Twins
<1>3. Best' = Best /\ Rows' = Rows
  BY <1>1, <1>2 DEF Best, Rows
<1>4. \A n : CommonPrefix(n)' <=> CommonPrefix(n)
  BY <1>1 DEF CommonPrefix
<1>5. \A p, q : Swapped(p, q)' <=> Swapped(p, q)
  BY <1>1 DEF Swapped, CommonPrefix
<1>6. \A f, u : Kept(f, u)' = Kept(f, u)
  BY <1>1 DEF Kept
<1> QED BY <1>1, <1>2, <1>3, <1>4, <1>5, <1>6

LEMMA OffsetBegins == OffsetInit => OffsetInv
<1> SUFFICES ASSUME OffsetInit PROVE OffsetInv
  OBVIOUS
<1>1. rewritten \in Texts /\ original \in Texts /\ position \in Nat
  BY PositionsAssumption DEF OffsetInit
<1>2. N \in Nat /\ M \in Nat /\ MaxD = N + M /\ MaxD \in Nat
  BY <1>1, TextsHave
<1>3. /\ d = 0 /\ k = 0 /\ x = N /\ y = M
      /\ V = [j \in (-MaxD)..MaxD |-> 0] /\ trace = <<V>>
      /\ posMap = [i \in 0..N |-> IF i = N THEN M ELSE 0]
      /\ phase = IF N = 0 \/ M = 0 THEN "remap" ELSE "forward"
  BY DEF OffsetInit
<1>4. OffsetTypeOK
  <2>1. phase \in {"forward", "back", "remap", "done"}
    BY <1>3
  <2>2. DOMAIN V = (-MaxD)..MaxD /\ Len(trace) = 1 /\ 1 \in 1..(MaxD + 1)
    BY <1>2, <1>3
  <2>3. DOMAIN posMap = 0..N /\ \A i \in 0..N : posMap[i] \in 0..M
    BY <1>2, <1>3
  <2>4. d \in 0..MaxD /\ k \in (-MaxD)..MaxD /\ x \in 0..N /\ y \in 0..M
    BY <1>2, <1>3
  <2> QED BY <2>1, <2>2, <2>3, <2>4 DEF OffsetTypeOK
<1>5. ASSUME phase = "forward" PROVE Searching
  <2>1. N # 0 /\ M # 0
    BY <1>3, <1>5
  <2>2. 1 \in (-MaxD)..MaxD /\ N \in 0..N
    BY <1>2, <2>1
  <2>3. V \in Rows /\ V[1] = 0 /\ posMap[N] = M
    BY <1>2, <1>3, <2>2 DEF Rows
  <2>4. trace \in Seq(Rows) /\ Len(trace) = 1 /\ trace[1] = V
    BY <1>3, <2>3
  <2>5. Best \in 0..(N + M) /\ N - M \in Diagonals(Best)
    BY <1>2, BestIs
  <2>6. 0 <= Best /\ (Best = 0 => N - M = 0)
    <3>1. Best \in Nat
      BY <1>2, <2>5
    <3> QED BY <2>5, <3>1, Neighbours
  <2>7. 0 \in Diagonals(0) /\ \A j \in Diagonals(0) : ~(j < 0)
    <3>1. Diagonals(0) = {0}
      <4>1. \A h \in 0..0 : h = 0
        OBVIOUS
      <4>2. 0 \in 0..0 /\ 0 - 2 * 0 = 0
        OBVIOUS
      <4> QED BY <4>1, <4>2 DEF Diagonals
    <3> QED BY <3>1
  <2>8. Searched(0, trace)
    BY DEF Searched
  <2> QED BY <1>2, <1>3, <2>1, <2>3, <2>4, <2>6, <2>7, <2>8 DEF Searching
<1>6. ASSUME Done PROVE Mapped
  <2>1. N = 0 \/ M = 0
    BY <1>3, <1>6 DEF Done
  <2>2. \A i, j \in 0..N : i <= j => posMap[i] <= posMap[j]
    BY <1>2, <1>3, <2>1
  <2>3. Cardinality(Kept(posMap, 0)) >= Shared(Twins, N, M)
    <3>1. Shared(Twins, N, M) \in Nat /\ Shared(Twins, N, M) <= N /\ Shared(Twins, N, M) <= M
      BY <1>2, SharedBounds
    <3>2. Cardinality(Kept(posMap, 0)) \in Nat
      BY <1>2, KeptFinite
    <3> QED BY <1>2, <2>1, <3>1, <3>2
  <2>4. \A p, q \in 0..N : ~Swapped(p, q)
    BY <1>2, <2>1 DEF Swapped
  <2>5. \A n \in Nat \ {0} : ~CommonPrefix(n)
    BY <1>2, <2>1 DEF CommonPrefix
  <2> QED BY <2>1, <2>2, <2>3, <2>4, <2>5 DEF Mapped
<1>7. phase # "back"
  BY <1>3
<1> QED BY <1>1, <1>4, <1>5, <1>6, <1>7 DEF OffsetInv

LEMMA Extends ==
    ASSUME OffsetInv, ExtendDiagonal
    PROVE  OffsetInv'
<1>1. /\ phase = "forward" /\ rewritten' = rewritten /\ original' = original /\ position' = position
      /\ x' = x /\ y' = y /\ posMap' = posMap
  BY DEF ExtendDiagonal
<1>2. Searching /\ OffsetTypeOK /\ rewritten \in Texts /\ original \in Texts /\ position \in Nat
  BY <1>1 DEF OffsetInv
<1>3. N \in Nat /\ M \in Nat /\ MaxD = N + M /\ MaxD \in Nat
  BY <1>2, TextsHave
<1>4. /\ N' = N /\ M' = M /\ MaxD' = MaxD /\ Twins' = Twins /\ Best' = Best /\ Rows' = Rows
  BY <1>1, SameTexts
<1>5. /\ N # 0 /\ M # 0 /\ x = N /\ y = M /\ posMap[N] = M
      /\ V \in Rows /\ trace \in Seq(Rows) /\ Len(trace) = d + 1 /\ trace[1][1] = 0
      /\ d \in 0..MaxD /\ d \in Nat /\ d <= Best /\ k \in Diagonals(d) /\ (d = Best => k <= N - M)
      /\ (d = 0 => V[1] = 0) /\ (d # 0 => \A j \in Diagonals(d - 1) : Reaches(Twins, d - 1, j, V[j]))
      /\ Searched(d, trace)
      /\ \A j \in Diagonals(d) : j < k => Reaches(Twins, d, j, V[j])
  <2>1. d \in 0..MaxD /\ d \in Nat
    BY <1>2, <1>3 DEF OffsetTypeOK
  <2> QED BY <1>2, <2>1, Zenon DEF Searching
<1>6. /\ Best \in 0..MaxD /\ N - M \in Diagonals(Best)
      /\ \A a, b \in Nat : a >= N /\ b >= M => Cost(Twins, a, b) = Best + (a - N) + (b - M)
  BY <1>3, BestIs
<1>7. PICK e, l, a, W : e = d /\ l = k /\ a = Furthest(V, d, k) /\ W = [V EXCEPT ![k] = a]
  OBVIOUS
<1>8. /\ V' = W
      /\ IF UsedUp(a, a - l)
         THEN phase' = "back" /\ UNCHANGED <<d, k, trace>>
         ELSE /\ UNCHANGED phase
              /\ IF l < e THEN k' = l + 2 /\ UNCHANGED <<d, trace>>
                          ELSE /\ e < MaxD
                               /\ d' = e + 1 /\ k' = -(e + 1) /\ trace' = Append(trace, W)
  BY <1>7 DEF ExtendDiagonal
<1>9. /\ e \in Nat /\ l \in Diagonals(e) /\ e \in 0..MaxD /\ Len(trace) = e + 1 /\ e <= Best
      /\ Searched(e, trace) /\ (e = Best => l <= N - M)
      /\ \A j \in Diagonals(e) : j < l => Reaches(Twins, e, j, V[j])
      /\ (e # 0 => \A j \in Diagonals(e - 1) : Reaches(Twins, e - 1, j, V[j]))
      /\ (e = 0 => V[1] = 0) /\ a = Furthest(V, e, l) /\ W = [V EXCEPT ![l] = a]
  BY <1>5, <1>7
<1>10. Reaches(Twins, e, l, a) /\ a \in Nat
  <2>1. Reaches(Twins, e, l, a)
    BY <1>3, <1>9, FurthestIs
  <2> QED BY <2>1 DEF Reaches
<1>11. /\ l \in Int /\ -e <= l /\ l <= e /\ (l # e => l + 2 \in Diagonals(e)) /\ l \in (-MaxD)..MaxD
  BY <1>3, <1>9, Neighbours
<1>12. /\ W \in Rows /\ W[l] = a /\ DOMAIN W = (-MaxD)..MaxD
       /\ \A j \in (-MaxD)..MaxD : j # l => W[j] = V[j]
  BY <1>5, <1>9, <1>10, <1>11 DEF Rows
<1>13. \A j \in Diagonals(e) : j \in (-MaxD)..MaxD /\ j <= e
  BY <1>3, <1>9, Neighbours
<1>14. \A j \in Diagonals(e) : j <= l => Reaches(Twins, e, j, W[j])
  <2> SUFFICES ASSUME NEW j \in Diagonals(e), j <= l PROVE Reaches(Twins, e, j, W[j])
    OBVIOUS
  <2>1. CASE j = l
    BY <1>10, <1>12, <2>1
  <2>2. CASE j # l
    <3>1. j < l
      BY <1>11, <1>13, <2>2
    <3> QED BY <1>9, <1>12, <1>13, <2>2, <3>1
  <2> QED BY <2>1, <2>2
<1>15. \A j \in Diagonals(e) : j < l + 2 => j <= l
  <2> SUFFICES ASSUME NEW j \in Diagonals(e), j < l + 2 PROVE j <= l
    OBVIOUS
  <2>1. PICK g \in 0..e, h \in 0..e : j = e - 2 * g /\ l = e - 2 * h
    BY <1>9 DEF Diagonals
  <2> QED BY <1>9, <2>1
<1>16. e # 0 => \A j \in Diagonals(e - 1) : Reaches(Twins, e - 1, j, W[j])
  <2> SUFFICES ASSUME e # 0, NEW j \in Diagonals(e - 1) PROVE Reaches(Twins, e - 1, j, W[j])
    OBVIOUS
  <2>1. PICK g \in 0..(e - 1), h \in 0..e : j = (e - 1) - 2 * g /\ l = e - 2 * h
    BY <1>9 DEF Diagonals
  <2>2. j # l /\ j \in (-MaxD)..MaxD
    BY <1>3, <1>9, <2>1
  <2> QED BY <1>9, <1>12, <2>2
<1>17. e = 0 => W[1] = 0
  <2> SUFFICES ASSUME e = 0 PROVE W[1] = 0
    OBVIOUS
  <2>1. 1 \in (-MaxD)..MaxD /\ 1 # l
    BY <1>3, <1>5, <1>11
  <2> QED BY <1>9, <1>12, <2>1
<1>18. CASE UsedUp(a, a - l)
  <2>1. phase' = "back" /\ d' = d /\ k' = k /\ trace' = trace
    BY <1>8, <1>18
  <2>2. a >= N /\ a - l >= M /\ a - l \in Nat /\ Cost(Twins, a, a - l) <= e
    BY <1>10, <1>18 DEF UsedUp, Reaches
  <2>3. Cost(Twins, a, a - l) = Best + (a - N) + ((a - l) - M)
    BY <1>6, <1>10, <2>2
  <2>4. Best \in Nat
    BY <1>3, <1>6
  <2>5. a = N /\ a - l = M /\ e = Best /\ l = N - M
    <3>1. PICK n, m, b, c : n = N /\ m = M /\ b = Best /\ c = a - l
      OBVIOUS
    <3>2. /\ n \in Nat /\ m \in Nat /\ b \in Nat /\ c \in Nat /\ e \in Nat /\ a \in Nat /\ l \in Int
          /\ a >= n /\ c >= m /\ b + (a - n) + (c - m) <= e /\ e <= b /\ c = a - l
      BY <1>3, <1>9, <1>10, <1>11, <2>2, <2>3, <2>4, <3>1
    <3>3. a = n /\ c = m /\ e = b /\ l = n - m
      BY <3>2
    <3> QED BY <3>1, <3>3
  <2>6. Cost(Twins, N, M) = e
    BY <2>5 DEF Best
  <2>7. MappedBehind(posMap, N, M)
    BY <1>3, <1>5, EndsMapped
  <2>8. MappedBehind(posMap, x, y)'
    <3>1. MappedBehind(posMap, x, y)
      BY <1>5, <2>7
    <3>2. \A p, q : Swapped(p, q)' <=> Swapped(p, q)
      BY <1>1, SameTexts
    <3>3. Kept(posMap, x)' = Kept(posMap, x)
      BY <1>1, <1>4 DEF Kept
    <3> QED BY <1>1, <1>4, <3>1, <3>2, <3>3 DEF MappedBehind
  <2>9. Searched(d, trace)'
    BY <1>4, <1>7, <1>9, <2>1 DEF Searched
  <2>10. Walking'
    <3>1. x - y = N - M /\ x - y = l /\ x = a /\ d = e
      BY <1>5, <1>7, <2>5
    <3>2. /\ d <= Best /\ Len(trace) = Best + 1 /\ x - y \in Diagonals(d)
          /\ Reaches(Twins, d, x - y, x) /\ Cost(Twins, x, y) = d
      BY <1>5, <1>9, <1>10, <2>5, <2>6, <3>1
    <3> QED BY <1>1, <1>4, <1>5, <2>1, <2>8, <2>9, <3>2 DEF Walking
  <2>11. OffsetTypeOK'
    BY <1>1, <1>2, <1>4, <1>8, <1>12, <2>1 DEF OffsetTypeOK
  <2> QED BY <1>1, <1>2, <2>1, <2>10, <2>11 DEF OffsetInv, Done
<1>19. CASE ~UsedUp(a, a - l) /\ l < e
  <2>1. phase' = "forward" /\ d' = d /\ k' = l + 2 /\ trace' = trace
    BY <1>1, <1>8, <1>19
  <2>2. e = Best => l + 2 <= N - M
    <3> SUFFICES ASSUME e = Best PROVE l + 2 <= N - M
      OBVIOUS
    <3>1. l # N - M
      <4> SUFFICES ASSUME l = N - M PROVE FALSE
        OBVIOUS
      <4>1. PICK n, m : n = N /\ m = M
        OBVIOUS
      <4>2. n \in Nat /\ n - l \in Nat /\ n - l = m
        BY <1>3, <4>1
      <4>3. Cost(Twins, n, n - l) <= e
        BY <1>9, <4>1, <4>2 DEF Best
      <4>4. n <= a
        BY <1>10, <4>2, <4>3 DEF Reaches
      <4> QED BY <1>3, <1>10, <1>11, <1>19, <4>1, <4>2, <4>4 DEF UsedUp
    <3>2. PICK g \in 0..e, h \in 0..e : l = e - 2 * g /\ N - M = e - 2 * h
      BY <1>6, <1>9 DEF Diagonals
    <3>3. l <= N - M
      BY <1>9
    <3> QED BY <1>3, <1>9, <1>11, <3>1, <3>2, <3>3
  <2>3. l + 2 \in Diagonals(e) /\ \A j \in Diagonals(e) : j < l + 2 => Reaches(Twins, e, j, W[j])
    BY <1>11, <1>14, <1>15, <1>19
  <2>4. l + 2 \in (-MaxD)..MaxD
    BY <1>13, <2>3
  <2>5. Searching'
    <3>1. Searched(d, trace)'
      BY <1>4, <1>7, <1>9, <2>1 DEF Searched
    <3>2. d' = e /\ k' = l + 2 /\ V' = W
      BY <1>7, <1>8, <2>1
    <3> QED BY <1>1, <1>4, <1>5, <1>9, <1>12, <1>16, <1>17, <2>1, <2>2, <2>3, <3>1, <3>2 DEF Searching
  <2>6. OffsetTypeOK'
    BY <1>1, <1>2, <1>4, <1>8, <1>12, <2>1, <2>4 DEF OffsetTypeOK
  <2> QED BY <1>1, <1>2, <2>1, <2>5, <2>6 DEF OffsetInv, Done
<1>20. CASE ~UsedUp(a, a - l) /\ ~(l < e)
  <2>1. phase' = "forward" /\ e < MaxD /\ d' = e + 1 /\ k' = -(e + 1) /\ trace' = Append(trace, W)
    BY <1>1, <1>8, <1>20
  <2>2. l = e
    BY <1>9, <1>11, <1>20
  <2>3. e # Best
    <3> SUFFICES ASSUME e = Best PROVE FALSE
      OBVIOUS
    <3>1. PICK n, m : n = N /\ m = M
      OBVIOUS
    <3>2. n - m \in Diagonals(e)
      BY <1>6, <3>1
    <3>3. n - m <= e
      BY <1>13, <3>2
    <3>4. l = n - m /\ n \in Nat /\ m \in Nat
      BY <1>3, <1>9, <1>11, <2>2, <3>1, <3>3
    <3>5. n - l \in Nat /\ n - l = m
      BY <3>4
    <3>6. Cost(Twins, n, n - l) <= e
      BY <1>9, <3>1, <3>5 DEF Best
    <3>7. n <= a
      BY <1>10, <3>4, <3>5, <3>6 DEF Reaches
    <3> QED BY <1>3, <1>10, <1>11, <1>20, <3>1, <3>4, <3>7 DEF UsedUp
  <2>4. e + 1 <= Best /\ e + 1 \in 0..MaxD /\ -(e + 1) \in (-MaxD)..MaxD /\ e + 1 # 0 /\ (e + 1) - 1 = e
    BY <1>3, <1>6, <1>9, <2>1, <2>3
  <2>5. e + 1 = Best => -(e + 1) <= N - M
    <3>1. Best \in Nat
      BY <1>3, <1>6
    <3> QED BY <1>6, <3>1, Neighbours
  <2>6. -(e + 1) \in Diagonals(e + 1) /\ \A j \in Diagonals(e + 1) : ~(j < -(e + 1))
    <3>1. -(e + 1) = (e + 1) - 2 * (e + 1) /\ e + 1 \in 0..(e + 1)
      BY <1>9
    <3>2. \A j \in Diagonals(e + 1) : ~(j < -(e + 1))
      BY <1>9 DEF Diagonals
    <3> QED BY <3>1, <3>2 DEF Diagonals
  <2>7. \A j \in Diagonals(e) : Reaches(Twins, e, j, W[j])
    BY <1>13, <1>14, <2>2
  <2>8. /\ trace' \in Seq(Rows) /\ Len(trace') = e + 2 /\ trace'[e + 2] = W
        /\ \A i \in 1..(e + 1) : trace'[i] = trace[i]
    BY <1>5, <1>9, <1>12, <2>1
  <2>9. ASSUME NEW b \in 1..(e + 1), NEW j \in Diagonals(b - 1)
        PROVE  Reaches(Twins, b - 1, j, trace'[b + 1][j])
    <3>1. CASE b = e + 1
      <4>1. b - 1 = e /\ trace'[b + 1] = W
        BY <1>9, <2>8, <3>1
      <4> QED BY <2>7, <4>1
    <3>2. CASE b # e + 1
      <4>1. b \in 1..e /\ b + 1 \in 1..(e + 1)
        BY <1>9, <3>2
      <4>2. trace'[b + 1] = trace[b + 1]
        BY <2>8, <4>1
      <4> QED BY <1>9, <4>1, <4>2 DEF Searched
    <3> QED BY <3>1, <3>2
  <2>10. Searched(d, trace)'
    BY <1>4, <2>1, <2>9 DEF Searched
  <2>11. Searching'
    <3>1. d' = e + 1 /\ d' # 0 /\ d' - 1 = e /\ k' = -(e + 1) /\ V' = W /\ trace'[1] = trace[1]
          /\ Len(trace') = d' + 1
      BY <1>8, <1>9, <2>1, <2>4, <2>8
    <3> QED BY <1>1, <1>4, <1>5, <1>12, <2>4, <2>5, <2>6, <2>7, <2>8, <2>10, <3>1 DEF Searching
  <2>12. OffsetTypeOK'
    <3>1. Len(trace') \in 1..(MaxD + 1)
      BY <1>3, <1>9, <2>1, <2>8
    <3> QED BY <1>1, <1>2, <1>4, <1>8, <1>12, <2>1, <2>4, <3>1 DEF OffsetTypeOK
  <2> QED BY <1>1, <1>2, <2>1, <2>11, <2>12 DEF OffsetInv, Done
<1> QED BY <1>18, <1>19, <1>20

LEMMA SameSmallest ==
    ASSUME NEW s \in Nat
    PROVE  Max({0, Min({s, s})}) = s
<1>1. Min({s, s}) = s
  <2>1. {s, s} \subseteq Nat /\ {s, s} # {}
    OBVIOUS
  <2>2. Min({s, s}) \in {s, s}
    BY <2>1, MinIs
  <2> QED BY <2>2
<1>2. Max({0, s}) \in {0, s} /\ Max({0, s}) >= s
  BY MaxOfTwo
<1> QED BY <1>1, <1>2

LEMMA WalksBack ==
    ASSUME OffsetInv, WalkBack
    PROVE  OffsetInv'
<1>1. /\ phase = "back" /\ phase' = "back" /\ rewritten' = rewritten /\ original' = original
      /\ position' = position /\ k' = k /\ V' = V /\ trace' = trace /\ d # 0 /\ d' = d - 1
  BY DEF WalkBack, OffsetInv, OffsetTypeOK
<1>2. Walking /\ OffsetTypeOK /\ rewritten \in Texts /\ original \in Texts /\ position \in Nat
  BY <1>1 DEF OffsetInv
<1>3. N \in Nat /\ M \in Nat /\ MaxD = N + M /\ MaxD \in Nat
  BY <1>2, TextsHave
<1>4. /\ N' = N /\ M' = M /\ MaxD' = MaxD /\ Twins' = Twins /\ Best' = Best /\ Rows' = Rows
  BY <1>1, SameTexts
<1>5. PICK e, j, u, v, W, f : e = d /\ j = x - y /\ u = x /\ v = y /\ W = trace[d + 1] /\ f = posMap
  OBVIOUS
<1>6. /\ e \in Nat /\ e # 0 /\ e <= Best /\ j \in Diagonals(e) /\ u \in 0..N /\ v \in 0..M /\ j = u - v
      /\ Reaches(Twins, e, j, u) /\ Cost(Twins, u, v) = e /\ Searched(e, trace)
      /\ DOMAIN f = 0..N /\ \A i \in 0..N : f[i] \in 0..M
      /\ MappedBehind(f, x, y)
  BY <1>1, <1>2, <1>3, <1>5 DEF Walking, OffsetTypeOK
<1>7. \A i \in Diagonals(e - 1) : Reaches(Twins, e - 1, i, W[i])
  <2>1. e \in 1..e
    BY <1>6
  <2> QED BY <1>5, <1>6, <2>1 DEF Searched
<1>8. PICK r \in Nat, s \in Nat :
        /\ r = Reach(W, e, j) /\ r - j \in Nat /\ Cost(Twins, r, r - j) <= e
        /\ \A m \in 1..s : <<r + m, (r - j) + m>> \in Twins
        /\ Reaches(Twins, e, j, r + s)
  BY <1>3, <1>6, <1>7, FurthestIs
<1>9. PICK b : b = r - j
  OBVIOUS
<1>10. u = r + s /\ v = b + s /\ b \in Nat /\ r \in 0..N /\ b \in 0..M /\ r = u - s /\ b = v - s
       /\ s <= u /\ s <= v /\ j = r - b
  <2>1. u = r + s
    BY <1>6, <1>8, ReachesOne
  <2>2. b \in Nat /\ u \in Nat /\ v \in Nat /\ u <= N /\ v <= M
    BY <1>3, <1>6, <1>8, <1>9
  <2>3. s \in Nat /\ r \in Nat /\ u = r + s /\ b = r - j /\ j = u - v
    BY <1>6, <1>8, <1>9, <2>1
  <2>4. v = b + s
    BY <2>2, <2>3
  <2>5. r <= N /\ b <= M /\ r = u - s /\ b = v - s /\ s <= u /\ s <= v /\ j = r - b
    BY <1>3, <2>2, <2>3, <2>4
  <2> QED BY <1>3, <2>2, <2>3, <2>4, <2>5
<1>11. PICK g : g = MapRun(posMap, s)
  OBVIOUS
<1>12. /\ MappedBehind(g, r, b) /\ DOMAIN g = 0..N /\ \A i \in 0..N : g[i] \in 0..M
  <2>1. \A m \in 1..s : <<(x - s) + m, (y - s) + m>> \in Twins
    BY <1>5, <1>8, <1>9, <1>10
  <2>2. x \in 0..N /\ y \in 0..M /\ s <= x /\ s <= y
    BY <1>5, <1>6, <1>10
  <2> QED BY <1>3, <1>5, <1>6, <1>10, <1>11, <2>1, <2>2, RunMapped
<1>13. Cost(Twins, r, b) = e /\ Shared(Twins, r, b) \in Nat /\ e = r + b - 2 * Shared(Twins, r, b)
  <2>1. Shared(Twins, r + s, b + s) = Shared(Twins, r, b) + s
    <3>1. \A m \in 1..s : <<r + m, b + m>> \in Twins
      BY <1>8, <1>9
    <3>2. r \in Nat /\ b \in Nat /\ s \in Nat
      BY <1>8, <1>10
    <3> QED BY ONLY <3>1, <3>2, SharedRun
  <2>2. Shared(Twins, r, b) \in Nat
    BY <1>10, SharedBounds
  <2>3. u + v - 2 * Shared(Twins, u, v) = e
    BY <1>6 DEF Cost
  <2>4. r + b - 2 * Shared(Twins, r, b) = e
    BY <1>10, <2>1, <2>2, <2>3
  <2> QED BY <2>2, <2>4 DEF Cost
<1>14. /\ j \in Int /\ -e <= j /\ j <= e
       /\ (j # e => j + 1 \in Diagonals(e - 1)) /\ (j # -e => j - 1 \in Diagonals(e - 1))
  BY <1>6, Neighbours
<1>15. e - 1 \in 0..MaxD /\ e - 1 <= Best /\ Searched(e - 1, trace) /\ e - 1 \in Nat
  <2>1. Best \in 0..MaxD
    BY <1>3, BestIs
  <2>2. \A i \in 1..(e - 1) : i \in 1..e
    BY <1>6
  <2>3. Searched(e - 1, trace)
    BY <1>6, <2>2 DEF Searched
  <2>4. Best \in Nat /\ Best <= MaxD
    BY <1>3, <2>1
  <2> QED BY <1>3, <1>6, <2>3, <2>4
<1>16. /\ Down(W, e, j) => x' = u - s /\ y' = W[j + 1] - (j + 1) /\ posMap' = g /\ r = W[j + 1]
       /\ ~Down(W, e, j) => /\ x' = W[j - 1] /\ y' = v - s /\ r = W[j - 1] + 1
                            /\ posMap' = MapDeleted(g, W[j - 1], W[j - 1] - (j - 1))
  <2>1. CASE Down(W, e, j)
    <3>1. r = W[j + 1]
      BY <1>8, <2>1 DEF Reach
    <3>2. u - W[j + 1] = s /\ v - ((W[j + 1] - (j + 1)) + 1) = s
      BY <1>9, <1>10, <1>14, <3>1
    <3>3. Max({0, Min({u - W[j + 1], v - ((W[j + 1] - (j + 1)) + 1)})}) = s
      BY <3>2, SameSmallest
    <3> QED BY <1>5, <1>11, <2>1, <3>1, <3>3 DEF WalkBack
  <2>2. CASE ~Down(W, e, j)
    <3>1. r = W[j - 1] + 1 /\ j # -e
      BY <1>8, <2>2 DEF Reach, Down
    <3>2. W[j - 1] \in Nat
      BY <1>7, <1>14, <3>1 DEF Reaches
    <3>3. u - (W[j - 1] + 1) = s /\ v - (W[j - 1] - (j - 1)) = s
      BY <1>9, <1>10, <1>14, <3>1, <3>2
    <3>4. Max({0, Min({u - (W[j - 1] + 1), v - (W[j - 1] - (j - 1))})}) = s
      BY <3>3, SameSmallest
    <3> QED BY <1>5, <1>11, <2>2, <3>1, <3>4 DEF WalkBack
  <2> QED BY <2>1, <2>2
<1>17. ASSUME NEW a \in 0..N, NEW c \in 0..M, NEW h,
              x' = a, y' = c, posMap' = h, a - c \in Diagonals(e - 1),
              Reaches(Twins, e - 1, a - c, a), Cost(Twins, a, c) = e - 1,
              MappedBehind(h, a, c), DOMAIN h = 0..N, \A i \in 0..N : h[i] \in 0..M
       PROVE  OffsetInv'
  <2>1. MappedBehind(posMap, x, y)'
    <3>1. \A p, q : Swapped(p, q)' <=> Swapped(p, q)
      BY <1>1, SameTexts
    <3>2. Kept(posMap, x)' = Kept(h, a)
      BY <1>1, <1>4, <1>17 DEF Kept
    <3> QED BY <1>4, <1>17, <3>1, <3>2 DEF MappedBehind
  <2>2. d' = e - 1
    BY <1>1, <1>5
  <2>3. Searched(d, trace)'
    BY <1>1, <1>4, <1>15, <2>2 DEF Searched
  <2>4. Walking'
    <3>1. N # 0 /\ M # 0 /\ Len(trace) = Best + 1 /\ trace[1][1] = 0
      BY <1>2 DEF Walking
    <3> QED BY <1>1, <1>4, <1>15, <1>17, <2>1, <2>2, <2>3, <3>1 DEF Walking
  <2>5. OffsetTypeOK'
    <3>1. /\ k \in (-MaxD)..MaxD /\ DOMAIN V = (-MaxD)..MaxD /\ Len(trace) \in 1..(MaxD + 1)
      BY <1>2 DEF OffsetTypeOK
    <3> QED BY <1>1, <1>4, <1>15, <1>17, <2>2, <3>1 DEF OffsetTypeOK
  <2> QED BY <1>1, <1>2, <2>4, <2>5 DEF OffsetInv, Done
<1>18. CASE Down(W, e, j)
  <2>1. r = W[j + 1] /\ j # e
    <3>1. j # e
      BY <1>6, <1>14, <1>18 DEF Down
    <3> QED BY <1>16, <1>18, <3>1
  <2>2. Reaches(Twins, e - 1, j + 1, r) /\ j + 1 \in Diagonals(e - 1)
    BY <1>7, <1>14, <2>1
  <2>3. r - (j + 1) = b - 1 /\ b - 1 \in Nat /\ Cost(Twins, r, b - 1) <= e - 1
    <3>1. r - (j + 1) = b - 1
      BY <1>10, <1>14
    <3> QED BY <2>2, <3>1 DEF Reaches
  <2>4. b \in 1..M /\ b - 1 \in 0..M
    BY <1>3, <1>10, <2>3
  <2>5. Cost(Twins, r, b - 1) = e - 1 /\ Shared(Twins, r, b - 1) = Shared(Twins, r, b)
    <3>1. PICK c : c = b - 1
      OBVIOUS
    <3>2. c \in Nat /\ c + 1 = b
      BY <1>10, <2>3, <3>1
    <3>3. Cost(Twins, r, c) \in Nat /\ Cost(Twins, r, c + 1) <= Cost(Twins, r, c) + 1
      BY <1>8, <3>2, CostIs
    <3>4. Cost(Twins, r, c) = e - 1
      <4>1. Cost(Twins, r, c + 1) = e /\ Cost(Twins, r, c) <= e - 1
        BY <1>13, <2>3, <3>1, <3>2
      <4> QED BY <1>6, <3>3, <4>1
    <3>5. Shared(Twins, r, c) \in Nat /\ r + c - 2 * Shared(Twins, r, c) = e - 1
      BY <1>8, <3>2, <3>4, SharedBounds DEF Cost
    <3>6. Shared(Twins, r, c) = Shared(Twins, r, b)
      <4>1. PICK l, m : l = Shared(Twins, r, c) /\ m = Shared(Twins, r, b)
        OBVIOUS
      <4>2. /\ l \in Nat /\ m \in Nat /\ r \in Nat /\ c \in Nat
            /\ r + c - 2 * l = e - 1 /\ e = r + (c + 1) - 2 * m
        BY <1>8, <1>13, <3>2, <3>5, <4>1
      <4>3. l = m
        BY <1>6, <4>2
      <4> QED BY <4>1, <4>3
    <3> QED BY <3>1, <3>4, <3>6
  <2>6. MappedBehind(g, r, b - 1)
    BY <1>3, <1>10, <1>12, <2>4, <2>5, InsertionMapped
  <2>7. x' = r /\ y' = b - 1 /\ posMap' = g
    BY <1>10, <1>16, <1>18, <2>1, <2>3
  <2>8. r - (b - 1) = j + 1
    BY <1>10, <1>14
  <2> QED BY <1>10, <1>12, <1>17, <2>2, <2>4, <2>5, <2>6, <2>7, <2>8
<1>19. CASE ~Down(W, e, j)
  <2>1. PICK a : a = W[j - 1]
    OBVIOUS
  <2>2. r = a + 1 /\ j # -e
    BY <1>16, <1>19, <2>1 DEF Down
  <2>3. Reaches(Twins, e - 1, j - 1, a) /\ j - 1 \in Diagonals(e - 1)
    BY <1>7, <1>14, <2>1, <2>2
  <2>4. a \in Nat /\ a - (j - 1) = b /\ Cost(Twins, a, b) <= e - 1
    <3>1. a \in Nat
      BY <2>3 DEF Reaches
    <3>2. a - (j - 1) = b
      BY <1>10, <1>14, <2>2, <3>1
    <3> QED BY <2>3, <3>1, <3>2 DEF Reaches
  <2>5. r \in 1..N /\ a \in 0..N /\ a = r - 1
    BY <1>3, <1>10, <2>2, <2>4
  <2>6. Cost(Twins, a, b) = e - 1 /\ Shared(Twins, a, b) = Shared(Twins, r, b)
    <3>1. Cost(Twins, a, b) \in Nat /\ Cost(Twins, a + 1, b) <= Cost(Twins, a, b) + 1
      BY <1>10, <2>4, CostIs
    <3>2. Cost(Twins, a, b) = e - 1
      <4>1. Cost(Twins, a + 1, b) = e
        BY <1>13, <2>2
      <4> QED BY <1>6, <2>4, <3>1, <4>1
    <3>3. Shared(Twins, a, b) \in Nat /\ a + b - 2 * Shared(Twins, a, b) = e - 1
      BY <1>10, <2>4, <3>2, SharedBounds DEF Cost
    <3> QED BY <1>10, <1>13, <2>2, <2>4, <3>2, <3>3
  <2>7. ASSUME b # 0 PROVE Shared(Twins, r, b - 1) # Shared(Twins, r, b)
    <3> SUFFICES ASSUME Shared(Twins, r, b - 1) = Shared(Twins, r, b) PROVE FALSE
      OBVIOUS
    <3>1. PICK c : c = b - 1
      OBVIOUS
    <3>2. c \in Nat /\ r - (j + 1) = c /\ r \in Nat
      BY <1>10, <1>14, <2>7, <3>1
    <3>3. Cost(Twins, r, c) = e - 1
      BY <1>8, <1>10, <1>13, <3>1, <3>2 DEF Cost
    <3>4. Cost(Twins, r, c) >= r - c
      BY <3>2, CostIs
    <3>5. j # e
      BY <1>6, <1>14, <3>2, <3>3, <3>4
    <3>6. Reaches(Twins, e - 1, j + 1, W[j + 1])
      BY <1>7, <1>14, <3>5
    <3>7. e - 1 <= e - 1
      BY <1>6
    <3>8. r <= W[j + 1] /\ W[j + 1] \in Nat
      BY <3>2, <3>3, <3>6, <3>7 DEF Reaches
    <3>9. ~(W[j - 1] < W[j + 1])
      BY <1>19, <2>2, <3>5 DEF Down
    <3> QED BY <2>1, <2>2, <2>4, <3>8, <3>9
  <2>8. PICK h : h = MapDeleted(g, a, b)
    OBVIOUS
  <2>9. MappedBehind(h, a, b) /\ DOMAIN h = 0..N /\ \A i \in 0..N : h[i] \in 0..M
    <3>1. Shared(Twins, r - 1, b) = Shared(Twins, r, b)
      BY <2>5, <2>6
    <3>2. /\ MappedBehind(MapDeleted(g, r - 1, b), r - 1, b)
          /\ DOMAIN MapDeleted(g, r - 1, b) = 0..N
          /\ \A i \in 0..N : MapDeleted(g, r - 1, b)[i] \in 0..M
      BY <1>3, <1>10, <1>12, <2>5, <2>7, <3>1, DeletionMapped
    <3> QED BY <2>5, <2>8, <3>2
  <2>10. x' = a /\ y' = b /\ posMap' = h
    BY <1>10, <1>16, <1>19, <2>1, <2>4, <2>8
  <2>11. a - b = j - 1
    <3>1. r \in Nat /\ b \in Nat /\ a \in Nat /\ j = r - b /\ r = a + 1
      BY <1>8, <1>10, <2>2, <2>4
    <3> QED BY <3>1
  <2> QED BY <1>10, <1>17, <2>3, <2>5, <2>6, <2>9, <2>10, <2>11
<1> QED BY <1>18, <1>19

LEMMA FinishesWalk ==
    ASSUME OffsetInv, FinishWalk
    PROVE  OffsetInv'
<1>1. /\ phase = "back" /\ phase' = "remap" /\ rewritten' = rewritten /\ original' = original
      /\ position' = position /\ k' = k /\ V' = V /\ trace' = trace /\ d = 0 /\ d' = d
  BY DEF FinishWalk
<1>2. Walking /\ OffsetTypeOK /\ rewritten \in Texts /\ original \in Texts /\ position \in Nat
  BY <1>1 DEF OffsetInv
<1>3. N \in Nat /\ M \in Nat /\ MaxD = N + M /\ MaxD \in Nat
  BY <1>2, TextsHave
<1>4. /\ N' = N /\ M' = M /\ MaxD' = MaxD /\ Twins' = Twins /\ Best' = Best /\ Rows' = Rows
  BY <1>1, SameTexts
<1>5. PICK u, W, f, z : u = x /\ W = trace[1] /\ f = posMap /\ z = 0
  OBVIOUS
<1>6. /\ x - y \in Diagonals(0) /\ Reaches(Twins, 0, x - y, x) /\ x \in 0..N /\ y \in 0..M /\ W[1] = 0
      /\ DOMAIN f = 0..N /\ \A i \in 0..N : f[i] \in 0..M
      /\ MappedBehind(f, x, y) /\ Len(trace) = Best + 1 /\ N # 0 /\ M # 0
  BY <1>1, <1>2, <1>5 DEF Walking, OffsetTypeOK
<1>7. u = x /\ u = y /\ u \in Nat /\ u <= N /\ u <= M /\ Reaches(Twins, 0, 0, u) /\ 0 \in Diagonals(0)
  <2>1. x - y = 0
    <3>1. PICK j : j = x - y
      OBVIOUS
    <3>2. j \in Diagonals(0)
      BY <1>6, <3>1
    <3>3. j = 0
      BY <3>2, Neighbours
    <3> QED BY <3>1, <3>3
  <2>2. x \in Nat /\ y \in Nat
    BY <1>6
  <2>3. x = y
    BY <2>1, <2>2
  <2> QED BY <1>3, <1>5, <1>6, <2>1, <2>2, <2>3
<1>8. \A m \in 1..u : <<m, m>> \in Twins
  <2>1. PICK r \in Nat, s \in Nat :
          /\ r = Reach(W, 0, 0)
          /\ \A m \in 1..s : <<r + m, (r - 0) + m>> \in Twins
          /\ Reaches(Twins, 0, 0, r + s)
    BY <1>3, <1>6, <1>7, FurthestIs
  <2>2. r = 0
    <3>1. Down(W, 0, 0)
      <4>1. 0 = -0
        BY <1>7, Neighbours
      <4> QED BY <4>1, Zenon DEF Down
    <3>2. Reach(W, 0, 0) = W[0 + 1]
      BY <3>1 DEF Reach
    <3>3. PICK one : one = 0 + 1
      OBVIOUS
    <3>4. one = 1
      BY <3>3
    <3>5. Reach(W, 0, 0) = W[one]
      BY <3>2, <3>3, Zenon
    <3>6. W[1] = 0
      BY <1>6
    <3>7. Reach(W, 0, 0) = 0
      BY <3>4, <3>5, <3>6, Zenon
    <3> QED BY <2>1, <3>7, Zenon
  <2>3. u = r + s
    BY <1>7, <2>1, ReachesOne
  <2>4. s = u
    BY <2>1, <2>2, <2>3
  <2>5. \A m \in 1..s : r + m = m /\ (r - 0) + m = m
    BY <2>1, <2>2
  <2> QED BY <2>1, <2>4, <2>5
<1>9. PICK g : g = MapRun(posMap, u)
  OBVIOUS
<1>10. x' = 0 /\ posMap' = g /\ y' = 0
  <2>1. Min({x, y}) = u
    <3>1. {u, u} \subseteq Nat /\ {u, u} # {}
      BY <1>7
    <3>2. Min({u, u}) \in {u, u}
      BY <3>1, MinIs
    <3> QED BY <1>7, <3>2
  <2>2. y - u = 0
    BY <1>7
  <2> QED BY <1>9, <2>1, <2>2 DEF FinishWalk
<1>11. /\ MappedBehind(g, 0, 0) /\ DOMAIN g = 0..N /\ \A i \in 0..N : g[i] \in 0..M
       /\ \A i \in 0..(u - 1) : g[i] = i
  <2>1. x - u = 0 /\ y - u = 0 /\ u <= x /\ u <= y
    BY <1>7
  <2>2. \A m \in 1..u : (x - u) + m = m /\ (y - u) + m = m
    BY <2>1
  <2>3. \A m \in 1..u : <<(x - u) + m, (y - u) + m>> \in Twins
    BY <1>8, <2>2
  <2>4. /\ MappedBehind(MapRun(f, u), x - u, y - u)
        /\ DOMAIN MapRun(f, u) = 0..N /\ \A i \in 0..N : MapRun(f, u)[i] \in 0..M
        /\ \A i \in (x - u)..(x - 1) : MapRun(f, u)[i] = y - (x - i)
    BY <1>3, <1>6, <1>7, <2>1, <2>3, RunMapped
  <2>5. \A i \in 0..(u - 1) : i \in (x - u)..(x - 1) /\ y - (x - i) = i
    BY <1>7, <2>1
  <2> QED BY <1>5, <1>9, <2>1, <2>4, <2>5
<1>12. ASSUME NEW n \in Nat \ {0}, CommonPrefix(n) PROVE g[n - 1] = n - 1
  <2>1. n <= N /\ n <= M /\ \A i \in 1..n : rewritten[i] = original[i]
    BY <1>12 DEF CommonPrefix
  <2>2. \A i \in 1..n : <<z + i, z + i>> \in Twins
    <3>1. \A i \in 1..n : i \in 1..N /\ i \in 1..M /\ z + i = i
      BY <1>3, <1>5, <2>1
    <3> QED BY <1>3, <2>1, <3>1, TwinsAre
  <2>3. Shared(Twins, z + n, z + n) = Shared(Twins, z, z) + n
    <3>1. z \in Nat /\ n \in Nat
      BY <1>5
    <3> QED BY ONLY <2>2, <3>1, SharedRun
  <2>4. Shared(Twins, z, z) \in Nat /\ Shared(Twins, n, n) \in Nat /\ Shared(Twins, n, n) <= n
    BY <1>5, SharedBounds
  <2>5. z + n = n
    BY <1>5
  <2>6. Shared(Twins, n, n) = n
    BY <2>3, <2>4, <2>5
  <2>7. Cost(Twins, n, n) = 0 /\ n - 0 = n
    BY <2>6 DEF Cost
  <2>8. n <= u
    <3>1. n \in Nat /\ n - 0 \in Nat /\ Cost(Twins, n, n - 0) <= 0
      BY <2>7
    <3> QED BY <1>7, <3>1 DEF Reaches
  <2>9. n - 1 \in 0..(u - 1)
    BY <1>7, <2>8
  <2> QED BY <1>11, <2>9
<1>13. Mapped'
  <2>1. \A i, j \in 0..N : i <= j => g[i] <= g[j]
    BY <1>11 DEF MappedBehind
  <2>2. Cardinality(Kept(g, 0)) >= Shared(Twins, N, M)
    <3>1. Cardinality(Kept(g, 0)) + Shared(Twins, z, z) >= Shared(Twins, N, M)
      BY <1>5, <1>11 DEF MappedBehind
    <3>2. Shared(Twins, z, z) = 0
      BY <1>5, SharedIs
    <3>3. Cardinality(Kept(g, z)) \in Nat
      BY <1>3, <1>5, KeptFinite
    <3> QED BY <1>5, <3>1, <3>2, <3>3
  <2>3. ASSUME NEW p \in 0..N, NEW q \in 0..N, Swapped(p, q)
        PROVE  \A i \in p..(N - q - 1) : g[i] = p
    <3>1. \A i \in p..(N - q - 1) : i >= 0 => g[i] = p
      BY <1>11, <2>3 DEF MappedBehind
    <3>2. \A i \in p..(N - q - 1) : i >= 0
      BY <1>3
    <3> QED BY <3>1, <3>2
  <2>4. Kept(posMap, 0)' = Kept(g, 0)
    BY <1>1, <1>4, <1>10 DEF Kept
  <2>5. /\ \A p, q : Swapped(p, q)' <=> Swapped(p, q)
        /\ \A n : CommonPrefix(n)' <=> CommonPrefix(n)
    BY <1>1, SameTexts
  <2> QED BY <1>1, <1>4, <1>6, <1>10, <1>12, <2>1, <2>2, <2>3, <2>4, <2>5 DEF Mapped
<1>14. OffsetTypeOK'
  <2>1. /\ d \in 0..MaxD /\ k \in (-MaxD)..MaxD /\ DOMAIN V = (-MaxD)..MaxD /\ Len(trace) \in 1..(MaxD + 1)
    BY <1>2 DEF OffsetTypeOK
  <2>2. x' \in 0..N /\ y' \in 0..M
    BY <1>3, <1>10
  <2> QED BY <1>1, <1>4, <1>10, <1>11, <2>1, <2>2 DEF OffsetTypeOK
<1> QED BY <1>1, <1>2, <1>13, <1>14 DEF OffsetInv, Done

LEMMA MapStays ==
    ASSUME OffsetInv, remapErrorPositions \/ UNCHANGED offsetVars
    PROVE  OffsetInv'
<1>1. /\ rewritten' = rewritten /\ original' = original /\ d' = d /\ k' = k /\ V' = V /\ trace' = trace
      /\ x' = x /\ y' = y /\ posMap' = posMap
      /\ (phase' = phase /\ position' = position) \/ (phase = "remap" /\ phase' = "done")
  BY DEF remapErrorPositions, offsetVars
<1>2. /\ N' = N /\ M' = M /\ MaxD' = MaxD /\ Twins' = Twins /\ Best' = Best /\ Rows' = Rows
      /\ \A p, q : Swapped(p, q)' <=> Swapped(p, q)
      /\ \A n : CommonPrefix(n)' <=> CommonPrefix(n)
  BY <1>1, SameTexts
<1>3. Kept(posMap, 0)' = Kept(posMap, 0) /\ Kept(posMap, x)' = Kept(posMap, x)
  BY <1>1, <1>2 DEF Kept
<1>4. OffsetTypeOK'
  BY <1>1, <1>2 DEF OffsetInv, OffsetTypeOK
<1>5. Searching => Searching'
  BY <1>1, <1>2 DEF Searching, Searched
<1>6. Walking => Walking'
  <2>1. MappedBehind(posMap, x, y) => MappedBehind(posMap, x, y)'
    BY <1>1, <1>2, <1>3 DEF MappedBehind
  <2> QED BY <1>1, <1>2, <2>1 DEF Walking, Searched
<1>7. Mapped => Mapped'
  BY <1>1, <1>2, <1>3 DEF Mapped
<1> QED BY <1>1, <1>4, <1>5, <1>6, <1>7 DEF OffsetInv, Done

LEMMA OffsetSteps == OffsetInv /\ [OffsetNext]_offsetVars => OffsetInv'
  BY Extends, WalksBack, FinishesWalk, MapStays DEF OffsetNext

LEMMA OffsetFaithful == OffsetInv => PositionsFaithful
<1> SUFFICES ASSUME OffsetInv PROVE PositionsFaithful
  OBVIOUS
<1>1. N \in Nat /\ M \in Nat /\ MaxD = N + M /\ MaxD \in Nat
  BY TextsHave DEF OffsetInv
<1>2. OffsetTypeOK
  BY DEF OffsetInv
<1>3. Best = N + M - 2 * InCommon /\ InCommon = Shared(Twins, N, M)
  BY DEF Best, Cost, Shared, InCommon
<1>4. ShortestEdit
  <2>1. phase = "forward" => d <= Best
    BY DEF OffsetInv, Searching
  <2>2. (phase # "forward" /\ N > 0 /\ M > 0) => Len(trace) = Best + 1
    <3>1. phase = "back" \/ phase = "forward" \/ Done
      BY <1>2 DEF OffsetTypeOK, Done
    <3>2. N > 0 /\ M > 0 => N # 0 /\ M # 0
      BY <1>1
    <3> QED BY <3>1, <3>2 DEF OffsetInv, Walking, Mapped
  <2> QED BY <1>3, <2>1, <2>2 DEF ShortestEdit
<1>5. Done => Mapped
  BY DEF OffsetInv
<1>6. OffsetsMonotone
  BY <1>5 DEF OffsetsMonotone, Mapped
<1>7. CommonBytesKept
  <2>1. Kept(posMap, 0) = {i \in 0..(N - 1) : /\ posMap[i] < M
                                             /\ rewritten[i + 1] = original[posMap[i] + 1]}
    BY DEF Kept
  <2> QED BY <1>3, <1>5, <2>1 DEF CommonBytesKept, Mapped
<1>8. NameStartsKept
  BY <1>5 DEF NameStartsKept, Mapped
<1> QED BY <1>2, <1>4, <1>6, <1>7, <1>8 DEF PositionsFaithful

(* buildOffsetMap: for every two texts the map of positions is in order,   *)
(* comes from a shortest edit, keeps as many bytes as a longest common     *)
(* subsequence has, and sends a position inside a swapped name to where    *)
(* the caller's name begins.                                               *)
THEOREM PositionsStayFaithful == OffsetSpec => []PositionsFaithful
  BY OffsetBegins, OffsetSteps, OffsetFaithful, PTL DEF OffsetSpec

(* remapErrorPositions: a position inside what both texts begin with is    *)
(* the same position afterwards.                                           *)
THEOREM PrefixesStay == OffsetSpec => PrefixPositionsKept
<1> DEFINE Kept0 == phase = "remap" /\ phase' = "done" /\ position > 0 /\ CommonPrefix(position)
                      => position' = position
<1>1. OffsetInv /\ [OffsetNext]_offsetVars => [Kept0]_offsetVars
  <2> SUFFICES ASSUME OffsetInv, [OffsetNext]_offsetVars, phase = "remap", phase' = "done",
                      position > 0, CommonPrefix(position)
               PROVE  position' = position
    OBVIOUS
  <2>1. N \in Nat /\ M \in Nat
    BY TextsHave DEF OffsetInv
  <2>2. position \in Nat \ {0} /\ position <= N /\ Mapped
    BY DEF OffsetInv, Done, CommonPrefix
  <2>3. posMap[position - 1] = position - 1
    BY <2>2 DEF Mapped
  <2>4. remapErrorPositions
    BY DEF OffsetNext, ExtendDiagonal, WalkBack, FinishWalk, offsetVars
  <2>5. position' = posMap[position - 1] + 1
    BY <2>1, <2>2, <2>4 DEF remapErrorPositions
  <2> QED BY <2>2, <2>3, <2>5
<1>2. PrefixPositionsKept <=> [][Kept0]_offsetVars
  BY DEF PrefixPositionsKept
<1> QED BY <1>1, <1>2, OffsetBegins, OffsetSteps, PTL DEF OffsetSpec
=============================================================================
