------------------------------ MODULE OffsetMap ------------------------------
(***************************************************************************)
(* The byte-position map of error inversion: buildOffsetMap aligns the     *)
(* rewritten SQL with the original by a greedy shortest-edit search, one   *)
(* step per diagonal, and walks the alignment back; remapErrorPositions    *)
(* then moves the position an error text names.  Bytes are letters of      *)
(* small texts; offsets count from 0 as in the code.                       *)
(***************************************************************************)
EXTENDS Integers, Sequences, FiniteSetsExt

CONSTANTS Texts,        \* the SQL texts that occur
          Positions     \* the positions an error text names

ASSUME TextsAssumption == \A t \in Texts : Len(t) \in Nat
ASSUME PositionsAssumption == Positions \subseteq Nat

VARIABLES rewritten, original,  \* the two texts
          position,             \* the position in the error text
          phase,                \* "forward", "back", "remap", "done"
          d, k,                 \* edits spent, diagonal in work
          V,                    \* furthest offset in rewritten per diagonal
          trace,                \* V as it was before each d
          x, y,                 \* the walk back
          posMap

offsetVars == <<rewritten, original, position, phase, d, k, V, trace, x, y, posMap>>

N == Len(rewritten)
M == Len(original)
MaxD == N + M

OffsetInit ==
    /\ rewritten \in Texts /\ original \in Texts /\ position \in Positions
    /\ d = 0 /\ k = 0 /\ x = N /\ y = M
    /\ V = [j \in -MaxD..MaxD |-> 0]
    /\ trace = <<V>>
    /\ posMap = [i \in 0..N |-> IF i = N THEN M ELSE 0]
    /\ phase = IF N = 0 \/ M = 0 THEN "remap" ELSE "forward"

---------------------------------------------------------------------------
(* The search.  A diagonal is entered by an insertion (down) or a deletion *)
(* from whichever neighbour reaches further, then slides over equal bytes. *)

(* Mutant: the neighbours are compared the wrong way round, so a diagonal  *)
(* is entered from the one that reaches less far.                          *)
DownSwapped(W, dd, kk) == kk = -dd \/ (kk # dd /\ W[kk - 1] > W[kk + 1])

Down(W, dd, kk) == kk = -dd \/ (kk # dd /\ W[kk - 1] < W[kk + 1])

(* The equal bytes of the two texts, counted from 1. *)
Twins == {t \in (1..N) \X (1..M) : rewritten[t[1]] = original[t[2]]}

(* The equal run that starts at offsets a of rewritten and b of original.  *)
Slide(a, b) == Max({n \in 0..N : \A i \in 1..n : <<a + i, b + i>> \in Twins})

Reach(W, dd, kk) == IF Down(W, dd, kk) THEN W[kk + 1] ELSE W[kk - 1] + 1

Furthest(W, dd, kk) == LET a == Reach(W, dd, kk) IN a + Slide(a, a - kk)

(* Mutant: the search goes on until it has passed both ends. *)
UsedPast(a, b) == a > N /\ b > M

(* Both texts are used up. *)
UsedUp(a, b) == a >= N /\ b >= M

(* One diagonal.  The search ends when both texts are used up; it cannot   *)
(* run past MaxD edits (ShortestEdit), so the code's give-up is no step.   *)
ExtendDiagonal ==
    /\ phase = "forward"
    /\ LET a == Furthest(V, d, k)
           W == [V EXCEPT ![k] = a]
       IN  /\ V' = W
           /\ IF UsedUp(a, a - k)
              THEN phase' = "back" /\ UNCHANGED <<d, k, trace>>
              ELSE /\ UNCHANGED phase
                   /\ IF k < d THEN k' = k + 2 /\ UNCHANGED <<d, trace>>
                               ELSE /\ d < MaxD
                                    /\ d' = d + 1 /\ k' = -(d + 1) /\ trace' = Append(trace, W)
    /\ UNCHANGED <<rewritten, original, position, x, y, posMap>>

---------------------------------------------------------------------------
(* The walk back from the ends of both texts.                              *)

(* Mutant: the run is mapped from its far end. *)
MapRunSkewed(f, n) == [i \in DOMAIN f |-> IF i \in (x - n)..(x - 1) THEN y - n ELSE f[i]]

(* The equal run the walk crosses maps byte to byte. *)
MapRun(f, n) == [i \in DOMAIN f |-> IF i \in (x - n)..(x - 1) THEN y - (x - i) ELSE f[i]]

(* Mutant: a deleted byte keeps no position of its own.                    *)
DeleteUnmapped(f, px, py) == f

(* Mutant: a deleted byte stands after the byte the original continues with. *)
DeletePastNext(f, px, py) == IF px < N THEN [f EXCEPT ![px] = py + 1] ELSE f

(* A deleted byte stands where the original continues. *)
MapDeleted(f, px, py) == IF px < N THEN [f EXCEPT ![px] = py] ELSE f

WalkBack ==
    /\ phase = "back" /\ d > 0
    /\ LET W     == trace[d + 1]
           kk    == x - y
           down  == Down(W, d, kk)
           prevK == IF down THEN kk + 1 ELSE kk - 1
           prevX == W[prevK]
           prevY == prevX - prevK
           run   == Max({0, Min({x - (IF down THEN prevX ELSE prevX + 1),
                                 y - (IF down THEN prevY + 1 ELSE prevY)})})
       IN  /\ x' = IF down THEN x - run ELSE prevX
           /\ y' = IF down THEN prevY ELSE y - run
           /\ posMap' = IF down THEN MapRun(posMap, run)
                        ELSE MapDeleted(MapRun(posMap, run), prevX, prevY)
    /\ d' = d - 1
    /\ UNCHANGED <<rewritten, original, position, phase, k, V, trace>>

(* What is left once no edit remains is one equal run. *)
FinishWalk ==
    /\ phase = "back" /\ d = 0
    /\ LET run == Min({x, y}) IN x' = 0 /\ y' = y - run /\ posMap' = MapRun(posMap, run)
    /\ phase' = "remap"
    /\ UNCHANGED <<rewritten, original, position, d, k, V, trace>>

---------------------------------------------------------------------------
(* Mutant: a position is an offset, not one more. *)
RemapFromZero ==
    /\ phase = "remap" /\ phase' = "done"
    /\ position' = IF N = 0 \/ position = 0 \/ position > N THEN position ELSE posMap[position] + 1
    /\ UNCHANGED <<rewritten, original, d, k, V, trace, x, y, posMap>>

(* A position counts from 1; 0 and what lies past the text are left alone. *)
remapErrorPositions ==
    /\ phase = "remap" /\ phase' = "done"
    /\ position' = IF N = 0 \/ position = 0 \/ position > N THEN position ELSE posMap[position - 1] + 1
    /\ UNCHANGED <<rewritten, original, d, k, V, trace, x, y, posMap>>

OffsetNext == ExtendDiagonal \/ WalkBack \/ FinishWalk \/ remapErrorPositions

OffsetSpec == OffsetInit /\ [][OffsetNext]_offsetVars

---------------------------------------------------------------------------
(* The state keeps its shape; offsets stay inside their texts. *)
OffsetTypeOK ==
    /\ phase \in {"forward", "back", "remap", "done"}
    /\ d \in 0..MaxD /\ k \in -MaxD..MaxD
    /\ DOMAIN V = -MaxD..MaxD /\ Len(trace) \in 1..(MaxD + 1)
    /\ x \in 0..N /\ y \in 0..M
    /\ DOMAIN posMap = 0..N /\ \A i \in 0..N : posMap[i] \in 0..M

(* The reference: the length of a longest common subsequence of what       *)
(* stands before two offsets, from the pairs of equal bytes.               *)
Common(twins) ==
    LET c[t \in Nat \X Nat] ==
            IF t[1] = 0 \/ t[2] = 0 THEN 0
            ELSE IF t \in twins THEN 1 + c[<<t[1] - 1, t[2] - 1>>]
            ELSE Max({c[<<t[1] - 1, t[2]>>], c[<<t[1], t[2] - 1>>]})
    IN  c

InCommon == Common(Twins)[<<N, M>>]

Done == phase \in {"remap", "done"}

(* The search finds a shortest edit: it spends one edit per byte that is   *)
(* not common and no more, so it ends before the code would give up        *)
(* (buildOffsetMap walks back from there).                                 *)
ShortestEdit ==
    LET edits == N + M - 2 * InCommon IN
    /\ phase = "forward" => d <= edits
    /\ (phase # "forward" /\ N > 0 /\ M > 0) => Len(trace) = edits + 1

(* The map never runs backwards: of two positions of the rewritten text    *)
(* the later one maps no earlier, so an error range stays a range.         *)
OffsetsMonotone ==
    Done => \A i, j \in 0..N : i <= j => posMap[i] <= posMap[j]

(* Every byte of a longest common subsequence maps onto its own twin: the  *)
(* text around a rewritten name keeps its exact positions.                 *)
CommonBytesKept ==
    Done => Cardinality({i \in 0..(N - 1) : /\ posMap[i] < M
                                            /\ rewritten[i + 1] = original[posMap[i] + 1]})
            >= InCommon

(* A position inside what both texts begin with stays: an error before the *)
(* first rewritten byte is reported at that very byte of the caller's SQL  *)
(* (remapErrorPositions).  Nothing of the kind holds for what both texts   *)
(* end with: of "ca" for "aba" the last byte maps to the first "a".        *)
CommonPrefix(n) == n <= N /\ n <= M /\ \A i \in 1..n : rewritten[i] = original[i]
PrefixPositionsKept ==
    [][phase = "remap" /\ phase' = "done" /\ position > 0 /\ CommonPrefix(position)
        => position' = position]_offsetVars

(* A name was swapped: what lies between the common prefix of p bytes and  *)
(* the common suffix of q is spelt with bytes the original does not have.  *)
Swapped(p, q) ==
    /\ CommonPrefix(p) /\ p + q < N /\ p + q < M
    /\ \A i \in 0..(q - 1) : rewritten[N - i] = original[M - i]
    /\ \A i \in (p + 1)..(N - q), j \in 1..M : rewritten[i] # original[j]

(* A position inside a rewritten name remaps to the start of the caller's  *)
(* name, however the two names differ in length (buildOffsetMap's promise  *)
(* for an identifier swap).                                                *)
NameStartsKept ==
    Done => \A p, q \in 0..N :
        Swapped(p, q) => \A i \in p..(N - q - 1) : posMap[i] = p

(* The map of positions is a map of the two texts: in order, shortest,     *)
(* exact on what they share and on the start of a swapped name.            *)
PositionsFaithful == OffsetTypeOK /\ ShortestEdit /\ OffsetsMonotone /\ CommonBytesKept /\ NameStartsKept
=============================================================================
