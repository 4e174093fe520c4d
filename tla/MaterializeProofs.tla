-------------------------- MODULE MaterializeProofs --------------------------
(***************************************************************************)
(* Whatever is asked, in statements of every shape: what MaterializeSQL    *)
(* answers can be replayed.                                                *)
(***************************************************************************)
EXTENDS Materialize, FiniteSetTheorems, TLAPS

---------------------------------------------------------------------------
(* Sequences of any elements.                                              *)

IsSequence(s) == Len(s) \in Nat /\ DOMAIN s = 1..Len(s) /\ s = [i \in 1..Len(s) |-> s[i]]

LEMMA Sequence ==
    ASSUME NEW s, IsSequence(s), NEW X, \A i \in DOMAIN s : s[i] \in X
    PROVE  s \in Seq(X)
<1>1. s \in [1..Len(s) -> X]
  BY DEF IsSequence
<1> QED BY <1>1, Len(s) \in Nat DEF IsSequence

LEMMA ASequence ==
    ASSUME NEW X, NEW s \in Seq(X)
    PROVE  IsSequence(s)
<1>1. Len(s) \in Nat /\ DOMAIN s = 1..Len(s)
  OBVIOUS
<1>2. s = [i \in 1..Len(s) |-> s[i]]
  OBVIOUS
<1> QED BY <1>1, <1>2 DEF IsSequence

LEMMA AppendKeeps ==
    ASSUME NEW s, IsSequence(s), NEW x
    PROVE  /\ IsSequence(Append(s, x)) /\ Len(Append(s, x)) = Len(s) + 1
           /\ \A i \in 1..Len(s) : Append(s, x)[i] = s[i]
           /\ Append(s, x)[Len(s) + 1] = x
<1> DEFINE X == {s[i] : i \in DOMAIN s} \cup {x}
           t == Append(s, x)
<1>1. s \in Seq(X) /\ Len(s) \in Nat /\ DOMAIN s = 1..Len(s) /\ x \in X
  BY Sequence DEF IsSequence
<1> HIDE DEF X
<1>2. /\ t \in Seq(X) /\ Len(t) = Len(s) + 1 /\ t[Len(s) + 1] = x
      /\ \A i \in 1..Len(s) : t[i] = s[i]
  BY <1>1
<1> HIDE DEF t
<1>3. IsSequence(t)
  BY <1>2, ASequence
<1> QED BY <1>2, <1>3 DEF t

LEMMA RangeIs ==
    ASSUME NEW f
    PROVE  /\ \A i \in DOMAIN f : f[i] \in Range(f)
           /\ \A x \in Range(f) : \E i \in DOMAIN f : f[i] = x
BY DEF Range

---------------------------------------------------------------------------
(* Division.                                                               *)

LEMMA DivIs ==
    ASSUME NEW a \in Nat, NEW d \in Nat \ {0}
    PROVE  a \div d \in Nat /\ d * (a \div d) <= a /\ a < d * (a \div d) + d
OBVIOUS

LEMMA DivOnly ==
    ASSUME NEW a \in Nat, NEW d \in Nat \ {0}, NEW q \in Nat, d * q <= a, a < d * q + d
    PROVE  a \div d = q
<1> DEFINE p == a \div d
<1>1. p \in Nat /\ d * p <= a /\ a < d * p + d
  BY DivIs
<1> HIDE DEF p
<1>2. ASSUME p < q PROVE FALSE
  <2>1. PICK e \in Nat : q = p + 1 + e
    <3>1. q - p - 1 \in Nat /\ q = p + 1 + (q - p - 1)
      BY <1>1, <1>2
    <3> QED BY <3>1
  <2>2. d * q = d * p + d + d * e
    BY <2>1, <1>1
  <2>3. d * e \in Nat
    BY <2>1
  <2> QED BY <1>1, <2>2, <2>3
<1>3. ASSUME q < p PROVE FALSE
  <2>1. PICK e \in Nat : p = q + 1 + e
    <3>1. p - q - 1 \in Nat /\ p = q + 1 + (p - q - 1)
      BY <1>1, <1>3
    <3> QED BY <3>1
  <2>2. d * p = d * q + d + d * e
    BY <2>1
  <2>3. d * e \in Nat
    BY <2>1
  <2> QED BY <1>1, <2>2, <2>3
<1> QED BY <1>1, <1>2, <1>3 DEF p

LEMMA DivTwice ==
    ASSUME NEW a \in Nat, NEW m \in Nat \ {0}, NEW d \in Nat \ {0}
    PROVE  (a \div m) \div d = a \div (m * d)
<1> DEFINE p == a \div m
           q == p \div d
<1>1. p \in Nat /\ m * p <= a /\ a < m * p + m
  BY DivIs
<1> HIDE DEF p
<1>2. q \in Nat /\ d * q <= p /\ p < d * q + d
  BY <1>1, DivIs
<1> HIDE DEF q
<1>3. m * d \in Nat \ {0}
  OBVIOUS
<1>4. (m * d) * q <= a
  <2>1. PICK e \in Nat : p = d * q + e
    <3>1. p - d * q \in Nat /\ p = d * q + (p - d * q)
      BY <1>1, <1>2
    <3> QED BY <3>1
  <2>2. m * p = (m * d) * q + m * e
    BY <2>1, <1>1, <1>2
  <2>3. m * e \in Nat /\ (m * d) * q \in Nat
    BY <2>1, <1>2
  <2> QED BY <1>1, <2>2, <2>3
<1>5. a < (m * d) * q + m * d
  <2>1. PICK e \in Nat : d * q + d = p + 1 + e
    <3>1. d * q + d - p - 1 \in Nat /\ d * q + d = p + 1 + (d * q + d - p - 1)
      BY <1>1, <1>2
    <3> QED BY <3>1
  <2>2. m * (d * q + d) = m * p + m + m * e
    BY <2>1, <1>1, <1>2
  <2>3. m * (d * q + d) = (m * d) * q + m * d
    BY <1>1, <1>2
  <2>4. m * e \in Nat
    BY <2>1
  <2> QED BY <1>1, <2>2, <2>3, <2>4
<1>6. a \div (m * d) = q
  <2> DEFINE n == m * d
  <2>1. n \in Nat \ {0} /\ n * q <= a /\ a < n * q + n
    BY <1>3, <1>4, <1>5
  <2> HIDE DEF n
  <2>2. a \div n = q
    BY <1>2, <2>1, DivOnly
  <2> QED BY <2>2 DEF n
<1> QED BY <1>6 DEF q, p
LEMMA QuotientInt ==
    ASSUME NEW a \in Int, NEW d \in Nat \ {0}
    PROVE  Quotient(a, d) \in Int
BY DivIs DEF Quotient

(* Cutting to a unit and then to a larger one is cutting to the larger.    *)
LEMMA QuotientTwice ==
    ASSUME NEW a \in Int, NEW m \in Nat \ {0}, NEW s \in Nat \ {0}, s % m = 0
    PROVE  Quotient(Quotient(a, m), s \div m) = Quotient(a, s)
<1> DEFINE d == s \div m
<1>1. d \in Nat \ {0} /\ m * d = s
  <2>1. d \in Nat /\ m * d + (s % m) = s
    OBVIOUS
  <2>2. m * d = s
    BY <2>1
  <2>3. d # 0
    BY <2>2
  <2> QED BY <2>1, <2>2, <2>3
<1> HIDE DEF d
<1>2. CASE a >= 0
  <2>1. a \in Nat /\ a \div m \in Nat
    BY <1>2, DivIs
  <2>2. (a \div m) \div d = a \div (m * d)
    BY <1>1, <2>1, DivTwice
  <2>3. (a \div m) \div d = a \div s
    BY <1>1, <2>2
  <2>4. Quotient(a, m) = a \div m /\ Quotient(a, s) = a \div s /\ Quotient(a \div m, d) = (a \div m) \div d
    BY <1>2, <2>1 DEF Quotient
  <2> QED BY <2>3, <2>4 DEF d
<1>3. CASE a < 0
  <2> DEFINE b == -a
             p == b \div m
  <2>1. b \in Nat /\ p \in Nat
    BY <1>3, DivIs
  <2>6. p \div d = b \div (m * d)
    BY <1>1, <2>1, DivTwice
  <2>2. p \div d = b \div s
    BY <1>1, <2>6
  <2>3. Quotient(a, m) = -p /\ Quotient(a, s) = -(b \div s)
    BY <1>3 DEF Quotient
  <2> HIDE DEF p, b
  <2>4. CASE p = 0
    <3>1. 0 \div d = 0
      BY <1>1, DivOnly
    <3> QED BY <2>1, <2>2, <2>3, <2>4, <3>1 DEF Quotient, d
  <2>5. CASE p # 0
    <3>1. -p < 0 /\ -(-p) = p
      BY <2>1, <2>5
    <3> QED BY <2>2, <2>3, <3>1 DEF Quotient, d
  <2> QED BY <2>4, <2>5
<1> QED BY <1>2, <1>3

---------------------------------------------------------------------------
(* The inductive invariant.                                                *)

Volatile(n) ==
    \/ n.shape \in Reserved
    \/ n.shape = "function" /\ n.name \in isKnownNondeterministic
    \/ n.shape = "column" /\ n.name = "current_timestamp" /\ ~n.args

Nodes == DOMAIN mreq.tree

Shaped ==
    /\ mreq \in MaterializeRequests
    /\ at \in {"policy", "parse", "walk", "regenerate", "generate", "done"}
    /\ DOMAIN tree = Nodes
    /\ used \in [Pools -> Nat] /\ \A pool \in Pools : used[pool] <= Len(mreq.values[pool])
    /\ IsSequence(replacements)
    /\ answer \in [Code : {"Success", "InvalidRequest", "SyntaxError", "UnsupportedStatement", "Error"},
                   sql : {"none", "asGiven", "generated"}]

(* The walk has come to the node Here; the parts it has yet to visit      *)
(* follow one another from there to the end of the statement, untouched.   *)
Here == IF toVisit = <<>> THEN Len(mreq.tree) + 1 ELSE toVisit[1]

Ahead ==
    /\ toVisit \in Seq(Nodes)
    /\ toVisit # <<>> => mreq.last[toVisit[Len(toVisit)]] = Len(mreq.tree)
    /\ \A k \in 1..(Len(toVisit) - 1) : toVisit[k + 1] = mreq.last[toVisit[k]] + 1
    /\ \A i \in Nodes : i >= Here => tree[i] = mreq.tree[i]

(* The nodes in V have been visited: none of them is volatile, they lead   *)
(* to one another and to what is still to be visited, and to all of it.    *)
Led(V, part) == 1 \in part /\ \A j \in part \cap V : Range(Kids(tree[j])) \subseteq part

Visited(V) ==
    /\ V \subseteq Nodes /\ \A j \in V : j < Here
    /\ 1 \in V \cup Range(toVisit)
    /\ \A j \in V : ~Volatile(tree[j]) /\ Range(Kids(tree[j])) \subseteq V \cup Range(toVisit)
    /\ \A part \in SUBSET Nodes : Led(V, part) => V \cup Range(toVisit) \subseteq part

(* place[i] is the node the i-th record is about. *)
Placed(V, place) ==
    /\ place \in [DOMAIN replacements -> V]
    /\ {j \in V : tree[j].shape = "literal"} = Range(place)
    /\ \A i, j \in DOMAIN replacements : i < j => place[i] < place[j]
    /\ \A i \in DOMAIN replacements :
          tree[place[i]].lit = replacements[i].lit /\ replacements[i].ordinal = i - 1

Walked == \E V \in SUBSET Nodes : Visited(V) /\ \E place : Placed(V, place)

(* How many of the first n records draw on the pool, and what they hold.   *)
Drawn(pool, n) == Cardinality({j \in 1..n : replacements[j].lit.kind \in KindsOf(pool)})

ValueAt(pool, n) == IF pool = "uuid" THEN LowerCase[mreq.values[pool][n]] ELSE mreq.values[pool][n]

InOrder ==
    \A pool \in Pools :
        /\ Drawn(pool, Len(replacements)) <= used[pool]
        /\ at \in {"policy", "parse", "walk"} => used[pool] = Drawn(pool, Len(replacements))
        /\ \A i \in DOMAIN replacements :
              replacements[i].lit.kind \in KindsOf(pool) =>
                  replacements[i].lit.value = ValueAt(pool, Drawn(pool, i))

Instant == CHOOSE ns \in mreq.now : TRUE

(* The literal is what the clock reads. *)
Reading(fn, lit) ==
    /\ \/ lit.kind \in {"DateTime", "DateTimeUTC", "DateTime64"} \/ fn \in clockToday \cup {"yesterday"}
          => Instant \in Int
    /\ lit.kind \in {"DateTime", "DateTimeUTC"} => lit.value = nowSeconds(Instant)
    /\ lit.kind = "DateTime64" => lit.value = Quotient(Instant, NanosPerMilli)
    /\ fn \in clockToday => lit.value = nowSeconds(Instant)
    /\ fn = "yesterday" => lit.value = nowSeconds(Instant) - SecondsPerDay

Readings == \A i \in DOMAIN replacements : Reading(replacements[i].fn, replacements[i].lit)

Stage ==
    /\ at \in {"policy", "parse"} => replacements = <<>>
    /\ at \in {"policy", "parse", "walk", "regenerate", "generate"} =>
          answer.Code = "Success" /\ answer.sql # "generated"
    /\ at \in {"regenerate", "generate"} => replacements # <<>>
    /\ at = "generate" => ~mreq.dropsTokens
    /\ at \in {"regenerate", "generate"} \/ (at = "done" /\ answer.Code = "Success") => toVisit = <<>>
    /\ answer.sql = "generated" =>
          at = "done" /\ answer.Code = "Success" /\ replacements # <<>> /\ ~mreq.dropsTokens

MInv == Shaped /\ Ahead /\ Walked /\ InOrder /\ Readings /\ Stage

---------------------------------------------------------------------------
(* The way of the walk.                                                    *)

LEMMA Request ==
    ASSUME mreq \in MaterializeRequests
    PROVE  /\ Len(mreq.tree) \in Nat \ {0} /\ Nodes = 1..Len(mreq.tree)
           /\ mreq.now \subseteq Int /\ \A pool \in Pools : Len(mreq.values[pool]) \in Nat
           /\ \A i \in Nodes :
                 /\ mreq.last[i] \in i..Len(mreq.tree) /\ mreq.tree[i].shape # "literal"
                 /\ Kids(mreq.tree[i]) \in Seq(Nodes)
                 /\ Kids(mreq.tree[i]) # <<>> =>
                       /\ Kids(mreq.tree[i])[1] = i + 1
                       /\ mreq.last[Kids(mreq.tree[i])[Len(Kids(mreq.tree[i]))]] = mreq.last[i]
                 /\ \A k \in 1..(Len(Kids(mreq.tree[i])) - 1) :
                       Kids(mreq.tree[i])[k + 1] = mreq.last[Kids(mreq.tree[i])[k]] + 1
<1>1. NumberedInOrder(mreq.tree, mreq.last)
  BY RequestsAssumption
<1>2. /\ Len(mreq.tree) \in Nat \ {0} /\ Nodes = 1..Len(mreq.tree)
      /\ mreq.now \subseteq Int /\ \A pool \in Pools : Len(mreq.values[pool]) \in Nat
      /\ \A i \in Nodes : mreq.tree[i].shape # "literal"
  BY RequestsAssumption DEF Nodes
<1> QED BY <1>1, <1>2 DEF NumberedInOrder, Nodes

(* Parts that follow one another. *)
Spans(N, L) == N \in Nat \ {0} /\ \A i \in 1..N : L[i] \in i..N
Follow(L, s) == \A k \in 1..(Len(s) - 1) : s[k + 1] = L[s[k]] + 1

LEMMA ItemsOf ==
    ASSUME NEW S, NEW s \in Seq(S)
    PROVE  \A i \in 1..Len(s) : s[i] \in S
  OBVIOUS

LEMMA Advance ==
    ASSUME NEW N, NEW L, Spans(N, L), NEW s \in Seq(1..N), s # <<>>, L[s[Len(s)]] = N, Follow(L, s),
           NEW K \in Seq(1..N), Follow(L, K),
           K = <<>> \/ (K[1] = s[1] + 1 /\ L[K[Len(K)]] = L[s[1]])
    PROVE  /\ K \o Tail(s) \in Seq(1..N) /\ Follow(L, K \o Tail(s))
           /\ \/ K \o Tail(s) = <<>>
              \/ /\ L[(K \o Tail(s))[Len(K \o Tail(s))]] = N
                 /\ (K \o Tail(s))[1] \in 1..N /\ (K \o Tail(s))[1] > s[1]
           /\ Range(K \o Tail(s)) = Range(K) \cup Range(Tail(s))
           /\ Range(s) = {s[1]} \cup Range(Tail(s))
<1> DEFINE t == K \o Tail(s)
           m == Len(K)
           n == Len(s)
<1>11. N \in Nat \ {0} /\ \A i \in 1..N : L[i] \in i..N
  BY DEF Spans
<1>12. /\ \A k \in 1..(n - 1) : s[k + 1] = L[s[k]] + 1
       /\ \A k \in 1..(m - 1) : K[k + 1] = L[K[k]] + 1
  BY DEF Follow
<1>1. /\ n \in Nat \ {0} /\ m \in Nat /\ DOMAIN s = 1..n /\ DOMAIN K = 1..m
      /\ Tail(s) \in Seq(1..N) /\ Len(Tail(s)) = n - 1 /\ DOMAIN Tail(s) = 1..(n - 1)
      /\ \A i \in 1..(n - 1) : Tail(s)[i] = s[i + 1]
      /\ (K = <<>> <=> m = 0) /\ \A i \in 1..n : s[i] \in 1..N /\ \A j \in 1..m : K[j] \in 1..N
  <2>1. /\ n \in Nat \ {0} /\ m \in Nat /\ DOMAIN s = 1..n /\ DOMAIN K = 1..m
        /\ (K = <<>> <=> m = 0)
    OBVIOUS
  <2>2. Tail(s) \in Seq(1..N) /\ Len(Tail(s)) = n - 1
    OBVIOUS
  <2>3. DOMAIN Tail(s) = 1..(n - 1)
    BY <2>2
  <2>4. \A i \in 1..(n - 1) : Tail(s)[i] = s[i + 1]
    OBVIOUS
  <2>5. (\A i \in 1..n : s[i] \in 1..N) /\ \A i \in 1..m : K[i] \in 1..N
    BY ItemsOf, Zenon
  <2> QED BY <2>1, <2>2, <2>3, <2>4, <2>5
<1>2. /\ t \in Seq(1..N) /\ Len(t) = m + n - 1 /\ DOMAIN t = 1..(m + n - 1)
      /\ \A i \in 1..m : t[i] = K[i]
      /\ \A i \in (m + 1)..(m + n - 1) : t[i] = s[i - m + 1]
  <2>1. t \in Seq(1..N) /\ Len(t) = m + n - 1 /\ DOMAIN t = 1..(m + n - 1)
    BY <1>1
  <2>2. \A i \in 1..m : t[i] = K[i]
    BY <1>1
  <2>3. ASSUME NEW i \in (m + 1)..(m + n - 1) PROVE t[i] = s[i - m + 1]
    <3>1. i - m \in 1..(n - 1) /\ t[i] = Tail(s)[i - m]
      BY <1>1
    <3>2. Tail(s)[i - m] = s[(i - m) + 1]
      BY <3>1, <1>1
    <3> QED BY <3>1, <3>2
  <2> QED BY <2>1, <2>2, <2>3
<1>9. /\ L[s[n]] = N /\ \A k \in 1..(n - 1) : s[k + 1] = L[s[k]] + 1
      /\ m # 0 => K[1] = s[1] + 1 /\ L[K[m]] = L[s[1]]
      /\ \A k \in 1..(m - 1) : K[k + 1] = L[K[k]] + 1
  BY <1>1, <1>12
<1>3. s[1] \in 1..N /\ L[s[1]] \in s[1]..N
  BY <1>1, <1>11
<1>4. (t # <<>> => Len(t) > 0) /\ Len(t) = m + n - 1
  BY <1>2
<1>10. t \in Seq(1..N)
  BY <1>2
<1> HIDE DEF t, m, n
<1>5. ASSUME t # <<>> PROVE L[t[Len(t)]] = N /\ t[1] > s[1]
  <2>1. CASE m = 0
    <3>1. n >= 2 /\ t[1] = s[2] /\ t[Len(t)] = s[n]
      BY <2>1, <1>1, <1>2, <1>4, <1>5
    <3>2. s[1 + 1] = L[s[1]] + 1
      BY <3>1, <1>1, <1>9
    <3> QED BY <3>1, <3>2, <1>1, <1>3, <1>9
  <2>2. CASE m # 0
    <3>1. t[1] = K[1]
      BY <2>2, <1>1, <1>2
    <3>2. t[1] > s[1]
      BY <3>1, <2>2, <1>3, <1>9
    <3>3. CASE n = 1
      BY <2>2, <3>2, <3>3, <1>1, <1>2, <1>4, <1>9
    <3>4. CASE n # 1
      <4>1. Len(t) \in (m + 1)..(m + n - 1) /\ t[Len(t)] = s[n]
        BY <3>4, <1>1, <1>2, <1>4
      <4> QED BY <3>2, <4>1, <1>9
    <3> QED BY <3>3, <3>4
  <2> QED BY <2>1, <2>2, <1>1
<1>6. ASSUME NEW k \in 1..(Len(t) - 1) PROVE t[k + 1] = L[t[k]] + 1
  <2>1. CASE k < m
    <3>1. k \in 1..(m - 1) /\ t[k] = K[k] /\ t[k + 1] = K[k + 1]
      BY <2>1, <1>1, <1>2, <1>4
    <3> QED BY <3>1, <1>9
  <2>2. CASE k = m
    <3>1. n >= 2 /\ t[k] = K[m] /\ t[k + 1] = s[2]
      BY <2>2, <1>1, <1>2, <1>4
    <3>2. s[1 + 1] = L[s[1]] + 1
      BY <3>1, <1>1, <1>9
    <3> QED BY <2>2, <3>1, <3>2, <1>1, <1>9
  <2>3. CASE k > m
    <3>1. /\ k - m + 1 \in 1..(n - 1) /\ k \in (m + 1)..(m + n - 1)
          /\ k + 1 \in (m + 1)..(m + n - 1)
      BY <2>3, <1>1, <1>4
    <3>2. t[k] = s[k - m + 1] /\ t[k + 1] = s[(k + 1) - m + 1]
      BY <3>1, <1>2
    <3>3. s[(k - m + 1) + 1] = L[s[k - m + 1]] + 1
      BY <3>1, <1>9
    <3>4. (k + 1) - m + 1 = (k - m + 1) + 1
      BY <1>1, <1>4
    <3> QED BY <3>2, <3>3, <3>4
  <2> QED BY <2>1, <2>2, <2>3, <1>1, <1>2
<1>7. Range(t) = Range(K) \cup Range(Tail(s))
  <2>1. ASSUME NEW i \in 1..(m + n - 1) PROVE t[i] \in Range(K) \cup Range(Tail(s))
    <3>1. CASE i <= m
      <4>1. i \in DOMAIN K /\ t[i] = K[i]
        BY <3>1, <1>1, <1>2
      <4> QED BY <4>1, RangeIs
    <3>2. CASE i > m
      <4>1. i - m \in 1..(n - 1) /\ t[i] = s[i - m + 1]
        BY <3>2, <1>1, <1>2
      <4>2. t[i] = Tail(s)[i - m]
        BY <4>1, <1>1
      <4> QED BY <4>1, <4>2, <1>1, RangeIs
    <3> QED BY <3>1, <3>2, <1>1
  <2>2. ASSUME NEW i \in 1..m PROVE K[i] \in Range(t)
    <3>1. i \in DOMAIN t /\ t[i] = K[i]
      BY <1>1, <1>2
    <3> QED BY <3>1, RangeIs
  <2>3. ASSUME NEW i \in 1..(n - 1) PROVE Tail(s)[i] \in Range(t)
    <3>1. i + m \in (m + 1)..(m + n - 1) /\ t[i + m] = s[(i + m) - m + 1]
      BY <1>1, <1>2
    <3>2. (i + m) - m + 1 = i + 1
      BY <1>1
    <3>3. Tail(s)[i] = t[i + m]
      BY <1>1, <3>1, <3>2
    <3>4. i + m \in DOMAIN t
      BY <1>1, <1>2
    <3> QED BY <3>3, <3>4, RangeIs
  <2>4. ASSUME NEW x \in Range(t) PROVE x \in Range(K) \cup Range(Tail(s))
    BY <2>1, <2>4, <1>2, RangeIs
  <2>5. ASSUME NEW x \in Range(K) PROVE x \in Range(t)
    BY <2>2, <2>5, <1>1, RangeIs
  <2>6. ASSUME NEW x \in Range(Tail(s)) PROVE x \in Range(t)
    <3>1. PICK i \in DOMAIN Tail(s) : Tail(s)[i] = x
      BY <2>6, RangeIs
    <3> QED BY <2>3, <3>1, <1>1
  <2> QED BY <2>4, <2>5, <2>6
<1>8. Range(s) = {s[1]} \cup Range(Tail(s))
  <2>1. ASSUME NEW i \in 1..n, i # 1 PROVE s[i] \in Range(Tail(s))
    <3>1. i - 1 \in 1..(n - 1) /\ Tail(s)[i - 1] = s[(i - 1) + 1]
      BY <2>1, <1>1
    <3>2. (i - 1) + 1 = i
      BY <1>1
    <3>3. i - 1 \in DOMAIN Tail(s) /\ Tail(s)[i - 1] = s[i]
      BY <3>1, <3>2, <1>1
    <3> QED BY <3>3, RangeIs
  <2>2. ASSUME NEW i \in 1..(n - 1) PROVE Tail(s)[i] \in Range(s)
    <3>1. i + 1 \in 1..n
      BY <1>1
    <3> QED BY <3>1, <1>1, RangeIs
  <2>3. 1 \in 1..n
    BY <1>1
  <2>4. ASSUME NEW x \in Range(s) PROVE x \in {s[1]} \cup Range(Tail(s))
    BY <2>1, <2>4, <1>1, RangeIs
  <2>5. ASSUME NEW x \in Range(Tail(s)) PROVE x \in Range(s)
    <3>1. PICK i \in DOMAIN Tail(s) : Tail(s)[i] = x
      BY <2>5, RangeIs
    <3> QED BY <2>2, <3>1, <1>1
  <2>6. s[1] \in Range(s)
    BY <2>3, <1>1, RangeIs
  <2> QED BY <2>4, <2>5, <2>6
<1>13. t # <<>> => t[1] \in 1..N
  <2>1. ASSUME NEW S, t \in Seq(S), t # <<>> PROVE t[1] \in S
    BY <2>1
  <2> QED BY <2>1, <1>10
<1>14. Follow(L, t)
  BY <1>6 DEF Follow
<1>15. /\ t \in Seq(1..N) /\ Follow(L, t)
       /\ t = <<>> \/ (L[t[Len(t)]] = N /\ t[1] \in 1..N /\ t[1] > s[1])
       /\ Range(t) = Range(K) \cup Range(Tail(s))
       /\ Range(s) = {s[1]} \cup Range(Tail(s))
  BY <1>10, <1>5, <1>7, <1>8, <1>13, <1>14
<1> QED BY <1>15 DEF t

---------------------------------------------------------------------------
(* What a call is replaced by.                                             *)

(* A literal is the next value of its pool, or what the clock reads; only  *)
(* a value there is can be refused.                                        *)
Lawful(name, o) ==
    \/ /\ o.ok = FALSE /\ o.why \in {"missing", "invalid", "unsupported"}
       /\ o.why = "invalid" => \A pool \in PoolOf(name) : NextIndex(pool) <= Len(mreq.values[pool])
    \/ /\ o.ok = TRUE /\ Reading(name, o.lit)
       /\ \A pool \in Pools :
             /\ o.lit.kind \in KindsOf(pool) <=> pool \in PoolOf(name)
             /\ pool \in PoolOf(name) => /\ NextIndex(pool) <= Len(mreq.values[pool])
                                        /\ o.lit.value = ValueAt(pool, NextIndex(pool))

LEMMA Refused ==
    ASSUME NEW name, NEW why \in {"missing", "unsupported"}
    PROVE  Lawful(name, Failed(why))
BY DEF Lawful, Failed

LEMMA ClockLawful ==
    ASSUME NEW name, NEW lit, Reading(name, lit), PoolOf(name) = {},
           lit.kind \in {"DateTime", "DateTimeUTC", "DateTime64", "Date"}
    PROVE  Lawful(name, [ok |-> TRUE, lit |-> lit])
BY DEF Lawful, Pools, KindsOf

LEMMA ReadingOfPool ==
    ASSUME NEW name, PoolOf(name) # {}, NEW lit,
           lit.kind \in {"UInt32", "UInt64", "Float64", "UUID"}
    PROVE  Reading(name, lit)
BY DEF Reading, PoolOf, clockToday, random32, random64

LEMMA PoolLawful ==
    ASSUME NEW name, NEW pool \in Pools, PoolOf(name) = {pool}, NEW lit,
           lit.kind \in KindsOf(pool), NextIndex(pool) <= Len(mreq.values[pool]),
           lit.value = ValueAt(pool, NextIndex(pool))
    PROVE  Lawful(name, [ok |-> TRUE, lit |-> lit])
<1>1. \A q \in Pools : lit.kind \in KindsOf(q) <=> q = pool
  BY DEF Pools, KindsOf
<1>2. Reading(name, lit)
  <2>1. lit.kind \in {"UInt32", "UInt64", "Float64", "UUID"}
    BY DEF Pools, KindsOf
  <2> QED BY <2>1, ReadingOfPool
<1> QED BY <1>1, <1>2 DEF Lawful

LEMMA RefusedValue ==
    ASSUME NEW name, NEW pool, PoolOf(name) = {pool}, NextIndex(pool) <= Len(mreq.values[pool])
    PROVE  Lawful(name, Failed("invalid"))
BY DEF Lawful, Failed

LEMMA Replaced ==
    ASSUME mreq \in MaterializeRequests, used \in [Pools -> Nat],
           NEW name \in isSupportedNondeterministic
    PROVE  Lawful(name, ValueOf(name))
<1>1. mreq.now \subseteq Int /\ \A pool \in Pools : Len(mreq.values[pool]) \in Nat /\ NextIndex(pool) \in Nat
  BY Request DEF NextIndex
<1>2. mreq.now # {} => Instant \in Int
  BY <1>1 DEF Instant
<1>3. Lawful(name, Failed("missing"))
  BY Refused
<1>4. CASE name \in clockNow
  <2> DEFINE lit == [value |-> nowSeconds(Instant), kind |-> "DateTime"]
  <2>5. ValueOf(name) = materializeNow
    BY <1>4 DEF ValueOf, clockNow, clockUTC, clockToday, random32, random64
  <2>1. materializeNow = IF mreq.now = {} THEN Failed("missing") ELSE [ok |-> TRUE, lit |-> lit]
    BY DEF materializeNow, Clock, Literal, Instant
  <2>2. mreq.now # {} => Reading(name, lit)
    BY <1>2, <1>4 DEF Reading, clockNow, clockToday
  <2>3. PoolOf(name) = {}
    BY <1>4 DEF PoolOf, clockNow, random32, random64
  <2>4. lit.kind = "DateTime"
    OBVIOUS
  <2> HIDE DEF lit
  <2> QED BY <1>3, <2>1, <2>2, <2>3, <2>5, <2>4, ClockLawful
<1>5. CASE name \in clockUTC
  <2> DEFINE lit == [value |-> nowSeconds(Instant), kind |-> "DateTimeUTC"]
  <2>5. ValueOf(name) = materializeUTCTimestamp
    BY <1>5 DEF ValueOf, clockNow, clockUTC, clockToday, random32, random64
  <2>1. materializeUTCTimestamp = IF mreq.now = {} THEN Failed("missing") ELSE [ok |-> TRUE, lit |-> lit]
    BY DEF materializeUTCTimestamp, Clock, Literal, Instant
  <2>2. mreq.now # {} => Reading(name, lit)
    BY <1>2, <1>5 DEF Reading, clockUTC, clockToday
  <2>3. PoolOf(name) = {}
    BY <1>5 DEF PoolOf, clockUTC, random32, random64
  <2>4. lit.kind = "DateTimeUTC"
    OBVIOUS
  <2> HIDE DEF lit
  <2> QED BY <1>3, <2>1, <2>2, <2>3, <2>5, <2>4, ClockLawful
<1>6. CASE name = "now64"
  <2> DEFINE lit == [value |-> Quotient(Instant, NanosPerMilli), kind |-> "DateTime64"]
  <2>5. ValueOf(name) = materializeNow64
    BY <1>6 DEF ValueOf, clockNow, clockUTC, clockToday, random32, random64
  <2>1. materializeNow64 = IF mreq.now = {} THEN Failed("missing") ELSE [ok |-> TRUE, lit |-> lit]
    BY DEF materializeNow64, Clock, Literal, Instant
  <2>2. mreq.now # {} => Reading(name, lit)
    BY <1>2, <1>6 DEF Reading, clockUTC, clockToday
  <2>3. PoolOf(name) = {}
    BY <1>6 DEF PoolOf, random32, random64
  <2>4. lit.kind = "DateTime64"
    OBVIOUS
  <2> HIDE DEF lit
  <2> QED BY <1>3, <2>1, <2>2, <2>3, <2>5, <2>4, ClockLawful
<1>7. CASE name \in clockToday
  <2> DEFINE lit == [value |-> nowSeconds(Instant), kind |-> "Date"]
  <2>5. ValueOf(name) = materializeToday
    BY <1>7 DEF ValueOf, clockNow, clockUTC, clockToday, random32, random64
  <2>1. materializeToday = IF mreq.now = {} THEN Failed("missing") ELSE [ok |-> TRUE, lit |-> lit]
    BY DEF materializeToday, Clock, Literal, Instant
  <2>2. mreq.now # {} => Reading(name, lit)
    BY <1>2, <1>7 DEF Reading, clockToday
  <2>3. PoolOf(name) = {}
    BY <1>7 DEF PoolOf, clockToday, random32, random64
  <2>4. lit.kind = "Date"
    OBVIOUS
  <2> HIDE DEF lit
  <2> QED BY <1>3, <2>1, <2>2, <2>3, <2>5, <2>4, ClockLawful
<1>8. CASE name = "yesterday"
  <2> DEFINE lit == [value |-> nowSeconds(Instant) - SecondsPerDay, kind |-> "Date"]
  <2>5. ValueOf(name) = materializeYesterday
    BY <1>8 DEF ValueOf, clockNow, clockUTC, clockToday, random32, random64
  <2>1. materializeYesterday = IF mreq.now = {} THEN Failed("missing") ELSE [ok |-> TRUE, lit |-> lit]
    BY DEF materializeYesterday, Clock, Literal, Instant
  <2>2. mreq.now # {} => Reading(name, lit)
    BY <1>2, <1>8 DEF Reading, clockToday
  <2>3. PoolOf(name) = {}
    BY <1>8 DEF PoolOf, random32, random64
  <2>4. lit.kind = "Date"
    OBVIOUS
  <2> HIDE DEF lit
  <2> QED BY <1>3, <2>1, <2>2, <2>3, <2>5, <2>4, ClockLawful
<1>9. CASE name \in random32
  <2> DEFINE pool == "uint64"
             v == mreq.values[pool][NextIndex(pool)]
             lit == [value |-> v, kind |-> "UInt32"]
  <2>5. ValueOf(name) = materializeRandom32
    BY <1>9 DEF ValueOf, clockNow, clockUTC, clockToday, random32, random64
  <2>1. materializeRandom32 = IF NextIndex(pool) > Len(mreq.values[pool]) THEN Failed("missing")
                        ELSE IF v > MaxUInt32 THEN Failed("invalid") ELSE [ok |-> TRUE, lit |-> lit]
    BY DEF materializeRandom32, NextValue, Literal
  <2>2. PoolOf(name) = {pool} /\ pool \in Pools
    BY <1>9 DEF PoolOf, Pools
  <2>3. lit.kind \in KindsOf(pool) /\ lit.value = ValueAt(pool, NextIndex(pool))
    BY DEF KindsOf, ValueAt
  <2> HIDE DEF lit, v, pool
  <2> QED BY <1>1, <1>3, <2>1, <2>2, <2>3, <2>5, PoolLawful, RefusedValue
<1>10. CASE name \in random64
  <2> DEFINE pool == "uint64"
             v == mreq.values[pool][NextIndex(pool)]
             lit == [value |-> v, kind |-> "UInt64"]
  <2>5. ValueOf(name) = materializeRandom64
    BY <1>10 DEF ValueOf, clockNow, clockUTC, clockToday, random32, random64
  <2>1. materializeRandom64 = IF NextIndex(pool) > Len(mreq.values[pool]) THEN Failed("missing")
                        ELSE [ok |-> TRUE, lit |-> lit]
    BY DEF materializeRandom64, NextValue, Literal
  <2>2. PoolOf(name) = {pool} /\ pool \in Pools
    BY <1>10 DEF PoolOf, Pools
  <2>3. lit.kind \in KindsOf(pool) /\ lit.value = ValueAt(pool, NextIndex(pool))
    BY DEF KindsOf, ValueAt
  <2> HIDE DEF lit, v, pool
  <2> QED BY <1>1, <1>3, <2>1, <2>2, <2>3, <2>5, PoolLawful
<1>11. CASE name = "randcanonical"
  <2> DEFINE pool == "float64"
             v == mreq.values[pool][NextIndex(pool)]
             lit == [value |-> v, kind |-> "Float64"]
  <2>5. ValueOf(name) = materializeRandomFloat64
    BY <1>11 DEF ValueOf, clockNow, clockUTC, clockToday, random32, random64
  <2>1. materializeRandomFloat64 = IF NextIndex(pool) > Len(mreq.values[pool]) THEN Failed("missing")
                        ELSE IF v \notin 0..(FloatOne - 1) THEN Failed("invalid")
                        ELSE [ok |-> TRUE, lit |-> lit]
    BY DEF materializeRandomFloat64, NextValue, Literal
  <2>2. PoolOf(name) = {pool} /\ pool \in Pools
    BY <1>11 DEF PoolOf, Pools, random32, random64
  <2>3. lit.kind \in KindsOf(pool) /\ lit.value = ValueAt(pool, NextIndex(pool))
    BY DEF KindsOf, ValueAt
  <2> HIDE DEF lit, v, pool
  <2> QED BY <1>1, <1>3, <2>1, <2>2, <2>3, <2>5, PoolLawful, RefusedValue
<1>12. CASE name = "generateuuidv4"
  <2> DEFINE pool == "uuid"
             v == mreq.values[pool][NextIndex(pool)]
             lit == [value |-> LowerCase[v], kind |-> "UUID"]
  <2>5. ValueOf(name) = materializeUUID
    BY <1>12 DEF ValueOf, clockNow, clockUTC, clockToday, random32, random64
  <2>1. materializeUUID = IF NextIndex(pool) > Len(mreq.values[pool]) THEN Failed("missing")
                        ELSE IF LowerCase[v] \notin UUIDs THEN Failed("invalid")
                        ELSE [ok |-> TRUE, lit |-> lit]
    BY DEF materializeUUID, NextValue, Literal
  <2>2. PoolOf(name) = {pool} /\ pool \in Pools
    BY <1>12 DEF PoolOf, Pools, random32, random64
  <2>3. lit.kind \in KindsOf(pool) /\ lit.value = ValueAt(pool, NextIndex(pool))
    BY DEF KindsOf, ValueAt
  <2> HIDE DEF lit, v, pool
  <2> QED BY <1>1, <1>3, <2>1, <2>2, <2>3, <2>5, PoolLawful, RefusedValue
<1> QED BY <1>4, <1>5, <1>6, <1>7, <1>8, <1>9, <1>10, <1>11, <1>12 DEF isSupportedNondeterministic

---------------------------------------------------------------------------
(* The records.                                                            *)

LEMMA FiniteUpTo ==
    ASSUME NEW n \in Nat, NEW S, S \subseteq 1..n
    PROVE  IsFiniteSet(S)
<1>1. IsFiniteSet(1..n)
  BY FS_Interval
<1> QED BY <1>1, FS_Subset

LEMMA DrawnFacts ==
    ASSUME NEW pool, NEW n \in Nat
    PROVE  Drawn(pool, n) \in Nat
<1>1. IsFiniteSet({j \in 1..n : replacements[j].lit.kind \in KindsOf(pool)})
  BY FiniteUpTo
<1> QED BY <1>1, FS_CardinalityType DEF Drawn

LEMMA DrawnNext ==
    ASSUME NEW pool, NEW n \in Nat
    PROVE  Drawn(pool, n + 1) = IF replacements[n + 1].lit.kind \in KindsOf(pool)
                                THEN Drawn(pool, n) + 1 ELSE Drawn(pool, n)
<1> DEFINE S(m) == {j \in 1..m : replacements[j].lit.kind \in KindsOf(pool)}
<1>1. IsFiniteSet(S(n)) /\ n + 1 \notin S(n)
  <2>1. S(n) \subseteq 1..n /\ n + 1 \notin 1..n
    OBVIOUS
  <2> HIDE DEF S
  <2> QED BY <2>1, FiniteUpTo
<1>2. CASE replacements[n + 1].lit.kind \in KindsOf(pool)
  <2>1. S(n + 1) = S(n) \cup {n + 1}
    BY <1>2
  <2>2. Cardinality(S(n) \cup {n + 1}) = Cardinality(S(n)) + 1
    BY <1>1, FS_AddElement
  <2> QED BY <1>2, <2>1, <2>2 DEF Drawn
<1>3. CASE ~(replacements[n + 1].lit.kind \in KindsOf(pool))
  <2>1. S(n + 1) = S(n)
    BY <1>3
  <2> QED BY <1>3, <2>1 DEF Drawn
<1> QED BY <1>2, <1>3

(* The records so far draw what they drew. *)
LEMMA DrawnSame ==
    ASSUME NEW pool, NEW n \in Nat, \A j \in 1..n : replacements'[j] = replacements[j]
    PROVE  Drawn(pool, n)' = Drawn(pool, n)
<1>1. {j \in 1..n : replacements'[j].lit.kind \in KindsOf(pool)}
        = {j \in 1..n : replacements[j].lit.kind \in KindsOf(pool)}
  OBVIOUS
<1> QED BY <1>1 DEF Drawn, KindsOf

---------------------------------------------------------------------------
(* Each step.                                                              *)

LEMMA Begins == MInit => MInv
<1> SUFFICES ASSUME MInit PROVE MInv
  OBVIOUS
<1>0. mreq \in MaterializeRequests /\ tree = mreq.tree /\ toVisit = <<1>> /\ replacements = <<>>
      /\ at = "policy" /\ used = [pool \in Pools |-> 0]
  BY DEF MInit
<1>1. /\ Len(mreq.tree) \in Nat \ {0} /\ Nodes = 1..Len(mreq.tree)
      /\ \A pool \in Pools : Len(mreq.values[pool]) \in Nat
      /\ mreq.last[1] = Len(mreq.tree)
  BY <1>0, Request, RequestsAssumption DEF NumberedInOrder
<1>2. Shaped
  <2>1. IsSequence(<<>>)
    BY DEF IsSequence
  <2>2. answer \in [Code : {"Success", "InvalidRequest", "SyntaxError", "UnsupportedStatement", "Error"},
                    sql : {"none", "asGiven", "generated"}]
    BY DEF MInit
  <2> QED BY <1>0, <1>1, <2>1, <2>2 DEF Shaped, Nodes
<1>3. Ahead
  <2>1. toVisit \in Seq(Nodes) /\ Len(toVisit) = 1 /\ toVisit[1] = 1 /\ toVisit # <<>>
    BY <1>0, <1>1
  <2> QED BY <1>0, <1>1, <2>1 DEF Ahead
<1>4. Walked
  <2>1. Range(toVisit) = {1}
    BY <1>0 DEF Range
  <2>2. Visited({})
    BY <1>1, <2>1 DEF Visited, Led
  <2>3. Placed({}, <<>>)
    <3>1. DOMAIN replacements = {} /\ Range(<<>>) = {}
      BY <1>0 DEF Range
    <3>2. <<>> \in [{} -> {}]
      OBVIOUS
    <3> QED BY <3>1, <3>2 DEF Placed
  <2> QED BY <2>2, <2>3 DEF Walked
<1>5. InOrder
  <2>1. Len(replacements) = 0 /\ DOMAIN replacements = {}
    BY <1>0
  <2>2. ASSUME NEW pool \in Pools PROVE Drawn(pool, 0) = 0
    <3>1. {j \in 1..0 : replacements[j].lit.kind \in KindsOf(pool)} = {}
      OBVIOUS
    <3> QED BY <3>1, FS_EmptySet DEF Drawn
  <2> QED BY <1>0, <2>1, <2>2 DEF InOrder
<1>6. Readings /\ Stage
  <2>1. DOMAIN replacements = {}
    BY <1>0
  <2>2. answer.Code = "Success" /\ answer.sql # "generated"
    BY DEF MInit
  <2> QED BY <1>0, <2>1, <2>2 DEF Readings, Stage
<1> QED BY <1>2, <1>3, <1>4, <1>5, <1>6 DEF MInv

(* What no step outside the walk touches. *)
LEMMA Untouched ==
    ASSUME MInv, UNCHANGED <<mreq, tree, toVisit, used, replacements>>,
           at' \in {"parse", "walk"} => at \in {"policy", "parse", "walk"}, at' # "policy"
    PROVE  Ahead' /\ Walked' /\ InOrder' /\ Readings'
<1>1. Ahead'
  BY DEF MInv, Ahead, Here, Nodes
<1>2. Walked'
  <2>1. \A V : Visited(V)' <=> Visited(V)
    BY DEF Visited, Led, Here, Nodes, Volatile
  <2>2. \A V, place : Placed(V, place)' <=> Placed(V, place)
    BY DEF Placed
  <2>3. Nodes' = Nodes
    BY DEF Nodes
  <2> QED BY <2>1, <2>2, <2>3 DEF MInv, Walked
<1>3. InOrder'
  <2>1. \A pool, n : Drawn(pool, n)' = Drawn(pool, n)
    BY DEF Drawn
  <2>2. \A pool, n : ValueAt(pool, n)' = ValueAt(pool, n)
    BY DEF ValueAt
  <2> QED BY <2>1, <2>2 DEF MInv, InOrder
<1>4. Readings'
  <2>1. Instant' = Instant
    BY DEF Instant
  <2>2. \A fn, lit : Reading(fn, lit)' <=> Reading(fn, lit)
    BY <2>1 DEF Reading
  <2> QED BY <2>2 DEF MInv, Readings
<1> QED BY <1>1, <1>2, <1>3, <1>4

LEMMA PolicyKeeps == MInv /\ materializationProfileID => MInv'
<1> SUFFICES ASSUME MInv, materializationProfileID PROVE MInv'
  OBVIOUS
<1>1. Ahead' /\ Walked' /\ InOrder' /\ Readings'
  BY Untouched DEF materializationProfileID, Answer
<1>2. Shaped' /\ Stage'
  BY DEF MInv, Shaped, Nodes, Stage, materializationProfileID, Answer
<1> QED BY <1>1, <1>2 DEF MInv

LEMMA ParseKeeps == MInv /\ Parse => MInv'
<1> SUFFICES ASSUME MInv, Parse PROVE MInv'
  OBVIOUS
<1>1. Ahead' /\ Walked' /\ InOrder' /\ Readings'
  BY Untouched DEF Parse, Answer
<1>2. Shaped' /\ Stage'
  BY DEF MInv, Shaped, Nodes, Stage, Parse, Answer
<1> QED BY <1>1, <1>2 DEF MInv

LEMMA DoneKeeps == MInv /\ WalkDone => MInv'
<1> SUFFICES ASSUME MInv, WalkDone PROVE MInv'
  OBVIOUS
<1>1. Ahead' /\ Walked' /\ InOrder' /\ Readings'
  BY Untouched DEF WalkDone
<1>2. Shaped' /\ Stage'
  BY DEF MInv, Shaped, Nodes, Stage, WalkDone
<1> QED BY <1>1, <1>2 DEF MInv

LEMMA RegenerateKeeps == MInv /\ CheckRegenerated => MInv'
<1> SUFFICES ASSUME MInv, CheckRegenerated PROVE MInv'
  OBVIOUS
<1>1. Ahead' /\ Walked' /\ InOrder' /\ Readings'
  BY Untouched DEF CheckRegenerated, Answer
<1>2. Shaped' /\ Stage'
  BY DEF MInv, Shaped, Nodes, Stage, CheckRegenerated, Answer
<1> QED BY <1>1, <1>2 DEF MInv

LEMMA GenerateKeeps == MInv /\ Generate => MInv'
<1> SUFFICES ASSUME MInv, Generate PROVE MInv'
  OBVIOUS
<1>1. Ahead' /\ Walked' /\ InOrder' /\ Readings'
  BY Untouched DEF Generate
<1>2. Shaped' /\ Stage'
  BY DEF MInv, Shaped, Nodes, Stage, Generate
<1> QED BY <1>1, <1>2 DEF MInv

(* The way ahead once the walk has passed the node it has come to, whose   *)
(* children in turn, if it is left as it is, come next.                    *)
LEMMA Passed ==
    ASSUME MInv, toVisit # <<>>, NEW K, K = <<>> \/ K = Kids(mreq.tree[Head(toVisit)]),
           toVisit' = K \o Tail(toVisit), UNCHANGED mreq,
           \A i \in Nodes : i > Head(toVisit) => tree'[i] = tree[i]
    PROVE  /\ Ahead' /\ Head(toVisit) = Here /\ Here' \in Nat /\ Here' > Here
           /\ Head(toVisit) \in Nodes /\ tree[Head(toVisit)] = mreq.tree[Head(toVisit)]
           /\ Range(toVisit') = Range(K) \cup Range(Tail(toVisit))
           /\ Range(toVisit) = {Head(toVisit)} \cup Range(Tail(toVisit))
<1> DEFINE N == Len(mreq.tree)
           L == mreq.last
           h == Head(toVisit)
<1>1. /\ N \in Nat \ {0} /\ Nodes = 1..N /\ \A i \in 1..N : L[i] \in i..N
  BY Request DEF MInv, Shaped
<1>2. /\ toVisit \in Seq(1..N) /\ L[toVisit[Len(toVisit)]] = N
      /\ \A k \in 1..(Len(toVisit) - 1) : toVisit[k + 1] = L[toVisit[k]] + 1
      /\ h = toVisit[1] /\ h \in 1..N
  BY <1>1 DEF MInv, Ahead
<1>3. /\ K \in Seq(1..N)
      /\ K # <<>> => K[1] = h + 1 /\ L[K[Len(K)]] = L[h]
      /\ \A k \in 1..(Len(K) - 1) : K[k + 1] = L[K[k]] + 1
  <2>1. CASE K = <<>>
    BY <2>1
  <2>2. CASE K = Kids(mreq.tree[h])
    <3>1. h \in Nodes /\ mreq \in MaterializeRequests
      BY <1>1, <1>2 DEF MInv, Shaped
    <3> HIDE DEF h, N, L
    <3>2. /\ Kids(mreq.tree[h]) \in Seq(Nodes)
          /\ Kids(mreq.tree[h]) # <<>> =>
                /\ Kids(mreq.tree[h])[1] = h + 1
                /\ mreq.last[Kids(mreq.tree[h])[Len(Kids(mreq.tree[h]))]] = mreq.last[h]
          /\ \A k \in 1..(Len(Kids(mreq.tree[h])) - 1) :
                Kids(mreq.tree[h])[k + 1] = mreq.last[Kids(mreq.tree[h])[k]] + 1
      BY <3>1, Request
    <3> QED BY <2>2, <3>2, <1>1 DEF L
  <2> QED BY <2>1, <2>2
<1>4. /\ toVisit' \in Seq(1..N) /\ Follow(L, toVisit')
      /\ \/ toVisit' = <<>>
         \/ L[toVisit'[Len(toVisit')]] = N /\ toVisit'[1] \in 1..N /\ toVisit'[1] > toVisit[1]
      /\ Range(toVisit') = Range(K) \cup Range(Tail(toVisit))
      /\ Range(toVisit) = {toVisit[1]} \cup Range(Tail(toVisit))
  <2>1. toVisit' = K \o Tail(toVisit) /\ toVisit # <<>>
    OBVIOUS
  <2>2. K = <<>> \/ (K[1] = toVisit[1] + 1 /\ L[K[Len(K)]] = L[toVisit[1]])
    BY <1>2, <1>3
  <2>3. Spans(N, L) /\ Follow(L, toVisit) /\ Follow(L, K)
    BY <1>1, <1>2, <1>3 DEF Spans, Follow
  <2>4. L[toVisit[Len(toVisit)]] = N
    BY <1>2
  <2> HIDE DEF N, L
  <2> QED BY <1>2, <1>3, <2>1, <2>2, <2>3, <2>4, Advance
<1>5. Here = h /\ Here' \in Nat /\ Here' > h
  <2>1. Here = h
    BY <1>2 DEF Here
  <2>2. Here' = IF toVisit' = <<>> THEN N + 1 ELSE toVisit'[1]
    BY DEF Here
  <2> HIDE DEF h, N
  <2>3. CASE toVisit' = <<>>
    BY <2>3, <1>1, <1>2, <2>1, <2>2
  <2>4. CASE toVisit' # <<>>
    <3>1. toVisit'[1] \in 1..N /\ toVisit'[1] > toVisit[1]
      BY <2>4, <1>4
    <3>2. Here' = toVisit'[1] /\ h = toVisit[1]
      BY <2>4, <2>2, <1>2
    <3>4. \A x \in 1..N : x \in Nat
      BY <1>1
    <3>3. toVisit'[1] \in Nat
      BY <3>1, <3>4
    <3> QED BY <3>1, <3>2, <3>3, <2>1
  <2> QED BY <2>3, <2>4
<1>6. tree[h] = mreq.tree[h] /\ \A i \in Nodes : i > h => tree[i] = mreq.tree[i]
  BY <1>1, <1>2, <1>5 DEF MInv, Ahead
<1>7. \A i \in Nodes : i >= Here' => tree'[i] = mreq.tree[i]
  <2>1. ASSUME NEW i \in Nodes, i >= Here' PROVE i > h
    <3> HIDE DEF h, N
    <3> QED BY <2>1, <1>1, <1>2, <1>5
  <2> QED BY <2>1, <1>6
<1>8. Ahead'
  <2>1. \A k \in 1..(Len(toVisit') - 1) : toVisit'[k + 1] = L[toVisit'[k]] + 1
    BY <1>4 DEF Follow
  <2> QED BY <1>1, <1>4, <1>7, <2>1 DEF Ahead, Nodes
<1> QED BY <1>1, <1>2, <1>4, <1>5, <1>6, <1>8

(* The nodes visited, with the one the walk has passed. *)
LEMMA VisitedNext ==
    ASSUME MInv, NEW V, Visited(V), UNCHANGED mreq, NEW kids,
           Here' \in Nat, Here' > Here, Here \in Nodes, NEW W, W = V \cup {Here},
           \A i \in Nodes : i # Here => tree'[i] = tree[i],
           ~Volatile(tree'[Here]), Range(Kids(tree'[Here])) = kids,
           NEW rest, Range(toVisit') = kids \cup rest, Range(toVisit) = {Here} \cup rest
    PROVE  Visited(W)'
<1> DEFINE T == Range(toVisit')
<1>1. Nodes' = Nodes /\ Nodes \subseteq Nat /\ V \subseteq Nodes
  BY Request DEF Nodes, MInv, Shaped, Visited
<1>2. ASSUME NEW j \in V PROVE j < Here' /\ tree'[j] = tree[j]
  <2>1. j < Here /\ j \in Nodes
    BY <1>1 DEF Visited
  <2>2. j \in Nat /\ Here \in Nat
    BY <2>1, <1>1
  <2>3. j # Here /\ j < Here'
    BY <2>1, <2>2
  <2> QED BY <2>1, <2>3
<1>3. W \subseteq Nodes /\ \A j \in W : j < Here'
  BY <1>1, <1>2
<1>4. 1 \in W \cup T
  BY DEF Visited
<1>5. ASSUME NEW j \in W
      PROVE  ~Volatile(tree'[j]) /\ Range(Kids(tree'[j])) \subseteq W \cup T
  <2>1. CASE j \in V
    BY <2>1, <1>2 DEF Visited
  <2>2. CASE j = Here
    BY <2>2
  <2> QED BY <2>1, <2>2
<1>6. ASSUME NEW part \in SUBSET Nodes, 1 \in part,
             \A j \in part \cap W : Range(Kids(tree'[j])) \subseteq part
      PROVE  W \cup T \subseteq part
  <2>1. Led(V, part)
    BY <1>2, <1>6 DEF Led
  <2>2. V \cup Range(toVisit) \subseteq part
    BY <2>1 DEF Visited
  <2>3. kids \subseteq part
    BY <2>2, <1>6
  <2> QED BY <2>2, <2>3
<1>7. Visited(W)'
  <2> HIDE DEF T
  <2>1. \A j \in W : ~Volatile(tree[j])'
    BY <1>5 DEF Volatile
  <2>2. \A j \in W : Range(Kids(tree'[j])) \subseteq W \cup Range(toVisit')
    BY <1>5 DEF T
  <2>3. ASSUME NEW part \in SUBSET Nodes, Led(W, part)' PROVE W \cup Range(toVisit') \subseteq part
    <3>1. 1 \in part /\ \A j \in part \cap W : Range(Kids(tree'[j])) \subseteq part
      BY <2>3 DEF Led
    <3> QED BY <3>1, <1>6 DEF T
  <2>4. 1 \in W \cup Range(toVisit')
    BY <1>4 DEF T
  <2> QED BY <1>1, <1>3, <2>1, <2>2, <2>3, <2>4 DEF Visited
<1> QED BY <1>7

LEMMA IntoKeeps == MInv /\ WalkInto => MInv'
<1> SUFFICES ASSUME MInv, WalkInto PROVE MInv'
  OBVIOUS
<1> DEFINE h == Head(toVisit)
           K == Kids(mreq.tree[h])
<1>1. /\ toVisit # <<>> /\ at = "walk" /\ UNCHANGED <<mreq, at, tree, used, replacements, answer>>
      /\ toVisit' = Kids(tree[h]) \o Tail(toVisit)
      /\ ~Volatile(tree[h])
  <2>1. PICK n \in {tree[i] : i \in DOMAIN tree} :
           /\ Visiting(n) /\ n.shape \notin Reserved /\ ~IsPseudoFunction(n) /\ ~IsCall(n)
           /\ toVisit' = Descend(n)
           /\ UNCHANGED <<mreq, at, tree, used, replacements, answer>>
    BY DEF WalkInto
  <2> QED BY <2>1 DEF Visiting, Descend, IsPseudoFunction, IsCall, Volatile
<1>2. h \in Nodes /\ h = Here /\ tree[h] = mreq.tree[h]
  <2>1. h = toVisit[1] /\ h \in Nodes
    BY <1>1 DEF MInv, Ahead
  <2>2. h >= Here
    BY <1>1, <2>1, Request DEF Here, MInv, Shaped
  <2> QED BY <1>1, <2>1, <2>2 DEF MInv, Ahead, Here
<1> HIDE DEF h
<1>3. /\ Ahead' /\ Here' \in Nat /\ Here' > Here
      /\ Range(toVisit') = Range(K) \cup Range(Tail(toVisit))
      /\ Range(toVisit) = {h} \cup Range(Tail(toVisit))
  BY <1>1, <1>2, Passed DEF h
<1>4. Walked'
  <2>1. PICK V \in SUBSET Nodes : Visited(V) /\ \E place : Placed(V, place)
    BY DEF MInv, Walked
  <2>2. PICK place : Placed(V, place)
    BY <2>1
  <2>5. PICK W : W = V \cup {Here}
    OBVIOUS
  <2>3. Visited(W)'
    BY <1>1, <1>2, <1>3, <2>1, <2>5, VisitedNext
  <2>4. Placed(W, place)'
    <3>1. tree[Here].shape # "literal"
      BY <1>2, Request DEF MInv, Shaped
    <3>2. {j \in W : tree[j].shape = "literal"} = {j \in V : tree[j].shape = "literal"}
      BY <2>5, <3>1
    <3>3. place \in [DOMAIN replacements -> W]
      BY <2>2, <2>5 DEF Placed
    <3> QED BY <1>1, <2>2, <3>2, <3>3 DEF Placed
  <2> QED BY <1>1, <1>2, <2>1, <2>3, <2>4, <2>5 DEF Walked, Nodes
<1>5. Shaped' /\ Stage'
  BY <1>1 DEF MInv, Shaped, Nodes, Stage
<1>6. InOrder'
  <2>1. \A pool, n : Drawn(pool, n)' = Drawn(pool, n)
    BY <1>1 DEF Drawn
  <2>2. \A pool, n : ValueAt(pool, n)' = ValueAt(pool, n)
    BY <1>1 DEF ValueAt
  <2> QED BY <1>1, <2>1, <2>2 DEF MInv, InOrder
<1>7. Readings'
  <2>1. \A fn, lit : Reading(fn, lit)' <=> Reading(fn, lit)
    BY <1>1 DEF Reading, Instant
  <2> QED BY <1>1, <2>1 DEF MInv, Readings
<1> QED BY <1>3, <1>4, <1>5, <1>6, <1>7 DEF MInv

(* A call that cannot be replaced ends the walk. *)
LEMMA StopKeeps ==
    ASSUME MInv, at = "walk", toVisit # <<>>, NEW id, NEW name, NEW o, Lawful(name, o), o.ok = FALSE,
           Replace(id, name, o)
    PROVE  MInv'
<1>1. /\ UNCHANGED <<mreq, tree, replacements, toVisit>> /\ at' = "done"
      /\ answer' = [answer EXCEPT !.Code = materializeCodeForError(o.why)]
      /\ used' = UsedUp(name, o)
  BY DEF Replace, Answer
<1>2. /\ used' \in [Pools -> Nat]
      /\ \A pool \in Pools : used'[pool] <= Len(mreq.values[pool]) /\ used[pool] <= used'[pool]
  <2>1. used \in [Pools -> Nat] /\ \A pool \in Pools : used[pool] <= Len(mreq.values[pool])
    BY DEF MInv, Shaped
  <2>2. \A pool \in Pools : used'[pool] \in {used[pool], used[pool] + 1}
    BY <1>1 DEF UsedUp
  <2>3. ASSUME NEW pool \in Pools, used'[pool] # used[pool] PROVE used[pool] + 1 <= Len(mreq.values[pool])
    BY <1>1, <2>3 DEF UsedUp, Lawful, NextIndex
  <2>4. used' = [pool \in Pools |-> used'[pool]]
    BY <1>1 DEF UsedUp
  <2>5. \A pool \in Pools : Len(mreq.values[pool]) \in Nat
    BY Request DEF MInv, Shaped
  <2>6. \A pool \in Pools : used'[pool] \in Nat
    BY <2>1, <2>2
  <2>7. used' \in [Pools -> Nat]
    BY <2>4, <2>6
  <2> QED BY <2>1, <2>2, <2>3, <2>5, <2>7
<1>3. Shaped'
  <2>1. materializeCodeForError(o.why) \in {"UnsupportedStatement", "InvalidRequest"}
    BY DEF materializeCodeForError
  <2> QED BY <1>1, <1>2, <2>1 DEF MInv, Shaped, Nodes
<1>4. Stage'
  <2>1. materializeCodeForError(o.why) # "Success"
    BY DEF materializeCodeForError
  <2>2. answer'.Code # "Success" /\ answer'.sql = answer.sql
    BY <1>1, <2>1 DEF MInv, Shaped
  <2>3. answer.sql # "generated"
    BY DEF MInv, Stage
  <2> QED BY <1>1, <2>2, <2>3 DEF Stage
<1>5. Ahead'
  BY <1>1 DEF MInv, Ahead, Here, Nodes
<1>6. Walked'
  <2>1. \A V : Visited(V)' <=> Visited(V)
    BY <1>1 DEF Visited, Led, Here, Nodes, Volatile
  <2>2. \A V, place : Placed(V, place)' <=> Placed(V, place)
    BY <1>1 DEF Placed
  <2>3. Nodes' = Nodes
    BY <1>1 DEF Nodes
  <2> QED BY <2>1, <2>2, <2>3 DEF MInv, Walked
<1>7. InOrder'
  <2>1. \A pool, n : Drawn(pool, n)' = Drawn(pool, n)
    BY <1>1 DEF Drawn
  <2>2. \A pool, n : ValueAt(pool, n)' = ValueAt(pool, n)
    BY <1>1 DEF ValueAt
  <2>3. ASSUME NEW pool \in Pools PROVE Drawn(pool, Len(replacements)) <= used'[pool]
    <3>1. Drawn(pool, Len(replacements)) \in Nat
      BY DrawnFacts DEF MInv, Shaped, IsSequence
    <3>2. Drawn(pool, Len(replacements)) <= used[pool]
      BY DEF MInv, InOrder
    <3> QED BY <3>1, <3>2, <1>2 DEF MInv, Shaped
  <2> QED BY <1>1, <2>1, <2>2, <2>3 DEF MInv, InOrder
<1>8. Readings'
  <2>1. \A fn, lit : Reading(fn, lit)' <=> Reading(fn, lit)
    BY <1>1 DEF Reading, Instant
  <2> QED BY <1>1, <2>1 DEF MInv, Readings
<1> QED BY <1>3, <1>4, <1>5, <1>6, <1>7, <1>8 DEF MInv

(* A call that is replaced is passed, and its record added. *)
LEMMA ReplaceKeeps ==
    ASSUME MInv, at = "walk", toVisit # <<>>, NEW name, NEW o, Lawful(name, o), o.ok = TRUE,
           Replace(Head(toVisit), name, o)
    PROVE  MInv'
<1>0. PICK n : n = Len(replacements)
  OBVIOUS
<1> DEFINE h == Head(toVisit)
           rec == [fn |-> name, ordinal |-> n, lit |-> o.lit]
           node == [shape |-> "literal", name |-> name, args |-> FALSE, fields |-> <<>>, lit |-> o.lit]
<1>1. /\ UNCHANGED <<mreq, at, answer>> /\ toVisit' = Tail(toVisit)
      /\ tree' = [tree EXCEPT ![h] = node]
      /\ replacements' = Append(replacements, rec)
      /\ used' = UsedUp(name, o)
  BY <1>0 DEF Replace
<1>2. /\ mreq \in MaterializeRequests /\ DOMAIN tree = Nodes /\ IsSequence(replacements)
      /\ used \in [Pools -> Nat] /\ \A pool \in Pools : used[pool] <= Len(mreq.values[pool])
      /\ n \in Nat /\ DOMAIN replacements = 1..n
  BY <1>0 DEF MInv, Shaped, IsSequence
<1>3. /\ IsSequence(replacements') /\ Len(replacements') = n + 1 /\ DOMAIN replacements' = 1..(n + 1)
      /\ \A i \in 1..n : replacements'[i] = replacements[i]
      /\ replacements'[n + 1] = rec /\ replacements' # <<>>
  <2> HIDE DEF rec
  <2>1. /\ IsSequence(replacements') /\ Len(replacements') = n + 1
        /\ \A i \in 1..n : replacements'[i] = replacements[i]
        /\ replacements'[n + 1] = rec
    BY <1>0, <1>1, <1>2, AppendKeeps
  <2>2. DOMAIN replacements' = 1..(n + 1)
    BY <2>1 DEF IsSequence
  <2>3. replacements' # <<>>
    BY <2>2, <1>2
  <2> QED BY <2>1, <2>2, <2>3
<1>4. \A i \in Nodes : i # h => tree'[i] = tree[i]
  BY <1>1, <1>2
<1>5. toVisit' = <<>> \o Tail(toVisit)
  <2>1. Tail(toVisit) \in Seq(Nodes)
    BY DEF MInv, Ahead
  <2> QED BY <1>1, <2>1
<1>6. /\ Ahead' /\ h = Here /\ Here' \in Nat /\ Here' > Here /\ h \in Nodes
      /\ Range(toVisit') = Range(<<>>) \cup Range(Tail(toVisit))
      /\ Range(toVisit) = {h} \cup Range(Tail(toVisit))
  <2>1. \A i \in Nodes : i > h => tree'[i] = tree[i]
    <3>1. h \in Nodes /\ Nodes \subseteq Int
      BY Request, <1>2 DEF MInv, Ahead
    <3> HIDE DEF h
    <3> QED BY <1>4, <3>1
  <2> QED BY <1>1, <1>5, <2>1, Passed
<1>7. tree'[h] = node /\ DOMAIN tree' = Nodes
  BY <1>1, <1>2, <1>6
<1> HIDE DEF h
<1>8. Range(<<>>) = {} /\ Kids(node) = <<>>
  <2>1. DOMAIN <<>> = {}
    OBVIOUS
  <2> QED BY <2>1 DEF Range, Kids
<1>9. Walked'
  <2>1. PICK V \in SUBSET Nodes : Visited(V) /\ \E place : Placed(V, place)
    BY DEF MInv, Walked
  <2>2. PICK place : Placed(V, place)
    BY <2>1
  <2>3. PICK W : W = V \cup {Here}
    OBVIOUS
  <2>4. Visited(W)'
    <3>1. ~Volatile(tree'[Here])
      BY <1>6, <1>7 DEF Volatile, Reserved
    <3>2. Range(Kids(tree'[Here])) = Range(<<>>)
      BY <1>6, <1>7, <1>8
    <3> QED BY <1>1, <1>4, <1>6, <2>1, <2>3, <3>1, <3>2, VisitedNext
  <2> DEFINE put == [i \in 1..(n + 1) |-> IF i = n + 1 THEN h ELSE place[i]]
  <2>5. place \in [1..n -> V] /\ \A j \in V : j < h /\ j # h /\ j \in Nodes /\ tree'[j] = tree[j]
    <3>1. place \in [1..n -> V]
      BY <2>2, <1>2 DEF Placed
    <3>2. ASSUME NEW j \in V PROVE j < h /\ j # h /\ j \in Nodes
      <4>1. j < h /\ j \in Nodes
        BY <2>1, <1>6 DEF Visited
      <4>2. j \in Int /\ h \in Int
        BY <4>1, <1>2, <1>6, Request
      <4> QED BY <4>1, <4>2
    <3> QED BY <3>1, <3>2, <1>4
  <2>6. put \in [1..(n + 1) -> W] /\ put[n + 1] = h /\ \A i \in 1..n : put[i] = place[i]
    BY <2>3, <2>5, <1>2, <1>6
  <2>7. {j \in W : tree'[j].shape = "literal"} = Range(put)
    <3>1. {j \in V : tree[j].shape = "literal"} = Range(place)
      BY <2>2 DEF Placed
    <3>2. Range(put) = Range(place) \cup {h}
      BY <2>5, <2>6, <1>2 DEF Range
    <3>3. tree'[h].shape = "literal"
      BY <1>7
    <3> HIDE DEF put
    <3> QED BY <3>1, <3>2, <3>3, <2>3, <2>5, <1>6
  <2>8. \A i, j \in 1..(n + 1) : i < j => put[i] < put[j]
    <3>1. \A i, j \in 1..n : i < j => place[i] < place[j]
      BY <2>2, <1>2 DEF Placed
    <3> HIDE DEF put
    <3>2. ASSUME NEW i \in 1..(n + 1), NEW j \in 1..(n + 1), i < j PROVE put[i] < put[j]
      <4>1. i \in 1..n
        BY <3>2, <1>2
      <4>2. CASE j \in 1..n
        BY <4>1, <4>2, <3>1, <3>2, <2>6
      <4>3. CASE j = n + 1
        BY <4>1, <4>3, <2>5, <2>6
      <4> QED BY <4>2, <4>3, <1>2
    <3> QED BY <3>2
  <2>9. \A i \in 1..(n + 1) :
           tree'[put[i]].lit = replacements'[i].lit /\ replacements'[i].ordinal = i - 1
    <3>1. \A i \in 1..n : tree[place[i]].lit = replacements[i].lit /\ replacements[i].ordinal = i - 1
      BY <2>2, <1>2 DEF Placed
    <3> HIDE DEF put
    <3>2. ASSUME NEW i \in 1..n
          PROVE  tree'[put[i]].lit = replacements'[i].lit /\ replacements'[i].ordinal = i - 1
      BY <3>1, <2>5, <2>6, <1>3
    <3>3. tree'[put[n + 1]].lit = replacements'[n + 1].lit /\ replacements'[n + 1].ordinal = n
      BY <2>6, <1>3, <1>7
    <3> QED BY <3>2, <3>3, <1>2
  <2> HIDE DEF put
  <2>10. PICK place2 : place2 = put
    OBVIOUS
  <2>11. Placed(W, place2)'
    BY <2>6, <2>7, <2>8, <2>9, <2>10, <1>3 DEF Placed
  <2>12. W \in SUBSET Nodes'
    BY <2>4 DEF Visited
  <2> QED BY <2>4, <2>11, <2>12 DEF Walked
<1>10. /\ used' \in [Pools -> Nat]
       /\ \A pool \in Pools :
             /\ used'[pool] = IF pool \in PoolOf(name) THEN used[pool] + 1 ELSE used[pool]
             /\ used'[pool] <= Len(mreq.values[pool])
  <2>1. \A pool \in Pools : Len(mreq.values[pool]) \in Nat
    BY <1>2, Request
  <2>2. used' = [pool \in Pools |-> IF pool \in PoolOf(name) THEN used[pool] + 1 ELSE used[pool]]
    BY <1>1 DEF UsedUp
  <2>3. \A pool \in PoolOf(name) : pool \in Pools => used[pool] + 1 <= Len(mreq.values[pool])
    BY DEF Lawful, NextIndex
  <2> QED BY <1>2, <2>1, <2>2, <2>3
<1>11. Shaped'
  BY <1>1, <1>2, <1>3, <1>7, <1>10 DEF MInv, Shaped, Nodes
<1>12. Stage'
  BY <1>1, <1>3 DEF MInv, Stage
<1>13. InOrder'
  <2> SUFFICES ASSUME NEW pool \in Pools
               PROVE  /\ used'[pool] = Drawn(pool, n + 1)'
                      /\ \A i \in 1..(n + 1) :
                            replacements'[i].lit.kind \in KindsOf(pool) =>
                                replacements'[i].lit.value = ValueAt(pool, Drawn(pool, i)')
    <3>1. \A pool \in Pools : Drawn(pool, n + 1)' <= used'[pool] /\ used'[pool] = Drawn(pool, n + 1)'
      BY <1>10
    <3> QED BY <1>1, <1>3, <3>1 DEF InOrder, ValueAt
  <2>1. used[pool] = Drawn(pool, n) /\ Drawn(pool, n) \in Nat
    BY <1>0, <1>1, <1>2, DrawnFacts DEF MInv, InOrder
  <2>2. \A i \in 1..n : Drawn(pool, i)' = Drawn(pool, i)
    <3>1. ASSUME NEW i \in 1..n PROVE Drawn(pool, i)' = Drawn(pool, i)
      <4>1. i \in Nat /\ \A j \in 1..i : replacements'[j] = replacements[j]
        BY <1>2, <1>3
      <4> QED BY <4>1, DrawnSame
    <3> QED BY <3>1
  <2>3. Drawn(pool, n + 1)' = IF o.lit.kind \in KindsOf(pool) THEN Drawn(pool, n) + 1 ELSE Drawn(pool, n)
    <3>1. {j \in 1..(n + 1) : replacements'[j].lit.kind \in KindsOf(pool)}
            = IF o.lit.kind \in KindsOf(pool)
              THEN {j \in 1..n : replacements[j].lit.kind \in KindsOf(pool)} \cup {n + 1}
              ELSE {j \in 1..n : replacements[j].lit.kind \in KindsOf(pool)}
      BY <1>2, <1>3
    <3> DEFINE S == {j \in 1..n : replacements[j].lit.kind \in KindsOf(pool)}
    <3>2. IsFiniteSet(S) /\ n + 1 \notin S
      <4>1. S \subseteq 1..n /\ n + 1 \notin 1..n
        BY <1>2
      <4> HIDE DEF S
      <4> QED BY <4>1, <1>2, FiniteUpTo
    <3>3. Cardinality(S \cup {n + 1}) = Cardinality(S) + 1
      <4> HIDE DEF S
      <4> QED BY <3>2, FS_AddElement
    <3>4. Drawn(pool, n + 1)' = Cardinality({j \in 1..(n + 1) : replacements'[j].lit.kind \in KindsOf(pool)})
      BY DEF Drawn, KindsOf
    <3> QED BY <3>1, <3>3, <3>4 DEF Drawn
  <2>4. /\ o.lit.kind \in KindsOf(pool) <=> pool \in PoolOf(name)
        /\ pool \in PoolOf(name) => o.lit.value = ValueAt(pool, used[pool] + 1)
    BY DEF Lawful, NextIndex
  <2>5. used'[pool] = Drawn(pool, n + 1)'
    BY <1>10, <2>1, <2>3, <2>4
  <2>6. ASSUME NEW i \in 1..(n + 1), replacements'[i].lit.kind \in KindsOf(pool)
        PROVE  replacements'[i].lit.value = ValueAt(pool, Drawn(pool, i)')
    <3>1. CASE i \in 1..n
      BY <3>1, <2>2, <2>6, <1>2, <1>3 DEF MInv, InOrder
    <3>2. CASE i = n + 1
      <4>1. replacements'[i].lit = o.lit
        BY <3>2, <1>3
      <4> QED BY <4>1, <3>2, <2>1, <2>3, <2>4, <2>6
    <3> QED BY <3>1, <3>2, <1>2
  <2> QED BY <2>5, <2>6
<1>14. Readings'
  <2>1. \A fn, lit : Reading(fn, lit)' <=> Reading(fn, lit)
    BY <1>1 DEF Reading, Instant
  <2>2. ASSUME NEW i \in 1..(n + 1) PROVE Reading(replacements'[i].fn, replacements'[i].lit)
    <3>1. CASE i \in 1..n
      BY <3>1, <1>2, <1>3 DEF MInv, Readings
    <3>2. CASE i = n + 1
      <4>1. replacements'[i].fn = name /\ replacements'[i].lit = o.lit
        BY <3>2, <1>3
      <4> QED BY <4>1 DEF Lawful
    <3> QED BY <3>1, <3>2, <1>2
  <2> QED BY <1>3, <2>1, <2>2 DEF Readings
<1> QED BY <1>6, <1>9, <1>11, <1>12, <1>13, <1>14 DEF MInv

LEMMA CallKeeps ==
    ASSUME MInv, NEW n, Visiting(n), NEW name, NEW o, Lawful(name, o), Replace(Head(toVisit), name, o)
    PROVE  MInv'
<1>1. at = "walk" /\ toVisit # <<>>
  BY DEF Visiting
<1>2. CASE o.ok = TRUE
  BY <1>1, <1>2, ReplaceKeeps
<1>3. CASE o.ok = FALSE
  BY <1>1, <1>3, StopKeeps
<1> QED BY <1>2, <1>3 DEF Lawful

LEMMA WalkKeeps == MInv /\ Walk => MInv'
<1> SUFFICES ASSUME MInv, Walk PROVE MInv'
  OBVIOUS
<1>1. mreq \in MaterializeRequests /\ used \in [Pools -> Nat]
  BY DEF MInv, Shaped
<1>2. CASE WalkReserved
  <2>1. PICK n : Visiting(n) /\ n.shape \in Reserved /\ Replace(Head(toVisit), n.shape, ReservedCall(n))
    BY <1>2 DEF WalkReserved
  <2>2. n.shape \in isSupportedNondeterministic
    BY <2>1 DEF Reserved, isSupportedNondeterministic, clockNow, clockUTC, clockToday, random32, random64
  <2>3. Lawful(n.shape, ReservedCall(n))
    BY <1>1, <2>2, Refused, Replaced DEF ReservedCall
  <2> QED BY <2>1, <2>3, CallKeeps
<1>3. CASE WalkPseudoFunction
  <2>1. PICK n : Visiting(n) /\ IsPseudoFunction(n) /\ Replace(Head(toVisit), n.name, materializeNow)
    BY <1>3 DEF WalkPseudoFunction
  <2>2. n.name = "current_timestamp"
    BY <2>1 DEF IsPseudoFunction
  <2>3. n.name \in isSupportedNondeterministic /\ ValueOf(n.name) = materializeNow
    BY <2>2 DEF ValueOf, isSupportedNondeterministic, clockNow, clockUTC, clockToday, random32, random64
  <2>4. Lawful(n.name, materializeNow)
    BY <1>1, <2>3, Replaced
  <2> QED BY <2>1, <2>4, CallKeeps
<1>4. CASE WalkFunction
  <2>1. PICK n : Visiting(n) /\ IsCall(n) /\ Replace(Head(toVisit), n.name, materializeFunction(n))
    BY <1>4 DEF WalkFunction
  <2>2. Lawful(n.name, materializeFunction(n))
    BY <1>1, Refused, Replaced DEF materializeFunction
  <2> QED BY <2>1, <2>2, CallKeeps
<1> QED BY <1>2, <1>3, <1>4, IntoKeeps, DoneKeeps DEF Walk

LEMMA StutterKeeps == MInv /\ UNCHANGED mvars => MInv'
<1> SUFFICES ASSUME MInv, UNCHANGED mvars PROVE MInv'
  OBVIOUS
<1>1. UNCHANGED <<mreq, at, tree, toVisit, used, replacements, answer>>
  BY DEF mvars
<1>2. Walked'
  <2>1. \A V : Visited(V)' <=> Visited(V)
    BY <1>1 DEF Visited, Led, Here, Nodes, Volatile
  <2>2. \A V, place : Placed(V, place)' <=> Placed(V, place)
    BY <1>1 DEF Placed
  <2> QED BY <1>1, <2>1, <2>2 DEF MInv, Walked, Nodes
<1>3. InOrder'
  <2>1. \A pool, n : Drawn(pool, n)' = Drawn(pool, n) /\ ValueAt(pool, n)' = ValueAt(pool, n)
    BY <1>1 DEF Drawn, ValueAt
  <2> QED BY <1>1, <2>1 DEF MInv, InOrder
<1>4. Readings'
  <2>1. \A fn, lit : Reading(fn, lit)' <=> Reading(fn, lit)
    BY <1>1 DEF Reading, Instant
  <2> QED BY <1>1, <2>1 DEF MInv, Readings
<1>5. Shaped' /\ Ahead' /\ Stage'
  BY <1>1 DEF MInv, Shaped, Ahead, Here, Nodes, Stage
<1> QED BY <1>2, <1>3, <1>4, <1>5 DEF MInv

---------------------------------------------------------------------------
(* What the invariant says of an answer.                                   *)

(* When the walk is over it has been to all of the statement. *)
LEMMA BelowVisited ==
    ASSUME MInv, toVisit = <<>>, NEW V \in SUBSET Nodes, Visited(V)
    PROVE  Below = V
<1>1. Range(toVisit) = {} /\ DOMAIN tree = Nodes
  BY DEF Range, MInv, Shaped
<1>2. 1 \in V /\ \A j \in V : Range(Kids(tree[j])) \subseteq V
  BY <1>1 DEF Visited
<1>3. Below \subseteq V
  BY <1>1, <1>2 DEF Below
<1>4. ASSUME NEW part \in SUBSET Nodes, 1 \in part, \A j \in part : Range(Kids(tree[j])) \subseteq part
      PROVE  V \subseteq part
  BY <1>1, <1>4 DEF Visited, Led
<1>5. V \subseteq Below
  BY <1>1, <1>4 DEF Below
<1> QED BY <1>3, <1>5

LEMMA Deterministic == MInv => SuccessIsDeterministic
<1> SUFFICES ASSUME MInv, at = "done", answer.Code = "Success", NEW i \in Below PROVE ~Volatile(tree[i])
  BY DEF SuccessIsDeterministic, Volatile
<1>1. PICK V \in SUBSET Nodes : Visited(V)
  BY DEF MInv, Walked
<1>2. toVisit = <<>>
  BY DEF MInv, Stage
<1> QED BY <1>1, <1>2, BelowVisited DEF Visited

LEMMA Described == MInv => RecordsDescribeSQL
<1> SUFFICES ASSUME MInv, at = "done", answer.sql = "generated" PROVE RecordsDescribeSQL
  BY DEF RecordsDescribeSQL
<1>1. PICK V \in SUBSET Nodes : Visited(V) /\ \E place : Placed(V, place)
  BY DEF MInv, Walked
<1>2. PICK place : Placed(V, place)
  BY <1>1
<1>3. Below = V
  BY <1>1, BelowVisited DEF MInv, Stage
<1> DEFINE literals == {i \in Below : tree[i].shape = "literal"}
<1>4. /\ place \in [DOMAIN replacements -> V] /\ literals = Range(place)
      /\ \A i, j \in DOMAIN replacements : i < j => place[i] < place[j]
      /\ \A i \in DOMAIN replacements :
            tree[place[i]].lit = replacements[i].lit /\ replacements[i].ordinal = i - 1
  BY <1>2, <1>3 DEF Placed
<1>5. place \in [DOMAIN replacements -> literals]
  BY <1>4, RangeIs
<1> QED BY <1>4, <1>5 DEF RecordsDescribeSQL

LEMMA Ordered == MInv => ValuesInOrder
<1> SUFFICES ASSUME MInv, NEW pool \in Pools, NEW i \in DOMAIN replacements
             PROVE  /\ Drawn(pool, i) <= used[pool]
                    /\ replacements[i].lit.kind \in KindsOf(pool) =>
                          replacements[i].lit.value = ValueAt(pool, Drawn(pool, i))
  BY DEF ValuesInOrder, Drawn, ValueAt
<1> DEFINE n == Len(replacements)
<1>1. n \in Nat /\ DOMAIN replacements = 1..n /\ i \in 1..n /\ used[pool] \in Nat
  BY DEF MInv, Shaped, IsSequence
<1>2. Drawn(pool, n) <= used[pool] /\ Drawn(pool, n) \in Nat /\ Drawn(pool, i) \in Nat
  BY <1>1, DrawnFacts DEF MInv, InOrder
<1>3. Drawn(pool, i) <= Drawn(pool, n)
  <2> DEFINE S(m) == {j \in 1..m : replacements[j].lit.kind \in KindsOf(pool)}
  <2>1. S(i) \subseteq S(n) /\ S(n) \subseteq 1..n
    BY <1>1
  <2> HIDE DEF S
  <2>2. IsFiniteSet(S(n))
    BY <1>1, <2>1, FiniteUpTo
  <2>3. Cardinality(S(i)) <= Cardinality(S(n))
    BY <2>1, <2>2, FS_Subset
  <2> QED BY <2>3 DEF S, Drawn
<1>4. Drawn(pool, i) <= used[pool]
  <2> HIDE DEF n
  <2> QED BY <1>1, <1>2, <1>3
<1> QED BY <1>4 DEF MInv, InOrder

LEMMA OfOneInstant == MInv => OneInstant
<1> SUFFICES ASSUME MInv, NEW i \in DOMAIN replacements, NEW j \in DOMAIN replacements
             PROVE  LET a == replacements[i]
                        b == replacements[j]
                    IN  /\ a.lit.kind \in {"DateTime", "DateTimeUTC"} /\ b.lit.kind = "DateTime64"
                             => Quotient(b.lit.value, NanosPerSecond \div NanosPerMilli) = a.lit.value
                        /\ a.lit.kind \in {"DateTime", "DateTimeUTC"} /\ b.fn \in clockToday
                             => b.lit.value = a.lit.value
                        /\ a.fn = "yesterday" /\ b.fn \in clockToday
                             => b.lit.value - a.lit.value = SecondsPerDay
  BY DEF OneInstant
<1>1. Reading(replacements[i].fn, replacements[i].lit) /\ Reading(replacements[j].fn, replacements[j].lit)
  BY DEF MInv, Readings
<1>2. /\ NanosPerSecond \in Nat \ {0} /\ NanosPerMilli \in Nat \ {0} /\ SecondsPerDay \in Nat \ {0}
      /\ NanosPerSecond % NanosPerMilli = 0
  BY UnitsAssumption
<1>3. CASE Instant \in Int
  <2>1. Quotient(Quotient(Instant, NanosPerMilli), NanosPerSecond \div NanosPerMilli) = nowSeconds(Instant)
    BY <1>2, <1>3, QuotientTwice DEF nowSeconds
  <2>2. nowSeconds(Instant) \in Int
    BY <1>2, <1>3, QuotientInt DEF nowSeconds
  <2> QED BY <1>1, <1>2, <2>1, <2>2 DEF Reading
<1>4. CASE Instant \notin Int
  BY <1>1, <1>4 DEF Reading
<1> QED BY <1>3, <1>4

LEMMA Replayable == MInv => AnswerReplayable
<1> SUFFICES ASSUME MInv PROVE AnswerReplayable
  OBVIOUS
<1>1. MTypeOK
  <2>1. \A i \in DOMAIN toVisit : toVisit[i] \in Nodes
    BY DEF MInv, Ahead
  <2>2. \A pool \in Pools : used[pool] \in 0..Len(mreq.values[pool])
    BY Request DEF MInv, Shaped
  <2> QED BY <2>1, <2>2 DEF MInv, Shaped, MTypeOK, Nodes
<1>2. ChangedOnlyOnSuccess
  BY DEF ChangedOnlyOnSuccess, MInv, Stage
<1> QED BY <1>1, <1>2, Deterministic, Described, Ordered, OfOneInstant DEF AnswerReplayable

(* Whatever statement is asked for, what is answered can be replayed: a    *)
(* Success holds no volatile call, its literals are the supplied values in *)
(* order and readings of one instant, its records describe it, and nothing *)
(* half-replaced is returned (MaterializeSQL).                             *)
THEOREM AnswersReplay == MSpec => []AnswerReplayable
<1>1. MInv /\ [MNext]_mvars => MInv'
  BY PolicyKeeps, ParseKeeps, WalkKeeps, RegenerateKeeps, GenerateKeeps, StutterKeeps DEF MNext
<1> QED BY Begins, <1>1, Replayable, PTL DEF MSpec
=============================================================================
