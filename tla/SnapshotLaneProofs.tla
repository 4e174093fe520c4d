------------------------- MODULE SnapshotLaneProofs -------------------------
(***************************************************************************)
(* The snapshot lane.  The measured library serves what it measured, and   *)
(* is held exactly while it is needed, for any engines, files and profiles. *)
(* The two calls answer a success only after every check and in time, for  *)
(* any requests and whatever the engine computes.                          *)
(***************************************************************************)
EXTENDS MeasuredEngine, SnapshotRPC, FiniteSetTheorems, SequenceTheorems, TLAPS

---------------------------------------------------------------------------
(* The measured library: the inductive invariant.                          *)

(* The stages of an engine's life that have something in common: it has a  *)
(* descriptor, its file is sealed, hashed, loaded, found to be the one the *)
(* loader gave, and open in the client too.                                *)
Clients  == {"client", "running", "closing"}
Checked  == Clients \cup {"verified", "quiet"}
Holding  == Checked \cup {"loaded"}
Measured == Holding \cup {"hashed"}
Fixed    == Measured \cup {"sealed"}
Owning   == Fixed \cup {"copying", "copied"}
Stages   == Owning \cup {"new", "opened", "closed", "failed"}

(* A sequence, of whatever elements. *)
IsSequence(s) == Len(s) \in Nat /\ DOMAIN s = 1..Len(s) /\ s = [i \in 1..Len(s) |-> s[i]]

(* An engine's record, its descriptor and its file. *)
ShapedBy(e) ==
    /\ DOMAIN eng[e] = DOMAIN NoEngine /\ eng[e].pc \in Stages /\ eng[e].calls \in Nat

OwnedBy(e) ==
    /\ eng[e].pc \in Owning => /\ eng[e].fd \in Fds /\ eng[e].file \in DOMAIN mem
                               /\ fds[eng[e].fd] = eng[e].file
    /\ eng[e].pc \notin Owning => eng[e].fd = 0
    /\ eng[e].pc \in Owning \cup {"closed"} => eng[e].file \in DOMAIN mem
    /\ eng[e].pc \notin Owning \cup {"closed"} => eng[e].file = 0

(* What is sealed before it is hashed stays what was hashed. *)
SealedBy(e) ==
    /\ eng[e].pc = "copying" => ~mem[eng[e].file].sealed
    /\ eng[e].pc \in Fixed => mem[eng[e].file].sealed
    /\ eng[e].pc \in Measured => eng[e].digest = mem[eng[e].file].image

(* A handle that passed the check is the engine's own file, which the      *)
(* loader knows by the engine's descriptor while anybody refers to it.     *)
LoadedBy(e) ==
    /\ IF eng[e].pc \in Holding THEN eng[e].handle \in DOMAIN loader ELSE eng[e].handle = 0
    /\ eng[e].pc \in Checked => eng[e].handle = eng[e].file /\ loader[eng[e].handle].bound = {}
    /\ IF eng[e].pc \in Clients THEN eng[e].client = eng[e].file ELSE eng[e].client = 0
    /\ eng[e].calls > 0 => eng[e].pc \in {"running", "closing"}
    /\ eng[e].pc \in Owning /\ eng[e].file \in DOMAIN loader /\ loader[eng[e].file].refs > 0
          => loader[eng[e].file].name = eng[e].fd

ProfiledBy(e) ==
    /\ eng[e].pc \notin {"new", "failed"} =>
          eng[e].profiles \in ProfileFiles /\ decodeSnapshotProfiles(eng[e].profiles)
    /\ eng[e].pc \in {"running", "closing"} => eng[e].local = LocalProfiles(eng[e].profiles, eng[e].digest)

EngineOK(e) == ShapedBy(e) /\ OwnedBy(e) /\ SealedBy(e) /\ LoadedBy(e) /\ ProfiledBy(e)

Shaped ==
    /\ DOMAIN eng = Engines /\ DOMAIN fds = Fds /\ faults \in Nat
    /\ IsSequence(mem) /\ \A m \in DOMAIN mem : DOMAIN mem[m] = {"image", "sealed"}

(* A memory file is one engine's, and so is a descriptor in use. *)
Apart ==
    /\ \A e, d \in Engines : eng[e].file = eng[d].file /\ eng[e].file # 0 => e = d
    /\ \A n \in Fds : fds[n] # 0 => \E e \in Engines : eng[e].fd = n

(* What is loaded is sealed, under a name of its own, and bound to no more *)
(* than it leaves undefined.                                               *)
Loaded ==
    /\ DOMAIN loader \subseteq DOMAIN mem
    /\ \A m \in DOMAIN loader :
          /\ DOMAIN loader[m] = {"name", "refs", "bound"} /\ mem[m].sealed
          /\ loader[m].bound \subseteq {s.name : s \in Elf[mem[m].image].undefined}
    /\ \A m, k \in DOMAIN loader :
          loader[m].refs > 0 /\ loader[k].refs > 0 /\ loader[m].name = loader[k].name => m = k

(* The references to an object are those the engines hold, but for what a  *)
(* failed close left behind.                                               *)
Held(m) == Cardinality({e \in Engines : eng[e].handle = m}) + Cardinality({e \in Engines : eng[e].client = m})

Counted == \A m \in DOMAIN loader : loader[m].refs \in Held(m)..(Held(m) + faults)

EngineInv == Shaped /\ Apart /\ Loaded /\ Counted /\ \A e \in Engines : EngineOK(e)

---------------------------------------------------------------------------
(* Sequences of whatever elements. *)

LEMMA Sequence ==
    ASSUME NEW s, IsSequence(s), NEW X, \A i \in DOMAIN s : s[i] \in X
    PROVE  s \in Seq(X)
<1>1. s \in [1..Len(s) -> X]
  BY DEF IsSequence
<1> QED BY <1>1, Len(s) \in Nat DEF IsSequence

LEMMA ASequence ==
    ASSUME NEW X, NEW s \in Seq(X)
    PROVE  IsSequence(s)
<1>1. PICK n \in Nat : s \in [1..n -> X]
  BY SeqDef
<1>2. Len(s) = n
  BY <1>1
<1>3. s = [i \in 1..n |-> s[i]]
  BY <1>1
<1> QED BY <1>1, <1>2, <1>3 DEF IsSequence

LEMMA AppendKeeps ==
    ASSUME NEW s, IsSequence(s), NEW x
    PROVE  /\ IsSequence(Append(s, x)) /\ DOMAIN Append(s, x) = DOMAIN s \cup {Len(s) + 1}
           /\ Len(s) + 1 \notin DOMAIN s /\ Len(s) \in Nat
           /\ \A i \in DOMAIN s : Append(s, x)[i] = s[i]
           /\ Append(s, x)[Len(s) + 1] = x
<1> DEFINE X == {s[i] : i \in DOMAIN s} \cup {x}
           t == Append(s, x)
<1>1. s \in Seq(X) /\ Len(s) \in Nat /\ DOMAIN s = 1..Len(s) /\ x \in X
  BY Sequence DEF IsSequence
<1> HIDE DEF X
<1>2. /\ t \in Seq(X) /\ Len(t) = Len(s) + 1 /\ t[Len(s) + 1] = x
      /\ \A i \in 1..Len(s) : t[i] = s[i]
  BY <1>1
<1> HIDE DEF t
<1>3. IsSequence(t) /\ DOMAIN t = 1..Len(t)
  BY <1>2, ASequence
<1>4. 1..(Len(s) + 1) = 1..Len(s) \cup {Len(s) + 1} /\ Len(s) + 1 \notin 1..Len(s)
  BY <1>1
<1> QED BY <1>1, <1>2, <1>3, <1>4 DEF t

LEMMA ReplaceKeeps ==
    ASSUME NEW s, IsSequence(s), NEW m \in DOMAIN s, NEW v
    PROVE  LET t == [s EXCEPT ![m] = v]
           IN  /\ IsSequence(t) /\ DOMAIN t = DOMAIN s
               /\ t[m] = v /\ \A i \in DOMAIN s \ {m} : t[i] = s[i]
<1> DEFINE X == {s[i] : i \in DOMAIN s} \cup {v}
           t == [s EXCEPT ![m] = v]
<1>1. s \in Seq(X) /\ Len(s) \in Nat /\ DOMAIN s = 1..Len(s) /\ v \in X
  BY Sequence DEF IsSequence
<1> HIDE DEF X
<1>2. t \in Seq(X) /\ Len(t) = Len(s)
  BY <1>1
<1>3. IsSequence(t)
  <2> HIDE DEF t
  <2> QED BY <1>2, ASequence
<1>4. DOMAIN t = DOMAIN s /\ t[m] = v /\ \A i \in DOMAIN s \ {m} : t[i] = s[i]
  OBVIOUS
<1> QED BY <1>3, <1>4

---------------------------------------------------------------------------
(* Counting. *)

(* How many engines a function takes to m. *)
Count(f, m) == Cardinality({d \in Engines : f[d] = m})

Recounted(f, g, e, m) ==
    /\ Count(f, m) \in Nat
    /\ Count(g, m) = Count(f, m) + (IF g[e] = m THEN 1 ELSE 0) - (IF f[e] = m THEN 1 ELSE 0)

LEMMA CountChange ==
    ASSUME NEW f, NEW g, NEW e \in Engines, \A d \in Engines \ {e} : g[d] = f[d], NEW m
    PROVE  Recounted(f, g, e, m)
<1> DEFINE A == {d \in Engines : f[d] = m}
           B == {d \in Engines : g[d] = m}
<1>1. IsFiniteSet(A) /\ IsFiniteSet(B)
  BY EnginesAssumption, FS_Subset, A \in SUBSET Engines, B \in SUBSET Engines
<1>2. A \ {e} = B \ {e} /\ (e \in A <=> f[e] = m) /\ (e \in B <=> g[e] = m)
  OBVIOUS
<1> HIDE DEF A, B
<1>3. Cardinality(A) \in Nat /\ Cardinality(B) \in Nat
  BY <1>1, FS_CardinalityType
<1>4. Cardinality(A \ {e}) = IF e \in A THEN Cardinality(A) - 1 ELSE Cardinality(A)
  BY <1>1, FS_RemoveElement
<1>5. Cardinality(B \ {e}) = IF e \in B THEN Cardinality(B) - 1 ELSE Cardinality(B)
  BY <1>1, FS_RemoveElement
<1>6. Cardinality(A \ {e}) = Cardinality(B \ {e})
  BY <1>2
<1>7. Cardinality(B) = Cardinality(A) + (IF g[e] = m THEN 1 ELSE 0) - (IF f[e] = m THEN 1 ELSE 0)
  BY <1>2, <1>3, <1>4, <1>5, <1>6
<1> QED BY <1>3, <1>7 DEF A, B, Count, Recounted

(* What one engine's step does to the count. *)
LEMMA HeldChange ==
    ASSUME NEW e \in Engines, \A d \in Engines \ {e} : eng'[d] = eng[d], NEW m
    PROVE  /\ Held(m) \in Nat /\ Held(m)' \in Int
           /\ Held(m)' = Held(m) + (IF eng'[e].handle = m THEN 1 ELSE 0) - (IF eng[e].handle = m THEN 1 ELSE 0)
                                 + (IF eng'[e].client = m THEN 1 ELSE 0) - (IF eng[e].client = m THEN 1 ELSE 0)
<1> DEFINE h == [d \in Engines |-> eng[d].handle]
           k == [d \in Engines |-> eng'[d].handle]
           c == [d \in Engines |-> eng[d].client]
           b == [d \in Engines |-> eng'[d].client]
<1>a. \A d \in Engines \ {e} : k[d] = h[d]
  OBVIOUS
<1>b. \A d \in Engines \ {e} : b[d] = c[d]
  OBVIOUS
<1>2. /\ {d \in Engines : eng[d].handle = m} = {d \in Engines : h[d] = m}
      /\ {d \in Engines : eng'[d].handle = m} = {d \in Engines : k[d] = m}
      /\ {d \in Engines : eng[d].client = m} = {d \in Engines : c[d] = m}
      /\ {d \in Engines : eng'[d].client = m} = {d \in Engines : b[d] = m}
  OBVIOUS
<1>3. h[e] = eng[e].handle /\ k[e] = eng'[e].handle /\ c[e] = eng[e].client /\ b[e] = eng'[e].client
  OBVIOUS
<1> HIDE DEF h, k, c, b
<1>4. Recounted(h, k, e, m)
  BY <1>a, CountChange
<1>5. Recounted(c, b, e, m)
  BY <1>b, CountChange
<1>6. Held(m) = Count(h, m) + Count(c, m) /\ Held(m)' = Count(k, m) + Count(b, m)
  <2>1. Held(m) = Cardinality({d \in Engines : eng[d].handle = m}) + Cardinality({d \in Engines : eng[d].client = m})
    BY DEF Held
  <2>2. Held(m)' = Cardinality({d \in Engines : eng'[d].handle = m}) + Cardinality({d \in Engines : eng'[d].client = m})
    BY DEF Held
  <2>3. Count(h, m) = Cardinality({d \in Engines : eng[d].handle = m})
    BY <1>2, Zenon DEF Count
  <2>4. Count(k, m) = Cardinality({d \in Engines : eng'[d].handle = m})
    BY <1>2, Zenon DEF Count
  <2>5. Count(c, m) = Cardinality({d \in Engines : eng[d].client = m})
    BY <1>2, Zenon DEF Count
  <2>6. Count(b, m) = Cardinality({d \in Engines : eng'[d].client = m})
    BY <1>2, Zenon DEF Count
  <2> QED BY <2>1, <2>2, <2>3, <2>4, <2>5, <2>6
<1> QED BY <1>3, <1>4, <1>5, <1>6 DEF Recounted

---------------------------------------------------------------------------
(* What a step leaves alone. *)

LEMMA RefsHeld ==
    ASSUME EngineInv, NEW m \in DOMAIN loader
    PROVE  /\ loader[m].refs \in Nat /\ Held(m) \in Nat /\ faults \in Nat
           /\ loader[m].refs >= Held(m) /\ loader[m].refs <= Held(m) + faults
           /\ \A e \in Engines : eng[e].handle = m \/ eng[e].client = m => loader[m].refs > 0
           /\ \A e \in Engines : eng[e].handle = m /\ eng[e].client = m => loader[m].refs > 1
<1> DEFINE H == {e \in Engines : eng[e].handle = m}
           C == {e \in Engines : eng[e].client = m}
<1>1. IsFiniteSet(H) /\ IsFiniteSet(C)
  BY EnginesAssumption, FS_Subset, H \in SUBSET Engines, C \in SUBSET Engines
<1>2. Held(m) = Cardinality(H) + Cardinality(C)
  BY DEF Held
<1>3. ASSUME NEW e \in Engines
      PROVE  (eng[e].handle = m => H # {}) /\ (eng[e].client = m => C # {})
  OBVIOUS
<1> HIDE DEF H, C
<1>4. Cardinality(H) \in Nat /\ Cardinality(C) \in Nat
  BY <1>1, FS_CardinalityType
<1>5. (H # {} => Cardinality(H) > 0) /\ (C # {} => Cardinality(C) > 0)
  BY <1>1, <1>4, FS_EmptySet
<1>6. faults \in Nat /\ loader[m].refs \in Held(m)..(Held(m) + faults)
  BY DEF EngineInv, Counted, Shaped
<1> QED BY <1>2, <1>3, <1>4, <1>5, <1>6

(* The other engines are where they were. *)
Alone(e) == DOMAIN eng' = Engines /\ \A d \in Engines \ {e} : eng'[d] = eng[d]

(* Only some fields of e change. *)
Keeps(e, fields) ==
    /\ Alone(e) /\ DOMAIN eng'[e] = DOMAIN NoEngine
    /\ \A f \in DOMAIN NoEngine \ fields : eng'[e][f] = eng[e][f]

LEMMA Undisturbed ==
    ASSUME EngineInv, NEW d \in Engines, eng'[d] = eng[d],
           eng[d].pc \in Owning => fds'[eng[d].fd] = fds[eng[d].fd],
           DOMAIN mem \subseteq DOMAIN mem', \A m \in DOMAIN mem : mem[m].sealed => mem'[m] = mem[m],
           eng[d].file \in DOMAIN mem => (mem'[eng[d].file].sealed <=> mem[eng[d].file].sealed),
           DOMAIN loader \subseteq DOMAIN loader',
           \A m \in DOMAIN loader : loader[m].refs > 0 =>
               loader'[m].name = loader[m].name /\ loader'[m].bound = loader[m].bound,
           eng[d].file \in DOMAIN loader' /\ loader'[eng[d].file].refs > 0 =>
               eng[d].file \in DOMAIN loader /\ loader[eng[d].file].refs > 0
    PROVE  EngineOK(d)'
<1>1. EngineOK(d)
  BY DEF EngineInv
<1>2. ShapedBy(d)' /\ ProfiledBy(d)'
  BY <1>1 DEF EngineOK, ShapedBy, ProfiledBy
<1>3. OwnedBy(d)'
  BY <1>1 DEF EngineOK, OwnedBy
<1>4. SealedBy(d)'
  BY <1>1 DEF EngineOK, OwnedBy, SealedBy, Owning, Fixed, Measured
<1>5. LoadedBy(d)'
  <2>1. eng[d].pc \in Checked => eng[d].handle \in DOMAIN loader /\ loader[eng[d].handle].refs > 0
    BY <1>1, RefsHeld DEF EngineOK, LoadedBy, Holding
  <2> QED BY <1>1, <2>1 DEF EngineOK, LoadedBy
<1> QED BY <1>2, <1>3, <1>4, <1>5 DEF EngineOK

(* Steps that touch no file, descriptor or reference. *)
LEMMA Elsewhere ==
    ASSUME EngineInv, UNCHANGED <<eng, fds, mem, loader, faults>>
    PROVE  EngineInv'
<1>1. Shaped' /\ Apart' /\ Loaded'
  BY DEF EngineInv, Shaped, Apart, Loaded
<1>2. Counted'
  BY DEF EngineInv, Counted, Held
<1>3. \A e \in Engines : EngineOK(e)'
  BY Undisturbed
<1> QED BY <1>1, <1>2, <1>3 DEF EngineInv

LEMMA PrivateMove ==
    ASSUME EngineInv, NEW e \in Engines, UNCHANGED <<fds, mem, loader, faults>>, Alone(e),
           eng'[e].fd = eng[e].fd, eng'[e].file = eng[e].file,
           eng'[e].handle = eng[e].handle, eng'[e].client = eng[e].client,
           EngineOK(e)'
    PROVE  EngineInv'
<1>1. Shaped' /\ Loaded'
  BY DEF EngineInv, Shaped, Loaded, Alone
<1>2. \A d \in Engines : eng'[d].fd = eng[d].fd /\ eng'[d].file = eng[d].file
  BY DEF Alone
<1>3. Apart'
  BY <1>2 DEF EngineInv, Apart
<1>4. Counted'
  <2>1. ASSUME NEW m \in DOMAIN loader PROVE Held(m)' = Held(m)
    BY HeldChange DEF Alone
  <2> QED BY <2>1 DEF EngineInv, Counted
<1>5. \A d \in Engines \ {e} : EngineOK(d)'
  BY Undisturbed DEF Alone
<1> QED BY <1>1, <1>3, <1>4, <1>5 DEF EngineInv

LEMMA OpenSourceKeeps ==
    ASSUME EngineInv, NEW e \in Engines, OpenSource(e)
    PROVE  EngineInv'
<1> USE DEF EngineInv
<1>1. EngineOK(e) /\ eng[e].pc = "new" /\ UNCHANGED <<fds, mem, loader, faults>>
  BY DEF OpenSource, At
<1>2. PICK f \in ProfileFiles :
         eng' = [eng EXCEPT ![e] = IF decodeSnapshotProfiles(f)
                                   THEN [@ EXCEPT !.pc = "opened", !.source = path, !.profiles = f]
                                   ELSE [@ EXCEPT !.pc = "failed"]]
  BY DEF OpenSource
<1>3. Keeps(e, {"pc", "source", "profiles"})
  BY <1>1, <1>2 DEF EngineOK, ShapedBy, Shaped, Keeps, Alone, NoEngine
<1>4. \/ eng'[e].pc = "opened" /\ eng'[e].profiles = f /\ decodeSnapshotProfiles(f)
      \/ eng'[e].pc = "failed"
  BY <1>1, <1>2 DEF EngineOK, ShapedBy, Shaped, NoEngine
<1>5. /\ eng'[e].fd = eng[e].fd /\ eng'[e].file = eng[e].file /\ eng'[e].handle = eng[e].handle
      /\ eng'[e].client = eng[e].client /\ eng'[e].calls = eng[e].calls
  BY <1>3 DEF Keeps, NoEngine
<1>6. EngineOK(e)'
  BY <1>1, <1>3, <1>4, <1>5 DEF EngineOK, ShapedBy, OwnedBy, SealedBy, LoadedBy, ProfiledBy, Keeps, Alone,
       Clients, Checked, Holding, Measured, Fixed, Owning, Stages
<1> QED BY <1>1, <1>3, <1>5, <1>6, PrivateMove DEF Keeps

(* A step that only goes on to a stage which asks for what is known. *)
LEMMA MoveKeeps ==
    ASSUME EngineInv, NEW e \in Engines, NEW stage, Move(e, stage), UNCHANGED <<fds, mem, loader, faults>>,
           \/ eng[e].pc = "copied" /\ mem[eng[e].file].sealed /\ stage = "sealed"
           \/ /\ eng[e].pc = "loaded" /\ eng[e].handle = eng[e].file
              /\ loader[eng[e].handle].bound = {} /\ stage = "verified"
           \/ eng[e].pc = "running" /\ stage = "closing"
    PROVE  EngineInv'
<1>1. EngineOK(e)
  BY DEF EngineInv
<1>2. Keeps(e, {"pc"}) /\ eng'[e].pc = stage
  BY <1>1 DEF Move, EngineInv, EngineOK, ShapedBy, Shaped, Keeps, Alone, NoEngine
<1>3. /\ eng'[e].fd = eng[e].fd /\ eng'[e].file = eng[e].file /\ eng'[e].handle = eng[e].handle
      /\ eng'[e].client = eng[e].client /\ eng'[e].calls = eng[e].calls /\ eng'[e].profiles = eng[e].profiles
      /\ eng'[e].digest = eng[e].digest /\ eng'[e].local = eng[e].local
  BY <1>2 DEF Keeps, NoEngine
<1>4. EngineOK(e)'
  <2>1. ShapedBy(e)' /\ OwnedBy(e)'
    BY <1>1, <1>2, <1>3 DEF EngineOK, ShapedBy, OwnedBy, Keeps, Alone,
         Clients, Checked, Holding, Measured, Fixed, Owning, Stages
  <2>2. SealedBy(e)' /\ ProfiledBy(e)'
    BY <1>1, <1>2, <1>3 DEF EngineOK, SealedBy, ProfiledBy,
         Clients, Checked, Holding, Measured, Fixed, Owning
  <2>3. LoadedBy(e)'
    BY <1>1, <1>2, <1>3 DEF EngineOK, LoadedBy, Clients, Checked, Holding, Measured, Fixed, Owning
  <2> QED BY <2>1, <2>2, <2>3 DEF EngineOK
<1> QED BY <1>2, <1>3, <1>4, PrivateMove DEF Keeps

(* A check that passes leaves nothing bound. *)
LEMMA VerifiedUnbound ==
    ASSUME EngineInv, NEW e \in Engines, eng[e].pc \in Holding, verifySnapshotSymbols(e)
    PROVE  eng[e].handle = eng[e].file /\ loader[eng[e].handle].bound = {}
<1>1. eng[e].handle \in DOMAIN loader
  BY DEF EngineInv, EngineOK, LoadedBy
<1>2. eng[e].handle = eng[e].file
  BY DEF verifySnapshotSymbols
<1>3. loader[eng[e].handle].bound \subseteq {s.name : s \in Elf[mem[eng[e].file].image].undefined}
  BY <1>1, <1>2 DEF EngineInv, Loaded
<1>4. \A s \in Elf[mem[eng[e].file].image].undefined : s.name \notin loader[eng[e].handle].bound
  BY DEF verifySnapshotSymbols
<1> QED BY <1>2, <1>3, <1>4

LEMMA HashKeeps ==
    ASSUME EngineInv, NEW e \in Engines, hashSnapshotFile(e)
    PROVE  EngineInv'
<1>1. Keeps(e, {"pc", "digest"}) /\ eng'[e].pc = "hashed" /\ eng'[e].digest = mem[eng[e].file].image
  BY DEF hashSnapshotFile, EngineInv, EngineOK, ShapedBy, Shaped, Keeps, Alone, NoEngine
<1>2. /\ eng'[e].fd = eng[e].fd /\ eng'[e].file = eng[e].file /\ eng'[e].handle = eng[e].handle
      /\ eng'[e].client = eng[e].client /\ eng'[e].calls = eng[e].calls /\ eng'[e].profiles = eng[e].profiles
  BY <1>1 DEF Keeps, NoEngine
<1>3. EngineOK(e) /\ eng[e].pc = "sealed" /\ UNCHANGED <<fds, mem, loader, faults>>
  BY DEF EngineInv, hashSnapshotFile, At
<1>4. EngineOK(e)'
  BY <1>1, <1>2, <1>3 DEF EngineOK, ShapedBy, OwnedBy, SealedBy, LoadedBy, ProfiledBy, Keeps, Alone,
       Clients, Checked, Holding, Measured, Fixed, Owning, Stages
<1> QED BY <1>1, <1>2, <1>3, <1>4, PrivateMove DEF Keeps

(* The start of service. *)
LEMMA ServeKeeps ==
    ASSUME EngineInv, NEW e \in Engines, VerifyAgain(e), verifySnapshotSymbols(e)
    PROVE  EngineInv'
<1>1. EngineOK(e) /\ eng[e].pc = "client" /\ UNCHANGED <<fds, mem, loader, faults>>
  BY DEF EngineInv, VerifyAgain, At
<1>2. Keeps(e, {"pc", "local"}) /\ eng'[e].pc = "running"
      /\ eng'[e].local = LocalProfiles(eng[e].profiles, eng[e].digest)
  BY <1>1 DEF VerifyAgain, EngineInv, EngineOK, ShapedBy, Shaped, Keeps, Alone, NoEngine
<1>3. /\ eng'[e].fd = eng[e].fd /\ eng'[e].file = eng[e].file /\ eng'[e].handle = eng[e].handle
      /\ eng'[e].client = eng[e].client /\ eng'[e].calls = eng[e].calls /\ eng'[e].profiles = eng[e].profiles
      /\ eng'[e].digest = eng[e].digest
  BY <1>2 DEF Keeps, NoEngine
<1>4. EngineOK(e)'
  BY <1>1, <1>2, <1>3 DEF EngineOK, ShapedBy, OwnedBy, SealedBy, LoadedBy, ProfiledBy, Keeps, Alone,
       Clients, Checked, Holding, Measured, Fixed, Owning, Stages
<1> QED BY <1>1, <1>2, <1>3, <1>4, PrivateMove DEF Keeps

LEMMA CallsKeep ==
    ASSUME EngineInv, NEW e \in Engines, BeginCall(e) \/ EndCall(e)
    PROVE  EngineInv'
<1>1. EngineOK(e) /\ UNCHANGED <<fds, mem, loader, faults>> /\ eng[e].calls \in Nat
  BY DEF EngineInv, EngineOK, ShapedBy, BeginCall, EndCall
<1>2. eng[e].pc \in {"running", "closing"}
  BY <1>1 DEF EngineOK, LoadedBy, BeginCall, EndCall, At
<1>3. Keeps(e, {"calls"}) /\ eng'[e].calls \in Nat
  BY <1>1 DEF BeginCall, EndCall, EngineInv, EngineOK, ShapedBy, Shaped, Keeps, Alone, NoEngine
<1>4. /\ eng'[e].fd = eng[e].fd /\ eng'[e].file = eng[e].file /\ eng'[e].handle = eng[e].handle
      /\ eng'[e].client = eng[e].client /\ eng'[e].pc = eng[e].pc /\ eng'[e].profiles = eng[e].profiles
      /\ eng'[e].digest = eng[e].digest /\ eng'[e].local = eng[e].local
  BY <1>3 DEF Keeps, NoEngine
<1>5. EngineOK(e)'
  <2>1. ShapedBy(e)' /\ OwnedBy(e)'
    BY <1>1, <1>3, <1>4 DEF EngineOK, ShapedBy, OwnedBy, Keeps, Alone
  <2>2. SealedBy(e)' /\ ProfiledBy(e)'
    BY <1>1, <1>3, <1>4 DEF EngineOK, SealedBy, ProfiledBy
  <2>3. LoadedBy(e)'
    BY <1>1, <1>2, <1>3, <1>4 DEF EngineOK, LoadedBy
  <2> QED BY <2>1, <2>2, <2>3 DEF EngineOK
<1> QED BY <1>1, <1>3, <1>4, <1>5, PrivateMove DEF Keeps

---------------------------------------------------------------------------
(* The steps on the memory files. *)

(* Files that only grow, sealed ones unchanged. *)
LEMMA MemMoves ==
    ASSUME EngineInv, NEW e \in Engines, Alone(e), UNCHANGED <<loader, faults>>,
           IsSequence(mem'), \A m \in DOMAIN mem' : DOMAIN mem'[m] = {"image", "sealed"},
           DOMAIN mem \subseteq DOMAIN mem', \A m \in DOMAIN mem : mem[m].sealed => mem'[m] = mem[m],
           \A m \in DOMAIN mem \ {eng[e].file} : mem'[m] = mem[m],
           DOMAIN fds' = Fds, \A n \in Fds : fds[n] # 0 => fds'[n] = fds[n],
           eng'[e].handle = eng[e].handle, eng'[e].client = eng[e].client,
           Apart', EngineOK(e)'
    PROVE  EngineInv'
<1>1. Shaped'
  BY DEF EngineInv, Shaped, Alone
<1>2. Loaded'
  BY DEF EngineInv, Loaded
<1>3. Counted'
  <2>1. ASSUME NEW m \in DOMAIN loader PROVE Held(m)' = Held(m)
    BY HeldChange DEF Alone
  <2> QED BY <2>1 DEF EngineInv, Counted
<1>4. ASSUME NEW d \in Engines \ {e} PROVE EngineOK(d)'
  <2>1. EngineOK(d) /\ eng'[d] = eng[d]
    BY DEF EngineInv, Alone
  <2>2. 0 \notin DOMAIN mem
    BY DEF EngineInv, Shaped, IsSequence
  <2>3. eng[d].file \in DOMAIN mem => eng[d].file # eng[e].file
    BY <2>2 DEF EngineInv, Apart
  <2>4. eng[d].pc \in Owning => fds'[eng[d].fd] = fds[eng[d].fd]
    BY <2>1, <2>2 DEF EngineOK, OwnedBy
  <2> QED BY <2>1, <2>3, <2>4, Undisturbed
<1> QED BY <1>1, <1>2, <1>3, <1>4 DEF EngineInv

LEMMA MemfdCreateKeeps ==
    ASSUME EngineInv, NEW e \in Engines, MemfdCreate(e)
    PROVE  EngineInv'
<1>1. EngineOK(e) /\ eng[e].pc = "opened" /\ UNCHANGED <<loader, faults>>
  BY DEF EngineInv, MemfdCreate, At
<1>2. PICK n \in Fds : /\ fds[n] = 0 /\ fds' = [fds EXCEPT ![n] = Len(mem) + 1]
                       /\ mem' = Append(mem, [image |-> <<>>, sealed |-> FALSE])
                       /\ eng' = [eng EXCEPT ![e].pc = "copying", ![e].fd = n, ![e].file = Len(mem) + 1]
  BY DEF MemfdCreate
<1> DEFINE m == Len(mem) + 1
<1>3. IsSequence(mem) /\ DOMAIN fds = Fds /\ \A k \in DOMAIN mem : DOMAIN mem[k] = {"image", "sealed"}
  BY DEF EngineInv, Shaped
<1>4. /\ IsSequence(mem') /\ DOMAIN mem' = DOMAIN mem \cup {m} /\ m \notin DOMAIN mem /\ m # 0
      /\ \A k \in DOMAIN mem : mem'[k] = mem[k]
      /\ mem'[m] = [image |-> <<>>, sealed |-> FALSE]
  BY <1>2, <1>3, AppendKeeps
<1>5. /\ Keeps(e, {"pc", "fd", "file"}) /\ eng'[e].pc = "copying" /\ eng'[e].fd = n /\ eng'[e].file = m
  BY <1>1, <1>2 DEF EngineInv, EngineOK, ShapedBy, Shaped, Keeps, Alone, NoEngine
<1> HIDE DEF m
<1>6. /\ eng'[e].handle = eng[e].handle /\ eng'[e].client = eng[e].client /\ eng'[e].calls = eng[e].calls
      /\ eng'[e].profiles = eng[e].profiles
  BY <1>5 DEF Keeps, NoEngine
<1>7. DOMAIN fds' = Fds /\ fds'[n] = m /\ \A k \in Fds \ {n} : fds'[k] = fds[k]
  BY <1>2, <1>3 DEF m
<1>8. m \notin DOMAIN loader
  BY <1>4 DEF EngineInv, Loaded
<1>9. EngineOK(e)'
  <2>1. ShapedBy(e)' /\ OwnedBy(e)'
    BY <1>1, <1>4, <1>5, <1>6, <1>7 DEF EngineOK, ShapedBy, OwnedBy, Keeps, Alone,
         Clients, Checked, Holding, Measured, Fixed, Owning, Stages
  <2>2. SealedBy(e)' /\ ProfiledBy(e)'
    BY <1>1, <1>4, <1>5, <1>6 DEF EngineOK, SealedBy, ProfiledBy,
         Clients, Checked, Holding, Measured, Fixed, Owning
  <2>3. LoadedBy(e)'
    BY <1>1, <1>5, <1>6, <1>8 DEF EngineOK, LoadedBy, Clients, Checked, Holding, Measured, Fixed, Owning
  <2> QED BY <2>1, <2>2, <2>3 DEF EngineOK
<1>10. Apart'
  <2>1. \A d \in Engines : eng[d].file # m
    <3>1. \A d \in Engines : eng[d].file \in DOMAIN mem \cup {0}
      BY DEF EngineInv, EngineOK, OwnedBy
    <3> QED BY <1>4, <3>1
  <2>2. \A d \in Engines \ {e} : eng'[d] = eng[d]
    BY <1>5 DEF Keeps, Alone
  <2>3. \A d, c \in Engines : eng'[d].file = eng'[c].file /\ eng'[d].file # 0 => d = c
    BY <1>5, <2>1, <2>2 DEF EngineInv, Apart
  <2>4. eng[e].fd = 0
    BY <1>1 DEF EngineOK, OwnedBy, Clients, Checked, Holding, Measured, Fixed, Owning
  <2>5. \A k \in Fds : fds'[k] # 0 => \E d \in Engines : eng'[d].fd = k
    <3> TAKE k \in Fds
    <3>1. CASE k = n
      BY <1>5, <3>1
    <3>2. CASE k # n
      <4> HAVE fds'[k] # 0
      <4>1. PICK d \in Engines : eng[d].fd = k
        BY <1>7, <3>2 DEF EngineInv, Apart
      <4>2. d # e
        BY <2>4, <4>1, FdsAssumption
      <4> QED BY <2>2, <4>1, <4>2
    <3> QED BY <3>1, <3>2
  <2> QED BY <2>3, <2>5 DEF Apart
<1>11. \A k \in Fds : fds[k] # 0 => fds'[k] = fds[k]
  BY <1>2, <1>7
<1>12. \A k \in DOMAIN mem' : DOMAIN mem'[k] = {"image", "sealed"}
  BY <1>3, <1>4
<1> QED BY <1>1, <1>4, <1>5, <1>6, <1>7, <1>9, <1>10, <1>11, <1>12, MemMoves DEF Keeps

(* A change of one file that is not sealed. *)
LEMMA FileChanged ==
    ASSUME EngineInv, NEW m \in DOMAIN mem, NEW v, DOMAIN v = {"image", "sealed"}, mem' = [mem EXCEPT ![m] = v]
    PROVE  /\ IsSequence(mem') /\ DOMAIN mem' = DOMAIN mem /\ mem'[m] = v
           /\ \A k \in DOMAIN mem \ {m} : mem'[k] = mem[k]
           /\ \A k \in DOMAIN mem' : DOMAIN mem'[k] = {"image", "sealed"}
<1>1. IsSequence(mem) /\ \A k \in DOMAIN mem : DOMAIN mem[k] = {"image", "sealed"}
  BY DEF EngineInv, Shaped
<1>2. /\ IsSequence(mem') /\ DOMAIN mem' = DOMAIN mem /\ mem'[m] = v
      /\ \A k \in DOMAIN mem \ {m} : mem'[k] = mem[k]
  BY <1>1, ReplaceKeeps
<1> QED BY <1>1, <1>2

(* The engine's files and descriptors are where they were. *)
LEMMA StillApart ==
    ASSUME EngineInv, NEW e \in Engines, Alone(e), UNCHANGED fds,
           eng'[e].fd = eng[e].fd, eng'[e].file = eng[e].file
    PROVE  Apart'
<1>1. \A d \in Engines : eng'[d].fd = eng[d].fd /\ eng'[d].file = eng[d].file
  BY DEF Alone
<1> QED BY <1>1 DEF EngineInv, Apart

LEMMA CopyKeeps ==
    ASSUME EngineInv, NEW e \in Engines, At(e, "copying"), NEW b, NEW stage \in {"copying", "copied"},
           mem' = [mem EXCEPT ![eng[e].file].image = Append(@, b)], Move(e, stage),
           UNCHANGED <<fds, loader, faults>>
    PROVE  EngineInv'
<1> DEFINE m == eng[e].file
           v == [mem[m] EXCEPT !.image = Append(@, b)]
<1>1. EngineOK(e) /\ eng[e].pc = "copying"
  BY DEF EngineInv, At
<1>2. m \in DOMAIN mem /\ ~mem[m].sealed
  BY <1>1 DEF EngineOK, OwnedBy, SealedBy, Owning
<1>3. DOMAIN v = {"image", "sealed"} /\ ~v.sealed
  BY <1>2 DEF EngineInv, Shaped
<1>4. mem' = [mem EXCEPT ![m] = v]
  OBVIOUS
<1> HIDE DEF v
<1>5. /\ IsSequence(mem') /\ DOMAIN mem' = DOMAIN mem /\ mem'[m] = v
      /\ \A k \in DOMAIN mem \ {m} : mem'[k] = mem[k]
      /\ \A k \in DOMAIN mem' : DOMAIN mem'[k] = {"image", "sealed"}
  BY <1>2, <1>3, <1>4, FileChanged
<1>6. Keeps(e, {"pc"}) /\ eng'[e].pc = stage
  BY <1>1 DEF Move, EngineInv, EngineOK, ShapedBy, Shaped, Keeps, Alone, NoEngine
<1>7. /\ eng'[e].fd = eng[e].fd /\ eng'[e].file = eng[e].file /\ eng'[e].handle = eng[e].handle
      /\ eng'[e].client = eng[e].client /\ eng'[e].calls = eng[e].calls /\ eng'[e].profiles = eng[e].profiles
  BY <1>6 DEF Keeps, NoEngine
<1>8. EngineOK(e)'
  <2>1. ShapedBy(e)' /\ OwnedBy(e)'
    BY <1>1, <1>5, <1>6, <1>7 DEF EngineOK, ShapedBy, OwnedBy, Keeps, Alone,
         Clients, Checked, Holding, Measured, Fixed, Owning, Stages
  <2>2. SealedBy(e)' /\ ProfiledBy(e)'
    BY <1>1, <1>3, <1>5, <1>6, <1>7 DEF EngineOK, SealedBy, ProfiledBy,
         Clients, Checked, Holding, Measured, Fixed, Owning
  <2>3. LoadedBy(e)'
    BY <1>1, <1>6, <1>7 DEF EngineOK, LoadedBy, Clients, Checked, Holding, Measured, Fixed, Owning
  <2> QED BY <2>1, <2>2, <2>3 DEF EngineOK
<1>9. Apart'
  BY <1>6, <1>7, StillApart DEF Keeps
<1>10. DOMAIN fds' = Fds
  BY DEF EngineInv, Shaped
<1> QED BY <1>2, <1>5, <1>6, <1>7, <1>8, <1>9, <1>10, MemMoves DEF Keeps

LEMMA SealKeeps ==
    ASSUME EngineInv, NEW e \in Engines, sealSnapshotSource(e)
    PROVE  EngineInv'
<1> DEFINE m == eng[e].file
           v == [mem[m] EXCEPT !.sealed = TRUE]
<1>1. EngineOK(e) /\ eng[e].pc = "copied" /\ UNCHANGED <<fds, loader, eng, faults>> /\ ~mem[m].sealed
  BY DEF EngineInv, sealSnapshotSource, At
<1>2. m \in DOMAIN mem
  BY <1>1 DEF EngineOK, OwnedBy, Owning
<1>3. DOMAIN v = {"image", "sealed"}
  BY <1>2 DEF EngineInv, Shaped
<1>4. mem' = [mem EXCEPT ![m] = v]
  BY DEF sealSnapshotSource
<1> HIDE DEF v
<1>5. /\ IsSequence(mem') /\ DOMAIN mem' = DOMAIN mem /\ mem'[m] = v
      /\ \A k \in DOMAIN mem \ {m} : mem'[k] = mem[k]
      /\ \A k \in DOMAIN mem' : DOMAIN mem'[k] = {"image", "sealed"}
  BY <1>2, <1>3, <1>4, FileChanged
<1>6. Alone(e) /\ DOMAIN fds' = Fds
  BY <1>1 DEF Alone, EngineInv, Shaped
<1>7. EngineOK(e)'
  <2>1. ShapedBy(e)' /\ OwnedBy(e)' /\ ProfiledBy(e)'
    BY <1>1, <1>5 DEF EngineOK, ShapedBy, OwnedBy, ProfiledBy
  <2>2. SealedBy(e)'
    BY <1>1 DEF EngineOK, SealedBy, Clients, Checked, Holding, Measured, Fixed, Owning
  <2>3. LoadedBy(e)'
    BY <1>1 DEF EngineOK, LoadedBy, Clients, Checked, Holding, Measured, Fixed, Owning
  <2> QED BY <2>1, <2>2, <2>3 DEF EngineOK
<1>8. Apart'
  BY <1>1, <1>6, StillApart
<1> QED BY <1>1, <1>2, <1>5, <1>6, <1>7, <1>8, MemMoves

LEMMA ScribbleKeeps ==
    ASSUME EngineInv, Scribble
    PROVE  EngineInv'
<1>1. UNCHANGED <<fds, loader, eng, faults>>
  BY DEF Scribble
<1>2. PICK m \in DOMAIN mem, b \in Blocks : ~mem[m].sealed /\ mem' = [mem EXCEPT ![m].image[1] = b]
  BY DEF Scribble
<1> DEFINE v == [mem[m] EXCEPT !.image[1] = b]
<1>3. DOMAIN v = {"image", "sealed"} /\ v.sealed = mem[m].sealed
  BY DEF EngineInv, Shaped
<1>4. mem' = [mem EXCEPT ![m] = v]
  BY <1>2
<1> HIDE DEF v
<1>5. /\ IsSequence(mem') /\ DOMAIN mem' = DOMAIN mem /\ mem'[m] = v
      /\ \A k \in DOMAIN mem \ {m} : mem'[k] = mem[k]
      /\ \A k \in DOMAIN mem' : DOMAIN mem'[k] = {"image", "sealed"}
  BY <1>3, <1>4, FileChanged
<1>6. \A k \in DOMAIN mem : (mem[k].sealed => mem'[k] = mem[k]) /\ mem'[k].sealed = mem[k].sealed
  BY <1>2, <1>3, <1>5
<1>7. Shaped' /\ Apart' /\ Loaded'
  BY <1>1, <1>5, <1>6 DEF EngineInv, Shaped, Apart, Loaded
<1>8. Counted'
  BY <1>1 DEF EngineInv, Counted, Held
<1>9. ASSUME NEW d \in Engines PROVE EngineOK(d)'
  BY <1>1, <1>5, <1>6, Undisturbed
<1> QED BY <1>7, <1>8, <1>9 DEF EngineInv

---------------------------------------------------------------------------
(* The steps on the loader. *)

(* r is l with one reference to m less. *)
ReleasedFrom(l, r, m) ==
    /\ DOMAIN r = DOMAIN l /\ \A k \in DOMAIN l \ {m} : r[k] = l[k]
    /\ DOMAIN r[m] = {"name", "refs", "bound"}
    /\ r[m].name = l[m].name /\ r[m].bound = l[m].bound /\ r[m].refs = l[m].refs - 1

LEMMA ReleaseSays ==
    ASSUME NEW l, NEW m \in DOMAIN l, DOMAIN l[m] = {"name", "refs", "bound"}
    PROVE  ReleasedFrom(l, Released(l, m), m)
  BY DEF Released, ReleasedFrom

(* References change by what e takes or gives back; no object is named or  *)
(* bound anew.                                                             *)
Delta(e, m) == (IF eng'[e].handle = m THEN 1 ELSE 0) - (IF eng[e].handle = m THEN 1 ELSE 0)
             + (IF eng'[e].client = m THEN 1 ELSE 0) - (IF eng[e].client = m THEN 1 ELSE 0)

Same(m) == /\ DOMAIN loader'[m] = {"name", "refs", "bound"}
           /\ loader'[m].name = loader[m].name /\ loader'[m].bound = loader[m].bound

(* Steps of e that give references back. *)
LEMMA Returns ==
    ASSUME EngineInv, NEW e \in Engines, Alone(e), UNCHANGED mem,
           DOMAIN fds' = Fds, \A d \in Engines \ {e} : eng[d].pc \in Owning => fds'[eng[d].fd] = fds[eng[d].fd],
           faults' \in Nat, DOMAIN loader' = DOMAIN loader,
           \A m \in DOMAIN loader : /\ Same(m) /\ loader'[m].refs \in Int
                                    /\ loader'[m].refs <= loader[m].refs
                                    /\ loader'[m].refs - loader[m].refs >= Delta(e, m)
                                    /\ loader'[m].refs - loader[m].refs <= Delta(e, m) + (faults' - faults),
           Apart', EngineOK(e)'
    PROVE  EngineInv'
<1>1. Shaped'
  BY DEF EngineInv, Shaped, Alone
<1>2. \A m \in DOMAIN loader : /\ loader[m].refs \in Nat
                               /\ loader'[m].refs > 0 => loader[m].refs > 0
  BY RefsHeld
<1>3. Loaded'
  BY <1>2 DEF EngineInv, Loaded, Same
<1>4. Counted'
  <2>1. ASSUME NEW m \in DOMAIN loader PROVE loader'[m].refs \in Held(m)'..(Held(m)' + faults')
    <3>1. Held(m)' = Held(m) + Delta(e, m) /\ Held(m) \in Nat /\ Delta(e, m) \in Int
      BY HeldChange DEF Delta, Alone
    <3>2. loader[m].refs \in Nat /\ loader[m].refs >= Held(m) /\ loader[m].refs <= Held(m) + faults /\ faults \in Nat
      BY RefsHeld
    <3> QED BY <3>1, <3>2
  <2> QED BY <2>1 DEF Counted
<1>5. ASSUME NEW d \in Engines \ {e} PROVE EngineOK(d)'
  BY <1>2, Undisturbed DEF Alone, Same
<1> QED BY <1>1, <1>3, <1>4, <1>5 DEF EngineInv

(* Engines hold different descriptors. *)
LEMMA FdsApart ==
    ASSUME EngineInv, NEW e \in Engines, NEW d \in Engines \ {e}, eng[d].pc \in Owning
    PROVE  eng[d].fd \in Fds /\ eng[d].fd # eng[e].fd
<1>1. EngineOK(d) /\ eng[d].fd \in Fds /\ eng[d].file \in DOMAIN mem /\ fds[eng[d].fd] = eng[d].file
  BY DEF EngineInv, EngineOK, OwnedBy
<1>2. eng[d].file # 0
  BY <1>1 DEF EngineInv, Shaped, IsSequence
<1>3. CASE eng[d].fd = eng[e].fd
  <2>1. EngineOK(e)
    BY DEF EngineInv
  <2>2. eng[e].pc \in Owning
    BY <1>1, <1>3, <2>1, FdsAssumption DEF EngineOK, OwnedBy
  <2>3. eng[d].file = eng[e].file
    BY <1>1, <1>3, <2>1, <2>2 DEF EngineOK, OwnedBy
  <2> QED BY <1>2, <2>3 DEF EngineInv, Apart
<1> QED BY <1>1, <1>3

LEMMA AbandonKeeps ==
    ASSUME EngineInv, NEW e \in Engines, eng[e].pc \in Owning \cup {"opened"}, Abandon(e),
           DOMAIN loader' = DOMAIN loader,
           \A m \in DOMAIN loader :
              Same(m) /\ loader'[m].refs = loader[m].refs - (IF eng[e].handle = m THEN 1 ELSE 0)
                                                         - (IF eng[e].client = m THEN 1 ELSE 0)
    PROVE  EngineInv'
<1>1. EngineOK(e) /\ UNCHANGED <<mem, faults>> /\ DOMAIN fds = Fds
  BY DEF EngineInv, Abandon, Shaped
<1>2. /\ Alone(e) /\ eng'[e] = [NoEngine EXCEPT !.pc = "failed"]
  BY DEF Abandon, EngineInv, Shaped, Alone
<1>3. /\ DOMAIN eng'[e] = DOMAIN NoEngine /\ eng'[e].pc = "failed" /\ eng'[e].fd = 0 /\ eng'[e].file = 0
      /\ eng'[e].handle = 0 /\ eng'[e].client = 0 /\ eng'[e].calls = 0
  BY <1>2 DEF NoEngine
<1>4. fds' = [n \in Fds |-> IF n = eng[e].fd THEN 0 ELSE fds[n]]
  BY DEF Abandon
<1>5. EngineOK(e)'
  BY <1>3 DEF EngineOK, ShapedBy, OwnedBy, SealedBy, LoadedBy, ProfiledBy,
       Clients, Checked, Holding, Measured, Fixed, Owning, Stages
<1>7. Apart'
  <2>1. \A d, c \in Engines : eng'[d].file = eng'[c].file /\ eng'[d].file # 0 => d = c
    <3>1. \A d \in Engines \ {e} : eng'[d] = eng[d]
      BY <1>2 DEF Alone
    <3>2. \A d, c \in Engines : eng[d].file = eng[c].file /\ eng[d].file # 0 => d = c
      BY DEF EngineInv, Apart
    <3>3. eng'[e].file = 0
      BY <1>3
    <3> QED BY <3>1, <3>2, <3>3
  <2>2. \A n \in Fds : fds'[n] # 0 => \E d \in Engines : eng'[d].fd = n
    <3> TAKE n \in Fds
    <3> HAVE fds'[n] # 0
    <3>1. n # eng[e].fd /\ fds[n] # 0
      BY <1>4
    <3>2. PICK d \in Engines : eng[d].fd = n
      BY <3>1 DEF EngineInv, Apart
    <3> QED BY <1>2, <3>1, <3>2 DEF Alone
  <2> QED BY <2>1, <2>2 DEF Apart
<1>8. DOMAIN fds' = Fds /\ \A d \in Engines \ {e} : eng[d].pc \in Owning => fds'[eng[d].fd] = fds[eng[d].fd]
  BY <1>4, FdsApart
<1>9. 0 \notin DOMAIN loader
  BY DEF EngineInv, Loaded, Shaped, IsSequence
<1>10. ASSUME NEW m \in DOMAIN loader
       PROVE  /\ loader'[m].refs \in Int /\ loader'[m].refs <= loader[m].refs
              /\ loader'[m].refs - loader[m].refs = Delta(e, m)
  <2>1. loader[m].refs \in Nat /\ m # 0
    BY <1>9, RefsHeld
  <2> QED BY <1>3, <2>1 DEF Delta
<1>11. faults' \in Nat /\ faults' - faults = 0
  BY <1>1 DEF EngineInv, Shaped
<1>12. ASSUME NEW m \in DOMAIN loader
       PROVE  /\ Same(m) /\ loader'[m].refs \in Int
              /\ loader'[m].refs <= loader[m].refs
              /\ loader'[m].refs - loader[m].refs >= Delta(e, m)
              /\ loader'[m].refs - loader[m].refs <= Delta(e, m) + (faults' - faults)
  <2>1. loader[m].refs \in Nat
    BY RefsHeld
  <2> QED BY <1>10, <1>11, <2>1
<1> QED BY <1>1, <1>2, <1>5, <1>7, <1>8, <1>11, <1>12, Returns

(* The failures before the library is loaded, and after. *)
LEMMA EarlyAbandon ==
    ASSUME EngineInv, NEW e \in Engines, eng[e].pc \in {"opened", "copying", "copied", "sealed", "hashed"},
           Abandon(e), UNCHANGED loader
    PROVE  EngineInv'
<1>1. eng[e].handle = 0 /\ eng[e].client = 0
  BY DEF EngineInv, EngineOK, LoadedBy, Clients, Checked, Holding
<1>2. ASSUME NEW m \in DOMAIN loader
      PROVE  Same(m) /\ loader'[m].refs = loader[m].refs - (IF eng[e].handle = m THEN 1 ELSE 0)
                                                         - (IF eng[e].client = m THEN 1 ELSE 0)
  <2>1. m # 0 /\ DOMAIN loader[m] = {"name", "refs", "bound"}
    BY DEF EngineInv, Loaded, Shaped, IsSequence
  <2>2. loader[m].refs \in Nat
    BY RefsHeld
  <2> QED BY <1>1, <2>1, <2>2 DEF Same
<1>3. eng[e].pc \in Owning \cup {"opened"}
  BY DEF Clients, Checked, Holding, Measured, Fixed, Owning
<1> QED BY <1>2, <1>3, AbandonKeeps

LEMMA LateAbandon ==
    ASSUME EngineInv, NEW e \in Engines, eng[e].pc \in {"loaded", "verified", "client"},
           Abandon(e), DropHandles(e)
    PROVE  EngineInv'
<1> DEFINE h == eng[e].handle
           c == eng[e].client
           l == Released(loader, h)
<1>1. EngineOK(e)
  BY DEF EngineInv
<1>2. h \in DOMAIN loader /\ (c # 0 => c = h)
  BY <1>1 DEF EngineOK, LoadedBy, Clients, Checked, Holding
<1>3. \A m \in DOMAIN loader : m # 0 /\ DOMAIN loader[m] = {"name", "refs", "bound"}
  BY DEF EngineInv, Loaded, Shaped, IsSequence
<1>4. \A m \in DOMAIN loader : loader[m].refs \in Nat
  BY RefsHeld
<1>5. ReleasedFrom(loader, l, h)
  BY <1>2, <1>3, ReleaseSays
<1>6. loader' = IF c = 0 THEN l ELSE Released(l, c)
  BY DEF DropHandles
<1> HIDE DEF l, h, c
<1>7. CASE c = 0
  <2>1. ASSUME NEW m \in DOMAIN loader
        PROVE  Same(m) /\ loader'[m].refs = loader[m].refs - (IF h = m THEN 1 ELSE 0) - (IF c = m THEN 1 ELSE 0)
    BY <1>3, <1>4, <1>5, <1>6, <1>7 DEF Same, ReleasedFrom
  <2>2. eng[e].pc \in Owning \cup {"opened"} /\ DOMAIN loader' = DOMAIN loader
    BY <1>5, <1>6, <1>7 DEF ReleasedFrom, Clients, Checked, Holding, Measured, Fixed, Owning
  <2> QED BY <2>1, <2>2, AbandonKeeps DEF h, c
<1>8. CASE c # 0
  <2>1. loader' = Released(l, h) /\ h \in DOMAIN l /\ c = h /\ DOMAIN l[h] = {"name", "refs", "bound"}
    BY <1>2, <1>5, <1>6, <1>8 DEF ReleasedFrom
  <2>2. ReleasedFrom(l, loader', h)
    BY <2>1, ReleaseSays
  <2>3. ASSUME NEW m \in DOMAIN loader
        PROVE  Same(m) /\ loader'[m].refs = loader[m].refs - (IF h = m THEN 1 ELSE 0) - (IF c = m THEN 1 ELSE 0)
    BY <1>3, <1>4, <1>5, <2>1, <2>2 DEF Same, ReleasedFrom
  <2>4. eng[e].pc \in Owning \cup {"opened"} /\ DOMAIN loader' = DOMAIN loader
    BY <1>5, <2>2 DEF ReleasedFrom, Clients, Checked, Holding, Measured, Fixed, Owning
  <2> QED BY <2>3, <2>4, AbandonKeeps DEF h, c
<1> QED BY <1>7, <1>8

(* What opening the engine's own name gives. *)
LEMMA Opened ==
    ASSUME EngineInv, NEW e \in Engines, eng[e].pc \in Owning, NEW m, m = Dlopened(eng[e].fd)
    PROVE  /\ m \in DOMAIN mem
           /\ \/ m \in DOMAIN loader /\ loader[m].refs > 0 /\ loader[m].name = eng[e].fd
              \/ /\ m = eng[e].file /\ ~(m \in DOMAIN loader /\ loader[m].refs > 0)
                 /\ \A k \in DOMAIN loader : ~(loader[k].name = eng[e].fd /\ loader[k].refs > 0)
           /\ eng[e].file \in DOMAIN loader /\ loader[eng[e].file].refs > 0 => m = eng[e].file
<1> DEFINE named == {k \in DOMAIN loader : loader[k].name = eng[e].fd /\ loader[k].refs > 0}
<1>1. EngineOK(e) /\ DOMAIN loader \subseteq DOMAIN mem
  BY DEF EngineInv, Loaded
<1>2. eng[e].file \in DOMAIN mem /\ fds[eng[e].fd] = eng[e].file
  BY <1>1 DEF EngineOK, OwnedBy
<1>3. eng[e].file \in DOMAIN loader /\ loader[eng[e].file].refs > 0 => eng[e].file \in named
  BY <1>1 DEF EngineOK, LoadedBy
<1>4. IF named # {} THEN m \in named ELSE m = fds[eng[e].fd]
  BY DEF Dlopened
<1>5. \A j, k \in named : j = k
  BY DEF EngineInv, Loaded
<1>6. CASE named # {}
  <2>1. m \in named
    BY <1>4, <1>6
  <2> QED BY <1>1, <1>3, <1>5, <2>1
<1>7. CASE named = {}
  <2>1. m = eng[e].file /\ \A k \in DOMAIN loader : k \notin named
    BY <1>2, <1>4, <1>7
  <2>2. ~(m \in DOMAIN loader /\ loader[m].refs > 0)
    BY <1>3, <1>7, <2>1
  <2> QED BY <1>2, <2>1, <2>2
<1> QED BY <1>6, <1>7

LEMMA WithRefSays ==
    ASSUME EngineInv, NEW m \in DOMAIN mem, NEW fd, loader' = WithRef(m, fd)
    PROVE  /\ DOMAIN loader' = DOMAIN loader \cup {m} /\ \A k \in DOMAIN loader \ {m} : loader'[k] = loader[k]
           /\ DOMAIN loader'[m] = {"name", "refs", "bound"}
           /\ IF m \in DOMAIN loader /\ loader[m].refs > 0
              THEN Same(m) /\ loader'[m].refs = loader[m].refs + 1
              ELSE /\ loader'[m].name = fd /\ loader'[m].refs = 1
                   /\ loader'[m].bound \subseteq {s.name : s \in Elf[mem[m].image].undefined}
<1>1. CASE m \in DOMAIN loader /\ loader[m].refs > 0
  <2>1. DOMAIN loader[m] = {"name", "refs", "bound"}
    BY <1>1 DEF EngineInv, Loaded
  <2>2. loader' = [loader EXCEPT ![m].refs = @ + 1]
    BY <1>1 DEF WithRef
  <2> QED BY <1>1, <2>1, <2>2 DEF Same
<1>2. CASE ~(m \in DOMAIN loader /\ loader[m].refs > 0)
  <2> DEFINE new == [name |-> fd, refs |-> 1,
                     bound |-> {s.name : s \in Elf[mem[m].image].undefined} \cap globals]
  <2>1. loader' = [k \in DOMAIN loader \cup {m} |-> IF k # m THEN loader[k] ELSE new]
    BY <1>2 DEF WithRef
  <2>2. /\ DOMAIN new = {"name", "refs", "bound"} /\ new.name = fd /\ new.refs = 1
        /\ new.bound \subseteq {s.name : s \in Elf[mem[m].image].undefined}
    OBVIOUS
  <2> HIDE DEF new
  <2>3. /\ DOMAIN loader' = DOMAIN loader \cup {m} /\ loader'[m] = new
        /\ \A k \in DOMAIN loader \ {m} : loader'[k] = loader[k]
    BY <2>1
  <2> QED BY <1>2, <2>2, <2>3
<1> QED BY <1>1, <1>2

(* An object nobody has loaded is held by nobody. *)
LEMMA Unheld ==
    ASSUME EngineInv, NEW m \in DOMAIN mem, ~(m \in DOMAIN loader /\ loader[m].refs > 0)
    PROVE  Held(m) = 0
<1>1. CASE m \in DOMAIN loader
  BY <1>1, RefsHeld
<1>2. CASE m \notin DOMAIN loader
  <2>1. m # 0
    BY DEF EngineInv, Shaped, IsSequence
  <2>2. \A e \in Engines : eng[e].handle # m /\ eng[e].client # m
    <3> TAKE e \in Engines
    <3>1. EngineOK(e)
      BY DEF EngineInv
    <3> QED BY <1>2, <2>1, <3>1 DEF EngineOK, LoadedBy, Clients, Checked, Holding
  <2>3. {e \in Engines : eng[e].handle = m} = {} /\ {e \in Engines : eng[e].client = m} = {}
    BY <2>2
  <2> QED BY <2>3, FS_EmptySet DEF Held
<1> QED BY <1>1, <1>2

(* A step that opens the engine's name and keeps what it got. *)
LEMMA Takes ==
    ASSUME EngineInv, NEW e \in Engines, Alone(e), UNCHANGED <<fds, mem, faults>>, eng[e].pc \in Fixed,
           NEW m, m = Dlopened(eng[e].fd), loader' = WithRef(m, eng[e].fd),
           eng'[e].fd = eng[e].fd, eng'[e].file = eng[e].file,
           Delta(e, m) = 1, \A k \in DOMAIN loader \ {m} : Delta(e, k) = 0,
           EngineOK(e)'
    PROVE  EngineInv'
<1>1. eng[e].pc \in Owning /\ EngineOK(e) /\ eng[e].file \in DOMAIN mem /\ mem[eng[e].file].sealed
  BY DEF EngineInv, EngineOK, OwnedBy, SealedBy, Owning
<1> DEFINE live(k) == k \in DOMAIN loader /\ loader[k].refs > 0
<1>2. /\ m \in DOMAIN mem
      /\ \/ live(m) /\ loader[m].name = eng[e].fd
         \/ /\ m = eng[e].file /\ ~live(m)
            /\ \A k \in DOMAIN loader : ~(loader[k].name = eng[e].fd /\ loader[k].refs > 0)
  BY <1>1, Opened
<1>3. /\ DOMAIN loader' = DOMAIN loader \cup {m} /\ \A k \in DOMAIN loader \ {m} : loader'[k] = loader[k]
      /\ DOMAIN loader'[m] = {"name", "refs", "bound"}
      /\ IF live(m)
         THEN Same(m) /\ loader'[m].refs = loader[m].refs + 1
         ELSE /\ loader'[m].name = eng[e].fd /\ loader'[m].refs = 1
              /\ loader'[m].bound \subseteq {s.name : s \in Elf[mem[m].image].undefined}
  BY <1>2, WithRefSays
<1>4. Shaped'
  BY DEF EngineInv, Shaped, Alone
<1>5. Apart'
  BY StillApart
<1>6. Loaded'
  <2>1. DOMAIN loader' \subseteq DOMAIN mem'
    BY <1>2, <1>3 DEF EngineInv, Loaded
  <2>2. ASSUME NEW k \in DOMAIN loader'
        PROVE  /\ DOMAIN loader'[k] = {"name", "refs", "bound"} /\ mem'[k].sealed
               /\ loader'[k].bound \subseteq {s.name : s \in Elf[mem'[k].image].undefined}
    <3>1. CASE k # m
      BY <1>3, <2>2, <3>1 DEF EngineInv, Loaded
    <3>2. CASE k = m
      <4>1. mem[m].sealed
        BY <1>1, <1>2 DEF EngineInv, Loaded
      <4>2. loader'[m].bound \subseteq {s.name : s \in Elf[mem[m].image].undefined}
        BY <1>3 DEF EngineInv, Loaded, Same
      <4> QED BY <1>3, <3>2, <4>1, <4>2
    <3> QED BY <3>1, <3>2
  <2>3. loader'[m].name = eng[e].fd
    BY <1>2, <1>3 DEF Same
  <2>4. ASSUME NEW j \in DOMAIN loader', NEW k \in DOMAIN loader',
               loader'[j].refs > 0, loader'[k].refs > 0, loader'[j].name = loader'[k].name
        PROVE  j = k
    <3>1. \A i \in DOMAIN loader \ {m} : ~(loader[i].name = eng[e].fd /\ loader[i].refs > 0)
      BY <1>2 DEF EngineInv, Loaded
    <3>2. CASE j # m /\ k # m
      BY <1>3, <2>4, <3>2 DEF EngineInv, Loaded
    <3>3. CASE j = m \/ k = m
      BY <1>3, <2>3, <2>4, <3>1, <3>3
    <3> QED BY <3>2, <3>3
  <2> QED BY <2>1, <2>2, <2>4 DEF Loaded
<1>7. Counted'
  <2>1. ASSUME NEW k PROVE Held(k)' = Held(k) + Delta(e, k) /\ Held(k) \in Nat /\ faults \in Nat
    BY HeldChange DEF Delta, Alone, EngineInv, Shaped
  <2>2. ASSUME NEW k \in DOMAIN loader'
        PROVE  loader'[k].refs \in Held(k)'..(Held(k)' + faults')
    <3>1. CASE k # m
      <4>1. loader'[k] = loader[k] /\ Held(k)' = Held(k) /\ k \in DOMAIN loader
        BY <1>3, <2>1, <2>2, <3>1
      <4> QED BY <4>1 DEF EngineInv, Counted
    <3>2. CASE k = m /\ live(m)
      <4>1. /\ loader[m].refs \in Nat /\ loader[m].refs >= Held(m) /\ loader[m].refs <= Held(m) + faults
        BY <3>2, RefsHeld
      <4>2. loader'[m].refs = loader[m].refs + 1 /\ Held(m)' = Held(m) + 1
        BY <1>3, <2>1, <3>2
      <4> QED BY <2>1, <3>2, <4>1, <4>2
    <3>3. CASE k = m /\ ~live(m)
      <4>1. Held(m) = 0
        BY <1>2, <3>3, Unheld
      <4>2. loader'[m].refs = 1 /\ Held(m)' = 1
        BY <1>3, <2>1, <3>3, <4>1
      <4> QED BY <2>1, <3>3, <4>2
    <3> QED BY <3>1, <3>2, <3>3
  <2> QED BY <2>2 DEF Counted
<1>8. ASSUME NEW d \in Engines \ {e} PROVE EngineOK(d)'
  <2>1. eng'[d] = eng[d]
    BY DEF Alone
  <2>2. ASSUME NEW k \in DOMAIN loader, loader[k].refs > 0
        PROVE  loader'[k].name = loader[k].name /\ loader'[k].bound = loader[k].bound
    BY <1>3, <2>2 DEF Same
  <2>3. ASSUME eng[d].file \in DOMAIN loader', loader'[eng[d].file].refs > 0
        PROVE  eng[d].file \in DOMAIN loader /\ loader[eng[d].file].refs > 0
    <3>1. CASE eng[d].file = m /\ ~live(m)
      <4>1. eng[d].file = eng[e].file /\ eng[d].file # 0
        BY <1>1, <1>2, <3>1 DEF EngineInv, Shaped, IsSequence
      <4> QED BY <4>1 DEF EngineInv, Apart
    <3>2. CASE eng[d].file = m /\ live(m)
      BY <3>2
    <3>3. CASE eng[d].file # m
      BY <1>3, <2>3, <3>3
    <3> QED BY <3>1, <3>2, <3>3
  <2> QED BY <1>3, <2>1, <2>2, <2>3, Undisturbed
<1> QED BY <1>4, <1>5, <1>6, <1>7, <1>8 DEF EngineInv

(* What LoadedBy asks of the engine's own file after the opening. *)
LEMMA StillNamed ==
    ASSUME EngineInv, NEW e \in Engines, eng[e].pc \in Owning, NEW m, m = Dlopened(eng[e].fd),
           loader' = WithRef(m, eng[e].fd)
    PROVE  /\ m \in DOMAIN loader' /\ m # 0 /\ m \in DOMAIN mem
           /\ eng[e].file \in DOMAIN loader' /\ loader'[eng[e].file].refs > 0
                 => loader'[eng[e].file].name = eng[e].fd
           /\ \A k \in DOMAIN loader : loader[k].refs > 0 => loader'[k].bound = loader[k].bound
<1>1. /\ m \in DOMAIN mem
      /\ \/ m \in DOMAIN loader /\ loader[m].refs > 0 /\ loader[m].name = eng[e].fd
         \/ m = eng[e].file /\ ~(m \in DOMAIN loader /\ loader[m].refs > 0)
  BY Opened
<1>2. /\ DOMAIN loader' = DOMAIN loader \cup {m} /\ \A k \in DOMAIN loader \ {m} : loader'[k] = loader[k]
      /\ IF m \in DOMAIN loader /\ loader[m].refs > 0 THEN Same(m) ELSE loader'[m].name = eng[e].fd
  BY <1>1, WithRefSays
<1>3. m # 0
  BY <1>1 DEF EngineInv, Shaped, IsSequence
<1>4. EngineOK(e)
  BY DEF EngineInv
<1>5. loader'[m].name = eng[e].fd
  BY <1>1, <1>2 DEF Same
<1>6. CASE eng[e].file = m
  BY <1>1, <1>2, <1>3, <1>5, <1>6 DEF Same
<1>7. CASE eng[e].file # m
  BY <1>1, <1>2, <1>3, <1>4, <1>7 DEF Same, EngineOK, LoadedBy
<1> QED BY <1>6, <1>7

LEMMA DlopenKeeps ==
    ASSUME EngineInv, NEW e \in Engines, Dlopen(e)
    PROVE  EngineInv'
<1> DEFINE m == Dlopened(eng[e].fd)
<1>1. EngineOK(e) /\ eng[e].pc = "hashed" /\ UNCHANGED <<fds, mem, faults>> /\ loader' = WithRef(m, eng[e].fd)
  BY DEF EngineInv, Dlopen, At
<1>2. Keeps(e, {"pc", "handle"}) /\ eng'[e].pc = "loaded" /\ eng'[e].handle = m
  BY <1>1 DEF Dlopen, EngineInv, EngineOK, ShapedBy, Shaped, Keeps, Alone, NoEngine
<1> HIDE DEF m
<1>3. /\ eng'[e].fd = eng[e].fd /\ eng'[e].file = eng[e].file /\ eng'[e].digest = eng[e].digest
      /\ eng'[e].client = eng[e].client /\ eng'[e].calls = eng[e].calls /\ eng'[e].profiles = eng[e].profiles
  BY <1>2 DEF Keeps, NoEngine
<1>4. eng[e].pc \in Fixed /\ eng[e].pc \in Owning
  BY <1>1 DEF Measured, Fixed, Owning
<1>5. /\ m \in DOMAIN loader' /\ m # 0
      /\ eng[e].file \in DOMAIN loader' /\ loader'[eng[e].file].refs > 0
            => loader'[eng[e].file].name = eng[e].fd
  BY <1>1, <1>4, StillNamed DEF m
<1>6. EngineOK(e)'
  <2>1. ShapedBy(e)' /\ OwnedBy(e)'
    BY <1>1, <1>2, <1>3 DEF EngineOK, ShapedBy, OwnedBy, Keeps,
       Clients, Checked, Holding, Measured, Fixed, Owning, Stages
  <2>2. SealedBy(e)' /\ ProfiledBy(e)'
    BY <1>1, <1>2, <1>3 DEF EngineOK, SealedBy, ProfiledBy,
       Clients, Checked, Holding, Measured, Fixed
  <2>3. LoadedBy(e)'
    BY <1>1, <1>2, <1>3, <1>5 DEF EngineOK, LoadedBy, Clients, Checked, Holding
  <2> QED BY <2>1, <2>2, <2>3 DEF EngineOK
<1>7. Delta(e, m) = 1 /\ \A k \in DOMAIN loader \ {m} : Delta(e, k) = 0
  <2>1. eng[e].handle = 0 /\ eng[e].client = 0
    BY <1>1 DEF EngineOK, LoadedBy, Clients, Checked, Holding
  <2>2. 0 \notin DOMAIN loader
    BY DEF EngineInv, Loaded, Shaped, IsSequence
  <2> QED BY <1>2, <1>3, <1>5, <2>1, <2>2 DEF Delta
<1> QED BY <1>1, <1>2, <1>3, <1>4, <1>6, <1>7, Takes DEF Keeps, m

LEMMA ClientKeeps ==
    ASSUME EngineInv, NEW e \in Engines, At(e, "verified"), NEW m, m = Dlopened(eng[e].fd),
           loader' = WithRef(m, eng[e].fd), eng' = [eng EXCEPT ![e].pc = "client", ![e].client = m],
           UNCHANGED <<fds, mem, faults>>
    PROVE  EngineInv'
<1>1. EngineOK(e) /\ eng[e].pc = "verified"
  BY DEF EngineInv, At
<1>2. Keeps(e, {"pc", "client"}) /\ eng'[e].pc = "client" /\ eng'[e].client = m
  BY <1>1 DEF EngineInv, EngineOK, ShapedBy, Shaped, Keeps, Alone, NoEngine
<1>3. /\ eng'[e].fd = eng[e].fd /\ eng'[e].file = eng[e].file /\ eng'[e].digest = eng[e].digest
      /\ eng'[e].handle = eng[e].handle /\ eng'[e].calls = eng[e].calls /\ eng'[e].profiles = eng[e].profiles
  BY <1>2 DEF Keeps, NoEngine
<1>4. eng[e].pc \in Fixed /\ eng[e].pc \in Owning
  BY <1>1 DEF Checked, Holding, Measured, Fixed, Owning
<1>5. /\ m \in DOMAIN loader' /\ m # 0
      /\ eng[e].file \in DOMAIN loader' /\ loader'[eng[e].file].refs > 0
            => loader'[eng[e].file].name = eng[e].fd
      /\ \A k \in DOMAIN loader : loader[k].refs > 0 => loader'[k].bound = loader[k].bound
  BY <1>4, StillNamed
<1>6. /\ eng[e].handle \in DOMAIN loader /\ eng[e].handle = eng[e].file
      /\ loader[eng[e].handle].bound = {} /\ loader[eng[e].handle].refs > 0
  BY <1>1, RefsHeld DEF EngineOK, LoadedBy, Checked, Holding
<1>7. m = eng[e].file
  <2>1. eng[e].file \in DOMAIN loader /\ loader[eng[e].file].refs > 0
    BY <1>6
  <2>2. eng[e].file \in DOMAIN loader /\ loader[eng[e].file].refs > 0 => m = eng[e].file
    BY <1>4, Opened
  <2> QED BY <2>1, <2>2
<1>8. EngineOK(e)'
  <2>1. ShapedBy(e)' /\ OwnedBy(e)'
    BY <1>1, <1>2, <1>3 DEF EngineOK, ShapedBy, OwnedBy, Keeps,
       Clients, Checked, Holding, Measured, Fixed, Owning, Stages
  <2>2. SealedBy(e)' /\ ProfiledBy(e)'
    BY <1>1, <1>2, <1>3 DEF EngineOK, SealedBy, ProfiledBy,
       Clients, Checked, Holding, Measured, Fixed
  <2>3. LoadedBy(e)'
    BY <1>1, <1>2, <1>3, <1>5, <1>6, <1>7 DEF EngineOK, LoadedBy, Clients, Checked, Holding
  <2> QED BY <2>1, <2>2, <2>3 DEF EngineOK
<1>9. Delta(e, m) = 1 /\ \A k \in DOMAIN loader \ {m} : Delta(e, k) = 0
  <2>1. eng[e].client = 0
    BY <1>1 DEF EngineOK, LoadedBy, Clients
  <2>2. 0 \notin DOMAIN loader
    BY DEF EngineInv, Loaded, Shaped, IsSequence
  <2>3. eng'[e].handle = eng[e].handle /\ eng'[e].client = m /\ m # 0
    BY <1>2, <1>3, <1>5
  <2>4. ASSUME NEW k PROVE Delta(e, k) = (IF m = k THEN 1 ELSE 0) - (IF eng[e].client = k THEN 1 ELSE 0)
    BY <2>3 DEF Delta
  <2> QED BY <2>1, <2>2, <2>3, <2>4
<1> QED BY <1>2, <1>3, <1>4, <1>8, <1>9, Takes DEF Keeps

(* The two releases of a Close, each of which may fail. *)
LEMMA ReleaseOrFault ==
    ASSUME EngineInv, NEW m \in DOMAIN loader, MayRelease(m), loader[m].refs > 0
    PROVE  /\ DOMAIN loader' = DOMAIN loader /\ faults' \in Nat
           /\ \A k \in DOMAIN loader : Same(k) /\ loader'[k].refs \in Int /\ loader'[k].refs <= loader[k].refs
           /\ \A k \in DOMAIN loader \ {m} : loader'[k].refs = loader[k].refs
           /\ \/ loader'[m].refs = loader[m].refs - 1 /\ faults' = faults
              \/ loader'[m].refs = loader[m].refs /\ faults' = faults + 1
<1>1. \A k \in DOMAIN loader : loader[k].refs \in Nat /\ DOMAIN loader[k] = {"name", "refs", "bound"}
  BY RefsHeld DEF EngineInv, Loaded
<1>2. faults \in Nat
  BY DEF EngineInv, Shaped
<1>3. CASE loader' = Released(loader, m) /\ faults' = faults
  <2>1. ReleasedFrom(loader, loader', m)
    BY <1>1, <1>3, ReleaseSays
  <2>2. /\ DOMAIN loader' = DOMAIN loader /\ \A k \in DOMAIN loader \ {m} : loader'[k] = loader[k]
        /\ Same(m) /\ loader'[m].refs = loader[m].refs - 1
    BY <2>1 DEF ReleasedFrom, Same
  <2>3. \A k \in DOMAIN loader : Same(k) /\ loader'[k].refs \in Int /\ loader'[k].refs <= loader[k].refs
    BY <1>1, <2>2 DEF Same
  <2> QED BY <1>2, <1>3, <2>2, <2>3
<1>4. CASE faults' = faults + 1 /\ loader' = loader
  BY <1>1, <1>2, <1>4 DEF Same
<1> QED BY <1>3, <1>4 DEF MayRelease

LEMMA CloseClientKeeps ==
    ASSUME EngineInv, NEW e \in Engines, CloseClient(e)
    PROVE  EngineInv'
<1> DEFINE m == eng[e].client
<1>1. EngineOK(e) /\ eng[e].pc = "closing" /\ eng[e].calls = 0 /\ UNCHANGED <<fds, mem>> /\ MayRelease(m)
  BY DEF EngineInv, CloseClient, At
<1>2. Keeps(e, {"pc", "client"}) /\ eng'[e].pc = "quiet" /\ eng'[e].client = 0
  BY <1>1 DEF CloseClient, EngineInv, EngineOK, ShapedBy, Shaped, Keeps, Alone, NoEngine
<1>3. m = eng[e].file /\ m = eng[e].handle /\ m \in DOMAIN loader /\ loader[m].refs > 0 /\ loader[m].bound = {}
  BY <1>1, RefsHeld DEF EngineOK, LoadedBy, Clients, Checked, Holding
<1> HIDE DEF m
<1>4. /\ eng'[e].fd = eng[e].fd /\ eng'[e].file = eng[e].file /\ eng'[e].digest = eng[e].digest
      /\ eng'[e].handle = m /\ eng'[e].calls = eng[e].calls /\ eng'[e].profiles = eng[e].profiles
  BY <1>2, <1>3 DEF Keeps, NoEngine
<1>5. /\ DOMAIN loader' = DOMAIN loader /\ faults' \in Nat
      /\ \A k \in DOMAIN loader : Same(k) /\ loader'[k].refs \in Int /\ loader'[k].refs <= loader[k].refs
      /\ \A k \in DOMAIN loader \ {m} : loader'[k].refs = loader[k].refs
      /\ \/ loader'[m].refs = loader[m].refs - 1 /\ faults' = faults
         \/ loader'[m].refs = loader[m].refs /\ faults' = faults + 1
  BY <1>1, <1>3, ReleaseOrFault
<1>6. \A k \in DOMAIN loader : loader[k].refs \in Nat
  BY RefsHeld
<1>7. EngineOK(e)'
  <2>1. ShapedBy(e)' /\ OwnedBy(e)'
    BY <1>1, <1>2, <1>4 DEF EngineOK, ShapedBy, OwnedBy, Keeps,
       Clients, Checked, Holding, Measured, Fixed, Owning, Stages
  <2>2. SealedBy(e)' /\ ProfiledBy(e)'
    BY <1>1, <1>2, <1>4 DEF EngineOK, SealedBy, ProfiledBy,
       Clients, Checked, Holding, Measured, Fixed
  <2>3. Same(m) /\ loader'[m].name = loader[m].name /\ loader'[m].bound = {} /\ (loader'[m].refs > 0 => loader[m].refs > 0)
    BY <1>3, <1>5 DEF Same
  <2>4. eng[e].pc \in Owning /\ eng[e].pc \in Clients
    BY <1>1 DEF Clients, Checked, Holding, Measured, Fixed, Owning
  <2>5. loader[m].name = eng[e].fd
    BY <1>1, <1>3, <2>4 DEF EngineOK, LoadedBy
  <2>6. LoadedBy(e)'
    <3>1. eng'[e].handle = m /\ eng'[e].file = m /\ m \in DOMAIN loader' /\ eng'[e].calls = 0
      BY <1>1, <1>3, <1>4, <1>5
    <3>2. loader'[m].bound = {} /\ loader'[m].name = eng'[e].fd
      BY <1>4, <2>3, <2>5
    <3> QED BY <1>2, <3>1, <3>2 DEF LoadedBy, Clients, Checked, Holding
  <2> QED BY <2>1, <2>2, <2>6 DEF EngineOK
<1>8. m # 0 /\ 0 \notin DOMAIN loader
  BY <1>3 DEF EngineInv, Loaded, Shaped, IsSequence
<1>9. \A k \in DOMAIN loader : Delta(e, k) = IF k = m THEN -1 ELSE 0
  BY <1>2, <1>3, <1>4, <1>8 DEF Delta, m
<1>10. ASSUME NEW k \in DOMAIN loader
       PROVE  /\ loader'[k].refs - loader[k].refs >= Delta(e, k)
              /\ loader'[k].refs - loader[k].refs <= Delta(e, k) + (faults' - faults)
  <2>1. faults \in Nat
    BY DEF EngineInv, Shaped
  <2>2. CASE k = m
    BY <1>5, <1>6, <1>9, <2>1, <2>2
  <2>3. CASE k # m
    <3>1. loader'[k].refs = loader[k].refs /\ Delta(e, k) = 0 /\ loader[k].refs \in Nat
      BY <1>5, <1>6, <1>9, <2>3
    <3>2. faults' = faults \/ faults' = faults + 1
      BY <1>5
    <3> QED BY <2>1, <3>1, <3>2
  <2> QED BY <2>2, <2>3
<1>11. Apart'
  BY <1>1, <1>2, <1>4, StillApart DEF Keeps
<1>12. DOMAIN fds' = Fds
  BY <1>1 DEF EngineInv, Shaped
<1> QED BY <1>1, <1>2, <1>5, <1>7, <1>10, <1>11, <1>12, Returns DEF Keeps

LEMMA DlcloseKeeps ==
    ASSUME EngineInv, NEW e \in Engines, Dlclose(e)
    PROVE  EngineInv'
<1> DEFINE m == eng[e].handle
<1>1. EngineOK(e) /\ eng[e].pc = "quiet" /\ UNCHANGED mem /\ MayRelease(m) /\ fds' = [fds EXCEPT ![eng[e].fd] = 0]
  BY DEF EngineInv, Dlclose, At
<1>2. /\ Keeps(e, {"pc", "handle", "fd"}) /\ eng'[e].pc = "closed" /\ eng'[e].handle = 0 /\ eng'[e].fd = 0
  BY <1>1 DEF Dlclose, EngineInv, EngineOK, ShapedBy, Shaped, Keeps, Alone, NoEngine
<1>3. m = eng[e].file /\ m \in DOMAIN loader /\ loader[m].refs > 0
  BY <1>1, RefsHeld DEF EngineOK, LoadedBy, Checked, Holding
<1>4. eng[e].client = 0 /\ eng[e].calls = 0 /\ eng[e].fd \in Fds
  BY <1>1 DEF EngineOK, LoadedBy, OwnedBy, ShapedBy, Clients, Checked, Holding, Measured, Fixed, Owning
<1>5. /\ eng'[e].file = eng[e].file /\ eng'[e].client = 0 /\ eng'[e].calls = 0 /\ eng'[e].profiles = eng[e].profiles
  BY <1>2, <1>4 DEF Keeps, NoEngine
<1>6. EngineOK(e)'
  <2>1. ShapedBy(e)' /\ OwnedBy(e)'
    BY <1>1, <1>2, <1>3, <1>5 DEF EngineOK, ShapedBy, OwnedBy, Keeps,
       Clients, Checked, Holding, Measured, Fixed, Owning, Stages
  <2>2. SealedBy(e)' /\ ProfiledBy(e)' /\ LoadedBy(e)'
    BY <1>1, <1>2, <1>5 DEF EngineOK, SealedBy, ProfiledBy, LoadedBy,
       Clients, Checked, Holding, Measured, Fixed, Owning
  <2> QED BY <2>1, <2>2 DEF EngineOK
<1>7. /\ DOMAIN loader' = DOMAIN loader /\ faults' \in Nat
      /\ \A k \in DOMAIN loader : Same(k) /\ loader'[k].refs \in Int /\ loader'[k].refs <= loader[k].refs
      /\ \A k \in DOMAIN loader \ {m} : loader'[k].refs = loader[k].refs
      /\ \/ loader'[m].refs = loader[m].refs - 1 /\ faults' = faults
         \/ loader'[m].refs = loader[m].refs /\ faults' = faults + 1
  BY <1>1, <1>3, ReleaseOrFault
<1>8. \A k \in DOMAIN loader : loader[k].refs \in Nat
  BY RefsHeld
<1>9. m # 0 /\ 0 \notin DOMAIN loader
  BY <1>3 DEF EngineInv, Loaded, Shaped, IsSequence
<1>10. \A k \in DOMAIN loader : Delta(e, k) = IF k = m THEN -1 ELSE 0
  BY <1>2, <1>4, <1>5, <1>9 DEF Delta
<1> HIDE DEF m
<1>11. ASSUME NEW k \in DOMAIN loader
       PROVE  /\ loader'[k].refs - loader[k].refs >= Delta(e, k)
              /\ loader'[k].refs - loader[k].refs <= Delta(e, k) + (faults' - faults)
  <2>1. faults \in Nat
    BY DEF EngineInv, Shaped
  <2>2. CASE k = m
    BY <1>7, <1>8, <1>10, <2>1, <2>2
  <2>3. CASE k # m
    <3>1. loader'[k].refs = loader[k].refs /\ Delta(e, k) = 0 /\ loader[k].refs \in Nat
      BY <1>7, <1>8, <1>10, <2>3
    <3>2. faults' = faults \/ faults' = faults + 1
      BY <1>7
    <3> QED BY <2>1, <3>1, <3>2
  <2> QED BY <2>2, <2>3
<1>12. /\ DOMAIN fds' = Fds /\ fds'[eng[e].fd] = 0 /\ \A n \in Fds \ {eng[e].fd} : fds'[n] = fds[n]
  BY <1>1, <1>4 DEF EngineInv, Shaped
<1>13. \A d \in Engines \ {e} : eng[d].pc \in Owning => fds'[eng[d].fd] = fds[eng[d].fd]
  BY <1>12, FdsApart
<1>14. Apart'
  <2>1. \A d, c \in Engines : eng'[d].file = eng'[c].file /\ eng'[d].file # 0 => d = c
    BY <1>2, <1>5 DEF Keeps, Alone, EngineInv, Apart
  <2>2. \A n \in Fds : fds'[n] # 0 => \E d \in Engines : eng'[d].fd = n
    <3> TAKE n \in Fds
    <3> HAVE fds'[n] # 0
    <3>1. n # eng[e].fd /\ fds[n] # 0
      BY <1>12
    <3>2. PICK d \in Engines : eng[d].fd = n
      BY <3>1 DEF EngineInv, Apart
    <3> QED BY <1>2, <3>1, <3>2 DEF Keeps, Alone
  <2> QED BY <2>1, <2>2 DEF Apart
<1> QED BY <1>1, <1>2, <1>6, <1>7, <1>11, <1>12, <1>13, <1>14, Returns DEF Keeps

---------------------------------------------------------------------------
(* Every step keeps the invariant. *)

LEMMA InitHolds == EngineInit => EngineInv
<1> SUFFICES ASSUME EngineInit PROVE EngineInv
  OBVIOUS
<1>1. mem = <<>> /\ loader = <<>> /\ fds = [n \in Fds |-> 0] /\ faults = 0
  BY DEF EngineInit
<1>2. IsSequence(mem) /\ DOMAIN mem = {} /\ DOMAIN loader = {}
  <2>1. <<>> \in Seq({}) /\ Len(<<>>) = 0
    OBVIOUS
  <2>2. IsSequence(<<>>)
    BY <2>1, ASequence
  <2> QED BY <1>1, <2>1, <2>2 DEF IsSequence
<1>3. /\ DOMAIN eng = Engines
      /\ \A e \in Engines : /\ eng[e] = NoEngine /\ eng[e].pc = "new" /\ eng[e].fd = 0 /\ eng[e].file = 0
                            /\ eng[e].handle = 0 /\ eng[e].client = 0 /\ eng[e].calls = 0
  BY DEF EngineInit, NoEngine
<1>4. Shaped /\ Apart /\ Loaded /\ Counted
  BY <1>1, <1>2, <1>3 DEF Shaped, Apart, Loaded, Counted
<1>5. ASSUME NEW e \in Engines PROVE EngineOK(e)
  BY <1>3 DEF EngineOK, ShapedBy, OwnedBy, SealedBy, LoadedBy, ProfiledBy,
     Clients, Checked, Holding, Measured, Fixed, Owning, Stages
<1> QED BY <1>4, <1>5 DEF EngineInv

LEMMA ConstructKeeps ==
    ASSUME EngineInv, NEW e \in Engines, Construct(e)
    PROVE  EngineInv'
<1>1. CASE CopyBlock(e)
  <2>1. CASE Abandon(e) /\ UNCHANGED loader
    BY <1>1, <2>1, EarlyAbandon DEF CopyBlock, At
  <2>2. CASE ~(Abandon(e) /\ UNCHANGED loader)
    <3> DEFINE b == disk[eng[e].source][Len(mem[eng[e].file].image) + 1]
               stage == IF Len(mem[eng[e].file].image) = 1 THEN "copied" ELSE "copying"
    <3>1. /\ At(e, "copying") /\ mem' = [mem EXCEPT ![eng[e].file].image = Append(@, b)]
          /\ Move(e, stage) /\ UNCHANGED <<fds, loader, faults>> /\ stage \in {"copying", "copied"}
      BY <1>1, <2>2 DEF CopyBlock
    <3> HIDE DEF b, stage
    <3> QED BY <3>1, CopyKeeps
  <2> QED BY <2>1, <2>2
<1>2. CASE Inspect(e)
  <2>1. eng[e].pc = "copied" /\ mem[eng[e].file].sealed /\ UNCHANGED loader
    BY <1>2 DEF Inspect, At
  <2>2. CASE Abandon(e)
    BY <2>1, <2>2, EarlyAbandon
  <2>3. CASE Move(e, "sealed") /\ UNCHANGED <<fds, mem, faults>>
    BY <2>1, <2>3, MoveKeeps
  <2> QED BY <1>2, <2>2, <2>3 DEF Inspect
<1>3. CASE FailEarly(e)
  BY <1>3, EarlyAbandon DEF FailEarly
<1>4. CASE Verify(e)
  <2>1. eng[e].pc = "loaded" /\ eng[e].pc \in Holding
    BY <1>4 DEF Verify, At, Holding
  <2>2. CASE verifySnapshotSymbols(e)
    <3>1. Move(e, "verified") /\ UNCHANGED <<fds, mem, loader, faults>>
      BY <1>4, <2>2 DEF Verify
    <3>2. eng[e].handle = eng[e].file /\ loader[eng[e].handle].bound = {}
      BY <2>1, <2>2, VerifiedUnbound
    <3> QED BY <2>1, <3>1, <3>2, MoveKeeps
  <2>3. CASE ~verifySnapshotSymbols(e)
    BY <1>4, <2>1, <2>3, LateAbandon DEF Verify
  <2> QED BY <2>2, <2>3
<1>5. CASE NewPolyglot(e)
  <2>1. CASE Abandon(e) /\ DropHandles(e)
    BY <1>5, <2>1, LateAbandon DEF NewPolyglot, At
  <2>2. CASE ~(Abandon(e) /\ DropHandles(e))
    BY <1>5, <2>2, ClientKeeps DEF NewPolyglot
  <2> QED BY <2>1, <2>2
<1>6. CASE VerifyAgain(e)
  BY <1>6, ServeKeeps, LateAbandon DEF VerifyAgain, At
<1> QED BY <1>1, <1>2, <1>3, <1>4, <1>5, <1>6, OpenSourceKeeps, MemfdCreateKeeps, SealKeeps, HashKeeps, DlopenKeeps
        DEF Construct

LEMMA StepKeeps ==
    ASSUME EngineInv, [EngineNext]_mvars
    PROVE  EngineInv'
<1>1. CASE Overwrite \/ Replace \/ DefineGlobal \/ Over \/ UNCHANGED mvars
  BY <1>1, Elsewhere DEF Overwrite, Replace, DefineGlobal, Over, mvars
<1>2. CASE Scribble
  BY <1>2, ScribbleKeeps
<1>3. ASSUME NEW e \in Engines, Close(e) PROVE EngineInv'
  BY <1>3, MoveKeeps DEF Close, At
<1>4. CASE \E e \in Engines : Construct(e) \/ BeginCall(e) \/ EndCall(e) \/ Close(e) \/ CloseClient(e) \/ Dlclose(e)
  BY <1>3, <1>4, ConstructKeeps, CallsKeep, CloseClientKeeps, DlcloseKeeps
<1> QED BY <1>1, <1>2, <1>4 DEF EngineNext

LEMMA AlwaysEngineInv == EngineSpec => []EngineInv
  BY InitHolds, StepKeeps, PTL DEF EngineSpec

---------------------------------------------------------------------------
(* What the invariant says of an engine in service. *)

LEMMA ServingOne ==
    ASSUME EngineInv, NEW e \in Engines, Serving(e)
    PROVE  /\ eng[e].client = eng[e].file /\ eng[e].handle = eng[e].file
           /\ mem[eng[e].file].image = eng[e].digest
           /\ loader[eng[e].file].bound = {}
           /\ eng[e].profiles \in ProfileFiles /\ decodeSnapshotProfiles(eng[e].profiles)
           /\ eng[e].local = LocalProfiles(eng[e].profiles, eng[e].digest)
<1>1. EngineOK(e) /\ eng[e].pc \in {"running", "closing"}
  BY DEF EngineInv, Serving
<1> QED BY <1>1 DEF EngineOK, SealedBy, LoadedBy, ProfiledBy, Clients, Checked, Holding, Measured, Fixed

LEMMA LocalCommitted ==
    ASSUME NEW f \in ProfileFiles, decodeSnapshotProfiles(f), NEW digest, NEW q \in LocalProfiles(f, digest)
    PROVE  \E r \in DOMAIN RecordDigest, s \in DOMAIN SetDigest :
              /\ RecordDigest[r] = q /\ SetDigest[s] = r.native
              /\ \E j \in DOMAIN s : s[j].here /\ s[j].ffi = digest
<1>1. PICK i \in DOMAIN f.profiles :
         /\ q = f.profiles[i].id
         /\ \E j \in DOMAIN f.profiles[i].artifacts :
               f.profiles[i].artifacts[j].here /\ f.profiles[i].artifacts[j].ffi = digest
  BY DEF LocalProfiles
<1> DEFINE r == f.profiles[i].record
           s == f.profiles[i].artifacts
<1>2. r \in DOMAIN RecordDigest /\ s \in DOMAIN SetDigest
  BY ProfilesAssumption
<1>3. RecordDigest[r] = q /\ SetDigest[s] = r.native
  BY <1>1 DEF decodeSnapshotProfiles
<1>4. \E j \in DOMAIN s : s[j].here /\ s[j].ffi = digest
  BY <1>1
<1> HIDE DEF r, s
<1> QED BY <1>2, <1>3, <1>4

LEMMA InvServes == EngineInv => ServesWhatItMeasured
<1> SUFFICES ASSUME EngineInv PROVE ServesWhatItMeasured
  OBVIOUS
<1>1. MeasuredIsRunning
  BY ServingOne DEF MeasuredIsRunning
<1>2. NothingInterposed
  BY ServingOne DEF NothingInterposed
<1>3. ProfileCommitsToImage
  <2> SUFFICES ASSUME NEW e \in Engines, Serving(e), NEW q \in eng[e].local
               PROVE  \E r \in DOMAIN RecordDigest, s \in DOMAIN SetDigest :
                         /\ RecordDigest[r] = q /\ SetDigest[s] = r.native
                         /\ \E j \in DOMAIN s : s[j].here /\ s[j].ffi = mem[eng[e].client].image
    BY DEF ProfileCommitsToImage
  <2>1. /\ eng[e].profiles \in ProfileFiles /\ decodeSnapshotProfiles(eng[e].profiles)
        /\ q \in LocalProfiles(eng[e].profiles, eng[e].digest) /\ mem[eng[e].client].image = eng[e].digest
    BY ServingOne
  <2> QED BY <2>1, LocalCommitted
<1> QED BY <1>1, <1>2, <1>3 DEF ServesWhatItMeasured

LEMMA InvHeld == EngineInv => HeldWhileNeeded
<1> SUFFICES ASSUME EngineInv PROVE HeldWhileNeeded
  OBVIOUS
<1>1. \A e \in Engines : EngineOK(e)
  BY DEF EngineInv
<1>2. \A e \in Engines : eng[e].pc \in Owning =>
         /\ eng[e].fd \in Fds /\ fds[eng[e].fd] = eng[e].file /\ eng[e].file \in 1..Len(mem) /\ Len(mem) \in Nat
  BY <1>1 DEF EngineOK, OwnedBy, EngineInv, Shaped, IsSequence
<1>3. \A e \in Engines : eng[e].pc \notin Owning => eng[e].fd = 0
  BY <1>1 DEF EngineOK, OwnedBy
<1>4. \A n \in Fds : fds[n] # 0 => \E e \in Engines : eng[e].fd = n /\ eng[e].pc \in Owning
  BY <1>3, FdsAssumption DEF EngineInv, Apart
<1>5. MeasuredTypeOK
  <2>1. \A e \in Engines : eng[e].pc \in {"new", "opened", "copying", "copied", "sealed", "hashed", "loaded",
                                          "verified", "client", "running", "closing", "quiet", "closed", "failed"}
    BY <1>1 DEF EngineOK, ShapedBy, Clients, Checked, Holding, Measured, Fixed, Owning, Stages
  <2>2. \A m \in DOMAIN loader : loader[m].refs >= 0
    BY RefsHeld
  <2>3. ASSUME NEW n \in Fds PROVE fds[n] \in 0..Len(mem)
    <3>1. Len(mem) \in Nat
      BY DEF EngineInv, Shaped, IsSequence
    <3> QED BY <1>2, <1>4, <3>1
  <2> QED BY <2>1, <2>2, <2>3 DEF MeasuredTypeOK
<1>6. LoadedWhileCalled
  <2> SUFFICES ASSUME NEW e \in Engines, eng[e].calls > 0
               PROVE  /\ eng[e].client # 0 /\ loader[eng[e].client].refs > 0
                      /\ fds[eng[e].fd] = eng[e].file
    BY DEF LoadedWhileCalled
  <2>1. /\ eng[e].pc \in {"running", "closing"} /\ eng[e].pc \in Owning
        /\ eng[e].client = eng[e].handle /\ eng[e].handle \in DOMAIN loader
    BY <1>1 DEF EngineOK, LoadedBy, Clients, Checked, Holding, Measured, Fixed, Owning
  <2>2. eng[e].client # 0
    BY <2>1 DEF EngineInv, Loaded, Shaped, IsSequence
  <2> QED BY <1>2, <2>1, <2>2, RefsHeld
<1>7. NothingLeaks
  <2>1. {n \in Fds : fds[n] # 0} \subseteq {eng[e].fd : e \in Engines} \ {0}
    BY <1>4, FdsAssumption
  <2>2. {eng[e].fd : e \in Engines} \ {0} \subseteq {n \in Fds : fds[n] # 0}
    BY <1>2, <1>3
  <2> QED BY <2>1, <2>2 DEF NothingLeaks, EngineInv, Counted, Held
<1> QED BY <1>5, <1>6, <1>7 DEF HeldWhileNeeded

(* An engine in service runs the very image it hashed, every profile it    *)
(* calls local commits to that image, and nothing outside is bound into    *)
(* it, whatever happened to the library file, to the descriptors and to    *)
(* the engines around it meanwhile: newMeasuredSnapshotEngine.             *)
THEOREM EnginesServeWhatTheyMeasured == EngineSpec => []ServesWhatItMeasured
  BY AlwaysEngineInv, InvServes, PTL

(* Every call finds its library loaded and its descriptor open, and every  *)
(* way out of an engine's life gives back what it held, except what a      *)
(* failed release leaves behind: loadSnapshotSealed, Close.                *)
THEOREM EnginesHoldWhatTheyNeed == EngineSpec => []HeldWhileNeeded
  BY AlwaysEngineInv, InvHeld, PTL

---------------------------------------------------------------------------
(* The two calls.                                                          *)

Steps == {"entry", "analyze", "engine", "analyzed", "bindings", "prepare", "prepared", "done"}

(* What the analysis has established before it calls the engine. *)
Admitted ==
    /\ ~call.nil /\ call.contract = 1 /\ supportedSnapshotRecord(call.profile)
    /\ ~call.sqlTooLong /\ ~call.descriptorTooLong /\ ~call.badCatalog
    /\ ~call.env.materialize => call.inputs = {}
    /\ call.rpc = "prepare" => ~call.env.materialize

Planned == plan.err = "" /\ plan = IF call.ordinary THEN [err |-> "", ordinary |-> TRUE]
                                   ELSE EngineAnalyzes(call.ins, call.env)

Answerable == Planned /\ ~Ordinary /\ ~late /\ ~call.planTooLong /\ call.inputs \subseteq {"random"}

(* What holds at each step of a call that has not been answered. *)
RPCInv ==
    /\ step \in Steps
    /\ late => expired
    /\ step = "analyze" => call.rpc = "prepare"
    /\ (step # "entry" /\ call.rpc = "prepare" /\ reply = Waiting) =>
            ~(supportedSnapshotRecord(call.profile) /\ call.contract = 1
              /\ (call.env.materialize \/ call.descriptorTooLong))
    /\ step \in {"engine", "analyzed", "bindings", "prepare", "prepared"} => Admitted
    /\ step = "analyzed" => Planned
    /\ step \in {"bindings", "prepare", "prepared"} => call.rpc = "prepare" /\ Answerable
    /\ step \in {"prepare", "prepared"} => BindingsExact(call.bindings, plan.readIDs)
    /\ step = "prepared" => /\ ~call.ungenerable /\ ~call.preparedTooLong
                            /\ prepared = EngineLowers(plan, Scratch(call.bindings))
    /\ reply.code = "SUCCESS" => step = "done"
    /\ NoLateSuccess /\ NoCheckSkipped

LEMMA RefusedIsNoSuccess ==
    ASSUME NEW code, code # "SUCCESS", Refuse(code)
    PROVE  reply'.code # "SUCCESS"
BY DEF Refuse, Waiting

LEMMA WaitingIsNoSuccess == Waiting.code # "SUCCESS"
BY DEF Waiting

LEMMA RPCStarts == RPCInit => RPCInv
BY WaitingIsNoSuccess DEF RPCInit, RPCInv, Steps, NoLateSuccess, NoCheckSkipped

LEMMA CallRests ==
    ASSUME call' = call, plan' = plan
    PROVE  /\ Admitted' = Admitted /\ Planned' = Planned /\ Ordinary' = Ordinary
           /\ BindingsExact(call.bindings, plan.readIDs)' = BindingsExact(call.bindings, plan.readIDs)
           /\ supportedSnapshotRecord(call.profile)' = supportedSnapshotRecord(call.profile)
           /\ EngineAnalyzes(call.ins, call.env)' = EngineAnalyzes(call.ins, call.env)
           /\ EngineLowers(plan, Scratch(call.bindings))' = EngineLowers(plan, Scratch(call.bindings))
<1>1. supportedSnapshotRecord(call.profile)' = supportedSnapshotRecord(call.profile)
  BY DEF supportedSnapshotRecord
<1>2. EngineAnalyzes(call.ins, call.env)' = EngineAnalyzes(call.ins, call.env)
  OBVIOUS
<1>3. EngineLowers(plan, Scratch(call.bindings))' = EngineLowers(plan, Scratch(call.bindings))
  BY DEF Scratch
<1>4. Admitted' = Admitted
  BY <1>1 DEF Admitted
<1>5. Planned' = Planned
  BY <1>2 DEF Planned
<1>6. BindingsExact(call.bindings, plan.readIDs)' = BindingsExact(call.bindings, plan.readIDs)
  OBVIOUS
<1>7. Ordinary' = Ordinary
  BY DEF Ordinary
<1> QED BY <1>1, <1>2, <1>3, <1>4, <1>5, <1>6, <1>7

LEMMA OrdinaryPlan == plan = [err |-> "", ordinary |-> TRUE] => Ordinary
<1>1. "ordinary" \in DOMAIN [err |-> "", ordinary |-> TRUE]
  OBVIOUS
<1> QED BY <1>1, Zenon DEF Ordinary

LEMMA ExpireSteps == ASSUME RPCInv, Expire PROVE RPCInv'
<1>1. /\ call' = call /\ step' = step /\ expired' = TRUE /\ plan' = plan /\ prepared' = prepared
      /\ reply' = reply /\ late' = late /\ reply = Waiting
  BY DEF Expire
<1>2. Answerable' = Answerable
  BY <1>1, CallRests DEF Answerable
<1> QED BY <1>1, <1>2, CallRests, WaitingIsNoSuccess DEF RPCInv, NoLateSuccess, NoCheckSkipped

LEMMA PrepareEntrySteps == ASSUME RPCInv, PrepareEntry PROVE RPCInv'
<1>1. /\ step = "entry" /\ call' = call /\ expired' = expired /\ plan' = plan /\ prepared' = prepared
      /\ late' = late /\ call.rpc = "prepare"
  BY DEF PrepareEntry, AtStep
<1>2. CASE reply'.code # "SUCCESS" /\ step' = "done" /\ reply' # Waiting
  BY <1>1, <1>2, CallRests DEF RPCInv, Steps, NoLateSuccess, NoCheckSkipped
<1>3. CASE /\ step' = "analyze" /\ reply' = Waiting
           /\ ~(supportedSnapshotRecord(call.profile) /\ call.contract = 1
                /\ (call.env.materialize \/ call.descriptorTooLong))
  BY <1>1, <1>3, CallRests, WaitingIsNoSuccess DEF RPCInv, Steps, NoLateSuccess, NoCheckSkipped
<1>4. Refuse("INVALID_INPUT") => reply'.code # "SUCCESS" /\ reply' # Waiting
  BY DEF Refuse, Waiting
<1> QED BY <1>2, <1>3, <1>4 DEF PrepareEntry, End, Go

LEMMA AnalyzeEntrySteps == ASSUME RPCInv, AnalyzeEntry PROVE RPCInv'
<1>1. /\ step \in {"entry", "analyze"} /\ call' = call /\ expired' = expired /\ plan' = plan
      /\ prepared' = prepared /\ late' = late /\ (step = "entry" => call.rpc # "prepare") /\ reply = Waiting
  BY DEF AnalyzeEntry, AtStep
<1>2. CASE EntryRefusal # "" /\ Refuse(EntryRefusal) /\ End
  <2>1. reply'.code # "SUCCESS" /\ reply' # Waiting /\ step' = "done"
    BY <1>2 DEF EntryRefusal, Refuse, Waiting, End
  <2> QED BY <1>1, <2>1, CallRests DEF RPCInv, Steps, NoLateSuccess, NoCheckSkipped
<1>3. CASE EntryRefusal = "" /\ Go("engine")
  <2>1. Admitted
    BY <1>1, <1>3 DEF EntryRefusal, Admitted, RPCInv
  <2>2. step' = "engine" /\ reply' = Waiting
    BY <1>3 DEF Go
  <2> QED BY <1>1, <2>1, <2>2, CallRests, WaitingIsNoSuccess DEF RPCInv, Steps, NoLateSuccess, NoCheckSkipped, Admitted
<1> QED BY <1>2, <1>3 DEF AnalyzeEntry

LEMMA EngineAnalyzeSteps == ASSUME RPCInv, EngineAnalyze PROVE RPCInv'
<1>1. /\ step = "engine" /\ call' = call /\ expired' = expired /\ prepared' = prepared /\ late' = expired
      /\ reply = Waiting
      /\ plan' = IF call.ordinary THEN [err |-> "", ordinary |-> TRUE] ELSE EngineAnalyzes(call.ins, call.env)
  BY DEF EngineAnalyze, AtStep
<1>2. CASE plan'.err # "" /\ Refuse(Code(plan'.err)) /\ End
  <2>1. reply'.code # "SUCCESS" /\ reply' # Waiting /\ step' = "done"
    BY <1>2 DEF Code, Refuse, Waiting, End
  <2> QED BY <1>1, <2>1 DEF RPCInv, Steps, NoLateSuccess, NoCheckSkipped
<1>3. CASE plan'.err = "" /\ Go("analyzed")
  <2>1. step' = "analyzed" /\ reply' = Waiting /\ Admitted /\ (Admitted' = Admitted)
    BY <1>1, <1>3 DEF Go, RPCInv, Admitted, supportedSnapshotRecord
  <2>2. Planned'
    BY <1>1, <1>3 DEF Planned
  <2>3. supportedSnapshotRecord(call.profile)' = supportedSnapshotRecord(call.profile)
    BY <1>1 DEF supportedSnapshotRecord
  <2> QED BY <1>1, <2>1, <2>2, <2>3, WaitingIsNoSuccess DEF RPCInv, Steps, NoLateSuccess, NoCheckSkipped
<1> QED BY <1>2, <1>3 DEF EngineAnalyze

LEMMA AnalyzeDoneSteps == ASSUME RPCInv, AnalyzeDone PROVE RPCInv'
<1>1. /\ step = "analyzed" /\ call' = call /\ expired' = expired /\ plan' = plan /\ prepared' = prepared
      /\ late' = late /\ Admitted /\ Planned
  BY DEF AnalyzeDone, AtStep, RPCInv
<1>2. AnalysisCode = "SUCCESS" => ~expired /\ Answerable
  BY <1>1 DEF AnalysisCode, Answerable, RPCInv
<1>3. CASE AnalysisCode = "SUCCESS" /\ call.rpc = "analyze"
           /\ reply' = [code |-> "SUCCESS", text |-> call.ins, target |-> plan.target.id,
                        columns |-> plan.names, reads |-> plan.readIDs]
           /\ End
  <2>1. step' = "done" /\ reply'.code = "SUCCESS" /\ reply'.reads = plan.readIDs /\ reply' # Waiting
    BY <1>3 DEF End, Waiting
  <2>2. NoLateSuccess' /\ NoCheckSkipped'
    <3>1. ~call.ordinary /\ plan = EngineAnalyzes(call.ins, call.env) /\ plan.err = ""
        BY <1>2, <1>3, OrdinaryPlan DEF Answerable, Planned
    <3>2. call.inputs \subseteq IF call.env.materialize THEN {"random"} ELSE {}
      BY <1>1, <1>2, <1>3 DEF Answerable, Admitted
    <3> QED BY <1>1, <1>2, <1>3, <2>1, <3>1, <3>2, CallRests DEF NoLateSuccess, NoCheckSkipped, Answerable, Admitted
  <2> QED BY <1>1, <2>1, <2>2 DEF RPCInv, Steps
<1>4. CASE AnalysisCode = "SUCCESS" /\ call.rpc = "prepare" /\ Go("bindings")
  <2>1. step' = "bindings" /\ reply' = Waiting /\ Answerable' = Answerable
    BY <1>1, <1>4, CallRests DEF Go, Answerable
  <2> QED BY <1>1, <1>2, <1>4, <2>1, CallRests, WaitingIsNoSuccess DEF RPCInv, Steps, NoLateSuccess, NoCheckSkipped, Admitted
<1>5. CASE /\ AnalysisCode # "SUCCESS"
           /\ Refuse(IF call.rpc = "prepare" /\ AnalysisCode = "NOT_SNAPSHOT_QUERY"
                     THEN "INVALID_INPUT" ELSE AnalysisCode)
           /\ End
  <2>1. reply'.code # "SUCCESS" /\ step' = "done" /\ reply' # Waiting
    BY <1>5 DEF AnalysisCode, Refuse, Waiting, End
  <2> QED BY <1>1, <2>1 DEF RPCInv, Steps, NoLateSuccess, NoCheckSkipped
<1> QED BY <1>3, <1>4, <1>5 DEF AnalyzeDone

LEMMA CheckBindingsSteps == ASSUME RPCInv, CheckBindings PROVE RPCInv'
<1>1. /\ step = "bindings" /\ call' = call /\ expired' = expired /\ plan' = plan /\ prepared' = prepared
      /\ late' = late /\ Admitted /\ Answerable /\ call.rpc = "prepare"
  BY DEF CheckBindings, AtStep, RPCInv
<1>2. CASE BindingsExact(call.bindings, plan.readIDs) /\ ~expired /\ Go("prepare")
  <2>1. step' = "prepare" /\ reply' = Waiting /\ Answerable' = Answerable
    BY <1>1, <1>2, CallRests DEF Go, Answerable
  <2> QED BY <1>1, <1>2, <2>1, CallRests, WaitingIsNoSuccess DEF RPCInv, Steps, NoLateSuccess, NoCheckSkipped, Admitted
<1>3. CASE Refuse("INVALID_INPUT") /\ End
  <2>1. reply'.code # "SUCCESS" /\ step' = "done" /\ reply' # Waiting
    BY <1>3 DEF Refuse, Waiting, End
  <2> QED BY <1>1, <2>1 DEF RPCInv, Steps, NoLateSuccess, NoCheckSkipped
<1> QED BY <1>2, <1>3 DEF CheckBindings

LEMMA EnginePrepareSteps == ASSUME RPCInv, EnginePrepare PROVE RPCInv'
<1>1. /\ step = "prepare" /\ call' = call /\ expired' = expired /\ plan' = plan
      /\ late' = (late \/ expired) /\ Admitted /\ Answerable /\ call.rpc = "prepare"
      /\ BindingsExact(call.bindings, plan.readIDs)
  BY DEF EnginePrepare, AtStep, RPCInv
<1>2. CASE ~expired /\ ~call.ungenerable /\ ~call.preparedTooLong /\ Go("prepared")
  <2>1. step' = "prepared" /\ reply' = Waiting /\ ~late'
    BY <1>1, <1>2 DEF Go, Answerable
  <2>2. Answerable'
    BY <1>1, <2>1, CallRests DEF Answerable
  <2>3. prepared' = EngineLowers(plan, Scratch(call.bindings))
    BY <1>2 DEF EnginePrepare
  <2> QED BY <1>1, <1>2, <2>1, <2>2, <2>3, CallRests, WaitingIsNoSuccess DEF RPCInv, Steps, NoLateSuccess, NoCheckSkipped, Admitted
<1>3. CASE Refuse(IF ~expired /\ call.ungenerable THEN "UNSUPPORTED" ELSE "INVALID_INPUT") /\ End
  <2>1. reply'.code # "SUCCESS" /\ step' = "done" /\ reply' # Waiting
    BY <1>3 DEF Refuse, Waiting, End
  <2> QED BY <1>1, <2>1 DEF RPCInv, Steps, NoLateSuccess, NoCheckSkipped
<1> QED BY <1>2, <1>3 DEF EnginePrepare

LEMMA PrepareDoneSteps == ASSUME RPCInv, PrepareDone PROVE RPCInv'
<1>1. /\ step = "prepared" /\ call' = call /\ expired' = expired /\ plan' = plan /\ prepared' = prepared
      /\ late' = late /\ step' = "done" /\ Admitted /\ Answerable /\ call.rpc = "prepare"
      /\ BindingsExact(call.bindings, plan.readIDs)
      /\ ~call.ungenerable /\ ~call.preparedTooLong
      /\ prepared = EngineLowers(plan, Scratch(call.bindings))
  BY DEF PrepareDone, AtStep, RPCInv, End
<1>2. CASE expired
  <2>1. reply'.code # "SUCCESS" /\ reply' # Waiting
    BY <1>2 DEF PrepareDone, Refuse, Waiting
  <2> QED BY <1>1, <2>1 DEF RPCInv, Steps, NoLateSuccess, NoCheckSkipped
<1>3. CASE ~expired
  <2>1. reply'.code = "SUCCESS" /\ reply'.text = prepared /\ reply'.reads = plan.readIDs /\ reply' # Waiting
    BY <1>3 DEF PrepareDone, Waiting
  <2>2. ~call.ordinary /\ plan = EngineAnalyzes(call.ins, call.env) /\ plan.err = ""
    BY <1>1, OrdinaryPlan DEF Answerable, Planned
  <2>3. call.inputs \subseteq IF call.env.materialize THEN {"random"} ELSE {}
    BY <1>1 DEF Answerable, Admitted
  <2>4. NoLateSuccess'
    BY <1>1, <1>3, <2>1 DEF NoLateSuccess, Answerable
  <2>5. NoCheckSkipped'
    BY <1>1, <2>1, <2>2, <2>3, CallRests DEF NoCheckSkipped, Admitted, Answerable
  <2> QED BY <1>1, <2>1, <2>4, <2>5 DEF RPCInv, Steps
<1> QED BY <1>2, <1>3

LEMMA RPCSteps == ASSUME RPCInv, [RPCNext]_svars PROVE RPCInv'
<1>1. CASE UNCHANGED svars
  <2>1. /\ call' = call /\ step' = step /\ expired' = expired /\ plan' = plan /\ prepared' = prepared
        /\ reply' = reply /\ late' = late
    BY <1>1 DEF svars
  <2>2. NoCheckSkipped' = NoCheckSkipped
    BY <2>1, CallRests DEF NoCheckSkipped
  <2> QED BY <2>1, <2>2, CallRests DEF RPCInv, Answerable, NoLateSuccess, Waiting
<1>2. CASE RPCNext
  BY <1>1, <1>2, ExpireSteps, PrepareEntrySteps, AnalyzeEntrySteps, EngineAnalyzeSteps, AnalyzeDoneSteps,
     CheckBindingsSteps, EnginePrepareSteps, PrepareDoneSteps DEF RPCNext, Answered
<1> QED BY <1>1, <1>2

(* Whatever the engine computes and however the deadline falls between the *)
(* checks, no late result is answered as a success (snapshot_query.go      *)
(* 96-99 and 179-182 look at the context again after the engine).          *)
THEOREM SuccessesAreTimely == RPCSpec => []NoLateSuccess
<1>1. RPCInv => NoLateSuccess
  BY DEF RPCInv
<1> QED BY <1>1, RPCStarts, RPCSteps, PTL DEF RPCSpec

(* Whatever the engine computes, a success has passed every check of its   *)
(* call, and the prepared text is the plan lowered onto scratch tables     *)
(* that match its reads one for one (snapshot_query.go 31-206).            *)
THEOREM SuccessesAreChecked == RPCSpec => []NoCheckSkipped
<1>1. RPCInv => NoCheckSkipped
  BY DEF RPCInv
<1> QED BY <1>1, RPCStarts, RPCSteps, PTL DEF RPCSpec
==============================================================================
