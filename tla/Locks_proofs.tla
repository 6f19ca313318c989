----------------------------- MODULE Locks_proofs -----------------------------
(***************************************************************************)
(* Proofs about the two locks of a shard, Semaphore and SharedMutex, for   *)
(* any fibers.  They share nothing but the lemmas about sequences.         *)
(***************************************************************************)
EXTENDS Semaphore, SharedMutex, DataFacts

(***************************************************************************)
(* Semaphore, for any count, any amounts and any length of the wait list:  *)
(* the list is sound whatever timer, signal() or broken() touched it last, *)
(* no unit is created or lost, and waits are serviced in the order of the  *)
(* list.                                                                   *)
(***************************************************************************)

\* The places of the entries of l that have not expired.
Live(l) == {i \in 1..Len(l) : l[i].live}

\* PendingIffQueued of a list l, futures s and amounts m, by the entries.
WaitersQueued(l, s, m) ==
  /\ \A i \in 1..Len(l) : l[i].live => s[l[i].fiber] = "pending" /\ l[i].nr = m[l[i].fiber]
  /\ \A f \in Fibers : s[f] = "pending" => \E i \in 1..Len(l) : l[i].live /\ l[i].fiber = f
  /\ \A i, j \in 1..Len(l) : l[i].live /\ l[j].live /\ l[i].fiber = l[j].fiber => i = j

\* The inductive invariant.
IInv == WaitListSound /\ UnitsConserved

LEMMA EntryFields ==
  ASSUME NEW l \in Seq(Entry)
  PROVE  /\ Len(l) \in Nat
         /\ \A i \in 1..Len(l) : /\ l[i] \in Entry /\ l[i].fiber \in Fibers /\ l[i].nr \in Nat
                                 /\ l[i].timed \in BOOLEAN /\ l[i].live \in BOOLEAN
<1>1. Len(l) \in Nat /\ \A i \in 1..Len(l) : l[i] \in Entry
  BY LenProperties, ElementOfSeq
<1>2. QED
  BY <1>1 DEF Entry

LEMMA WaitersByEntry ==
  ASSUME NEW l \in Seq(Entry), NEW s, NEW m
  PROVE  (\A f \in Fibers :
            LET mine == {i \in 1..Len(l) : l[i].live /\ l[i].fiber = f}
            IN  /\ (s[f] = "pending") <=> (mine # {})
                /\ \A i, j \in mine : i = j
                /\ \A i \in mine : l[i].nr = m[f])
         <=> WaitersQueued(l, s, m)
<1> DEFINE mine(f) == {i \in 1..Len(l) : l[i].live /\ l[i].fiber = f}
           One(f) == /\ (s[f] = "pending") <=> (mine(f) # {})
                     /\ \A i, j \in mine(f) : i = j
                     /\ \A i \in mine(f) : l[i].nr = m[f]
<1>1. \A i \in 1..Len(l) : l[i].fiber \in Fibers
  BY EntryFields
<1>2. ASSUME \A f \in Fibers : One(f) PROVE WaitersQueued(l, s, m)
  <2>1. ASSUME NEW i \in 1..Len(l), l[i].live
        PROVE  s[l[i].fiber] = "pending" /\ l[i].nr = m[l[i].fiber]
    <3>1. i \in mine(l[i].fiber) /\ One(l[i].fiber)
      BY <1>1, <1>2, <2>1
    <3>2. QED
      BY <3>1
  <2>2. ASSUME NEW f \in Fibers, s[f] = "pending"
        PROVE  \E i \in 1..Len(l) : l[i].live /\ l[i].fiber = f
    BY <1>2, <2>2
  <2>3. ASSUME NEW i \in 1..Len(l), NEW j \in 1..Len(l), l[i].live, l[j].live, l[i].fiber = l[j].fiber
        PROVE  i = j
    <3>1. i \in mine(l[i].fiber) /\ j \in mine(l[i].fiber) /\ One(l[i].fiber)
      BY <1>1, <1>2, <2>3
    <3>2. QED
      BY <3>1
  <2>4. QED
    BY <2>1, <2>2, <2>3 DEF WaitersQueued
<1>3. ASSUME WaitersQueued(l, s, m), NEW f \in Fibers PROVE One(f)
  BY <1>3 DEF WaitersQueued
<1>4. QED
  BY <1>2, <1>3

\* The live entries are finitely many.
LEMMA LiveIsFinite ==
  ASSUME NEW l \in Seq(Entry)
  PROVE  IsFiniteSet(Live(l)) /\ Cardinality(Live(l)) \in Nat
<1>1. Len(l) \in Nat
  BY LenProperties
<1>2. IsFiniteSet(1..Len(l)) /\ Live(l) \in SUBSET (1..Len(l))
  BY <1>1, FS_Interval DEF Live
<1>3. QED
  BY <1>2, FS_Subset, FS_CardinalityType

\* The list after its first k entries are popped.
LEMMA RestOfList ==
  ASSUME NEW l \in Seq(Entry), NEW k \in 0..Len(l)
  PROVE  LET r == SubSeq(l, k + 1, Len(l))
             front == {i \in 1..k : l[i].live}
         IN  /\ r \in Seq(Entry) /\ Len(r) = Len(l) - k
             /\ \A i \in 1..(Len(l) - k) : r[i] = l[k + i]
             /\ IsFiniteSet(front) /\ Cardinality(front) \in Nat
             /\ Cardinality(Live(r)) = Cardinality(Live(l)) - Cardinality(front)
<1> DEFINE r == SubSeq(l, k + 1, Len(l))
           front == {i \in 1..k : l[i].live}
           back == {i \in (k + 1)..Len(l) : l[i].live}
           b == [i \in Live(r) |-> k + i]
<1>1. Len(l) \in Nat /\ k \in Nat /\ k <= Len(l)
  BY LenProperties
<1>2. r \in Seq(Entry) /\ Len(r) = Len(l) - k /\ \A i \in 1..(Len(l) - k) : r[i] = l[k + i]
  BY ToSetOfParts
<1> HIDE DEF r
<1>3. b \in Bijection(Live(r), back)
  <2>1. Live(r) = {i \in 1..(Len(l) - k) : l[k + i].live}
    BY <1>2 DEF Live
  <2>2. \A i \in Live(r) : i \in Int /\ b[i] = k + i /\ k + i \in back
    BY <1>1, <2>1
  <2>3. b \in [Live(r) -> back]
    BY <2>2
  <2>4. \A i, j \in Live(r) : b[i] = b[j] => i = j
    BY <1>1, <2>2
  <2>5. \A j \in back : \E i \in Live(r) : b[i] = j
    <3>1. SUFFICES ASSUME NEW j \in back PROVE j - k \in Live(r) /\ b[j - k] = j
      OBVIOUS
    <3>2. j - k \in 1..(Len(l) - k) /\ k + (j - k) = j
      BY <1>1
    <3>3. QED
      BY <2>1, <2>2, <3>2
  <2> HIDE DEF b, back
  <2>6. QED
    BY <2>3, <2>4, <2>5 DEF Bijection, Injection, Surjection, IsInjective
<1>4. Live(l) = front \cup back /\ front \cap back = {} /\ front \in SUBSET Live(l) /\ back \in SUBSET Live(l)
  BY <1>1 DEF Live
<1> HIDE DEF front, back, b
<1>5. /\ IsFiniteSet(front) /\ IsFiniteSet(back)
      /\ Cardinality(front) \in Nat /\ Cardinality(back) \in Nat
  BY <1>4, LiveIsFinite, FS_Subset, FS_CardinalityType
<1>6. Cardinality(Live(l)) = Cardinality(front) + Cardinality(back)
  <2>1. Cardinality(front \cup back) = Cardinality(front) + Cardinality(back) - Cardinality(front \cap back)
    BY <1>5, FS_Union
  <2>2. Cardinality(front \cap back) = 0
    BY <1>4, FS_EmptySet
  <2>3. QED
    BY <1>4, <1>5, <2>1, <2>2
<1>7. Cardinality(Live(r)) = Cardinality(back)
  <2>1. IsFiniteSet(Live(r))
    BY <1>2, LiveIsFinite
  <2>2. QED
    BY <1>3, <2>1, FS_Bijection DEF ExistsBijection
<1>8. QED
  BY <1>2, <1>5, <1>6, <1>7 DEF r, front

\* drop_expired_front() pops expired entries only, and all of them that are in
\* front.
LEMMA DropExpiredFrontIs ==
  ASSUME NEW l \in Seq(Entry)
  PROVE  \E k \in 0..Len(l) :
           /\ DropExpiredFront(l) = SubSeq(l, k + 1, Len(l))
           /\ \A i \in 1..k : ~l[i].live
           /\ k < Len(l) => l[k + 1].live
<1> DEFINE I == {i \in 1..Len(l) : l[i].live}
           K == {k \in 0..Len(l) : \A i \in 1..k : ~l[i].live}
<1>1. Len(l) \in Nat
  BY LenProperties
<1>2. DropExpiredFront(l) = IF (IF I # {} THEN Min(I) ELSE 0) = 0 THEN <<>>
                            ELSE SubSeq(l, IF I # {} THEN Min(I) ELSE 0, Len(l))
  BY DEF DropExpiredFront, SelectInSeq
<1>3. PICK k \in K : k < Len(l) => k + 1 \notin K
  <2>1. K \in SUBSET (0..Len(l)) /\ 0 \in K
    BY <1>1
  <2> HIDE DEF K
  <2>2. QED
    BY <1>1, <2>1, LoopStops
<1>4. k < Len(l) => l[k + 1].live
  BY <1>1, <1>3, EntryFields
<1>5. CASE k = Len(l)
  <2>1. I = {}
    BY <1>3, <1>5
  <2>2. SubSeq(l, k + 1, Len(l)) = <<>>
    BY <1>1, <1>5, ToSetOfParts, EmptySeq
  <2>3. QED
    BY <1>2, <1>3, <2>1, <2>2
<1>6. CASE k < Len(l)
  <2>1. k + 1 \in I /\ \A i \in I : k + 1 <= i
    BY <1>1, <1>3, <1>4, <1>6
  <2>2. Min(I) = k + 1
    <3>1. \A x \in I : (\A y \in I : x <= y) => x = k + 1
      BY <1>1, <2>1
    <3> HIDE DEF I
    <3>2. QED
      BY <2>1, <3>1 DEF Min
  <2>3. k + 1 # 0
    BY <1>1
  <2>4. QED
    BY <1>2, <1>3, <1>4, <2>1, <2>2, <2>3
<1>7. QED
  BY <1>1, <1>5, <1>6

-----------------------------------------------------------------------------
(* What signal() wakes *)

\* The loop of signal() stops.
LEMMA PoppedIs ==
  ASSUME TypeOK, NEW c
  PROVE  /\ Popped(c) \in 0..Len(list)
         /\ \A j \in 1..Popped(c) : list[j].live => HasAvailableUnits(c - AskedBy(j - 1), list[j].nr)
         /\ Popped(c) < Len(list) => list[Popped(c) + 1].live
<1> DEFINE Fits(j) == list[j].live => HasAvailableUnits(c - AskedBy(j - 1), list[j].nr)
           K == {k \in 0..Len(list) : \A j \in 1..k : Fits(j)}
           Stops(k) == /\ \A j \in 1..k : list[j].live => HasAvailableUnits(c - AskedBy(j - 1), list[j].nr)
                       /\ k < Len(list) =>
                            /\ list[k + 1].live
                            /\ ~HasAvailableUnits(c - AskedBy(k), list[k + 1].nr)
<1>1. Len(list) \in Nat /\ list \in Seq(Entry)
  BY LenProperties DEF TypeOK
<1>2. PICK k \in K : k < Len(list) => k + 1 \notin K
  <2>1. K \in SUBSET (0..Len(list)) /\ 0 \in K
    BY <1>1
  <2> HIDE DEF K
  <2>2. QED
    BY <1>1, <2>1, LoopStops
<1>3. k < Len(list) => ~Fits(k + 1)
  <2> HIDE DEF Fits
  <2>1. SUFFICES ASSUME k < Len(list), Fits(k + 1) PROVE FALSE
    OBVIOUS
  <2>2. \A j \in 1..(k + 1) : Fits(j)
    BY <1>1, <1>2, <2>1
  <2>3. QED
    BY <1>1, <1>2, <2>1, <2>2
<1>4. Stops(k)
  <2>1. k + 1 - 1 = k
    BY <1>1
  <2>2. QED
    BY <1>2, <1>3, <2>1
<1>5. Popped(c) = CHOOSE i \in 0..Len(list) : Stops(i)
  BY DEF Popped
<1> HIDE DEF Stops
<1>6. Popped(c) \in 0..Len(list) /\ Stops(Popped(c))
  BY <1>2, <1>4, <1>5
<1>7. QED
  BY <1>6 DEF Stops

\* Every entry signal() pops wakes a fiber of its own, which asked for what the
\* entry says.
LEMMA WokenByEntry ==
  ASSUME TypeOK, IsFiniteSet(Fibers), WaitersQueued(list, fut, nr), NEW k \in 0..Len(list)
  PROVE  /\ Woken(k) \subseteq Fibers /\ \A f \in Woken(k) : fut[f] = "pending"
         /\ IsFiniteSet(Woken(k))
         /\ Cardinality(Woken(k)) = Cardinality({i \in 1..k : list[i].live})
         /\ Total(Woken(k), nr) = AskedBy(k)
<1> DEFINE front == {i \in 1..k : list[i].live}
           b == [i \in front |-> list[i].fiber]
           w == [i \in 1..k |-> list[i].nr]
<1>1. Len(list) \in Nat /\ \A i \in 1..Len(list) : list[i].fiber \in Fibers /\ list[i].nr \in Nat
  BY EntryFields DEF TypeOK
<1>2. \A i \in front : i \in 1..Len(list) /\ list[i].live
  BY <1>1
<1>3. Woken(k) \subseteq Fibers /\ \A f \in Woken(k) : fut[f] = "pending"
  BY <1>1, <1>2 DEF WaitersQueued, Woken
<1>4. b \in Bijection(front, Woken(k))
  <2>1. b \in [front -> Woken(k)] /\ \A f \in Woken(k) : \E i \in front : b[i] = f
    BY DEF Woken
  <2>2. \A i, j \in front : b[i] = b[j] => i = j
    BY <1>2 DEF WaitersQueued
  <2> HIDE DEF b, front
  <2>3. QED
    BY <2>1, <2>2 DEF Bijection, Injection, Surjection, IsInjective
<1>5. IsFiniteSet(front)
  BY RestOfList DEF TypeOK
<1>6. Cardinality(Woken(k)) = Cardinality(front) /\ IsFiniteSet(Woken(k))
  <2> HIDE DEF b, front
  <2>1. QED
    BY <1>4, <1>5, FS_Bijection DEF ExistsBijection
<1>7. \A i \in front : w[i] \in Nat /\ nr[b[i]] = w[i]
  BY <1>1, <1>2 DEF WaitersQueued
<1>8. Total(Woken(k), nr) = Total(front, w)
  <2> HIDE DEF b, front, w
  <2>1. QED
    BY <1>4, <1>5, <1>7, TotalOfRenamed
<1>9. QED
  BY <1>3, <1>6, <1>8 DEF AskedBy

-----------------------------------------------------------------------------
(* The steps *)

\* The parts of the invariant in the form the steps are proved from.
LEMMA Parts ==
  ASSUME IInv
  PROVE  /\ TypeOK /\ list \in Seq(Entry) /\ Len(list) \in Nat /\ IsFiniteSet(Fibers)
         /\ fut \in [Fibers -> FutState] /\ nr \in [Fibers -> Nat]
         /\ WaitersQueued(list, fut, nr)
         /\ size = Cardinality(Live(list)) /\ IsFiniteSet(Live(list))
         /\ list # <<>> => list[1].live
         /\ IsFiniteSet(Holders) /\ Holders \subseteq Fibers /\ HeldUnits \in Nat
<1>1. TypeOK /\ FrontNeverExpired /\ PendingIffQueued
  BY DEF IInv, WaitListSound
<1>2. list \in Seq(Entry) /\ fut \in [Fibers -> FutState] /\ nr \in [Fibers -> Nat]
  BY <1>1 DEF TypeOK
<1>3. WaitersQueued(list, fut, nr)
  BY <1>1, <1>2, WaitersByEntry DEF PendingIffQueued
<1>4. size = Cardinality(Live(list)) /\ IsFiniteSet(Live(list)) /\ (list # <<>> => list[1].live)
  BY <1>1, <1>2, LiveIsFinite DEF FrontNeverExpired, Live
<1>5. IsFiniteSet(Fibers) /\ IsFiniteSet(Holders) /\ Holders \subseteq Fibers
  BY SemaphoreAssumption, FS_Subset DEF Holders
<1>6. HeldUnits \in Nat
  BY <1>2, <1>5, TotalType DEF HeldUnits
<1>7. QED
  BY <1>1, <1>2, <1>3, <1>4, <1>5, <1>6, LenProperties

\* The wait list is sound again after a step.
LEMMA SoundAgain ==
  ASSUME TypeOK', WaitersQueued(list', fut', nr'), size' = Cardinality(Live(list')),
         list' # <<>> => list'[1].live, BrokenFreesEveryone'
  PROVE  WaitListSound'
<1>1. list' \in Seq(Entry)
  BY DEF TypeOK
<1>2. PendingIffQueued'
  BY <1>1, WaitersByEntry DEF PendingIffQueued
<1>3. FrontNeverExpired'
  BY DEF FrontNeverExpired, Live
<1>4. QED
  BY <1>2, <1>3 DEF WaitListSound

\* A fiber that was not waiting gets units, or none: the list does not change.
LEMMA NotWaitingStep ==
  ASSUME IInv, NEW f \in Fibers, fut[f] # "pending",
         NEW fs \in FutState \ {"pending"}, NEW n \in Nat,
         fut' = [fut EXCEPT ![f] = fs], nr' = [nr EXCEPT ![f] = n],
         UNCHANGED <<ex, list, size>>, count' \in Int
  PROVE  WaitListSound'
<1>1. TypeOK'
  BY Parts DEF TypeOK
<1>2. WaitersQueued(list', fut', nr')
  <2>1. \A i \in 1..Len(list) : list[i].fiber \in Fibers
    BY Parts, EntryFields
  <2>2. \A g \in Fibers : g # f => fut'[g] = fut[g] /\ nr'[g] = nr[g]
    BY Parts
  <2>3. fut'[f] # "pending"
    BY Parts
  <2>4. list' = list /\ WaitersQueued(list, fut, nr)
    BY Parts
  <2>5. \A i \in 1..Len(list) : list[i].live => list[i].fiber # f
    BY <2>4 DEF WaitersQueued
  <2>6. QED
    BY <2>1, <2>2, <2>3, <2>4, <2>5 DEF WaitersQueued
<1>3. size' = Cardinality(Live(list')) /\ (list' # <<>> => list'[1].live)
  BY Parts
<1>4. BrokenFreesEveryone'
  BY Parts DEF IInv, WaitListSound, BrokenFreesEveryone
<1>5. QED
  BY <1>1, <1>2, <1>3, <1>4, SoundAgain

\* The units held change by those of the fiber that gets some.
LEMMA HeldByOneMore ==
  ASSUME IInv, NEW f \in Fibers, f \notin Holders, NEW fs \in {"ready", "holding"}, NEW n \in Nat,
         fut' = [fut EXCEPT ![f] = fs], nr' = [nr EXCEPT ![f] = n]
  PROVE  HeldUnits' = HeldUnits + n
<1>1. Holders' = Holders \cup {f}
  BY Parts DEF Holders
<1>2. nr' \in [Fibers -> Nat] /\ nr'[f] = n /\ \A g \in Holders : nr'[g] = nr[g]
  BY Parts
<1>3. Total(Holders \cup {f}, nr') = Total(Holders, nr') + n
  <2>1. \A g \in Holders \cup {f} : nr'[g] \in Nat
    BY <1>2, Parts
  <2>2. IsFiniteSet(Holders)
    BY Parts
  <2>3. Total(Holders \cup {f}, nr') = Total(Holders, nr') + nr'[f]
    BY <2>1, <2>2, TotalOfAdded
  <2>4. QED
    BY <1>2, <2>3
<1>4. Total(Holders, nr') = Total(Holders, nr)
  BY <1>2, TotalOfEqual
<1>5. QED
  BY <1>1, <1>3, <1>4 DEF HeldUnits

LEMMA HeldBySame ==
  ASSUME IInv, Holders' = Holders, \A g \in Holders : nr'[g] = nr[g]
  PROVE  HeldUnits' = HeldUnits
<1>1. Total(Holders, nr') = Total(Holders, nr)
  BY TotalOfEqual
<1>2. QED
  BY <1>1 DEF HeldUnits

LEMMA InitEstablishes == Init => IInv
<1> SUFFICES ASSUME Init PROVE IInv
  OBVIOUS
<1>1. /\ count = Units /\ ex = FALSE /\ list = <<>> /\ size = 0
      /\ fut = [f \in Fibers |-> "idle"] /\ nr = [f \in Fibers |-> 0]
  BY DEF Init
<1>2. <<>> \in Seq(Entry) /\ Len(<<>>) = 0
  BY EmptySeq
<1>3. TypeOK
  <2>1. fut \in [Fibers -> FutState] /\ nr \in [Fibers -> Nat] /\ list \in Seq(Entry)
    BY <1>1, <1>2 DEF FutState
  <2>2. count = Units /\ ex = FALSE /\ size = 0
    BY <1>1
  <2>3. count \in Int /\ ex \in BOOLEAN /\ size \in Nat
    <3>1. Units \in Int
      BY SemaphoreAssumption
    <3>2. ex \in BOOLEAN
      BY <2>2, Zenon
    <3>3. QED
      BY <2>2, <3>1, <3>2
  <2>4. QED
    BY <2>1, <2>3 DEF TypeOK
<1>4. WaitersQueued(list, fut, nr)
  BY <1>1, <1>2 DEF WaitersQueued
<1>5. size = Cardinality(Live(list))
  <2>1. Live(list) = {}
    BY <1>1, <1>2 DEF Live
  <2>2. QED
    BY <1>1, <2>1, FS_EmptySet
<1>6. PendingIffQueued /\ FrontNeverExpired /\ BrokenFreesEveryone
  <2>1. list \in Seq(Entry)
    BY <1>1, <1>2
  <2>2. PendingIffQueued
    BY <1>4, <2>1, WaitersByEntry DEF PendingIffQueued
  <2>3. QED
    BY <1>1, <1>5, <2>2 DEF FrontNeverExpired, BrokenFreesEveryone, Live
<1>7. UnitsConserved
  <2>1. Holders = {}
    BY <1>1 DEF Holders
  <2>2. HeldUnits = 0
    BY <2>1, TotalOfEmpty DEF HeldUnits
  <2>3. QED
    BY <1>1, <2>2, SemaphoreAssumption DEF UnitsConserved
<1>8. QED
  BY <1>3, <1>6, <1>7 DEF IInv, WaitListSound

\* wait() puts the fiber at the end of the list.
LEMMA WaitQueues ==
  ASSUME IInv, NEW f \in Fibers, NEW n \in Nat, NEW timed \in BOOLEAN, fut[f] = "idle", ~ex,
         list' = Append(list, [fiber |-> f, nr |-> n, timed |-> timed, live |-> TRUE]),
         size' = size + 1, fut' = [fut EXCEPT ![f] = "pending"], nr' = [nr EXCEPT ![f] = n],
         UNCHANGED <<ex, count>>
  PROVE  IInv'
<1> DEFINE e == [fiber |-> f, nr |-> n, timed |-> timed, live |-> TRUE]
           L == Len(list)
<1>1. e \in Entry /\ e.fiber = f /\ e.nr = n /\ e.live
  BY DEF Entry
<1>2. list' = Append(list, e)
  OBVIOUS
<1> HIDE DEF e, L
<1>3. /\ list' \in Seq(Entry) /\ Len(list') = L + 1 /\ L \in Nat
      /\ \A i \in 1..L : list'[i] = list[i]
      /\ list'[L + 1] = e
  BY <1>1, <1>2, Parts, AppendProperties DEF L
<1>4. /\ fut' \in [Fibers -> FutState] /\ nr' \in [Fibers -> Nat] /\ fut'[f] = "pending" /\ nr'[f] = n
      /\ \A g \in Fibers : g # f => fut'[g] = fut[g] /\ nr'[g] = nr[g]
  BY Parts DEF FutState
<1>5. \A i \in 1..L : list[i].live => list[i].fiber \in Fibers /\ list[i].fiber # f
  BY Parts, EntryFields DEF WaitersQueued, L
<1>6. WaitersQueued(list', fut', nr')
  <2>1. \A i \in 1..(L + 1) : i \in 1..L \/ i = L + 1
    BY <1>3
  <2>2. \A i \in 1..Len(list') :
          list'[i].live => fut'[list'[i].fiber] = "pending" /\ list'[i].nr = nr'[list'[i].fiber]
    <3>1. SUFFICES ASSUME NEW i \in 1..(L + 1), list'[i].live
                   PROVE  fut'[list'[i].fiber] = "pending" /\ list'[i].nr = nr'[list'[i].fiber]
      BY <1>3
    <3>2. CASE i \in 1..L
      BY <1>3, <1>4, <1>5, <3>1, <3>2, Parts DEF WaitersQueued, L
    <3>3. CASE i = L + 1
      BY <1>1, <1>3, <1>4, <3>3
    <3>4. QED
      BY <2>1, <3>2, <3>3
  <2>3. ASSUME NEW g \in Fibers, fut'[g] = "pending"
        PROVE  \E i \in 1..Len(list') : list'[i].live /\ list'[i].fiber = g
    <3>1. CASE g = f
      <4>1. L + 1 \in 1..Len(list')
        BY <1>3
      <4>2. QED
        BY <1>1, <1>3, <3>1, <4>1
    <3>2. CASE g # f
      <4>1. PICK i \in 1..L : list[i].live /\ list[i].fiber = g
        BY <1>4, <2>3, <3>2, Parts DEF WaitersQueued, L
      <4>2. i \in 1..Len(list') /\ list'[i] = list[i]
        BY <1>3
      <4>3. QED
        BY <4>1, <4>2
    <3>3. QED
      BY <3>1, <3>2
  <2>4. ASSUME NEW i \in 1..Len(list'), NEW j \in 1..Len(list'),
               list'[i].live, list'[j].live, list'[i].fiber = list'[j].fiber
        PROVE  i = j
    <3>1. CASE i \in 1..L /\ j \in 1..L
      BY <1>3, <2>4, <3>1, Parts DEF WaitersQueued, L
    <3>2. CASE i = L + 1 /\ j = L + 1
      BY <3>2
    <3>3. CASE i \in 1..L /\ j = L + 1
      BY <1>1, <1>3, <1>5, <2>4, <3>3
    <3>4. CASE i = L + 1 /\ j \in 1..L
      BY <1>1, <1>3, <1>5, <2>4, <3>4
    <3>5. QED
      BY <1>3, <2>1, <3>1, <3>2, <3>3, <3>4
  <2>5. QED
    BY <2>2, <2>3, <2>4 DEF WaitersQueued
<1>7. Live(list') = Live(list) \cup {L + 1} /\ L + 1 \notin Live(list)
  BY <1>1, <1>3 DEF Live, L
<1>8. size' = Cardinality(Live(list'))
  <2>1. IsFiniteSet(Live(list)) /\ size = Cardinality(Live(list))
    BY Parts
  <2>2. Cardinality(Live(list) \cup {L + 1}) = Cardinality(Live(list)) + 1
    BY <1>7, <2>1, FS_AddElement
  <2>3. QED
    BY <1>7, <2>1, <2>2
<1>9. list'[1].live
  <2>1. CASE L = 0
    BY <1>1, <1>3, <2>1
  <2>2. CASE L # 0
    <3>1. list # <<>> /\ 1 \in 1..L
      BY <1>3, <2>2, EmptySeq DEF L
    <3>2. QED
      BY <1>3, <3>1, Parts
  <2>3. QED
    BY <2>1, <2>2
<1>10. TypeOK'
  <2>1. size' \in Nat
    BY Parts DEF TypeOK
  <2>2. QED
    BY <1>3, <1>4, <2>1, Parts DEF TypeOK
<1>11. WaitListSound'
  BY <1>6, <1>8, <1>9, <1>10, SoundAgain DEF BrokenFreesEveryone
<1>12. UnitsConserved'
  <2>1. Holders' = Holders /\ \A g \in Holders : nr'[g] = nr[g]
    BY <1>4, Parts DEF Holders
  <2>2. HeldUnits' = HeldUnits
    BY <2>1, HeldBySame
  <2>3. QED
    BY <2>2 DEF IInv, UnitsConserved
<1>13. QED
  BY <1>11, <1>12 DEF IInv

\* The fibers whose entries are among the first k of l wait no more, and nothing
\* changes for the others that wait.
FrontLeaves(l, k, s, m, t, o) ==
  /\ \A f \in Fibers : t[f] = "pending" => s[f] = "pending" /\ o[f] = m[f]
  /\ \A f \in Fibers : s[f] = "pending" /\ t[f] # "pending"
                       => \E i \in 1..k : l[i].live /\ l[i].fiber = f
  /\ \A i \in 1..k : l[i].live => t[l[i].fiber] # "pending"

\* What is left of a list once such a front is popped.
LEMMA WaitersOfRest ==
  ASSUME NEW l \in Seq(Entry), NEW k \in 0..Len(l), NEW s, NEW m, WaitersQueued(l, s, m),
         NEW t, NEW o, FrontLeaves(l, k, s, m, t, o)
  PROVE  WaitersQueued(SubSeq(l, k + 1, Len(l)), t, o)
<1> DEFINE r == SubSeq(l, k + 1, Len(l))
           L == Len(l)
<1>1. /\ L \in Nat /\ k \in Nat /\ k <= L /\ Len(r) = L - k
      /\ \A i \in 1..(L - k) : r[i] = l[k + i]
      /\ \A i \in 1..L : l[i].fiber \in Fibers
  BY RestOfList, EntryFields
<1>2. /\ \A i \in 1..L : l[i].live => s[l[i].fiber] = "pending" /\ l[i].nr = m[l[i].fiber]
      /\ \A f \in Fibers : s[f] = "pending" => \E i \in 1..L : l[i].live /\ l[i].fiber = f
      /\ \A i, j \in 1..L : l[i].live /\ l[j].live /\ l[i].fiber = l[j].fiber => i = j
  BY DEF WaitersQueued
<1>7. /\ \A f \in Fibers : t[f] = "pending" => s[f] = "pending" /\ o[f] = m[f]
      /\ \A f \in Fibers : s[f] = "pending" /\ t[f] # "pending"
                           => \E i \in 1..k : l[i].live /\ l[i].fiber = f
      /\ \A i \in 1..k : l[i].live => t[l[i].fiber] # "pending"
  BY DEF FrontLeaves
<1> HIDE DEF r, L
<1>3. \A i \in 1..(L - k) : k + i \in 1..L /\ ~(k + i \in 1..k)
  BY <1>1
<1>4. \A i \in 1..Len(r) : r[i].live => t[r[i].fiber] = "pending" /\ r[i].nr = o[r[i].fiber]
  <2> SUFFICES ASSUME NEW i \in 1..Len(r), r[i].live
               PROVE  t[r[i].fiber] = "pending" /\ r[i].nr = o[r[i].fiber]
    OBVIOUS
  <2>0. i \in 1..(L - k)
    BY <1>1
  <2>1. r[i] = l[k + i] /\ l[k + i].live
    BY <1>1, <2>0
  <2>2. s[l[k + i].fiber] = "pending" /\ l[k + i].nr = m[l[k + i].fiber] /\ l[k + i].fiber \in Fibers
    BY <1>1, <1>2, <1>3, <2>0, <2>1
  <2>3. t[l[k + i].fiber] = "pending"
    <3>1. SUFFICES ASSUME t[l[k + i].fiber] # "pending" PROVE FALSE
      OBVIOUS
    <3>2. PICK j \in 1..k : l[j].live /\ l[j].fiber = l[k + i].fiber
      BY <1>7, <2>2, <3>1
    <3>3. j \in 1..L
      BY <1>1
    <3>4. j = k + i
      BY <1>2, <1>3, <2>0, <2>1, <3>2, <3>3
    <3>5. QED
      BY <1>3, <2>0, <3>4
  <2>4. o[l[k + i].fiber] = m[l[k + i].fiber]
    BY <1>7, <2>2, <2>3
  <2>5. QED
    BY <2>1, <2>2, <2>3, <2>4
<1>5. ASSUME NEW f \in Fibers, t[f] = "pending"
      PROVE  \E i \in 1..Len(r) : r[i].live /\ r[i].fiber = f
  <2>1. PICK j \in 1..L : l[j].live /\ l[j].fiber = f
    BY <1>2, <1>5, <1>7
  <2>2. ~(j \in 1..k)
    BY <1>5, <1>7, <2>1
  <2>3. j - k \in 1..Len(r) /\ k + (j - k) = j
    BY <1>1, <2>2
  <2>4. r[j - k] = l[j]
    BY <1>1, <2>3
  <2>5. QED
    BY <2>1, <2>3, <2>4
<1>6. \A i, j \in 1..Len(r) : r[i].live /\ r[j].live /\ r[i].fiber = r[j].fiber => i = j
  <2> SUFFICES ASSUME NEW i \in 1..Len(r), NEW j \in 1..Len(r), r[i].live, r[j].live,
                      r[i].fiber = r[j].fiber
               PROVE  i = j
    OBVIOUS
  <2>1. i \in 1..(L - k) /\ j \in 1..(L - k)
    BY <1>1
  <2>2. r[i] = l[k + i] /\ r[j] = l[k + j] /\ k + i \in 1..L /\ k + j \in 1..L
    BY <1>1, <1>3, <2>1
  <2>3. k + i = k + j
    BY <1>2, <2>2
  <2>4. QED
    BY <1>1, <2>1, <2>3
<1>8. QED
  BY <1>4, <1>5, <1>6 DEF WaitersQueued, r

\* The step of a fiber that returns its units, on a semaphore in order.
LEMMA ReturnWakes ==
  ASSUME IInv, NEW f \in Fibers, Return(f), ~ex
  PROVE  \E k \in 0..Len(list) :
           /\ count' = (count + nr[f]) - AskedBy(k)
           /\ list' = SubSeq(list, k + 1, Len(list))
           /\ size' = size - Cardinality(Woken(k))
           /\ fut' = [g \in Fibers |-> IF g \in Woken(k) THEN "ready"
                                       ELSE IF g = f THEN "idle" ELSE fut[g]]
           /\ nr' = [nr EXCEPT ![f] = 0] /\ ex' = ex
           /\ k < Len(list) => list[k + 1].live
<1> DEFINE k == Popped(count + nr[f])
<1>1. k \in 0..Len(list) /\ (k < Len(list) => list[k + 1].live)
  BY PoppedIs, Parts
<1>2. Signal(f, nr[f], "idle") /\ nr' = [nr EXCEPT ![f] = 0] /\ ex' = ex
  BY DEF Return
<1>3. /\ count' = (count + nr[f]) - AskedBy(k)
      /\ list' = SubSeq(list, k + 1, Len(list))
      /\ size' = size - Cardinality(Woken(k))
      /\ fut' = [g \in Fibers |-> IF g \in Woken(k) THEN "ready"
                                  ELSE IF g = f THEN "idle" ELSE fut[g]]
  BY <1>2 DEF Signal
<1> HIDE DEF k
<1>4. QED
  BY <1>1, <1>2, <1>3

LEMMA ReturnPreserves == ASSUME IInv, NEW f \in Fibers, Return(f) PROVE IInv'
<1>1. fut[f] = "holding"
  BY DEF Return
<1>2. CASE ex
  <2>1. /\ fut' = [fut EXCEPT ![f] = "idle"] /\ nr' = [nr EXCEPT ![f] = 0]
        /\ UNCHANGED <<count, list, size, ex>>
    BY <1>2 DEF Return, Signal
  <2>2. WaitListSound'
    BY <1>1, <2>1, Parts, NotWaitingStep DEF FutState, TypeOK
  <2>3. QED
    BY <1>2, <2>1, <2>2 DEF IInv, UnitsConserved
<1>3. CASE ~ex
  <2>1. PICK k \in 0..Len(list) :
           /\ count' = (count + nr[f]) - AskedBy(k)
           /\ list' = SubSeq(list, k + 1, Len(list))
           /\ size' = size - Cardinality(Woken(k))
           /\ fut' = [g \in Fibers |-> IF g \in Woken(k) THEN "ready"
                                       ELSE IF g = f THEN "idle" ELSE fut[g]]
           /\ nr' = [nr EXCEPT ![f] = 0] /\ ex' = ex
           /\ k < Len(list) => list[k + 1].live
    BY <1>3, ReturnWakes
  <2>2. /\ Woken(k) \subseteq Fibers /\ \A g \in Woken(k) : fut[g] = "pending"
        /\ IsFiniteSet(Woken(k))
        /\ Cardinality(Woken(k)) = Cardinality({i \in 1..k : list[i].live})
        /\ Total(Woken(k), nr) = AskedBy(k)
    BY Parts, WokenByEntry
  <2>3. f \notin Woken(k)
    BY <1>1, <2>2
  <2>4. /\ list' \in Seq(Entry) /\ Len(list') = Len(list) - k
        /\ \A i \in 1..(Len(list) - k) : list'[i] = list[k + i]
        /\ Cardinality(Live(list')) = Cardinality(Live(list)) - Cardinality(Woken(k))
    BY <2>1, <2>2, Parts, RestOfList
  <2>5. WaitersQueued(list', fut', nr')
    <3>1. \A g \in Fibers : fut'[g] = "pending" => fut[g] = "pending" /\ nr'[g] = nr[g]
      BY <2>1, Parts
    <3>2. \A g \in Fibers : fut[g] = "pending" /\ fut'[g] # "pending"
                            => \E i \in 1..k : list[i].live /\ list[i].fiber = g
      BY <1>1, <2>1 DEF Woken
    <3>3. \A i \in 1..k : list[i].live => list[i].fiber \in Woken(k)
      BY DEF Woken
    <3>4. \A i \in 1..k : list[i].live => fut'[list[i].fiber] # "pending"
      BY <2>1, <2>2, <3>3
    <3>5. WaitersQueued(SubSeq(list, k + 1, Len(list)), fut', nr')
      <4>1. FrontLeaves(list, k, fut, nr, fut', nr')
        BY <3>1, <3>2, <3>4 DEF FrontLeaves
      <4>2. list \in Seq(Entry) /\ WaitersQueued(list, fut, nr)
        BY Parts
      <4>3. QED
        BY <4>1, <4>2, WaitersOfRest
    <3>6. QED
      BY <2>1, <3>5
  <2>6. size' = Cardinality(Live(list'))
    BY <2>1, <2>4, Parts
  <2>7. list' # <<>> => list'[1].live
    <3>1. ASSUME list' # <<>> PROVE k < Len(list) /\ list'[1] = list[k + 1]
      <4>1. Len(list') \in Nat \ {0}
        BY <2>4, <3>1, EmptySeq
      <4>2. QED
        BY <2>4, <4>1, Parts
    <3>2. QED
      BY <2>1, <3>1
  <2>8. AskedBy(k) \in Nat
    <3>1. \A g \in Woken(k) : nr[g] \in Nat
      BY <2>2, Parts
    <3>2. QED
      BY <2>2, <3>1, TotalType
  <2>9. TypeOK'
    <3>1. fut' \in [Fibers -> FutState] /\ nr' \in [Fibers -> Nat]
      BY <2>1, Parts DEF FutState
    <3>2. size' \in Nat
      BY <2>4, <2>6, LiveIsFinite
    <3>3. count' \in Int
      BY <2>1, <2>8, Parts DEF TypeOK
    <3>4. ex' \in BOOLEAN
      BY <2>1, Parts DEF TypeOK
    <3>5. QED
      BY <2>4, <3>1, <3>2, <3>3, <3>4 DEF TypeOK
  <2>10. WaitListSound'
    BY <1>3, <2>1, <2>5, <2>6, <2>7, <2>9, SoundAgain DEF BrokenFreesEveryone
  <2>11. HeldUnits' = (HeldUnits - nr[f]) + AskedBy(k)
    <3>1. f \in Holders /\ Holders \cap Woken(k) = {} /\ IsFiniteSet(Holders \ {f})
      BY <1>1, <2>2, Parts, FS_RemoveElement DEF Holders
    <3>2. Holders' = (Holders \ {f}) \cup Woken(k)
      BY <1>1, <2>1, <2>2 DEF Holders
    <3>3. \A g \in (Holders \ {f}) \cup Woken(k) : nr'[g] = nr[g] /\ nr[g] \in Nat
      BY <2>1, <2>2, <2>3, Parts
    <3>4. Total((Holders \ {f}) \cup Woken(k), nr') = Total((Holders \ {f}) \cup Woken(k), nr)
      BY <3>3, TotalOfEqual
    <3>5. Total((Holders \ {f}) \cup Woken(k), nr) = Total(Holders \ {f}, nr) + Total(Woken(k), nr)
      BY <2>2, <3>1, <3>3, TotalOfUnion
    <3>6. HeldUnits = Total(Holders \ {f}, nr) + nr[f]
      <4>1. (Holders \ {f}) \cup {f} = Holders /\ f \notin Holders \ {f}
        BY <3>1
      <4>2. \A g \in (Holders \ {f}) \cup {f} : nr[g] \in Nat
        BY Parts
      <4>3. Total((Holders \ {f}) \cup {f}, nr) = Total(Holders \ {f}, nr) + nr[f]
        BY <3>1, <4>1, <4>2, TotalOfAdded
      <4>4. QED
        BY <4>1, <4>3 DEF HeldUnits
    <3>7. Total(Holders \ {f}, nr) \in Nat /\ nr[f] \in Nat
      BY <3>1, <3>3, Parts, TotalType
    <3>8. QED
      BY <2>2, <2>8, <3>2, <3>4, <3>5, <3>6, <3>7 DEF HeldUnits
  <2>12. UnitsConserved'
    <3>1. count + HeldUnits = Units /\ count \in Int /\ HeldUnits \in Nat /\ nr[f] \in Nat
      BY <1>3, Parts DEF IInv, UnitsConserved, TypeOK
    <3>2. count' + HeldUnits' = Units
      <4>1. \A c, h, n, a \in Int : ((c + n) - a) + ((h - n) + a) = c + h
        OBVIOUS
      <4>2. count \in Int /\ HeldUnits \in Int /\ nr[f] \in Int /\ AskedBy(k) \in Int
        BY <2>8, <3>1
      <4>3. count' = (count + nr[f]) - AskedBy(k)
        BY <2>1
      <4>4. QED
        BY <2>11, <3>1, <4>1, <4>2, <4>3
    <3>3. QED
      BY <3>2 DEF UnitsConserved
  <2>13. QED
    BY <2>10, <2>12 DEF IInv
<1>4. QED
  BY <1>2, <1>3

\* The list when the payload of entry i is dropped.
LEMMA ExpiredEntry ==
  ASSUME NEW l \in Seq(Entry), NEW i \in 1..Len(l), l[i].live
  PROVE  LET x == [l EXCEPT ![i].live = FALSE]
         IN  /\ x \in Seq(Entry) /\ Len(x) = Len(l) /\ Len(l) \in Nat
             /\ ~x[i].live /\ \A j \in 1..Len(l) : j # i => x[j] = l[j]
             /\ Cardinality(Live(x)) = Cardinality(Live(l)) - 1
<1> DEFINE x == [l EXCEPT ![i].live = FALSE]
           L == Len(l)
<1>1. L \in Nat /\ l \in [1..L -> Entry]
  BY LenProperties, ElementOfSeq
<1> DEFINE e == [l[i] EXCEPT !.live = FALSE]
<1>2. x = [l EXCEPT ![i] = e]
  OBVIOUS
<1>3. e \in Entry /\ ~e.live
  BY <1>1 DEF Entry
<1> HIDE DEF e, x
<1>4. x \in Seq(Entry) /\ Len(x) = L /\ \A j \in 1..L : x[j] = IF j = i THEN e ELSE l[j]
  BY <1>2, <1>3, ExceptSeq
<1>5. ~x[i].live /\ \A j \in 1..L : j # i => x[j] = l[j]
  BY <1>3, <1>4
<1> HIDE DEF L
<1>6. Live(x) = Live(l) \ {i} /\ i \in Live(l)
  BY <1>4, <1>5 DEF Live, L
<1>7. Cardinality(Live(l) \ {i}) = Cardinality(Live(l)) - 1
  BY <1>6, LiveIsFinite, FS_RemoveElement
<1>8. QED
  BY <1>1, <1>4, <1>5, <1>6, <1>7 DEF x, L

LEMMA ExpirePreserves == ASSUME IInv, NEW i \in 1..Len(list), Expire(i) PROVE IInv'
<1> DEFINE x == [list EXCEPT ![i].live = FALSE]
           g == list[i].fiber
<1>1. /\ list[i].live /\ fut' = [fut EXCEPT ![g] = "timed_out"] /\ size' = size - 1
      /\ list' = DropExpiredFront(x) /\ UNCHANGED <<count, ex, nr>>
  BY DEF Expire
<1>2. /\ x \in Seq(Entry) /\ Len(x) = Len(list) /\ Len(list) \in Nat
      /\ ~x[i].live /\ \A j \in 1..Len(list) : j # i => x[j] = list[j]
      /\ Cardinality(Live(x)) = Cardinality(Live(list)) - 1
  BY <1>1, Parts, ExpiredEntry
<1>3. \A j \in 1..Len(list) : list[j].fiber \in Fibers
  BY Parts, EntryFields
<1>4. /\ \A j \in 1..Len(list) : list[j].live => fut[list[j].fiber] = "pending" /\ list[j].nr = nr[list[j].fiber]
      /\ \A f \in Fibers : fut[f] = "pending" => \E j \in 1..Len(list) : list[j].live /\ list[j].fiber = f
      /\ \A j, h \in 1..Len(list) : list[j].live /\ list[h].live /\ list[j].fiber = list[h].fiber => j = h
  BY Parts DEF WaitersQueued
<1> HIDE DEF x, g
<1>5. /\ g \in Fibers /\ g = list[i].fiber /\ fut[g] = "pending" /\ fut'[g] = "timed_out"
      /\ \A f \in Fibers : f # g => fut'[f] = fut[f]
      /\ fut' \in [Fibers -> FutState]
  BY <1>1, <1>3, <1>4, Parts DEF g, FutState
<1>6. WaitersQueued(x, fut', nr)
  <2>1. ASSUME NEW j \in 1..Len(x), x[j].live PROVE fut'[x[j].fiber] = "pending" /\ x[j].nr = nr[x[j].fiber]
    <3>1. j \in 1..Len(list) /\ j # i /\ x[j] = list[j]
      BY <1>2, <2>1
    <3>2. list[j].fiber # g
      BY <1>1, <1>4, <1>5, <2>1, <3>1
    <3>3. QED
      BY <1>3, <1>4, <1>5, <2>1, <3>1, <3>2
  <2>2. ASSUME NEW f \in Fibers, fut'[f] = "pending" PROVE \E j \in 1..Len(x) : x[j].live /\ x[j].fiber = f
    <3>1. f # g
      BY <1>5, <2>2
    <3>2. PICK j \in 1..Len(list) : list[j].live /\ list[j].fiber = f
      BY <1>4, <1>5, <2>2, <3>1
    <3>3. j # i
      BY <1>5, <3>1, <3>2
    <3>4. QED
      BY <1>2, <3>2, <3>3
  <2>3. ASSUME NEW j \in 1..Len(x), NEW h \in 1..Len(x), x[j].live, x[h].live, x[j].fiber = x[h].fiber
        PROVE  j = h
    BY <1>2, <1>4, <2>3
  <2>4. QED
    BY <2>1, <2>2, <2>3 DEF WaitersQueued
<1>7. PICK k \in 0..Len(x) :
        /\ list' = SubSeq(x, k + 1, Len(x))
        /\ \A j \in 1..k : ~x[j].live
        /\ k < Len(x) => x[k + 1].live
  BY <1>1, <1>2, DropExpiredFrontIs
<1> DEFINE front == {j \in 1..k : x[j].live}
<1>8. /\ list' \in Seq(Entry) /\ Len(list') = Len(x) - k
      /\ \A j \in 1..(Len(x) - k) : list'[j] = x[k + j]
      /\ Cardinality(Live(list')) = Cardinality(Live(x)) - Cardinality(front)
  BY <1>2, <1>7, RestOfList
<1>9. WaitersQueued(list', fut', nr')
  <2>1. FrontLeaves(x, k, fut', nr, fut', nr)
    BY <1>7 DEF FrontLeaves
  <2>2. WaitersQueued(SubSeq(x, k + 1, Len(x)), fut', nr)
    BY <1>2, <1>6, <2>1, WaitersOfRest
  <2>3. QED
    BY <1>1, <1>7, <2>2
<1>10. size' = Cardinality(Live(list')) /\ size' \in Nat
  <2>1. front = {}
    BY <1>7
  <2> HIDE DEF front
  <2>2. Cardinality(Live(list')) \in Nat
    BY <1>8, LiveIsFinite
  <2>3. Cardinality(Live(x)) \in Nat
    BY <1>2, LiveIsFinite
  <2>4. Cardinality(Live(list')) = Cardinality(Live(x))
    BY <1>8, <2>1, <2>3, FS_EmptySet
  <2>5. QED
    BY <1>1, <1>2, <2>2, <2>4, Parts
<1>11. list' # <<>> => list'[1].live
  <2>1. ASSUME list' # <<>> PROVE k < Len(x) /\ list'[1] = x[k + 1]
    <3>1. Len(list') \in Nat \ {0}
      BY <1>8, <2>1, EmptySeq, LenProperties
    <3>2. QED
      BY <1>2, <1>8, <3>1
  <2>2. QED
    BY <1>7, <2>1
<1>12. ~ex /\ ~ex'
  <2>1. \E f \in Fibers : fut[f] = "pending"
    BY <1>5
  <2>2. QED
    BY <1>1, <2>1 DEF IInv, WaitListSound, BrokenFreesEveryone
<1>13. WaitListSound'
  <2>1. TypeOK'
    BY <1>1, <1>5, <1>8, <1>10, Parts DEF TypeOK
  <2>2. QED
    BY <1>9, <1>10, <1>11, <1>12, <2>1, SoundAgain DEF BrokenFreesEveryone
<1>14. UnitsConserved'
  <2>1. Holders' = Holders /\ \A f \in Holders : nr'[f] = nr[f]
    BY <1>1, <1>5 DEF Holders
  <2>2. HeldUnits' = HeldUnits
    BY <2>1, HeldBySame
  <2>3. QED
    BY <1>1, <1>12, <2>2 DEF IInv, UnitsConserved
<1>15. QED
  BY <1>13, <1>14 DEF IInv

LEMMA BrokenPreserves == ASSUME IInv, Broken PROVE IInv'
<1>1. /\ ex' = TRUE /\ count' = 0 /\ list' = <<>> /\ size' = 0 /\ nr' = nr
      /\ fut' = [f \in Fibers |-> IF fut[f] = "pending" THEN "broken" ELSE fut[f]]
  BY DEF Broken
<1>2. list' \in Seq(Entry) /\ Len(list') = 0
  BY <1>1, EmptySeq
<1>3. fut' \in [Fibers -> FutState] /\ \A f \in Fibers : fut'[f] # "pending"
  BY <1>1, Parts DEF FutState
<1>4. TypeOK'
  <2>1. nr' \in [Fibers -> Nat]
    BY <1>1, Parts
  <2>2. ex' \in BOOLEAN
    BY <1>1, Zenon
  <2>3. QED
    BY <1>1, <1>2, <1>3, <2>1, <2>2 DEF TypeOK
<1>5. WaitersQueued(list', fut', nr')
  BY <1>2, <1>3 DEF WaitersQueued
<1>6. size' = Cardinality(Live(list'))
  <2>1. Live(list') = {}
    BY <1>2 DEF Live
  <2>2. QED
    BY <1>1, <2>1, FS_EmptySet
<1>7. WaitListSound'
  BY <1>1, <1>3, <1>4, <1>5, <1>6, SoundAgain DEF BrokenFreesEveryone
<1>8. QED
  BY <1>1, <1>7 DEF IInv, UnitsConserved

\* A fiber gets n units without waiting.
LEMMA GrantPreserves ==
  ASSUME IInv, NEW f \in Fibers, fut[f] = "idle", NEW fs \in {"ready", "holding"}, NEW n \in Nat,
         fut' = [fut EXCEPT ![f] = fs], nr' = [nr EXCEPT ![f] = n],
         UNCHANGED <<ex, list, size>>, count' = IF ex THEN count' ELSE count - n, count' \in Int
  PROVE  IInv'
<1>1. WaitListSound'
  <2>1. fs \in FutState \ {"pending"} /\ fut[f] # "pending"
    BY DEF FutState
  <2>2. QED
    BY <2>1, NotWaitingStep
<1>2. HeldUnits' = HeldUnits + n
  <2>1. f \notin Holders
    BY DEF Holders
  <2>2. QED
    BY <2>1, HeldByOneMore
<1>3. UnitsConserved'
  <2>1. SUFFICES ASSUME ~ex PROVE count' + HeldUnits' = Units
    BY DEF UnitsConserved
  <2>2. count + HeldUnits = Units /\ count \in Int /\ HeldUnits \in Nat /\ count' = count - n
    BY <2>1, Parts DEF IInv, UnitsConserved, TypeOK
  <2>3. QED
    BY <1>2, <2>2
<1>4. QED
  BY <1>1, <1>3 DEF IInv

LEMMA WaitPreserves ==
  ASSUME IInv, NEW f \in Fibers, NEW n \in Nrs, NEW timed \in BOOLEAN, Wait(f, n, timed)
  PROVE  IInv'
<1>1. n \in Nat /\ count \in Int
  BY SemaphoreAssumption, Parts DEF TypeOK
<1>2. fut[f] = "idle" /\ nr' = [nr EXCEPT ![f] = n] /\ ex' = ex
  BY DEF Wait
<1>3. CASE /\ count' = count - n /\ fut' = [fut EXCEPT ![f] = "ready"] /\ UNCHANGED <<list, size>>
  <2>1. count' \in Int
    BY <1>1, <1>3
  <2>2. QED
    BY <1>1, <1>2, <1>3, <2>1, GrantPreserves
<1>4. CASE /\ ex /\ fut' = [fut EXCEPT ![f] = "broken"] /\ UNCHANGED <<count, list, size>>
  <2>1. WaitListSound'
    <3>1. "broken" \in FutState \ {"pending"} /\ fut[f] # "pending" /\ count' \in Int
      BY <1>1, <1>2, <1>4 DEF FutState
    <3>2. QED
      BY <1>1, <1>2, <1>4, <3>1, NotWaitingStep
  <2>2. QED
    BY <1>2, <1>4, <2>1 DEF IInv, UnitsConserved
<1>5. CASE /\ ~ex /\ list' = Append(list, [fiber |-> f, nr |-> n, timed |-> timed, live |-> TRUE])
           /\ size' = size + 1 /\ fut' = [fut EXCEPT ![f] = "pending"] /\ UNCHANGED count
  BY <1>1, <1>2, <1>5, WaitQueues
<1>6. QED
  BY <1>3, <1>4, <1>5 DEF Wait

LEMMA RunContinuationPreserves == ASSUME IInv, NEW f \in Fibers, RunContinuation(f) PROVE IInv'
<1> DEFINE fs == IF fut[f] = "ready" THEN "holding" ELSE "idle"
           n == IF fut[f] = "ready" THEN nr[f] ELSE 0
<1>1. /\ fut[f] \in {"ready", "timed_out", "broken"}
      /\ fut' = [fut EXCEPT ![f] = fs] /\ nr' = [nr EXCEPT ![f] = n]
      /\ UNCHANGED <<count, ex, list, size>>
  BY DEF RunContinuation
<1>2. /\ fs \in FutState \ {"pending"} /\ n \in Nat /\ fut[f] # "pending"
      /\ (fut[f] = "ready" <=> fs = "holding") /\ (fut[f] = "ready" => n = nr[f])
      /\ (fs = "holding" \/ fs = "idle")
  BY <1>1, Parts DEF FutState
<1> HIDE DEF fs, n
<1>3. WaitListSound'
  <2>1. count' \in Int
    BY <1>1, Parts DEF TypeOK
  <2>2. QED
    BY <1>1, <1>2, <2>1, NotWaitingStep
<1>4. Holders' = Holders /\ \A g \in Holders : nr'[g] = nr[g]
  <2>1. \A g \in Fibers : fut'[g] \in {"ready", "holding"} <=> fut[g] \in {"ready", "holding"}
    BY <1>1, <1>2, Parts
  <2>2. \A g \in Holders : nr'[g] = nr[g]
    BY <1>1, <1>2, Parts DEF Holders
  <2>3. QED
    BY <2>1, <2>2 DEF Holders
<1>5. HeldUnits' = HeldUnits
  BY <1>4, HeldBySame
<1>6. QED
  BY <1>1, <1>3, <1>5 DEF IInv, UnitsConserved

LEMMA NextPreserves == IInv /\ [Next]_vars => IInv'
<1> SUFFICES ASSUME IInv, [Next]_vars PROVE IInv'
  OBVIOUS
<1>1. ASSUME NEW f \in Fibers, NEW n \in Nrs, TryWait(f, n) PROVE IInv'
  <2>1. n \in Nat /\ count \in Int
    BY SemaphoreAssumption, Parts DEF TypeOK
  <2>2. /\ fut[f] = "idle" /\ count' = count - n /\ fut' = [fut EXCEPT ![f] = "ready"]
        /\ nr' = [nr EXCEPT ![f] = n] /\ UNCHANGED <<ex, list, size>>
    BY <1>1 DEF TryWait
  <2>3. count' \in Int
    BY <2>1, <2>2
  <2>4. QED
    BY <2>1, <2>2, <2>3, GrantPreserves
<1>2. ASSUME NEW f \in Fibers, NEW n \in Consumed, ConsumeUnits(f, n) PROVE IInv'
  <2>1. n \in Nat /\ count \in Int
    BY SemaphoreAssumption, Parts DEF TypeOK
  <2>2. /\ fut[f] = "idle" /\ count' = (IF ex THEN count ELSE count - n)
        /\ fut' = [fut EXCEPT ![f] = "holding"]
        /\ nr' = [nr EXCEPT ![f] = n] /\ UNCHANGED <<ex, list, size>>
    BY <1>2 DEF ConsumeUnits
  <2>3. count' \in Int /\ count' = IF ex THEN count' ELSE count - n
    BY <2>1, <2>2
  <2>4. QED
    BY <2>1, <2>2, <2>3, GrantPreserves
<1>3. CASE UNCHANGED vars
  <2>1. /\ count' = count /\ ex' = ex /\ list' = list /\ size' = size /\ fut' = fut /\ nr' = nr
    BY <1>3 DEF vars
  <2>2. WaitListSound'
    BY <2>1 DEF IInv, WaitListSound, TypeOK, FrontNeverExpired, PendingIffQueued, BrokenFreesEveryone
  <2>3. UnitsConserved'
    BY <2>1 DEF IInv, UnitsConserved, HeldUnits, Holders
  <2>4. QED
    BY <2>2, <2>3 DEF IInv
<1>4. QED
  BY <1>1, <1>2, <1>3, WaitPreserves, RunContinuationPreserves, ReturnPreserves, ExpirePreserves,
     BrokenPreserves DEF Next

LEMMA InvariantHolds == Spec => []IInv
<1>1. QED
  BY InitEstablishes, NextPreserves, PTL DEF Spec

-----------------------------------------------------------------------------
(* The theorems *)

\* expiring_fifo.hh:80 and what signal(), broken() and the timers rely on:
\* whatever mix of them touched the wait list, its front has not expired, its
\* size is right, and the pending promises are those in it, once each.
THEOREM WaitListSoundHolds == Spec => []WaitListSound
<1>1. IInv => WaitListSound
  BY DEF IInv
<1>2. QED
  BY <1>1, InvariantHolds, PTL

\* The counter and what the fibers hold add up to what the semaphore was made
\* with, through every grant, return, timeout and consume(), until broken().
THEOREM UnitsConservedHolds == Spec => []UnitsConserved
<1>1. IInv => UnitsConserved
  BY DEF IInv
<1>2. QED
  BY <1>1, InvariantHolds, PTL

\* The fiber that gets units in a step and those queued before it.
Overtakes(f) ==
  \E i \in 1..Len(list) :
    /\ ~(fut[f] = "pending" /\ \E j \in 1..i : list[j].live /\ list[j].fiber = f)
    /\ list[i].live
    /\ fut'[list[i].fiber] # "ready"

\* A call that does not wait finds nobody waiting: size, which it looks at, is
\* the number of the entries that have not expired.
LEMMA NobodyWaits == ASSUME IInv, size = 0 PROVE \A i \in 1..Len(list) : ~list[i].live
<1>1. IsFiniteSet(Live(list)) /\ Cardinality(Live(list)) = 0
  BY Parts
<1>2. Live(list) = {}
  BY <1>1, FS_EmptySet
<1>3. QED
  BY <1>2 DEF Live

\* semaphore.hh:130, "Waits are serviced in FIFO order": no step lets a fiber
\* have units while one that was queued before it goes on waiting, be it a
\* newcomer in wait() or try_wait() or a waiter that signal() wakes.
THEOREM FifoServiceHolds == Spec => FifoService
<1>1. ASSUME IInv, [Next]_vars, NEW f \in Fibers, fut'[f] = "ready", fut[f] # "ready"
      PROVE  ~Overtakes(f)
  <2>1. ASSUME size = 0 PROVE ~Overtakes(f)
    BY <1>1, <2>1, NobodyWaits DEF Overtakes
  <2>2. ASSUME NEW h \in Fibers, NEW n \in Nrs, TryWait(h, n) PROVE ~Overtakes(f)
    BY <2>1, <2>2 DEF TryWait, MayProceed, FifoEmpty
  <2>3. ASSUME NEW h \in Fibers, NEW n \in Nrs, NEW t \in BOOLEAN, Wait(h, n, t) PROVE ~Overtakes(f)
    <3>1. CASE MayProceed(n)
      BY <2>1, <3>1 DEF MayProceed, FifoEmpty
    <3>2. CASE ~MayProceed(n)
      <4>1. fut' = [fut EXCEPT ![h] = "broken"] \/ fut' = [fut EXCEPT ![h] = "pending"]
        BY <2>3, <3>2 DEF Wait
      <4>2. QED
        BY <1>1, <4>1, Parts
    <3>3. QED
      BY <3>1, <3>2
  <2>4. ASSUME NEW h \in Fibers, NEW n \in Consumed, ConsumeUnits(h, n) PROVE FALSE
    BY <1>1, <2>4, Parts DEF ConsumeUnits
  <2>5. ASSUME NEW h \in Fibers, RunContinuation(h) PROVE FALSE
    BY <1>1, <2>5, Parts DEF RunContinuation
  <2>6. ASSUME NEW h \in Fibers, Return(h) PROVE ~Overtakes(f)
    <3>1. CASE ex
      <4>1. fut' = [fut EXCEPT ![h] = "idle"]
        BY <2>6, <3>1 DEF Return, Signal
      <4>2. QED
        BY <1>1, <4>1, Parts
    <3>2. CASE ~ex
      <4>1. PICK k \in 0..Len(list) :
              fut' = [g \in Fibers |-> IF g \in Woken(k) THEN "ready"
                                       ELSE IF g = h THEN "idle" ELSE fut[g]]
        BY <1>1, <2>6, <3>2, ReturnWakes
      <4>2. f \in Woken(k)
        BY <1>1, <4>1
      <4>3. PICK j \in 1..k : list[j].live /\ list[j].fiber = f
        BY <4>2 DEF Woken
      <4>4. Len(list) \in Nat /\ WaitersQueued(list, fut, nr)
        BY <1>1, Parts
      <4>5. fut[f] = "pending"
        BY <4>3, <4>4 DEF WaitersQueued
      <4>6. SUFFICES ASSUME NEW i \in 1..Len(list), list[i].live, fut'[list[i].fiber] # "ready"
                     PROVE  j <= i
        BY <4>3, <4>4, <4>5 DEF Overtakes
      <4>7. list[i].fiber \in Fibers
        BY <1>1, Parts, EntryFields
      <4>8. list[i].fiber \notin Woken(k)
        BY <4>1, <4>6, <4>7
      <4>9. ~(i \in 1..k)
        BY <4>6, <4>8 DEF Woken
      <4>10. QED
        BY <4>4, <4>9
    <3>3. QED
      BY <3>1, <3>2
  <2>7. ASSUME NEW i \in 1..Len(list), Expire(i) PROVE FALSE
    BY <1>1, <2>7, Parts DEF Expire
  <2>8. CASE Broken
    BY <1>1, <2>8, Parts DEF Broken
  <2>9. CASE UNCHANGED vars
    BY <1>1, <2>9 DEF vars
  <2>10. QED
    BY <1>1, <2>2, <2>3, <2>4, <2>5, <2>6, <2>7, <2>8, <2>9 DEF Next
<1>2. IInv /\ [Next]_vars =>
        [\A f \in Fibers :
           fut'[f] = "ready" /\ fut[f] # "ready" =>
             \A i \in 1..Len(list) :
               \/ fut[f] = "pending" /\ \E j \in 1..i : list[j].live /\ list[j].fiber = f
               \/ ~list[i].live
               \/ fut'[list[i].fiber] = "ready"]_vars
  BY <1>1 DEF Overtakes
<1>3. QED
  BY <1>2, InvariantHolds, PTL DEF Spec, FifoService

(***************************************************************************)
(* SharedMutex, for any finite set of fibers.  The five invariants of the  *)
(* module are inductive together; the lemma on wake() is the heart of the  *)
(* proof, as both unlock operations end in it.                             *)
(***************************************************************************)

\* The inductive invariant.
MutexIInv == MutexTypeOK /\ Exclusion /\ CountersMatch /\ WaitingIffQueued /\ NobodyStranded

\* What the type of the queue says of its elements.
LEMMA WaiterFields ==
  ASSUME NEW q \in Seq(Waiter)
  PROVE  \A i \in 1..Len(q) : q[i] \in Waiter /\ q[i].fiber \in Lockers /\ q[i].forWrite \in BOOLEAN
<1>1. \A i \in 1..Len(q) : q[i] \in Waiter
  BY ElementOfSeq
<1>2. \A w \in Waiter : w.fiber \in Lockers /\ w.forWrite \in BOOLEAN
  BY DEF Waiter
<1>3. QED
  BY <1>1, <1>2

\* The fibers that wait in the first k places are k different fibers: wake()
\* may add one to _readers for each entry it pops.
LEMMA WokenAreDistinct ==
  ASSUME MutexTypeOK, WaitingIffQueued, NEW k \in 1..Len(waiters)
  PROVE  LET W == {waiters[i].fiber : i \in 1..k}
         IN  IsFiniteSet(W) /\ Cardinality(W) = k /\ W \subseteq Lockers
<1> DEFINE W == {waiters[i].fiber : i \in 1..k}
           g == [i \in 1..k |-> waiters[i].fiber]
<1>1. waiters \in Seq(Waiter) /\ k \in Nat /\ 1..k \subseteq 1..Len(waiters)
  BY DEF MutexTypeOK
<1>2. \A i \in 1..k : waiters[i] \in Waiter /\ waiters[i].fiber \in Lockers
  BY <1>1, WaiterFields
<1>3. g \in Bijection(1..k, W)
  BY <1>1, <1>2 DEF Bijection, Injection, Surjection, IsInjective, WaitingIffQueued
<1>4. IsFiniteSet(1..k) /\ Cardinality(1..k) = k
  BY FS_Interval, <1>1
<1>5. IsFiniteSet(W) /\ Cardinality(W) = k
  BY <1>3, <1>4, FS_Bijection DEF ExistsBijection
<1>6. QED
  BY <1>2, <1>5

\* wake() restores the invariant from any state in which the caller has just
\* taken itself off the counter or the flag.
LEMMA WakeRestores ==
  ASSUME MutexTypeOK, WaitingIffQueued,
         NEW r \in Nat, NEW st0 \in [Lockers -> FiberState],
         \A f \in Lockers : st0[f] = "waiting" <=> st[f] = "waiting",
         \A f \in Lockers : st0[f] # "writing",
         r = Cardinality({f \in Lockers : st0[f] = "reading"}),
         Wake(r, st0)
  PROVE  MutexIInv'
<1> DEFINE R0 == {f \in Lockers : st0[f] = "reading"}
<1> USE DEF FiberState
<1>1. waiters \in Seq(Waiter) /\ \A i \in 1..Len(waiters) : waiters[i].fiber \in Lockers
  <2>1. waiters \in Seq(Waiter)
    BY DEF MutexTypeOK
  <2>2. QED
    BY <2>1, WaiterFields
<1>2. IsFiniteSet(R0)
  BY FS_Subset, SharedMutexAssumption
<1>3. ASSUME NEW k \in 1..Len(waiters), LeadingReaders(k),
             readers' = r + k, writer' = FALSE,
             waiters' = SubSeq(waiters, k + 1, Len(waiters)),
             st' = [f \in Lockers |-> IF f \in {waiters[i].fiber : i \in 1..k}
                                     THEN "reading" ELSE st0[f]]
      PROVE  MutexIInv'
  <2> DEFINE W == {waiters[i].fiber : i \in 1..k}
  <2>1. IsFiniteSet(W) /\ Cardinality(W) = k /\ W \subseteq Lockers
    BY WokenAreDistinct
  <2>2. /\ Len(waiters') = Len(waiters) - k
        /\ waiters' \in Seq(Waiter)
        /\ \A i \in 1..Len(waiters') : waiters'[i] = waiters[i + k]
    BY <1>1, <1>3
  <2>3. \A f \in W : st[f] = "waiting"
    BY <1>1 DEF WaitingIffQueued
  <2>4. MutexTypeOK'
    <3>1. readers' \in Nat
      BY <1>1, <1>3
    <3>2. QED
      BY <1>3, <2>2, <3>1 DEF MutexTypeOK
  <2>5. Writers' = {}
    BY <1>3 DEF Writers
  <2>6. Exclusion'
    BY <2>5 DEF Exclusion, Writers
  <2>7. Readers' = R0 \cup W /\ R0 \cap W = {}
    BY <1>3, <2>1, <2>3 DEF Readers
  <2>8. Cardinality(R0 \cap W) = 0
    BY <2>7, FS_EmptySet
  <2>9. Cardinality(Readers') = r + k
    <3>1. Cardinality(R0 \cup W) = Cardinality(R0) + Cardinality(W) - Cardinality(R0 \cap W)
      BY <1>2, <2>1, FS_Union, ZenonT(20)
    <3>2. QED
      BY <2>1, <2>7, <2>8, <3>1
  <2>10. CountersMatch'
    BY <1>3, <2>5, <2>9 DEF CountersMatch
  <2>11. WaitingIffQueued'
    <3>1. \A i, j \in 1..Len(waiters') : waiters'[i].fiber = waiters'[j].fiber => i = j
      <4>1. SUFFICES ASSUME NEW i \in 1..Len(waiters'), NEW j \in 1..Len(waiters'),
                            waiters'[i].fiber = waiters'[j].fiber
                     PROVE  i = j
        OBVIOUS
      <4>2. i + k \in 1..Len(waiters) /\ j + k \in 1..Len(waiters)
        BY <2>2, <1>1
      <4>3. waiters[i + k].fiber = waiters[j + k].fiber
        BY <2>2, <4>1
      <4>4. i + k = j + k
        BY <4>2, <4>3 DEF WaitingIffQueued
      <4>5. QED
        BY <4>4, <2>2, <1>1
    <3>2. ASSUME NEW f \in Lockers, st'[f] = "waiting"
          PROVE  \E i \in 1..Len(waiters') : waiters'[i].fiber = f
      <4>1. st[f] = "waiting" /\ f \notin W
        BY <1>3, <3>2
      <4>2. PICK i \in 1..Len(waiters) : waiters[i].fiber = f
        BY <4>1 DEF WaitingIffQueued
      <4>3. i > k
        BY <4>1, <4>2, <1>1
      <4>4. i - k \in 1..Len(waiters') /\ waiters'[i - k] = waiters[i]
        BY <4>3, <2>2, <1>1
      <4>5. QED
        BY <4>2, <4>4
    <3>3. ASSUME NEW f \in Lockers, NEW i \in 1..Len(waiters'), waiters'[i].fiber = f
          PROVE  st'[f] = "waiting"
      <4>1. i + k \in 1..Len(waiters) /\ waiters[i + k].fiber = f
        BY <2>2, <3>3, <1>1
      <4>2. f \notin W
        BY <4>1, <1>1 DEF WaitingIffQueued
      <4>3. st[f] = "waiting"
        BY <4>1 DEF WaitingIffQueued
      <4>4. QED
        BY <1>3, <4>2, <4>3
    <3>4. QED
      BY <3>1, <3>2, <3>3 DEF WaitingIffQueued
  <2>12. NobodyStranded'
    <3>1. readers' > 0
      BY <1>3
    <3>2. ASSUME waiters' # <<>> PROVE waiters'[1].forWrite
      <4>1. Len(waiters') >= 1
        BY <3>2, <2>2
      <4>2. k < Len(waiters) /\ waiters'[1] = waiters[k + 1]
        BY <4>1, <2>2, <1>1
      <4>3. QED
        BY <4>2, <1>3 DEF LeadingReaders
    <3>3. QED
      BY <3>1, <3>2 DEF NobodyStranded
  <2>13. QED
    BY <2>4, <2>6, <2>10, <2>11, <2>12 DEF MutexIInv
<1>4. ASSUME waiters # <<>>, waiters[1].forWrite, r = 0,
             readers' = r, writer' = TRUE, waiters' = Tail(waiters),
             st' = [st0 EXCEPT ![waiters[1].fiber] = "writing"]
      PROVE  MutexIInv'
  <2> DEFINE w == waiters[1].fiber
  <2>1. /\ Len(waiters) >= 1 /\ w \in Lockers
        /\ Len(waiters') = Len(waiters) - 1
        /\ waiters' \in Seq(Waiter)
        /\ \A i \in 1..Len(waiters') : waiters'[i] = waiters[i + 1]
    BY <1>1, <1>4
  <2>2. st[w] = "waiting" /\ st0[w] = "waiting"
    BY <2>1 DEF WaitingIffQueued
  <2>3. R0 = {}
    BY <1>2, <1>4, FS_EmptySet
  <2>4. MutexTypeOK'
    BY <1>4, <2>1 DEF MutexTypeOK
  <2>5. Readers' = {} /\ Writers' = {w}
    BY <1>4, <2>1, <2>2, <2>3 DEF Readers, Writers
  <2>6. Exclusion'
    BY <2>5 DEF Exclusion, Readers, Writers
  <2>7. CountersMatch'
    BY <1>4, <2>5, FS_EmptySet DEF CountersMatch
  <2>8. WaitingIffQueued'
    <3>1. \A i, j \in 1..Len(waiters') : waiters'[i].fiber = waiters'[j].fiber => i = j
      <4>1. SUFFICES ASSUME NEW i \in 1..Len(waiters'), NEW j \in 1..Len(waiters'),
                            waiters'[i].fiber = waiters'[j].fiber
                     PROVE  i = j
        OBVIOUS
      <4>2. i + 1 \in 1..Len(waiters) /\ j + 1 \in 1..Len(waiters)
        BY <2>1, <1>1
      <4>3. waiters[i + 1].fiber = waiters[j + 1].fiber
        BY <2>1, <4>1
      <4>4. i + 1 = j + 1
        BY <4>2, <4>3 DEF WaitingIffQueued
      <4>5. QED
        BY <4>4, <2>1, <1>1
    <3>2. ASSUME NEW f \in Lockers, st'[f] = "waiting"
          PROVE  \E i \in 1..Len(waiters') : waiters'[i].fiber = f
      <4>1. st[f] = "waiting" /\ f # w
        BY <1>4, <2>1, <3>2
      <4>2. PICK i \in 1..Len(waiters) : waiters[i].fiber = f
        BY <4>1 DEF WaitingIffQueued
      <4>3. i # 1
        BY <4>1, <4>2
      <4>4. i - 1 \in 1..Len(waiters') /\ waiters'[i - 1] = waiters[i]
        BY <4>3, <2>1, <1>1
      <4>5. QED
        BY <4>2, <4>4
    <3>3. ASSUME NEW f \in Lockers, NEW i \in 1..Len(waiters'), waiters'[i].fiber = f
          PROVE  st'[f] = "waiting"
      <4>1. i + 1 \in 1..Len(waiters) /\ waiters[i + 1].fiber = f
        BY <2>1, <3>3, <1>1
      <4>2. f # w
        BY <4>1, <2>1, <1>1 DEF WaitingIffQueued
      <4>3. QED
        BY <1>4, <4>1, <4>2, <2>1 DEF WaitingIffQueued
    <3>4. QED
      BY <3>1, <3>2, <3>3 DEF WaitingIffQueued
  <2>9. NobodyStranded'
    BY <1>4 DEF NobodyStranded
  <2>10. QED
    BY <2>4, <2>6, <2>7, <2>8, <2>9 DEF MutexIInv
<1>5. ASSUME waiters # <<>> => waiters[1].forWrite /\ r # 0,
             readers' = r, writer' = FALSE, waiters' = waiters, st' = st0
      PROVE  MutexIInv'
  <2>1. MutexTypeOK'
    BY <1>5 DEF MutexTypeOK
  <2>2. Readers' = R0 /\ Writers' = {}
    BY <1>5 DEF Readers, Writers
  <2>3. Exclusion'
    BY <2>2 DEF Exclusion, Writers
  <2>4. CountersMatch'
    BY <1>5, <2>2 DEF CountersMatch
  <2>5. WaitingIffQueued'
    BY <1>5 DEF WaitingIffQueued
  <2>6. NobodyStranded'
    BY <1>5 DEF NobodyStranded
  <2>7. QED
    BY <2>1, <2>3, <2>4, <2>5, <2>6 DEF MutexIInv
<1>6. QED
  BY <1>3, <1>4, <1>5 DEF Wake

\* A fiber that joins the queue changes nothing else.
LEMMA EnqueueKeeps ==
  ASSUME MutexIInv, NEW f \in Lockers, st[f] = "idle", NEW b \in BOOLEAN, Enqueue(f, b),
         readers > 0 \/ writer,
         waiters = <<>> /\ ~b => writer
  PROVE  MutexIInv'
<1> DEFINE e == [fiber |-> f, forWrite |-> b]
<1> USE DEF FiberState
<1>1. /\ waiters \in Seq(Waiter) /\ e \in Waiter
      /\ waiters' = Append(waiters, e)
      /\ Len(waiters') = Len(waiters) + 1
      /\ \A i \in 1..Len(waiters) : waiters'[i] = waiters[i]
      /\ waiters'[Len(waiters) + 1] = e
  BY DEF MutexIInv, MutexTypeOK, Waiter, Enqueue
<1>2. st' = [st EXCEPT ![f] = "waiting"] /\ readers' = readers /\ writer' = writer
  BY DEF Enqueue
<1>3. MutexTypeOK'
  BY <1>1, <1>2 DEF MutexIInv, MutexTypeOK
<1>4. Readers' = Readers /\ Writers' = Writers
  BY <1>2 DEF MutexIInv, MutexTypeOK, Readers, Writers
<1>5. Exclusion'
  BY <1>2 DEF MutexIInv, MutexTypeOK, Exclusion
<1>6. CountersMatch'
  BY <1>2, <1>4 DEF MutexIInv, CountersMatch
<1>7. \A i \in 1..Len(waiters) : waiters[i].fiber # f
  BY DEF MutexIInv, WaitingIffQueued
<1>8. WaitingIffQueued'
  <2>1. \A i, j \in 1..Len(waiters') : waiters'[i].fiber = waiters'[j].fiber => i = j
    BY <1>1, <1>7 DEF MutexIInv, WaitingIffQueued
  <2>2. ASSUME NEW g \in Lockers
        PROVE  st'[g] = "waiting" <=> \E i \in 1..Len(waiters') : waiters'[i].fiber = g
    <3>1. CASE g = f
      BY <3>1, <1>1, <1>2 DEF MutexIInv, MutexTypeOK
    <3>2. CASE g # f
      <4>1. st'[g] = st[g]
        BY <3>2, <1>2 DEF MutexIInv, MutexTypeOK
      <4>2. (\E i \in 1..Len(waiters') : waiters'[i].fiber = g)
              <=> (\E i \in 1..Len(waiters) : waiters[i].fiber = g)
        BY <3>2, <1>1
      <4>3. QED
        BY <4>1, <4>2 DEF MutexIInv, WaitingIffQueued
    <3>3. QED
      BY <3>1, <3>2
  <2>3. QED
    BY <2>1, <2>2 DEF WaitingIffQueued
<1>9. NobodyStranded'
  <2>1. CASE waiters = <<>>
    BY <2>1, <1>1, <1>2 DEF NobodyStranded
  <2>2. CASE waiters # <<>>
    BY <2>2, <1>1, <1>2 DEF MutexIInv, NobodyStranded
  <2>3. QED
    BY <2>1, <2>2
<1>10. QED
  BY <1>3, <1>5, <1>6, <1>8, <1>9 DEF MutexIInv

LEMMA MutexInitEstablishes == MutexInit => MutexIInv
<1> SUFFICES ASSUME MutexInit PROVE MutexIInv
  OBVIOUS
<1>1. Readers = {} /\ Writers = {}
  BY DEF MutexInit, Readers, Writers
<1>2. Cardinality(Readers) = 0
  BY <1>1, FS_EmptySet
<1>3. CountersMatch
  BY <1>1, <1>2 DEF MutexInit, CountersMatch
<1>4. MutexTypeOK
  <2>1. <<>> \in Seq(Waiter)
    BY EmptySeq
  <2>2. QED
    BY <2>1 DEF MutexInit, MutexTypeOK, FiberState
<1>5. Exclusion
  BY DEF MutexInit, Exclusion
<1>6. WaitingIffQueued
  <2>1. 1..Len(waiters) = {}
    BY DEF MutexInit
  <2>2. QED
    BY <2>1 DEF MutexInit, WaitingIffQueued
<1>7. NobodyStranded
  BY DEF MutexInit, NobodyStranded
<1>8. QED
  BY <1>3, <1>4, <1>5, <1>6, <1>7 DEF MutexIInv

\* One step per operation of the mutex.
LEMMA MutexNextPreserves == MutexIInv /\ [MutexNext]_mutexVars => MutexIInv'
<1> SUFFICES ASSUME MutexIInv, [MutexNext]_mutexVars PROVE MutexIInv'
  OBVIOUS
<1> USE DEF FiberState
<1>1. IsFiniteSet(Readers)
  BY FS_Subset, SharedMutexAssumption DEF Readers
<1>2. readers = 0 <=> Readers = {}
  <2>1. Cardinality(Readers) = 0 <=> Readers = {}
    BY <1>1, FS_EmptySet
  <2>2. QED
    BY <2>1 DEF MutexIInv, CountersMatch
<1>3. ASSUME NEW f \in Lockers, LockShared(f) PROVE MutexIInv'
  <2>1. CASE ~writer /\ waiters = <<>>
    <3>1. /\ readers' = readers + 1 /\ writer' = writer /\ waiters' = waiters
          /\ st' = [st EXCEPT ![f] = "reading"] /\ st[f] = "idle"
      BY <1>3, <2>1 DEF LockShared
    <3>2. Readers' = Readers \cup {f} /\ f \notin Readers /\ Writers' = Writers
      BY <3>1 DEF MutexIInv, MutexTypeOK, Readers, Writers
    <3>3. Cardinality(Readers') = readers + 1
      BY <1>1, <3>2, FS_AddElement DEF MutexIInv, CountersMatch
    <3>4. MutexTypeOK'
      BY <3>1 DEF MutexIInv, MutexTypeOK
    <3>5. Writers = {}
      BY <2>1 DEF MutexIInv, CountersMatch
    <3>6. Exclusion'
      BY <3>2, <3>5 DEF Exclusion, Writers
    <3>7. CountersMatch'
      BY <3>1, <3>2, <3>3 DEF MutexIInv, CountersMatch
    <3>8. WaitingIffQueued'
      BY <3>1 DEF MutexIInv, MutexTypeOK, WaitingIffQueued
    <3>9. NobodyStranded'
      BY <2>1, <3>1 DEF NobodyStranded
    <3>10. QED
      BY <3>4, <3>6, <3>7, <3>8, <3>9 DEF MutexIInv
  <2>2. CASE writer \/ waiters # <<>>
    <3>1. readers > 0 \/ writer
      BY <2>2 DEF MutexIInv, NobodyStranded
    <3>2. QED
      BY <1>3, <2>2, <3>1, EnqueueKeeps DEF LockShared
  <2>3. QED
    BY <2>1, <2>2
<1>4. ASSUME NEW f \in Lockers, Lock(f) PROVE MutexIInv'
  <2>1. CASE readers = 0 /\ ~writer
    <3>1. /\ writer' = TRUE /\ readers' = readers /\ waiters' = waiters
          /\ st' = [st EXCEPT ![f] = "writing"] /\ st[f] = "idle"
      BY <1>4, <2>1 DEF Lock
    <3>2. Readers = {} /\ Writers = {}
      BY <1>2, <2>1 DEF MutexIInv, CountersMatch
    <3>3. Readers' = {} /\ Writers' = {f}
      BY <3>1, <3>2 DEF MutexIInv, MutexTypeOK, Readers, Writers
    <3>4. MutexTypeOK'
      BY <3>1 DEF MutexIInv, MutexTypeOK
    <3>5. Exclusion'
      BY <3>3 DEF Exclusion, Readers, Writers
    <3>6. CountersMatch'
      BY <2>1, <3>1, <3>3, FS_EmptySet DEF CountersMatch
    <3>7. WaitingIffQueued'
      BY <3>1 DEF MutexIInv, MutexTypeOK, WaitingIffQueued
    <3>8. NobodyStranded'
      BY <3>1 DEF NobodyStranded
    <3>9. QED
      BY <3>4, <3>5, <3>6, <3>7, <3>8 DEF MutexIInv
  <2>2. CASE readers # 0 \/ writer
    <3>1. readers > 0 \/ writer
      BY <2>2 DEF MutexIInv, MutexTypeOK
    <3>2. QED
      BY <1>4, <2>2, <3>1, EnqueueKeeps DEF Lock
  <2>3. QED
    BY <2>1, <2>2
<1>5. ASSUME NEW f \in Lockers, UnlockShared(f) PROVE MutexIInv'
  <2> DEFINE st0 == [st EXCEPT ![f] = "idle"]
             R0  == {g \in Lockers : st0[g] = "reading"}
  <2>1. f \in Readers /\ Wake(readers - 1, st0)
    BY <1>5 DEF UnlockShared, Readers
  <2>2. R0 = Readers \ {f}
    BY DEF MutexIInv, MutexTypeOK, Readers
  <2>3. Cardinality(R0) = readers - 1
    BY <1>1, <2>1, <2>2, FS_RemoveElement DEF MutexIInv, CountersMatch
  <2>4. readers - 1 \in Nat
    BY <1>2, <2>1 DEF MutexIInv, MutexTypeOK
  <2>5. \A g \in Lockers : st0[g] # "writing"
    BY <2>1 DEF MutexIInv, MutexTypeOK, Exclusion, Readers
  <2>6. st0 \in [Lockers -> FiberState] /\ \A g \in Lockers : st0[g] = "waiting" <=> st[g] = "waiting"
    BY <2>1 DEF MutexIInv, MutexTypeOK, Readers
  <2>7. QED
    BY <2>1, <2>3, <2>4, <2>5, <2>6, WakeRestores DEF MutexIInv
<1>6. ASSUME NEW f \in Lockers, Unlock(f) PROVE MutexIInv'
  <2> DEFINE st0 == [st EXCEPT ![f] = "idle"]
             R0  == {g \in Lockers : st0[g] = "reading"}
  <2>1. st[f] = "writing" /\ Wake(readers, st0)
    BY <1>6 DEF Unlock
  <2>2. R0 = Readers
    BY <2>1 DEF MutexIInv, MutexTypeOK, Readers
  <2>3. Cardinality(R0) = readers
    BY <2>2 DEF MutexIInv, CountersMatch
  <2>4. \A g \in Lockers : st0[g] # "writing"
    BY <2>1 DEF MutexIInv, MutexTypeOK, Exclusion
  <2>5. st0 \in [Lockers -> FiberState] /\ \A g \in Lockers : st0[g] = "waiting" <=> st[g] = "waiting"
    BY <2>1 DEF MutexIInv, MutexTypeOK
  <2>6. QED
    BY <2>1, <2>3, <2>4, <2>5, WakeRestores DEF MutexIInv, MutexTypeOK
<1>7. CASE UNCHANGED mutexVars
  BY <1>7 DEF mutexVars, MutexIInv, MutexTypeOK, Exclusion, CountersMatch, Readers, Writers,
              WaitingIffQueued, NobodyStranded
<1>8. QED
  BY <1>3, <1>4, <1>5, <1>6, <1>7 DEF MutexNext

\* The invariant holds in every reachable state, for any finite set of fibers.
THEOREM MutexInvariantHolds == MutexSpec => []MutexIInv
<1>1. QED
  BY MutexInitEstablishes, MutexNextPreserves, PTL DEF MutexSpec

\* Types: the variables of shared_mutex stay in their declared ranges; in
\* particular the unsigned _readers is never decremented below zero.
THEOREM MutexTypeCorrect == MutexSpec => []MutexTypeOK
<1>1. MutexIInv => MutexTypeOK
  BY DEF MutexIInv
<1>2. QED
  BY <1>1, MutexInvariantHolds, PTL

\* Mutual exclusion: with_lock() runs its function alone.
THEOREM ExclusionHolds == MutexSpec => []Exclusion
<1>1. MutexIInv => Exclusion
  BY DEF MutexIInv
<1>2. QED
  BY <1>1, MutexInvariantHolds, PTL

\* The counter and flag of the mutex always agree with who holds it.
THEOREM CountersMatchHolds == MutexSpec => []CountersMatch
<1>1. MutexIInv => CountersMatch
  BY DEF MutexIInv
<1>2. QED
  BY <1>1, MutexInvariantHolds, PTL

\* While fibers wait, somebody holds the mutex and will run wake(); this is
\* why lock() may ignore the queue.
THEOREM NobodyStrandedHolds == MutexSpec => []NobodyStranded
<1>1. MutexIInv => NobodyStranded
  BY DEF MutexIInv
<1>2. QED
  BY <1>1, MutexInvariantHolds, PTL

\* wake() lets fibers in from the front of the queue, and leaves none of those
\* behind that came before the last of them.
LEMMA WakeFromTheFront ==
  ASSUME MutexIInv, NEW r, NEW g \in Lockers, Wake(r, [st EXCEPT ![g] = "idle"]),
         NEW f \in Lockers, st[f] \in {"idle", "waiting"}, st'[f] \in {"reading", "writing"},
         NEW i \in 1..Len(waiters)
  PROVE  \/ st'[waiters[i].fiber] # "waiting"
         \/ \E j \in 1..i : waiters[j].fiber = f
<1> DEFINE st0 == [st EXCEPT ![g] = "idle"]
<1>1. waiters \in Seq(Waiter) /\ Len(waiters) \in Nat /\ \A j \in 1..Len(waiters) : waiters[j].fiber \in Lockers
  BY WaiterFields, LenProperties DEF MutexIInv, MutexTypeOK
<1>2. st0 \in [Lockers -> FiberState] /\ st0[f] \notin {"reading", "writing"}
  BY DEF MutexIInv, MutexTypeOK, FiberState
<1>3. ASSUME NEW k \in 1..Len(waiters),
             st' = [h \in Lockers |-> IF h \in {waiters[j].fiber : j \in 1..k} THEN "reading" ELSE st0[h]]
      PROVE  \/ st'[waiters[i].fiber] # "waiting"
             \/ \E j \in 1..i : waiters[j].fiber = f
  <2>1. PICK m \in 1..k : waiters[m].fiber = f
    BY <1>2, <1>3
  <2>2. CASE i <= k
    <3>1. i \in 1..k
      BY <1>1, <2>2
    <3>2. st'[waiters[i].fiber] = "reading"
      BY <1>1, <1>3, <3>1
    <3>3. QED
      BY <3>2
  <2>3. CASE i > k
    <3>1. m \in 1..i
      BY <1>1, <2>1, <2>3
    <3>2. QED
      BY <2>1, <3>1
  <2>4. QED
    BY <1>1, <2>2, <2>3
<1>4. CASE waiters # <<>> /\ st' = [st0 EXCEPT ![waiters[1].fiber] = "writing"]
  <2>1. 1 \in 1..Len(waiters) /\ 1 \in 1..i
    BY <1>1
  <2>2. waiters[1].fiber = f
    BY <1>1, <1>2, <1>4, <2>1
  <2>3. QED
    BY <2>1, <2>2
<1>5. CASE st' = st0
  BY <1>2, <1>5
<1>6. QED
  BY <1>3, <1>4, <1>5 DEF Wake

\* First come, first served, by any step of any fiber.  lock() does not look at
\* the queue, but finds nobody in it when it finds the mutex free.
THEOREM MutexFifoServiceHolds == MutexSpec => MutexFifoService
<1> DEFINE Fair(f) ==
      st[f] \in {"idle", "waiting"} /\ st'[f] \in {"reading", "writing"} =>
        \A i \in 1..Len(waiters) :
          \/ st'[waiters[i].fiber] # "waiting"
          \/ \E j \in 1..i : waiters[j].fiber = f
<1>1. ASSUME MutexIInv, MutexNext, NEW f \in Lockers PROVE Fair(f)
  <2>1. PICK g \in Lockers : LockShared(g) \/ Lock(g) \/ UnlockShared(g) \/ Unlock(g)
    BY <1>1 DEF MutexNext
  <2>2. st \in [Lockers -> FiberState] /\ readers \in Nat
    BY <1>1 DEF MutexIInv, MutexTypeOK
  <2>3. ASSUME NEW forWrite, Enqueue(g, forWrite) PROVE st'[f] \in {"reading", "writing"} => st[f] = st'[f]
    BY <2>2, <2>3 DEF Enqueue
  <2>4. CASE LockShared(g)
    <3>1. CASE waiters = <<>>
      BY <3>1
    <3>2. CASE Enqueue(g, FALSE)
      BY <2>3, <3>2
    <3>3. QED
      BY <2>4, <3>1, <3>2 DEF LockShared
  <2>5. CASE Lock(g)
    <3>1. CASE readers = 0 /\ ~writer
      <4>1. waiters = <<>>
        BY <1>1, <3>1 DEF MutexIInv, NobodyStranded
      <4>2. QED
        BY <4>1
    <3>2. CASE Enqueue(g, TRUE)
      BY <2>3, <3>2
    <3>3. QED
      BY <2>5, <3>1, <3>2 DEF Lock
  <2>6. CASE UnlockShared(g)
    BY <1>1, <2>6, WakeFromTheFront DEF UnlockShared
  <2>7. CASE Unlock(g)
    BY <1>1, <2>7, WakeFromTheFront DEF Unlock
  <2>8. QED
    BY <2>1, <2>4, <2>5, <2>6, <2>7
<1>2. MutexIInv /\ [MutexNext]_mutexVars => [\A f \in Lockers : Fair(f)]_mutexVars
  BY <1>1
<1>3. QED
  BY <1>2, MutexInvariantHolds, PTL DEF MutexSpec, MutexFifoService

===============================================================================
