------------------------------ MODULE Smp_proofs ------------------------------
(***************************************************************************)
(* Proofs about the queues between the shards, SmpQueue, and about the way *)
(* a reactor sleeps on them, SmpSleep.                                     *)
(***************************************************************************)
EXTENDS SmpQueue, SmpSleep, DataFacts

(***************************************************************************)
(* SmpQueue, for any functions that wait for any others and any lengths of *)
(* the queue and of a batch: nobody sleeps on what the other side waits    *)
(* for, and the queue implements SubmitTo.                                 *)
(***************************************************************************)

\* A function is in one place on its way, and there once.
InOnePlace ==
  /\ IsInjective(fifo) /\ IsInjective(pending)
  /\ IsInjective(doneFifo) /\ IsInjective(completed)
  /\ ToSet(fifo) \cap (ToSet(pending) \cup running \cup ToSet(doneFifo) \cup ToSet(completed)) = {}
  /\ ToSet(pending) \cap (running \cup ToSet(doneFifo) \cup ToSet(completed)) = {}
  /\ running \cap (ToSet(doneFifo) \cup ToSet(completed)) = {}
  /\ ToSet(doneFifo) \cap ToSet(completed) = {}

\* The functions whose future is not ready yet are those on their way.
OnTheWay == ToSet(fifo) \cup ToSet(pending) \cup running \cup ToSet(doneFifo) \cup ToSet(completed)

WaitingIsOnTheWay == \A i \in Items : fut[i] = "waiting" <=> i \in OnTheWay

\* _current_queue_length counts what has left pending_fifo and is not back.
CurLenCounts ==
  /\ IsFiniteSet(running)
  /\ curLen = Len(pending) + Cardinality(running) + Len(doneFifo) + Len(completed)

\* The inductive invariant.
IInv == SleepIsSafe /\ InOnePlace /\ WaitingIsOnTheWay /\ CurLenCounts

\* spsc_queue::push() of the batch src: the queue dst and the batch after it.
Filled(src, dst) == dst \o SubSeq(src, 1, Pushed(src, dst))
Rest(src, dst) == SubSeq(src, Pushed(src, dst) + 1, Len(src))

\* It moves the front of src to the end of dst, until one is empty or the
\* other full.
LEMMA PushMoves ==
  ASSUME NEW src \in Seq(Items), NEW dst \in Seq(Items), Len(dst) <= QueueLength
  PROVE  /\ Pushed(src, dst) \in Nat /\ Pushed(src, dst) <= Len(src)
         /\ Pushed(src, dst) = 0 => Filled(src, dst) = dst /\ Rest(src, dst) = src
         /\ Filled(src, dst) \in Seq(Items) /\ Len(Filled(src, dst)) = Len(dst) + Pushed(src, dst)
         /\ Len(Filled(src, dst)) <= QueueLength
         /\ Rest(src, dst) \in Seq(Items) /\ Len(Rest(src, dst)) = Len(src) - Pushed(src, dst)
         /\ Rest(src, dst) # <<>> => Len(Filled(src, dst)) = QueueLength
         /\ Len(src) <= QueueLength - Len(dst) => Rest(src, dst) = <<>>
         /\ Filled(src, dst) \o Rest(src, dst) = dst \o src
         /\ ToSet(Filled(src, dst)) \cup ToSet(Rest(src, dst)) = ToSet(dst) \cup ToSet(src)
         /\ IsInjective(src) /\ IsInjective(dst) /\ ToSet(src) \cap ToSet(dst) = {}
            => /\ IsInjective(Filled(src, dst)) /\ IsInjective(Rest(src, dst))
               /\ ToSet(Filled(src, dst)) \cap ToSet(Rest(src, dst)) = {}
<1> DEFINE n == Pushed(src, dst)
           p == SubSeq(src, 1, n)
           to == Filled(src, dst)
           rest == Rest(src, dst)
<1>1. QueueLength \in Nat /\ Len(src) \in Nat /\ Len(dst) \in Nat
  BY SmpQueueAssumption, LenProperties
<1>2. n \in 0..Len(src) /\ Len(dst) + n <= QueueLength
      /\ (Len(src) - n # 0 => Len(dst) + n = QueueLength)
      /\ (Len(src) <= QueueLength - Len(dst) => n = Len(src))
  BY <1>1 DEF Pushed
<1>3. to = dst \o p /\ rest = SubSeq(src, n + 1, Len(src))
  BY DEF Filled, Rest
<1> HIDE DEF n, to, rest
<1>4. /\ p \in Seq(Items) /\ Len(p) = n
      /\ rest \in Seq(Items) /\ Len(rest) = Len(src) - n
      /\ ToSet(src) = ToSet(p) \cup ToSet(rest)
      /\ IsInjective(src) => IsInjective(p) /\ IsInjective(rest) /\ ToSet(p) \cap ToSet(rest) = {}
  BY <1>2, <1>3, ToSetOfParts
<1>5. p \o rest = src
  <2>1. /\ 1 \in 1..Len(src) + 1 /\ n \in 1-1..Len(src) /\ Len(src) \in n..Len(src)
    BY <1>1, <1>2
  <2>2. p \o rest = SubSeq(src, 1, Len(src))
    BY <1>3, <2>1, ConcatAdjacentSubSeq
  <2>3. QED
    BY <2>2, SubSeqFull
<1> HIDE DEF p
<1>6. /\ to \in Seq(Items) /\ Len(to) = Len(dst) + n
      /\ ToSet(to) = ToSet(dst) \cup ToSet(p)
      /\ IsInjective(dst) /\ IsInjective(p) /\ ToSet(dst) \cap ToSet(p) = {} => IsInjective(to)
  <2>1. p \in Seq(Items)
    BY <1>4
  <2>2. /\ dst \o p \in Seq(Items) /\ Len(dst \o p) = Len(dst) + Len(p)
        /\ ToSet(dst \o p) = ToSet(dst) \cup ToSet(p)
        /\ IsInjective(dst) /\ IsInjective(p) /\ ToSet(dst) \cap ToSet(p) = {} => IsInjective(dst \o p)
    BY <2>1, ToSetOfConcat
  <2>3. QED
    BY <1>4, <1>3, <2>2
<1>7. to \o rest = dst \o src
  <2>1. dst \in Seq(Items) /\ p \in Seq(Items) /\ rest \in Seq(Items)
    BY <1>4
  <2>2. (dst \o p) \o rest = dst \o (p \o rest)
    BY ONLY <2>1
  <2>3. QED
    BY <1>5, <1>3, <2>2
<1>8. Len(rest) = 0 <=> rest = <<>>
  BY <1>4, EmptySeq
<1>9. ASSUME n = 0 PROVE to = dst /\ rest = src
  <2>1. p = <<>>
    BY <1>4, <1>9, EmptySeq
  <2>2. QED
    BY <1>4, <1>5, <1>3, <2>1, ConcatEmptySeq
<1>10. /\ n \in Nat /\ n <= Len(src) /\ Len(to) <= QueueLength
       /\ rest # <<>> => Len(to) = QueueLength
       /\ Len(src) <= QueueLength - Len(dst) => rest = <<>>
  <2>1. Len(to) = Len(dst) + n /\ Len(rest) = Len(src) - n
    BY <1>4, <1>6
  <2>2. QED
    BY <1>1, <1>2, <1>8, <2>1
<1>11. QED
  BY <1>4, <1>6, <1>7, <1>9, <1>10 DEF n, to, rest

\* move_pending() on a fifo of items that are in no other place.
LEMMA RequestsMove ==
  ASSUME IInv, NEW f \in Seq(Items), IsInjective(f), ToSet(f) \cap ToSet(pending) = {},
         NEW got, NEW up, MovePending(f, got, up)
  PROVE  /\ fifo' \in Seq(Items) /\ IsInjective(fifo')
         /\ pending' \in Seq(Items) /\ IsInjective(pending') /\ Len(pending') <= QueueLength
         /\ ToSet(pending') \cup ToSet(fifo') = ToSet(pending) \cup ToSet(f)
         /\ ToSet(pending') \cap ToSet(fifo') = {}
         /\ pending' \o fifo' = pending \o f
         /\ fifo' # <<>> => Len(pending') = QueueLength
         /\ Len(pending') >= Len(pending)
         /\ curLen' = curLen + (Len(pending') - Len(pending)) - got
         /\ awake' \in {up, up \cup {"to"}}
         /\ "to" \notin awake' => pending' = pending
<1> DEFINE n == Pushed(f, pending)
<1>1. /\ pending \in Seq(Items) /\ Len(pending) <= QueueLength /\ IsInjective(pending)
  BY DEF IInv, SleepIsSafe, TypeOK, InOnePlace
<1>2. /\ pending' = pending \o SubSeq(f, 1, n) /\ fifo' = SubSeq(f, n + 1, Len(f))
      /\ curLen' = curLen + n - got /\ awake' = IF n > 0 THEN up \cup {"to"} ELSE up
  BY DEF MovePending
<1>3. pending' = Filled(f, pending) /\ fifo' = Rest(f, pending)
  BY <1>2 DEF Filled, Rest
<1> HIDE DEF n
<1>4. /\ n \in Nat /\ (n = 0 => pending' = pending)
      /\ pending' \in Seq(Items) /\ Len(pending') = Len(pending) + n /\ Len(pending') <= QueueLength
      /\ fifo' \in Seq(Items)
      /\ fifo' # <<>> => Len(pending') = QueueLength
      /\ pending' \o fifo' = pending \o f
      /\ ToSet(pending') \cup ToSet(fifo') = ToSet(pending) \cup ToSet(f)
      /\ IsInjective(pending') /\ IsInjective(fifo') /\ ToSet(pending') \cap ToSet(fifo') = {}
  BY <1>1, <1>3, PushMoves DEF n
<1>5. Len(pending) \in Nat
  BY <1>1, LenProperties
<1>6. /\ Len(pending') >= Len(pending) /\ n = Len(pending') - Len(pending)
      /\ awake' \in {up, up \cup {"to"}}
      /\ "to" \notin awake' => pending' = pending
  BY <1>2, <1>4, <1>5
<1>7. QED
  BY <1>2, <1>4, <1>6

\* flush_response_batch() on a fifo of items that are not in _completed.
LEMMA ResponsesMove ==
  ASSUME IInv, NEW c \in Seq(Items), IsInjective(c), ToSet(c) \cap ToSet(completed) = {},
         NEW up, FlushResponseBatch(c, up)
  PROVE  /\ doneFifo' \in Seq(Items) /\ IsInjective(doneFifo')
         /\ completed' \in Seq(Items) /\ IsInjective(completed') /\ Len(completed') <= QueueLength
         /\ ToSet(completed') \cup ToSet(doneFifo') = ToSet(completed) \cup ToSet(c)
         /\ ToSet(completed') \cap ToSet(doneFifo') = {}
         /\ Len(completed') + Len(doneFifo') = Len(completed) + Len(c)
         /\ awake' \in {up, up \cup {"from"}}
         /\ "from" \notin awake' => completed' = completed
         /\ Len(c) <= QueueLength - Len(completed) => doneFifo' = <<>>
<1> DEFINE n == Pushed(c, completed)
<1>1. /\ completed \in Seq(Items) /\ Len(completed) <= QueueLength /\ IsInjective(completed)
  BY DEF IInv, SleepIsSafe, TypeOK, InOnePlace
<1>2. /\ completed' = completed \o SubSeq(c, 1, n) /\ doneFifo' = SubSeq(c, n + 1, Len(c))
      /\ awake' = IF n > 0 THEN up \cup {"from"} ELSE up
  BY DEF FlushResponseBatch
<1>3. completed' = Filled(c, completed) /\ doneFifo' = Rest(c, completed)
  BY <1>2 DEF Filled, Rest
<1> HIDE DEF n
<1>4. /\ n \in Nat /\ (n = 0 => completed' = completed)
      /\ completed' \in Seq(Items) /\ Len(completed') = Len(completed) + n
      /\ Len(completed') <= QueueLength
      /\ doneFifo' \in Seq(Items) /\ Len(doneFifo') = Len(c) - n
      /\ Len(c) <= QueueLength - Len(completed) => doneFifo' = <<>>
      /\ ToSet(completed') \cup ToSet(doneFifo') = ToSet(completed) \cup ToSet(c)
      /\ IsInjective(completed') /\ IsInjective(doneFifo')
      /\ ToSet(completed') \cap ToSet(doneFifo') = {}
  BY <1>1, <1>3, PushMoves DEF n
<1>5. Len(completed) \in Nat /\ Len(c) \in Nat
  BY <1>1, LenProperties
<1>6. /\ Len(completed') + Len(doneFifo') = Len(completed) + Len(c)
      /\ awake' \in {up, up \cup {"from"}}
      /\ "from" \notin awake' => completed' = completed
  <2>1. /\ Len(completed') = Len(completed) + n /\ Len(doneFifo') = Len(c) - n /\ n \in Nat
        /\ n = 0 => completed' = completed
    BY <1>4
  <2>2. Len(completed') + Len(doneFifo') = Len(completed) + Len(c)
    BY <1>5, <2>1
  <2>3. awake' \in {up, up \cup {"from"}} /\ (n > 0 => awake' = up \cup {"from"})
    BY <1>2
  <2>4. QED
    BY <2>1, <2>2, <2>3
<1>7. QED
  BY <1>4, <1>6

\* What the invariant says of the places, their lengths and the sleepers.
LEMMA Places ==
  ASSUME IInv
  PROVE  /\ fifo \in Seq(Items) /\ pending \in Seq(Items)
         /\ doneFifo \in Seq(Items) /\ completed \in Seq(Items)
         /\ ToSet(fifo) \subseteq Items /\ ToSet(pending) \subseteq Items
         /\ running \subseteq Items /\ ToSet(doneFifo) \subseteq Items /\ ToSet(completed) \subseteq Items
         /\ Len(fifo) \in Nat /\ Len(pending) \in Nat /\ Len(doneFifo) \in Nat /\ Len(completed) \in Nat
         /\ QueueLength \in Nat /\ QueueLength > 0 /\ Cardinality(running) \in Nat
         /\ completed = <<>> <=> Len(completed) = 0
<1>1. /\ fifo \in Seq(Items) /\ pending \in Seq(Items)
      /\ doneFifo \in Seq(Items) /\ completed \in Seq(Items) /\ running \subseteq Items
  BY DEF IInv, SleepIsSafe, TypeOK
<1>2. Cardinality(running) \in Nat
  BY FS_CardinalityType DEF IInv, CurLenCounts
<1>3. completed = <<>> <=> Len(completed) = 0
  BY <1>1, EmptySeq
<1>4. QED
  BY <1>1, <1>2, <1>3, ToSetIsImage, SmpQueueAssumption

LEMMA InitEstablishes == Init => IInv
<1> SUFFICES ASSUME Init PROVE IInv
  OBVIOUS
<1>1. <<>> \in Seq(Items) /\ Len(<<>>) = 0 /\ ToSet(<<>>) = {} /\ IsInjective(<<>>)
  BY EmptySeq, ToSetOfEmpty
<1>2. IsFiniteSet({}) /\ Cardinality({}) = 0
  BY FS_EmptySet
<1>3. SleepIsSafe
  <2>1. /\ fifo = <<>> /\ pending = <<>> /\ running = {} /\ doneFifo = <<>> /\ completed = <<>>
        /\ fut = [i \in Items |-> "none"] /\ curLen = 0 /\ awake = {"from", "to"}
        /\ stopped = FALSE /\ exited = FALSE
    BY DEF Init
  <2>2. /\ fifo \in Seq(Items) /\ doneFifo \in Seq(Items)
        /\ pending \in Seq(Items) /\ completed \in Seq(Items)
        /\ Len(pending) <= QueueLength /\ Len(completed) <= QueueLength
    BY <1>1, <2>1, SmpQueueAssumption
  <2>3. TypeOK
    BY <2>1, <2>2 DEF TypeOK
  <2>4. QED
    BY <2>1, <2>3 DEF SleepIsSafe
<1>4. InOnePlace /\ WaitingIsOnTheWay
  BY <1>1 DEF Init, InOnePlace, WaitingIsOnTheWay, OnTheWay
<1>5. CurLenCounts
  BY <1>1, <1>2 DEF Init, CurLenCounts
<1>6. QED
  BY <1>3, <1>4, <1>5 DEF IInv

\* One step per action.
LEMMA NextPreserves == IInv /\ [Next]_vars => IInv'
<1> SUFFICES ASSUME IInv, [Next]_vars PROVE IInv'
  OBVIOUS
<1>1. ASSUME NEW i \in Items, Submit(i) PROVE IInv'
  <2> DEFINE f == Append(fifo, i)
  <2>1. /\ "from" \in awake /\ fut[i] = "none" /\ fut' = [fut EXCEPT ![i] = "waiting"]
        /\ UNCHANGED <<running, doneFifo, completed, stopped, exited>>
        /\ \/ MovePending(f, 0, awake)
           \/ fifo' = f /\ UNCHANGED <<pending, curLen, awake>>
    BY <1>1 DEF Submit
  <2>2. i \notin OnTheWay
    BY <2>1 DEF IInv, WaitingIsOnTheWay
  <2>3. f \in Seq(Items) /\ ToSet(f) = ToSet(fifo) \cup {i} /\ IsInjective(f)
    BY <2>2, Places, ToSetOfAppend DEF IInv, InOnePlace, OnTheWay
  <2> HIDE DEF f
  <2>4. ToSet(f) \cap (ToSet(pending) \cup running \cup ToSet(doneFifo) \cup ToSet(completed)) = {}
    BY <2>2, <2>3 DEF IInv, InOnePlace, OnTheWay
  <2>5. /\ fifo' \in Seq(Items) /\ IsInjective(fifo')
        /\ pending' \in Seq(Items) /\ IsInjective(pending') /\ Len(pending') <= QueueLength
        /\ ToSet(pending') \cup ToSet(fifo') = ToSet(pending) \cup ToSet(f)
        /\ ToSet(pending') \cap ToSet(fifo') = {}
        /\ Len(pending') >= Len(pending)
        /\ curLen' = curLen + (Len(pending') - Len(pending))
        /\ awake' \in {awake, awake \cup {"to"}}
        /\ "to" \notin awake' => pending' = pending
    <3>1. CASE MovePending(f, 0, awake)
      <4>1. Len(pending) \in Nat /\ curLen \in Int
        BY Places DEF IInv, SleepIsSafe, TypeOK
      <4>2. Len(pending') \in Nat
        BY <2>3, <2>4, <3>1, RequestsMove, LenProperties
      <4>3. QED
        BY <2>3, <2>4, <3>1, <4>1, <4>2, RequestsMove
    <3>2. CASE fifo' = f /\ UNCHANGED <<pending, curLen, awake>>
      BY <2>3, <2>4, <3>2, Places DEF IInv, SleepIsSafe, TypeOK, InOnePlace
    <3>3. QED
      BY <2>1, <3>1, <3>2
  <2>6. SleepIsSafe'
    <3>1. curLen' \in Nat
      <4>1. Len(pending') \in Nat /\ Len(pending) \in Nat /\ curLen \in Nat
        BY <2>5, Places, LenProperties DEF IInv, SleepIsSafe, TypeOK
      <4>2. QED
        BY <2>5, <4>1
    <3>2. TypeOK'
      BY <2>1, <2>5, <3>1 DEF IInv, SleepIsSafe, TypeOK
    <3>3. QED
      BY <2>1, <2>5, <3>2 DEF IInv, SleepIsSafe
  <2>7. InOnePlace'
    BY <2>1, <2>4, <2>5 DEF IInv, InOnePlace
  <2>8. WaitingIsOnTheWay'
    BY <2>1, <2>3, <2>5 DEF IInv, SleepIsSafe, TypeOK, WaitingIsOnTheWay, OnTheWay
  <2>9. CurLenCounts'
    <3>1. Len(pending') \in Nat
      BY <2>5, LenProperties
    <3>2. QED
      BY <2>1, <2>5, <3>1, Places DEF IInv, CurLenCounts
  <2>10. QED
    BY <2>6, <2>7, <2>8, <2>9 DEF IInv
<1>2. ASSUME PollFrom PROVE IInv'
  <2>1. /\ "from" \in awake /\ MovePending(fifo, Len(completed), awake) /\ completed' = <<>>
        /\ fut' = [i \in Items |-> IF i \in ToSet(completed) THEN "ready" ELSE fut[i]]
        /\ UNCHANGED <<running, doneFifo, stopped, exited>>
    BY <1>2 DEF PollFrom
  <2>2. /\ fifo' \in Seq(Items) /\ IsInjective(fifo')
        /\ pending' \in Seq(Items) /\ IsInjective(pending') /\ Len(pending') <= QueueLength
        /\ ToSet(pending') \cup ToSet(fifo') = ToSet(pending) \cup ToSet(fifo)
        /\ ToSet(pending') \cap ToSet(fifo') = {}
        /\ Len(pending') >= Len(pending)
        /\ curLen' = curLen + (Len(pending') - Len(pending)) - Len(completed)
        /\ awake' \in {awake, awake \cup {"to"}}
        /\ "to" \notin awake' => pending' = pending
    BY <2>1, Places, RequestsMove DEF IInv, InOnePlace
  <2>3. Len(pending') \in Nat
    BY <2>2, LenProperties
  <2>4. /\ completed' \in Seq(Items) /\ Len(completed') = 0 /\ ToSet(completed') = {}
        /\ IsInjective(completed')
    BY <2>1, EmptySeq, ToSetOfEmpty
  <2>5. CurLenCounts' /\ curLen' \in Nat
    BY <2>1, <2>2, <2>3, <2>4, Places DEF IInv, CurLenCounts
  <2>6. SleepIsSafe'
    BY <2>1, <2>2, <2>4, <2>5, Places DEF IInv, SleepIsSafe, TypeOK
  <2>7. InOnePlace'
    BY <2>1, <2>2, <2>4 DEF IInv, InOnePlace
  <2>8. WaitingIsOnTheWay'
    BY <2>1, <2>2, <2>4 DEF IInv, SleepIsSafe, TypeOK, InOnePlace, WaitingIsOnTheWay, OnTheWay
  <2>9. QED
    BY <2>5, <2>6, <2>7, <2>8 DEF IInv
<1>3. ASSUME SleepFrom PROVE IInv'
  <2>1. /\ "from" \in awake /\ completed = <<>> /\ MovePending(fifo, 0, awake \ {"from"})
        /\ UNCHANGED <<running, doneFifo, completed, fut, stopped, exited>>
    BY <1>3 DEF SleepFrom
  <2>2. /\ fifo' \in Seq(Items) /\ IsInjective(fifo')
        /\ pending' \in Seq(Items) /\ IsInjective(pending') /\ Len(pending') <= QueueLength
        /\ ToSet(pending') \cup ToSet(fifo') = ToSet(pending) \cup ToSet(fifo)
        /\ ToSet(pending') \cap ToSet(fifo') = {}
        /\ fifo' # <<>> => Len(pending') = QueueLength
        /\ Len(pending') >= Len(pending)
        /\ curLen' = curLen + (Len(pending') - Len(pending)) - 0
        /\ awake' \in {awake \ {"from"}, (awake \ {"from"}) \cup {"to"}}
        /\ "to" \notin awake' => pending' = pending
    BY <2>1, Places, RequestsMove DEF IInv, InOnePlace
  <2>3. Len(pending') \in Nat
    BY <2>2, LenProperties
  <2>4. CurLenCounts' /\ curLen' \in Nat /\ curLen' >= Len(pending')
    BY <2>1, <2>2, <2>3, Places DEF IInv, CurLenCounts
  <2>5. SleepIsSafe'
    <3>1. TypeOK'
      BY <2>1, <2>2, <2>4 DEF IInv, SleepIsSafe, TypeOK
    <3>2. fifo' # <<>> => curLen' >= QueueLength
      BY <2>2, <2>3, <2>4, Places
    <3>3. QED
      BY <2>1, <2>2, <3>1, <3>2 DEF IInv, SleepIsSafe
  <2>6. InOnePlace' /\ WaitingIsOnTheWay'
    BY <2>1, <2>2 DEF IInv, InOnePlace, WaitingIsOnTheWay, OnTheWay
  <2>7. QED
    BY <2>4, <2>5, <2>6 DEF IInv
<1>4. ASSUME PollTo PROVE IInv'
  <2>1. /\ "to" \in awake /\ FlushResponseBatch(doneFifo, awake)
        /\ pending' = <<>> /\ running' = running \cup ToSet(pending)
        /\ UNCHANGED <<fifo, fut, curLen, stopped, exited>>
    BY <1>4 DEF PollTo
  <2>2. /\ doneFifo' \in Seq(Items) /\ IsInjective(doneFifo')
        /\ completed' \in Seq(Items) /\ IsInjective(completed') /\ Len(completed') <= QueueLength
        /\ ToSet(completed') \cup ToSet(doneFifo') = ToSet(completed) \cup ToSet(doneFifo)
        /\ ToSet(completed') \cap ToSet(doneFifo') = {}
        /\ Len(completed') + Len(doneFifo') = Len(completed) + Len(doneFifo)
        /\ awake' \in {awake, awake \cup {"from"}}
        /\ "from" \notin awake' => completed' = completed
    BY <2>1, Places, ResponsesMove DEF IInv, InOnePlace
  <2>3. Len(completed') \in Nat /\ Len(doneFifo') \in Nat
    BY <2>2, LenProperties
  <2>4. /\ pending' \in Seq(Items) /\ Len(pending') = 0 /\ ToSet(pending') = {}
        /\ IsInjective(pending')
    BY <2>1, EmptySeq, ToSetOfEmpty
  <2>5. /\ IsFiniteSet(running') /\ Cardinality(running') = Cardinality(running) + Len(pending)
    <3>1. IsFiniteSet(ToSet(pending)) /\ Cardinality(ToSet(pending)) = Len(pending)
      BY Places, LenIsCardinality DEF IInv, InOnePlace
    <3>2. running \cap ToSet(pending) = {}
      BY DEF IInv, InOnePlace
    <3>3. IsFiniteSet(running)
      BY DEF IInv, CurLenCounts
    <3>4. /\ IsFiniteSet(running \cup ToSet(pending))
          /\ Cardinality(running \cup ToSet(pending))
               = Cardinality(running) + Cardinality(ToSet(pending)) - Cardinality(running \cap ToSet(pending))
      BY <3>1, <3>3, FS_Union
    <3>5. Cardinality(running \cap ToSet(pending)) = 0
      BY <3>2, FS_EmptySet
    <3>6. QED
      BY <2>1, <3>1, <3>4, <3>5, Places
  <2>6. CurLenCounts'
    BY <2>1, <2>2, <2>3, <2>4, <2>5, Places DEF IInv, CurLenCounts
  <2>7. SleepIsSafe'
    BY <2>1, <2>2, <2>4, Places DEF IInv, SleepIsSafe, TypeOK
  <2>8. InOnePlace' /\ WaitingIsOnTheWay'
    BY <2>1, <2>2, <2>4 DEF IInv, InOnePlace, WaitingIsOnTheWay, OnTheWay
  <2>9. QED
    BY <2>6, <2>7, <2>8 DEF IInv
<1>5. ASSUME SleepTo PROVE IInv'
  <2>1. /\ "to" \in awake /\ pending = <<>> /\ FlushResponseBatch(doneFifo, awake \ {"to"})
        /\ Len(doneFifo) <= QueueLength - Len(completed)
        /\ UNCHANGED <<fifo, pending, running, fut, curLen, stopped, exited>>
    BY <1>5 DEF SleepTo
  <2>2. /\ doneFifo' \in Seq(Items) /\ IsInjective(doneFifo')
        /\ completed' \in Seq(Items) /\ IsInjective(completed') /\ Len(completed') <= QueueLength
        /\ ToSet(completed') \cup ToSet(doneFifo') = ToSet(completed) \cup ToSet(doneFifo)
        /\ ToSet(completed') \cap ToSet(doneFifo') = {}
        /\ Len(completed') + Len(doneFifo') = Len(completed) + Len(doneFifo)
        /\ awake' \in {awake \ {"to"}, (awake \ {"to"}) \cup {"from"}}
        /\ "from" \notin awake' => completed' = completed
        /\ doneFifo' = <<>>
    BY <2>1, Places, ResponsesMove DEF IInv, InOnePlace
  <2>3. Len(completed') \in Nat /\ Len(doneFifo') \in Nat
    BY <2>2, LenProperties
  <2>4. CurLenCounts'
    BY <2>1, <2>2, <2>3, Places DEF IInv, CurLenCounts
  <2>5. SleepIsSafe'
    BY <2>1, <2>2, Places DEF IInv, SleepIsSafe, TypeOK
  <2>6. InOnePlace' /\ WaitingIsOnTheWay'
    BY <2>1, <2>2 DEF IInv, InOnePlace, WaitingIsOnTheWay, OnTheWay
  <2>7. QED
    BY <2>4, <2>5, <2>6 DEF IInv
<1>6. ASSUME NEW i \in Items, Respond(i) PROVE IInv'
  <2> DEFINE c == Append(doneFifo, i)
  <2>1. /\ "to" \in awake /\ i \in running /\ running' = running \ {i}
        /\ UNCHANGED <<fifo, pending, fut, curLen, stopped, exited>>
        /\ \/ FlushResponseBatch(c, awake)
           \/ doneFifo' = c /\ UNCHANGED <<completed, awake>>
    BY <1>6 DEF Respond
  <2>2. /\ c \in Seq(Items) /\ ToSet(c) = ToSet(doneFifo) \cup {i} /\ IsInjective(c)
        /\ Len(c) = Len(doneFifo) + 1
    BY <2>1, Places, ToSetOfAppend, AppendProperties DEF IInv, InOnePlace
  <2> HIDE DEF c
  <2>3. ToSet(c) \cap ToSet(completed) = {}
    BY <2>1, <2>2 DEF IInv, InOnePlace
  <2>4. /\ doneFifo' \in Seq(Items) /\ IsInjective(doneFifo')
        /\ completed' \in Seq(Items) /\ IsInjective(completed') /\ Len(completed') <= QueueLength
        /\ ToSet(completed') \cup ToSet(doneFifo') = ToSet(completed) \cup ToSet(c)
        /\ ToSet(completed') \cap ToSet(doneFifo') = {}
        /\ Len(completed') + Len(doneFifo') = Len(completed) + Len(c)
        /\ awake' \in {awake, awake \cup {"from"}}
        /\ "from" \notin awake' => completed' = completed
    <3>1. CASE FlushResponseBatch(c, awake)
      BY <2>2, <2>3, <3>1, ResponsesMove
    <3>2. CASE doneFifo' = c /\ UNCHANGED <<completed, awake>>
      BY <2>2, <2>3, <3>2, Places DEF IInv, SleepIsSafe, TypeOK, InOnePlace
    <3>3. QED
      BY <2>1, <3>1, <3>2
  <2>5. Len(completed') \in Nat /\ Len(doneFifo') \in Nat
    BY <2>4, LenProperties
  <2>6. IsFiniteSet(running') /\ Cardinality(running') = Cardinality(running) - 1
    <3>1. IsFiniteSet(running)
      BY DEF IInv, CurLenCounts
    <3>2. QED
      BY <2>1, <3>1, FS_RemoveElement
  <2>7. CurLenCounts'
    <3>1. curLen = Len(pending) + Cardinality(running) + Len(doneFifo) + Len(completed)
      BY DEF IInv, CurLenCounts
    <3>2. curLen' = curLen /\ Len(pending') = Len(pending)
      BY <2>1
    <3>3. Len(completed') + Len(doneFifo') = Len(completed) + (Len(doneFifo) + 1)
      BY <2>2, <2>4
    <3>4. /\ Len(pending) \in Nat /\ Cardinality(running) \in Nat
          /\ Len(doneFifo) \in Nat /\ Len(completed) \in Nat
      BY Places
    <3>5. Len(pending') + Cardinality(running') = Len(pending) + Cardinality(running) - 1
      BY <2>6, <3>2, <3>4
    <3>6. curLen' = Len(pending') + Cardinality(running') + Len(doneFifo') + Len(completed')
      BY <2>5, <2>6, <3>1, <3>2, <3>3, <3>4, <3>5
    <3>7. QED
      BY <2>6, <3>6 DEF CurLenCounts
  <2>8. SleepIsSafe'
    BY <2>1, <2>4, Places DEF IInv, SleepIsSafe, TypeOK
  <2>9. InOnePlace' /\ WaitingIsOnTheWay'
    BY <2>1, <2>2, <2>4 DEF IInv, InOnePlace, WaitingIsOnTheWay, OnTheWay
  <2>10. QED
    BY <2>7, <2>8, <2>9 DEF IInv
<1>7. ASSUME UNCHANGED <<fifo, pending, running, doneFifo, completed, fut, curLen>>,
             awake' \subseteq {"from", "to"}, awake \subseteq awake',
             stopped' \in BOOLEAN, exited' \in BOOLEAN
      PROVE  IInv'
  <2>1. /\ fifo' = fifo /\ pending' = pending /\ running' = running /\ doneFifo' = doneFifo
        /\ completed' = completed /\ fut' = fut /\ curLen' = curLen
    BY <1>7
  <2>2. SleepIsSafe'
    BY <1>7, <2>1 DEF IInv, SleepIsSafe, TypeOK
  <2>3. InOnePlace' /\ WaitingIsOnTheWay' /\ CurLenCounts'
    BY <2>1 DEF IInv, InOnePlace, WaitingIsOnTheWay, OnTheWay, CurLenCounts
  <2>4. QED
    BY <2>2, <2>3 DEF IInv
<1>8. awake \subseteq {"from", "to"} /\ stopped \in BOOLEAN /\ exited \in BOOLEAN
  BY DEF IInv, SleepIsSafe, TypeOK
<1>9. ASSUME SetStopped \/ Exit PROVE IInv'
  BY <1>7, <1>8, <1>9 DEF SetStopped, Exit
<1>10. ASSUME NEW r \in {"from", "to"}, EventWakes(r) PROVE IInv'
  BY <1>7, <1>8, <1>10 DEF EventWakes
<1>11. CASE UNCHANGED vars
  BY <1>7, <1>8, <1>11 DEF vars
<1>12. QED
  BY <1>1, <1>2, <1>3, <1>4, <1>5, <1>6, <1>9, <1>10, <1>11 DEF Next, From, To

LEMMA InvariantHolds == Spec => []IInv
<1>1. QED
  BY InitEstablishes, NextPreserves, PTL DEF Spec

\* A reactor sleeps only when nothing is left that the other side waits for:
\* requests stay in the fifo of a sleeper only behind a full queue.
THEOREM SleepIsSafeHolds == Spec => []SleepIsSafe
<1>1. IInv => SleepIsSafe
  BY DEF IInv
<1>2. QED
  BY <1>1, InvariantHolds, PTL

-----------------------------------------------------------------------------
(* The refinement of SubmitTo *)

\* The state of SubmitTo that a state of the queues stands for.
waiting == pending \o fifo
ended == ToSet(doneFifo) \cup ToSet(completed)
ready == {i \in Items : fut[i] = "ready"}

\* The functions that wait, in the words of SubmitTo.
LEMMA WaitingItems ==
  ASSUME IInv
  PROVE  /\ waiting \in Seq(Items) /\ Len(waiting) = Len(pending) + Len(fifo)
         /\ {waiting[k] : k \in 1..Len(waiting)} = ToSet(pending) \cup ToSet(fifo)
         /\ {waiting[k] : k \in 1..Len(pending)} = ToSet(pending)
         /\ SubSeq(waiting, Len(pending) + 1, Len(waiting)) = fifo
<1>1. pending \in Seq(Items) /\ fifo \in Seq(Items) /\ Len(pending) \in Nat /\ Len(fifo) \in Nat
  BY Places
<1>2. /\ waiting \in Seq(Items) /\ Len(waiting) = Len(pending) + Len(fifo)
      /\ ToSet(waiting) = ToSet(pending) \cup ToSet(fifo)
  BY <1>1, ToSetOfConcat DEF waiting
<1>3. \A k \in 1..Len(pending) : waiting[k] = pending[k]
  BY <1>1, ConcatProperties DEF waiting
<1>4. SubSeq(waiting, Len(pending) + 1, Len(waiting)) = fifo
  BY <1>1, <1>2 DEF waiting
<1>5. ToSet(waiting) = {waiting[k] : k \in 1..Len(waiting)}
  BY <1>2, ToSetIsImage
<1>6. ToSet(pending) = {pending[k] : k \in 1..Len(pending)}
  BY <1>1, ToSetIsImage
<1>7. QED
  BY <1>2, <1>3, <1>4, <1>5, <1>6

LEMMA InitRefines == Init => Abstract!Init
<1> SUFFICES ASSUME Init PROVE Abstract!Init
  OBVIOUS
<1>1. <<>> \o <<>> = <<>>
  BY ConcatEmptySeq, EmptySeq
<1>2. ToSet(<<>>) = {}
  BY ToSetOfEmpty
<1>3. QED
  BY <1>1, <1>2 DEF Init, Abstract!Init

\* Every step is one of SubmitTo or changes nothing of what it speaks of.
LEMMA NextRefines == IInv /\ [Next]_vars => [Abstract!Next]_Abstract!vars
<1> SUFFICES ASSUME IInv, [Next]_vars PROVE [Abstract!Next]_Abstract!vars
  OBVIOUS
<1>1. ASSUME NEW i \in Items, Submit(i) PROVE Abstract!Submit(i)
  <2> DEFINE f == Append(fifo, i)
  <2>1. /\ fut[i] = "none" /\ fut' = [fut EXCEPT ![i] = "waiting"]
        /\ UNCHANGED <<running, doneFifo, completed>>
        /\ \/ MovePending(f, 0, awake)
           \/ fifo' = f /\ pending' = pending
    BY <1>1 DEF Submit
  <2>2. i \notin OnTheWay /\ i \notin ready
    BY <2>1 DEF IInv, WaitingIsOnTheWay, ready
  <2>3. f \in Seq(Items) /\ ToSet(f) = ToSet(fifo) \cup {i} /\ IsInjective(f)
    BY <2>2, Places, ToSetOfAppend DEF IInv, InOnePlace, OnTheWay
  <2> HIDE DEF f
  <2>4. ToSet(f) \cap ToSet(pending) = {}
    BY <2>2, <2>3 DEF IInv, InOnePlace, OnTheWay
  <2>5. waiting' = pending \o f
    BY <2>1, <2>3, <2>4, RequestsMove DEF waiting
  <2>6. pending \o f = Append(waiting, i)
    BY Places DEF f, waiting
  <2>7. ended' = ended /\ running' = running /\ ready' = ready
    BY <2>1 DEF ended, ready, IInv, SleepIsSafe, TypeOK
  <2>8. i \notin {waiting[k] : k \in 1..Len(waiting)} \cup running \cup ended \cup ready
    BY <2>2, WaitingItems DEF OnTheWay, ended
  <2>9. QED
    BY <2>5, <2>6, <2>7, <2>8 DEF Abstract!Submit, Abstract!Waiting, waiting, ended, ready
<1>2. ASSUME PollFrom PROVE Abstract!Complete(ToSet(completed))
  <2>1. /\ MovePending(fifo, Len(completed), awake) /\ completed' = <<>>
        /\ fut' = [i \in Items |-> IF i \in ToSet(completed) THEN "ready" ELSE fut[i]]
        /\ UNCHANGED <<running, doneFifo>>
    BY <1>2 DEF PollFrom
  <2>2. waiting' = waiting
    BY <2>1, Places, RequestsMove DEF IInv, InOnePlace, waiting
  <2>3. ended' = ended \ ToSet(completed)
    BY <2>1, ToSetOfEmpty DEF IInv, InOnePlace, ended
  <2>4. ready' = ready \cup ToSet(completed)
    BY <2>1, Places DEF ready
  <2>5. QED
    BY <2>1, <2>2, <2>3, <2>4 DEF Abstract!Complete, waiting, ended, ready
<1>3. ASSUME PollTo 
      PROVE  Abstract!Begin(Len(pending)) /\ (pending = <<>> => UNCHANGED Abstract!vars)
  <2>1. /\ FlushResponseBatch(doneFifo, awake) /\ pending' = <<>>
        /\ running' = running \cup ToSet(pending) /\ UNCHANGED <<fifo, fut>>
    BY <1>3 DEF PollTo
  <2>2. ended' = ended
    BY <2>1, Places, ResponsesMove DEF IInv, InOnePlace, ended
  <2>3. waiting' = fifo
    BY <2>1, Places, ConcatEmptySeq DEF waiting
  <2>4. ready' = ready
    BY <2>1 DEF ready
  <2>5. running' = running \cup {waiting[k] : k \in 1..Len(pending)}
    BY <2>1, WaitingItems
  <2>6. waiting' = SubSeq(waiting, Len(pending) + 1, Len(waiting))
    BY <2>3, WaitingItems
  <2>7. Abstract!Begin(Len(pending))
    BY <2>2, <2>4, <2>5, <2>6 DEF Abstract!Begin, waiting, ended, ready
  <2>8. ASSUME pending = <<>> PROVE waiting' = waiting /\ running' = running
    <3>1. waiting = fifo
      BY <2>8, Places, ConcatEmptySeq DEF waiting
    <3>2. ToSet(pending) = {}
      BY <2>8, ToSetOfEmpty
    <3>3. QED
      BY <2>1, <2>3, <3>1, <3>2
  <2>9. QED
    BY <2>2, <2>4, <2>7, <2>8 DEF Abstract!vars, waiting, ended, ready
<1>4. ASSUME NEW i \in Items, Respond(i) PROVE Abstract!End(i)
  <2> DEFINE c == Append(doneFifo, i)
  <2>1. /\ i \in running /\ running' = running \ {i} /\ UNCHANGED <<fifo, pending, fut>>
        /\ \/ FlushResponseBatch(c, awake)
           \/ doneFifo' = c /\ completed' = completed
    BY <1>4 DEF Respond
  <2>2. c \in Seq(Items) /\ ToSet(c) = ToSet(doneFifo) \cup {i} /\ IsInjective(c)
    BY <2>1, Places, ToSetOfAppend DEF IInv, InOnePlace
  <2> HIDE DEF c
  <2>3. ToSet(c) \cap ToSet(completed) = {}
    BY <2>1, <2>2 DEF IInv, InOnePlace
  <2>4. ended' = ended \cup {i}
    BY <2>1, <2>2, <2>3, ResponsesMove DEF ended
  <2>5. waiting' = waiting /\ ready' = ready
    BY <2>1 DEF waiting, ready
  <2>6. QED
    BY <2>1, <2>4, <2>5 DEF Abstract!End, waiting, ended, ready
<1>5. ASSUME SleepFrom PROVE UNCHANGED Abstract!vars
  <2>1. /\ MovePending(fifo, 0, awake \ {"from"})
        /\ UNCHANGED <<running, doneFifo, completed, fut>>
    BY <1>5 DEF SleepFrom
  <2>2. waiting' = waiting
    BY <2>1, Places, RequestsMove DEF IInv, InOnePlace, waiting
  <2>3. ended' = ended /\ ready' = ready
    BY <2>1 DEF ended, ready
  <2>4. QED
    BY <2>1, <2>2, <2>3 DEF Abstract!vars, waiting, ended, ready
<1>6. ASSUME SleepTo PROVE UNCHANGED Abstract!vars
  <2>1. /\ FlushResponseBatch(doneFifo, awake \ {"to"})
        /\ UNCHANGED <<fifo, pending, running, fut>>
    BY <1>6 DEF SleepTo
  <2>2. ended' = ended
    BY <2>1, Places, ResponsesMove DEF IInv, InOnePlace, ended
  <2>3. waiting' = waiting /\ ready' = ready
    BY <2>1 DEF waiting, ready
  <2>4. QED
    BY <2>1, <2>2, <2>3 DEF Abstract!vars, waiting, ended, ready
<1>7. ASSUME UNCHANGED <<fifo, pending, running, doneFifo, completed, fut>>
      PROVE  UNCHANGED Abstract!vars
  BY <1>7 DEF Abstract!vars
<1>8. CASE Next
  <2>1. ASSUME NEW i \in Items, Submit(i) \/ Respond(i) PROVE Abstract!Next
    BY <1>1, <1>4, <2>1 DEF Abstract!Next
  <2>2. ASSUME PollFrom PROVE Abstract!Next
    <3>1. ToSet(completed) \in SUBSET ended
      BY DEF ended
    <3>2. \E S \in SUBSET (ToSet(doneFifo) \cup ToSet(completed)) : Abstract!Complete(S)
      <4>1. Abstract!Complete(ToSet(completed))
        BY <1>2, <2>2
      <4>2. ToSet(completed) \in SUBSET (ToSet(doneFifo) \cup ToSet(completed))
        BY <3>1 DEF ended
      <4>3. QED
        BY <4>1, <4>2 DEF Abstract!Complete
    <3>3. QED
      BY <3>2 DEF Abstract!Next
  <2>3. ASSUME PollTo PROVE [Abstract!Next]_Abstract!vars
    <3>1. pending # <<>> => Len(pending) \in 1..Len(waiting)
      <4>1. pending # <<>> => Len(pending) \in Nat \ {0}
        BY Places, EmptySeq
      <4>2. QED
        BY <4>1, Places, WaitingItems
    <3>2. QED
      BY <1>3, <2>3, <3>1 DEF Abstract!Next, waiting
  <2>4. ASSUME SetStopped \/ Exit \/ EventWakes("from") \/ EventWakes("to")
        PROVE  UNCHANGED Abstract!vars
    BY <1>7, <2>4 DEF SetStopped, Exit, EventWakes
  <2>5. QED
    BY <1>5, <1>6, <1>8, <2>1, <2>2, <2>3, <2>4 DEF Next, From, To
<1>9. QED
  BY <1>7, <1>8 DEF vars

\* The queues do what submit_to() promises: every function begins once, in the
\* order of submission, and its future becomes ready once, after it has ended;
\* whatever is batched, refused by a full queue, or asleep.
THEOREM ImplementsSubmitToHolds == Spec => ImplementsSubmitTo
<1>1. QED
  BY InitRefines, NextRefines, InvariantHolds, PTL DEF Spec, ImplementsSubmitTo, Abstract!Spec

(***************************************************************************)
(* SmpSleep: the properties its runs check on two senders, for any set of  *)
(* senders, any number of pushes and any buffer depth.                     *)
(***************************************************************************)

\* Between its barrier and the end of its sleep the reactor stores nothing.
Resting == rpc \in {"barrier", "polling", "asleep"}

\* The flag is up in memory, or whoever took it down signals.
Announced == sleeping \/ signal \/ \E s \in Senders : pc[s] = "cleared"

\* A store of false is only buffered by a sender about to signal.
ClearsSignal == \A s \in Senders : pc[s] # "cleared" => \A i \in 1..Len(sbuf[s]) : sbuf[s][i] # "clear"

\* The last store of the reactor said what it is about to do.
FlagIsSet ==
  /\ rpc = "setting" => IF rbuf = <<>> THEN Announced ELSE rbuf[Len(rbuf)] = TRUE
  /\ Resting => rbuf = <<>> /\ Announced

\* A push the barrier or the poll did not reach has its waker under way.
MissedIsWoken ==
  /\ rpc \in {"polling", "asleep"} => acked = Senders
  /\ rpc = "asleep" => polled = Senders
  /\ Resting => \A s \in acked : sbuf[s] # <<>> => WakerUnderWay
  /\ rpc \in {"polling", "asleep"} => \A s \in polled : queued[s] > 0 => WakerUnderWay

SleepIInv == SleepTypeOK /\ ClearsSignal /\ FlagIsSet /\ MissedIsWoken

-----------------------------------------------------------------------------

LEMMA SleepInitEstablishes == SleepInit => SleepIInv
<1>1. <<>> \in Seq(BOOLEAN) /\ <<>> \in Seq(Stores)
  BY EmptySeq
<1>2. SleepInit => SleepTypeOK
  <2> SUFFICES ASSUME SleepInit PROVE SleepTypeOK
    OBVIOUS
  <2>1. sbuf \in [Senders -> Seq(Stores)] /\ rbuf \in Seq(BOOLEAN)
    BY <1>1 DEF SleepInit
  <2>2. pc \in [Senders -> SenderPc] /\ rpc \in ReactorPc
    BY DEF SleepInit, SenderPc, ReactorPc
  <2>3. /\ queued \in [Senders -> Nat] /\ pushes \in [Senders -> Nat]
        /\ acked \subseteq Senders /\ polled \subseteq Senders
        /\ sleeping \in BOOLEAN /\ signal \in BOOLEAN
    BY DEF SleepInit
  <2>4. QED
    BY <2>1, <2>2, <2>3 DEF SleepTypeOK
<1>3. SleepInit => ClearsSignal /\ FlagIsSet /\ MissedIsWoken
  BY DEF SleepInit, ClearsSignal, FlagIsSet, MissedIsWoken, Resting
<1>4. QED
  BY <1>2, <1>3 DEF SleepIInv

\* What the reactor's own stores do to its buffer.
LEMMA ReactorStores ==
  ASSUME SleepTypeOK, NEW b \in BOOLEAN
  PROVE  /\ Append(rbuf, b) \in Seq(BOOLEAN) /\ Append(rbuf, b) # <<>>
         /\ Append(rbuf, b)[Len(Append(rbuf, b))] = b
BY AppendProperties DEF SleepTypeOK

\* Writing back the oldest store leaves the newest where it is.
LEMMA TailKeepsLast ==
  ASSUME NEW q \in Seq(BOOLEAN), q # <<>>, Len(q) # 1
  PROVE  Tail(q) # <<>> /\ Tail(q)[Len(Tail(q))] = q[Len(q)]
<1>1. /\ Tail(q) \in Seq(BOOLEAN) /\ Len(Tail(q)) = Len(q) - 1
      /\ \A i \in 1..Len(Tail(q)) : Tail(q)[i] = q[i + 1]
  BY HeadTailProperties
<1>2. Len(q) \in Nat /\ Len(q) # 0
  BY EmptySeq
<1>3. Len(q) - 1 \in 1..(Len(q) - 1) /\ (Len(q) - 1) + 1 = Len(q) /\ Len(q) - 1 # 0
  <2>1. \A n \in Nat : n # 0 /\ n # 1 => n - 1 \in 1..(n - 1) /\ (n - 1) + 1 = n /\ n - 1 # 0
    OBVIOUS
  <2>2. QED
    BY <1>2, <2>1, Zenon
<1>4. Tail(q)[Len(Tail(q))] = q[Len(q)]
  BY <1>1, <1>3
<1>5. Len(Tail(q)) # 0
  BY <1>1, <1>3
<1>6. Len(<<>>) = 0
  OBVIOUS
<1>7. QED
  BY <1>4, <1>5, <1>6, Zenon

\* The types, one action at a time.
LEMMA SleepTypeStep ==
  ASSUME SleepTypeOK, [SleepNext]_sleepVars
  PROVE  SleepTypeOK'
<1> USE SmpSleepAssumption DEF SleepTypeOK, Stores, SenderPc, ReactorPc
<1>1. ASSUME NEW s \in Senders, Sender(s) PROVE SleepTypeOK'
  <2> "push" \in Stores /\ "clear" \in Stores
    OBVIOUS
  <2>1. CASE Push(s)
    BY <2>1 DEF Push
  <2>2. CASE LoadSleeping(s)
    BY <2>2 DEF LoadSleeping
  <2>3. CASE ClearSleeping(s)
    BY <2>3 DEF ClearSleeping
  <2>4. CASE Wakeup(s)
    BY <2>4 DEF Wakeup
  <2>5. CASE DrainSender(s)
    <3>1. Tail(sbuf[s]) \in Seq(Stores)
      BY <2>5, HeadTailProperties DEF DrainSender
    <3>2. \/ queued' = [queued EXCEPT ![s] = @ + 1] /\ sleeping' = sleeping
          \/ sleeping' = FALSE /\ queued' = queued
      BY <2>5, Zenon DEF DrainSender
    <3>3. queued' \in [Senders -> Nat] /\ sleeping' \in BOOLEAN
      <4>1. CASE queued' = [queued EXCEPT ![s] = @ + 1] /\ sleeping' = sleeping
        <5>1. queued[s] + 1 \in Nat
          OBVIOUS
        <5>2. QED
          BY <4>1, <5>1
      <4>2. CASE sleeping' = FALSE /\ queued' = queued
        BY <4>2
      <4>3. QED
        BY <3>2, <4>1, <4>2
    <3>4. sbuf' = [sbuf EXCEPT ![s] = Tail(@)] /\ UNCHANGED <<rbuf, pc, rpc, acked, polled, signal, pushes>>
      BY <2>5 DEF DrainSender
    <3>5. QED
      BY <3>1, <3>3, <3>4
  <2>6. QED
    BY <1>1, <2>1, <2>2, <2>3, <2>4, <2>5 DEF Sender
<1> Append(rbuf, TRUE) \in Seq(BOOLEAN) /\ Append(rbuf, FALSE) \in Seq(BOOLEAN)
  BY ReactorStores
<1>2. ASSUME NEW s \in Senders, Process(s) \/ BarrierReaches(s) \/ PollQueue(s) PROVE SleepTypeOK'
  <2>1. CASE Process(s)
    BY <2>1 DEF Process
  <2>2. CASE BarrierReaches(s)
    BY <2>2 DEF BarrierReaches
  <2>3. CASE PollQueue(s)
    <3>1. UNCHANGED <<sleeping, sbuf, pc, signal, pushes>>
      BY <2>3 DEF PollQueue
    <3>2. CASE polled' = polled \cup {s} /\ UNCHANGED <<queued, rbuf, rpc, acked>>
      BY <3>1, <3>2
    <3>3. CASE queued' = [queued EXCEPT ![s] = 0] /\ StayAwake
      <4>1. queued' \in [Senders -> Nat]
        BY <3>3
      <4>2. QED
        BY <3>1, <3>3, <4>1 DEF StayAwake
    <3>4. QED
      BY <2>3, <3>2, <3>3, Zenon DEF PollQueue
  <2>4. QED
    BY <1>2, <2>1, <2>2, <2>3
<1>3. CASE TryEnterInterruptMode \/ BarrierFails \/ ExitInterruptMode
  BY <1>3 DEF TryEnterInterruptMode, BarrierFails, ExitInterruptMode, StayAwake
<1>4. CASE BarrierStart \/ BarrierDone \/ WaitAndProcess \/ SignalWakes \/ EventEndsSleep
  BY <1>4 DEF BarrierStart, BarrierDone, WaitAndProcess, SignalWakes, EventEndsSleep
<1>5. CASE DrainReactor
  BY <1>5 DEF DrainReactor
<1>6. CASE UNCHANGED sleepVars
  BY <1>6 DEF sleepVars
<1>7. QED
  BY <1>1, <1>2, <1>3, <1>4, <1>5, <1>6 DEF SleepNext, Reactor

\* A sender that clears the flag is committed to the signal until it is sent.
LEMMA ClearsStep ==
  ASSUME SleepIInv, [SleepNext]_sleepVars
  PROVE  ClearsSignal'
<1> USE DEF SleepIInv, SleepTypeOK, ClearsSignal, Stores, SenderPc
<1>1. ASSUME NEW s \in Senders, Sender(s) PROVE ClearsSignal'
  <2>1. CASE Push(s)
    BY <2>1 DEF Push
  <2>2. CASE LoadSleeping(s)
    BY <2>2 DEF LoadSleeping
  <2>3. CASE ClearSleeping(s)
    BY <2>3 DEF ClearSleeping
  <2>4. CASE Wakeup(s)
    BY <2>4 DEF Wakeup
  <2>5. CASE DrainSender(s)
    <3>1. \A i \in 1..Len(Tail(sbuf[s])) : i + 1 \in 1..Len(sbuf[s]) /\ Tail(sbuf[s])[i] = sbuf[s][i + 1]
      BY <2>5 DEF DrainSender
    <3>2. QED
      BY <2>5, <3>1 DEF DrainSender
  <2>6. QED
    BY <1>1, <2>1, <2>2, <2>3, <2>4, <2>5 DEF Sender
<1>2. CASE UNCHANGED <<sbuf, pc>>
  BY <1>2
<1>3. CASE Reactor
  <2>1. UNCHANGED <<sbuf, pc>>
    BY <1>3 DEF Reactor, TryEnterInterruptMode, BarrierFails, BarrierStart, BarrierDone, WaitAndProcess,
       SignalWakes, EventEndsSleep, ExitInterruptMode, DrainReactor, Process, BarrierReaches, PollQueue
  <2>2. QED
    BY <1>2, <2>1
<1>4. QED
  BY <1>1, <1>2, <1>3 DEF SleepNext, sleepVars

\* The flag stays up, or its taker stays committed, until the reactor leaves.
LEMMA FlagStep ==
  ASSUME SleepIInv, [SleepNext]_sleepVars
  PROVE  FlagIsSet'
<1> USE DEF SleepIInv, SleepTypeOK, FlagIsSet, Announced, Resting
<1>1. ASSUME NEW s \in Senders, Sender(s) PROVE FlagIsSet'
  <2>1. CASE Push(s)
    BY <2>1 DEF Push
  <2>2. CASE LoadSleeping(s)
    BY <2>2 DEF LoadSleeping
  <2>3. CASE ClearSleeping(s)
    BY <2>3 DEF ClearSleeping
  <2>4. CASE Wakeup(s)
    BY <2>4 DEF Wakeup
  <2>5. CASE DrainSender(s)
    <3>1. Head(sbuf[s]) = "clear" => pc[s] = "cleared"
      BY <2>5 DEF DrainSender, ClearsSignal, Stores
    <3>2. QED
      BY <2>5, <3>1 DEF DrainSender
  <2>6. QED
    BY <1>1, <2>1, <2>2, <2>3, <2>4, <2>5 DEF Sender
<1>2. ASSUME NEW s \in Senders, Process(s) \/ BarrierReaches(s) \/ PollQueue(s) PROVE FlagIsSet'
  BY <1>2 DEF Process, BarrierReaches, PollQueue, StayAwake
<1>3. CASE TryEnterInterruptMode
  BY <1>3, ReactorStores DEF TryEnterInterruptMode
<1>4. CASE BarrierFails \/ ExitInterruptMode
  BY <1>4 DEF BarrierFails, ExitInterruptMode, StayAwake
<1>5. CASE BarrierStart \/ BarrierDone \/ WaitAndProcess \/ SignalWakes \/ EventEndsSleep
  BY <1>5 DEF BarrierStart, BarrierDone, WaitAndProcess, SignalWakes, EventEndsSleep
<1>6. CASE DrainReactor
  <2>1. /\ rbuf # <<>> /\ sleeping' = Head(rbuf) /\ rbuf' = Tail(rbuf)
        /\ UNCHANGED <<pc, rpc, signal>>
    BY <1>6 DEF DrainReactor
  <2>2. /\ Head(rbuf) = rbuf[1] /\ Len(rbuf) \in Nat \ {0}
        /\ Len(Tail(rbuf)) = Len(rbuf) - 1
        /\ \A i \in 1..Len(Tail(rbuf)) : Tail(rbuf)[i] = rbuf[i + 1]
    BY <2>1, HeadTailProperties
  <2>3. CASE Len(rbuf) = 1
    BY <2>1, <2>2, <2>3
  <2>4. CASE Len(rbuf) # 1
    <3>1. Tail(rbuf) # <<>> /\ Tail(rbuf)[Len(Tail(rbuf))] = rbuf[Len(rbuf)]
      BY <2>1, <2>4, TailKeepsLast
    <3>2. CASE rpc = "setting"
      <4>1. rbuf[Len(rbuf)] = TRUE
        BY <2>1, <3>2
      <4>2. QED
        BY <2>1, <3>1, <3>2, <4>1
    <3>3. QED
      BY <2>1, <3>2
  <2>5. QED
    BY <2>3, <2>4
<1>7. CASE UNCHANGED sleepVars
  BY <1>7 DEF sleepVars
<1>8. QED
  BY <1>1, <1>2, <1>3, <1>4, <1>5, <1>6, <1>7 DEF SleepNext, Reactor

\* While the reactor rests, a waker that is under way stays so.
LEMMA WakerPersists ==
  ASSUME SleepIInv, NEW s \in Senders, Sender(s), Resting, WakerUnderWay
  PROVE  WakerUnderWay'
<1> USE DEF SleepIInv, SleepTypeOK, WakerUnderWay, SenderPc
<1>1. CASE Push(s)
  BY <1>1 DEF Push
<1>2. CASE LoadSleeping(s)
  <2>1. CASE Reads(s)
    BY <1>2, <2>1 DEF LoadSleeping
  <2>2. CASE ~Reads(s)
    <3>1. ~sleeping
      BY <1>2, <2>2 DEF LoadSleeping, Reads, ClearsSignal
    <3>2. signal \/ \E u \in Senders : pc[u] = "cleared"
      BY <3>1 DEF FlagIsSet, Announced
    <3>3. QED
      BY <1>2, <3>2 DEF LoadSleeping
  <2>3. QED
    BY <2>1, <2>2
<1>3. CASE ClearSleeping(s)
  BY <1>3 DEF ClearSleeping
<1>4. CASE Wakeup(s)
  BY <1>4 DEF Wakeup
<1>5. CASE DrainSender(s)
  BY <1>5 DEF DrainSender
<1>6. QED
  BY <1>1, <1>2, <1>3, <1>4, <1>5 DEF Sender

\* What the barrier and the poll have passed is not missed.
LEMMA MissedStep ==
  ASSUME SleepIInv, [SleepNext]_sleepVars
  PROVE  MissedIsWoken'
<1> USE DEF SleepIInv, SleepTypeOK, MissedIsWoken, Resting
<1>1. ASSUME NEW s \in Senders, Sender(s) PROVE MissedIsWoken'
  <2>1. UNCHANGED <<rpc, acked, polled>>
    BY <1>1 DEF Sender, Push, LoadSleeping, ClearSleeping, Wakeup, DrainSender
  <2>2. Resting /\ WakerUnderWay => WakerUnderWay'
    BY <1>1, WakerPersists
  <2>3. CASE Push(s) \/ ClearSleeping(s)
    <3>1. WakerUnderWay'
      BY <2>3 DEF Push, ClearSleeping, WakerUnderWay
    <3>2. QED
      BY <2>1, <3>1
  <2>4. CASE LoadSleeping(s) \/ Wakeup(s)
    BY <2>1, <2>2, <2>4 DEF LoadSleeping, Wakeup
  <2>5. CASE DrainSender(s)
    <3>1. \A u \in Senders : u # s => sbuf'[u] = sbuf[u] /\ queued'[u] = queued[u]
      BY <2>5 DEF DrainSender
    <3>2. Resting /\ s \in acked => WakerUnderWay
      BY <2>5 DEF DrainSender
    <3>3. QED
      BY <2>1, <2>2, <3>1, <3>2
  <2>6. QED
    BY <1>1, <2>3, <2>4, <2>5 DEF Sender
<1>2. ASSUME NEW s \in Senders, Process(s) PROVE MissedIsWoken'
  BY <1>2 DEF Process
<1>3. ASSUME NEW s \in Senders, BarrierReaches(s) PROVE MissedIsWoken'
  BY <1>3 DEF BarrierReaches, WakerUnderWay
<1>4. ASSUME NEW s \in Senders, PollQueue(s) PROVE MissedIsWoken'
  <2>1. CASE queued[s] = 0 /\ polled' = polled \cup {s} /\ UNCHANGED <<queued, rpc, acked>>
    BY <1>4, <2>1 DEF PollQueue, WakerUnderWay
  <2>2. CASE StayAwake
    <3>1. rpc' = "running"
      BY <2>2 DEF StayAwake
    <3>2. QED
      BY <3>1
  <2>3. QED
    BY <1>4, <2>1, <2>2, Zenon DEF PollQueue
<1>5. CASE BarrierStart \/ BarrierDone \/ WaitAndProcess
  BY <1>5 DEF BarrierStart, BarrierDone, WaitAndProcess, WakerUnderWay
<1>6. CASE TryEnterInterruptMode \/ BarrierFails \/ SignalWakes \/ EventEndsSleep \/ ExitInterruptMode
  BY <1>6 DEF TryEnterInterruptMode, BarrierFails, SignalWakes, EventEndsSleep, ExitInterruptMode, StayAwake
<1>7. CASE DrainReactor \/ UNCHANGED sleepVars
  BY <1>7 DEF DrainReactor, sleepVars, WakerUnderWay
<1>8. QED
  BY <1>1, <1>2, <1>3, <1>4, <1>5, <1>6, <1>7 DEF SleepNext, Reactor

\* The invariant holds in every state of the protocol.
THEOREM SleepInvariantHolds == SleepSpec => []SleepIInv
<1>1. SleepInit => SleepIInv
  BY SleepInitEstablishes
<1>2. SleepIInv /\ [SleepNext]_sleepVars => SleepIInv'
  BY SleepTypeStep, ClearsStep, FlagStep, MissedStep DEF SleepIInv
<1>3. QED
  BY <1>1, <1>2, PTL DEF SleepSpec

\* The variables keep their types (reactor.cc:3543-3667, 2938-2969).
THEOREM SleepTypeCorrect == SleepSpec => []SleepTypeOK
<1>1. SleepIInv => SleepTypeOK
  BY DEF SleepIInv
<1>2. QED
  BY <1>1, SleepInvariantHolds, PTL

\* A reactor never sleeps on an item while nobody is about to wake it
\* (reactor.cc:3602-3617).
THEOREM NoLostWakeupHolds == SleepSpec => []NoLostWakeup
<1>1. SleepIInv => NoLostWakeup
  BY DEF SleepIInv, NoLostWakeup, MissedIsWoken
<1>2. QED
  BY <1>1, SleepInvariantHolds, PTL

\* With the senders at rest, a sleeping reactor is signalled, or idle and shows
\* its flag (reactor.cc:2950-2965).
THEOREM SleepIsAnnouncedHolds == SleepSpec => []SleepIsAnnounced
<1>1. SleepIInv => SleepIsAnnounced
  <2> SUFFICES ASSUME SleepIInv, rpc = "asleep", ~signal, \A s \in Senders : pc[s] = "idle" /\ sbuf[s] = <<>>
               PROVE  sleeping /\ \A s \in Senders : queued[s] = 0
    BY DEF SleepIsAnnounced
  <2>1. ~WakerUnderWay
    BY DEF WakerUnderWay
  <2>2. sleeping
    BY DEF SleepIInv, FlagIsSet, Resting, Announced
  <2>3. \A s \in Senders : queued[s] = 0
    BY <2>1 DEF SleepIInv, SleepTypeOK, MissedIsWoken
  <2>4. QED
    BY <2>2, <2>3
<1>2. QED
  BY <1>1, SleepInvariantHolds, PTL

===============================================================================
