-------------------------- MODULE AppendFile_proofs --------------------------
(***************************************************************************)
(* Proofs about AppendFile, for every kind of filesystem, any sizes, any   *)
(* reads and writes and any number of operations: what changes the end of  *)
(* the file is alone in the kernel, and acknowledged data stays.           *)
(***************************************************************************)
EXTENDS AppendFile, DataFacts

OpType == {"read", "write", "flush", "truncate"}
Op == [id : Nat, type : OpType, pos : Nat, len : Nat]
Flight == [op : Op, counter : {"size", "non"}, state : {"submitted", "done", "failed"}, ret : Nat]

\* What a handler works on.
FileType ==
  [q : Seq(Op), inflight : SUBSET Flight, committed : Nat, logical : Nat,
   sizeCh : Nat, nonSize : Nat, done : BOOLEAN, disk : Nat, stored : SUBSET Int]

CountedOn(I, c) == {d \in I : d.counter = c}

\* The counters are right.
Counted(f) ==
  /\ IsFiniteSet(f.inflight)
  /\ f.sizeCh = Cardinality(CountedOn(f.inflight, "size"))
  /\ f.nonSize = Cardinality(CountedOn(f.inflight, "non"))

\* No operation is twice in the queue or in flight, n being the number issued.
Named(f, n) ==
  /\ \A i \in 1..Len(f.q) : f.q[i].id <= n
  /\ \A i, j \in 1..Len(f.q) : f.q[i].id = f.q[j].id => i = j
  /\ \A d \in f.inflight : d.op.id <= n /\ \A i \in 1..Len(f.q) : f.q[i].id # d.op.id
  /\ \A d, e \in f.inflight : d.op.id = e.op.id => d = e

\* Only a flush that has to be alone goes through the queue.
FlushesAlone(f) ==
  /\ \A i \in 1..Len(f.q) : f.q[i].type = "flush" => MustRunAlone(f.q[i])
  /\ \A d \in f.inflight : d.op.type = "flush" => MustRunAlone(d.op)

\* What was counted as changing the size is alone until it is completed; the
\* others stay within the size the file had when they were dispatched.
Inside(d, c) ==
  /\ ~MustRunAlone(d.op)
  /\ d.op.type = "write" => End(d.op) <= c /\ d.ret <= d.op.len
Apart(f) ==
  \A d \in f.inflight :
    /\ d.counter = "size" => f.inflight = {d}
    /\ d.counter = "non" => Inside(d, f.committed)

\* _committed_size is what the kernel has, but for an operation that changed
\* the size and whose continuation has yet to say so.
DiskAfter(d, c) ==
  IF d.op.type = "write" THEN Max2(c, d.op.pos + d.ret)
  ELSE IF d.op.type = "truncate" THEN d.op.pos ELSE c
DiskFollows(f) ==
  /\ \A d \in f.inflight : d.counter = "size" /\ d.state = "done" => f.disk = DiskAfter(d, f.committed)
  /\ (\A d \in f.inflight : d.counter = "size" => d.state # "done") => f.disk = f.committed

\* The units a of acknowledged writes are in the file, and so are those of the
\* writes about to be acknowledged.
DataKept(f, a) ==
  /\ a \subseteq 0..(f.logical - 1)
  /\ (\A d \in f.inflight : d.state = "done" => d.op.type # "truncate") => a \subseteq f.stored
  /\ \A d \in f.inflight : d.state = "done" =>
       /\ d.op.type = "write" => d.op.pos..(d.op.pos + d.ret - 1) \subseteq f.stored
       /\ d.op.type = "truncate" => a \cap 0..(d.op.pos - 1) \subseteq f.stored

FlushSees(f) == \A d \in f.inflight : d.state = "submitted" /\ d.op.type = "flush" => f.disk = f.logical

FileOK(f, a, n) ==
  /\ Counted(f) /\ Named(f, n) /\ FlushesAlone(f) /\ Apart(f)
  /\ DiskFollows(f) /\ DataKept(f, a) /\ FlushSees(f)

\* The inductive invariant.
IInv ==
  /\ mode \in Modes /\ issued \in 0..MaxOps /\ completed \in BOOLEAN
  /\ File \in FileType /\ FileOK(File, acked, issued)
  /\ completed => q = <<>> /\ inflight = {}

-----------------------------------------------------------------------------
(* process_queue() *)

LEMMA FieldTypes ==
  ASSUME NEW f \in FileType
  PROVE  /\ f.q \in Seq(Op) /\ f.inflight \subseteq Flight /\ f.committed \in Nat /\ f.logical \in Nat
         /\ f.sizeCh \in Nat /\ f.nonSize \in Nat /\ f.done \in BOOLEAN /\ f.disk \in Nat
         /\ f.stored \subseteq Int /\ Len(f.q) \in Nat /\ \A i \in 1..Len(f.q) : f.q[i] \in Op
         /\ \A d \in f.inflight : d \in Flight /\ d.op \in Op /\ d.counter \in {"size", "non"} /\ d.ret \in Nat
<1>1. /\ f.q \in Seq(Op) /\ f.inflight \subseteq Flight /\ f.committed \in Nat /\ f.logical \in Nat
      /\ f.sizeCh \in Nat /\ f.nonSize \in Nat /\ f.done \in BOOLEAN /\ f.disk \in Nat
      /\ f.stored \subseteq Int
  BY DEF FileType
<1>2. Len(f.q) \in Nat /\ \A i \in 1..Len(f.q) : f.q[i] \in Op
  BY <1>1, LenProperties, ElementOfSeq
<1>3. \A d \in f.inflight : d \in Flight /\ d.op \in Op /\ d.counter \in {"size", "non"} /\ d.ret \in Nat
  BY <1>1 DEF Flight
<1>4. QED
  BY <1>1, <1>2, <1>3

\* Both counters are zero when nothing is in flight only.
LEMMA NothingInFlight ==
  ASSUME NEW f \in FileType, Counted(f)
  PROVE  /\ f.sizeCh = 0 => CountedOn(f.inflight, "size") = {}
         /\ f.sizeCh = 0 /\ f.nonSize = 0 => f.inflight = {}
<1> DEFINE A == CountedOn(f.inflight, "size")
           B == CountedOn(f.inflight, "non")
<1>1. f.inflight = A \cup B
  BY FieldTypes DEF CountedOn
<1>2. A \in SUBSET f.inflight /\ B \in SUBSET f.inflight
  BY DEF CountedOn
<1> HIDE DEF A, B
<1>3. IsFiniteSet(A) /\ IsFiniteSet(B)
  BY <1>2, FS_Subset DEF Counted
<1>4. f.sizeCh = Cardinality(A) /\ f.nonSize = Cardinality(B)
  BY DEF Counted, A, B
<1>5. (f.sizeCh = 0 => A = {}) /\ (f.nonSize = 0 => B = {})
  BY <1>3, <1>4, FS_EmptySet
<1>6. QED
  BY <1>1, <1>5 DEF A

LEMMA AlignUpType == ASSUME NEW n \in Nat PROVE AlignUp(n) \in Nat
<1>1. Align \in Nat \ {0}
  BY AppendFileAssumption
<1>2. (n + Align - 1) \div Align \in Nat
  BY <1>1
<1>3. \A x, y \in Nat : x * y \in Nat
  OBVIOUS
<1>4. QED
  BY <1>1, <1>2, <1>3 DEF AlignUp

\* The size that optimize_queue() extends the file to is one.
LEMMA SpeculativeSizeType ==
  ASSUME NEW f \in FileType, Appending(f) # {}
  PROVE  SpeculativeSize(f) \in Nat
<1> DEFINE ends == {End(f.q[j]) : j \in Appending(f)}
<1>1. Appending(f) \in SUBSET (1..Len(f.q))
  BY DEF Appending
<1>2. IsFiniteSet(Appending(f))
  <2>1. Len(f.q) \in Nat
    BY FieldTypes
  <2>2. IsFiniteSet(1..Len(f.q))
    BY <2>1, FS_Interval
  <2>3. QED
    BY <1>1, <2>2, FS_Subset
<1>3. ends \in SUBSET Nat /\ ends # {}
  <2>1. ASSUME NEW j \in Appending(f) PROVE End(f.q[j]) \in Nat
    <3>1. f.q[j] \in Op
      BY <1>1, FieldTypes
    <3>2. QED
      BY <3>1 DEF End, Op
  <2>2. QED
    BY <2>1
<1>4. IsFiniteSet(ends)
  <2> DEFINE e == [j \in Appending(f) |-> End(f.q[j])]
  <2>1. e \in Surjection(Appending(f), ends)
    BY DEF Surjection
  <2> HIDE DEF e, ends
  <2>2. QED
    BY <1>2, <2>1, FS_Surjection
<1> DEFINE last == CHOOSE e \in ends : \A x \in ends : x <= e
<1> HIDE DEF ends
<1>5. last \in Nat
  BY <1>3, <1>4, GreatestExists
<1>6. AlignUp(2 * f.committed) \in Nat
  BY FieldTypes, AlignUpType
<1>7. SpeculativeSize(f) = IF mode.sloppy /\ last < 2 * f.committed THEN AlignUp(2 * f.committed) ELSE last
  BY DEF SpeculativeSize, ends
<1> HIDE DEF last
<1>8. QED
  BY <1>5, <1>6, <1>7

\* An ftruncate() ahead of the writes finds nothing in the kernel.
LEMMA OptimizedKeeps ==
  ASSUME mode \in Modes, NEW f \in FileType, NEW a, NEW n, FileOK(f, a, n), NEW g \in Optimized(f)
  PROVE  g \in FileType /\ FileOK(g, a, n) /\ g.done = f.done
<1>1. CASE g = f
  BY <1>1
<1>2. CASE MayExtend(f) /\ g = Extended(f, SpeculativeSize(f))
  <2>1. f.sizeCh = 0 /\ f.nonSize = 0
    BY <1>2 DEF MayExtend
  <2>2. f.inflight = {}
    BY <2>1, NothingInFlight DEF FileOK
  <2>3. Appending(f) # {}
    <3>1. mode.concurrency \in {0, 1}
      BY AppendFileAssumption
    <3>2. SUFFICES ASSUME Appending(f) = {} PROVE FALSE
      OBVIOUS
    <3>3. Cardinality(Appending(f)) = 0
      BY <3>2, FS_EmptySet
    <3>4. QED
      BY <1>2, <3>1, <3>2, <3>3 DEF MayExtend
  <2>4. SpeculativeSize(f) \in Nat
    BY <2>3, SpeculativeSizeType
  <2>5. /\ g \in FileType /\ g.q = f.q /\ g.inflight = {} /\ g.sizeCh = f.sizeCh /\ g.nonSize = f.nonSize
        /\ g.logical = f.logical /\ g.stored = f.stored /\ g.disk = g.committed /\ g.done = f.done
    BY <1>2, <2>2, <2>4 DEF Extended, FileType
  <2>6. Counted(g) /\ Named(g, n) /\ FlushesAlone(g)
    BY <2>2, <2>5 DEF FileOK, Counted, Named, FlushesAlone
  <2>7. Apart(g) /\ DiskFollows(g) /\ DataKept(g, a) /\ FlushSees(g)
    BY <2>2, <2>5 DEF FileOK, Apart, DiskFollows, DataKept, FlushSees
  <2>8. QED
    BY <2>5, <2>6, <2>7 DEF FileOK
<1>3. QED
  BY <1>1, <1>2 DEF Optimized

\* The loop of process_queue() stops.
LEMMA DispatchedIs ==
  ASSUME NEW g \in FileType
  PROVE  Dispatched(g) \in 0..Len(g.q) /\ \A j \in 1..Dispatched(g) : MayDispatch(g, j)
<1> DEFINE L == Len(g.q)
           K == {k \in 0..L : \A j \in 1..k : MayDispatch(g, j)}
           Stops(k) == /\ \A j \in 1..k : MayDispatch(g, j)
                       /\ k < L => ~MayDispatch(g, k + 1)
<1>1. L \in Nat
  BY FieldTypes
<1>2. PICK k \in K : k < L => k + 1 \notin K
  <2>1. K \in SUBSET (0..L) /\ 0 \in K
    BY <1>1
  <2> HIDE DEF K, L
  <2>2. QED
    BY <1>1, <2>1, LoopStops
<1>3. Stops(k)
  <2>1. SUFFICES ASSUME k < L, MayDispatch(g, k + 1) PROVE FALSE
    BY <1>2
  <2>2. k + 1 \in 0..L /\ \A j \in 1..(k + 1) : j \in 1..k \/ j = k + 1
    BY <1>1, <2>1
  <2>3. QED
    BY <1>2, <2>1, <2>2
<1>4. Dispatched(g) = CHOOSE j \in 0..L : Stops(j)
  BY DEF Dispatched
<1> HIDE DEF Stops
<1>5. Dispatched(g) \in 0..L /\ Stops(Dispatched(g))
  BY <1>2, <1>3, <1>4
<1>6. QED
  BY <1>5 DEF Stops

Started(g, k) == {g.q[j] : j \in 1..k}

\* The file after k operations that do not change its size were dispatched.
Within(g, k, dn) ==
  [q |-> SubSeq(g.q, k + 1, Len(g.q)),
   inflight |-> g.inflight \cup {Dispatch(o, g.committed, "submitted") : o \in Started(g, k)},
   committed |-> g.committed, logical |-> g.logical, sizeCh |-> g.sizeCh,
   nonSize |-> g.nonSize + k, done |-> dn, disk |-> g.disk, stored |-> g.stored]

\* The file after an operation that changes its size was dispatched, and the
\* ftruncate() of a flush with it.
Alone(g, st, z, s, dn) ==
  [q |-> SubSeq(g.q, 2, Len(g.q)), inflight |-> {Dispatch(g.q[1], g.committed, st)},
   committed |-> z, logical |-> g.logical, sizeCh |-> 1, nonSize |-> 0,
   done |-> dn, disk |-> z, stored |-> s]

\* What is left of the queue.
LEMMA RestOfQueue ==
  ASSUME NEW g \in FileType, NEW k \in 0..Len(g.q)
  PROVE  LET r == SubSeq(g.q, k + 1, Len(g.q))
         IN  r \in Seq(Op) /\ Len(r) = Len(g.q) - k /\ \A i \in 1..Len(r) : r[i] = g.q[k + i]
<1>1. g.q \in Seq(Op)
  BY FieldTypes
<1>2. QED
  BY <1>1, ToSetOfParts

\* The operations taken off the queue are k different ones.
LEMMA StartedAreMany ==
  ASSUME NEW g \in FileType, NEW n, Named(g, n), NEW k \in 0..Len(g.q)
  PROVE  /\ Started(g, k) \subseteq Op /\ IsFiniteSet(Started(g, k)) /\ Cardinality(Started(g, k)) = k
         /\ \A o, p \in Started(g, k) : o.id = p.id => o = p
         /\ \A o \in Started(g, k) : o.id <= n /\ \A d \in g.inflight : d.op.id # o.id
<1> DEFINE b == [j \in 1..k |-> g.q[j]]
           S == Started(g, k)
<1>1. Len(g.q) \in Nat /\ \A j \in 1..k : j \in 1..Len(g.q) /\ g.q[j] \in Op
  BY FieldTypes
<1>2. b \in [1..k -> S] /\ \A o \in S : \E j \in 1..k : b[j] = o
  BY DEF Started
<1>3. \A i, j \in 1..k : b[i] = b[j] => i = j
  BY <1>1 DEF Named
<1>4. S \subseteq Op /\ \A o, p \in S : o.id = p.id => o = p
  BY <1>1 DEF Named, Started
<1>5. \A o \in S : o.id <= n /\ \A d \in g.inflight : d.op.id # o.id
  BY <1>1 DEF Named, Started
<1> HIDE DEF b, S
<1>6. b \in Bijection(1..k, S)
  BY <1>2, <1>3 DEF Bijection, Injection, Surjection, IsInjective
<1>7. IsFiniteSet(1..k) /\ Cardinality(1..k) = k
  BY <1>1, FS_Interval
<1>8. IsFiniteSet(S) /\ Cardinality(S) = k
  BY <1>6, <1>7, FS_Bijection DEF ExistsBijection
<1>9. QED
  BY <1>4, <1>5, <1>8 DEF S

LEMMA WithinKeeps ==
  ASSUME NEW g \in FileType, NEW a, NEW n, FileOK(g, a, n), NEW k \in 0..Len(g.q),
         NEW dn \in BOOLEAN,
         \A j \in 1..k : ~SizeChanging(g.q[j], g.committed), k > 0 => g.sizeCh = 0
  PROVE  Within(g, k, dn) \in FileType /\ FileOK(Within(g, k, dn), a, n)
<1> DEFINE S == Started(g, k)
           New(o) == Dispatch(o, g.committed, "submitted")
           N == {New(o) : o \in S}
           h == Within(g, k, dn)
<1>1. /\ S \subseteq Op /\ IsFiniteSet(S) /\ Cardinality(S) = k
      /\ \A o, p \in S : o.id = p.id => o = p
      /\ \A o \in S : o.id <= n /\ \A d \in g.inflight : d.op.id # o.id
  BY StartedAreMany DEF FileOK
<1>2. /\ Counted(g) /\ Named(g, n) /\ FlushesAlone(g) /\ Apart(g)
      /\ DiskFollows(g) /\ DataKept(g, a) /\ FlushSees(g)
  BY DEF FileOK
<1>3. \A o \in S : ~SizeChanging(o, g.committed)
  BY DEF Started
<1>4. \A o \in S : /\ New(o) \in Flight /\ New(o).op = o /\ New(o).counter = "non"
                   /\ New(o).state = "submitted" /\ New(o).ret = 0
  BY <1>1, <1>3 DEF Dispatch, Flight
<1> HIDE DEF New
<1>5. \A d \in N : /\ d \in Flight /\ d.op \in S /\ d.counter = "non" /\ d.state = "submitted"
                   /\ d.ret = 0 /\ d = New(d.op)
  BY <1>4
<1>6. /\ h.q = SubSeq(g.q, k + 1, Len(g.q)) /\ h.inflight = g.inflight \cup N
      /\ h.nonSize = g.nonSize + k /\ h.sizeCh = g.sizeCh /\ h.committed = g.committed
      /\ h.logical = g.logical /\ h.done = dn /\ h.disk = g.disk /\ h.stored = g.stored
  BY DEF Within, FileType, New
<1>7. /\ h.q \in Seq(Op) /\ Len(h.q) = Len(g.q) - k /\ \A i \in 1..Len(h.q) : h.q[i] = g.q[k + i]
  BY <1>6, RestOfQueue
<1>8. /\ Len(g.q) \in Nat /\ \A i \in 1..Len(h.q) : k + i \in 1..Len(g.q) /\ ~(k + i \in 1..k)
  BY <1>7, FieldTypes
<1>9. h \in FileType
  <2>1. h.inflight \subseteq Flight /\ h.nonSize \in Nat
    BY <1>5, <1>6, FieldTypes
  <2>2. SubSeq(g.q, k + 1, Len(g.q)) \in Seq(Op)
    BY <1>6, <1>7
  <2>3. QED
    BY <1>6, <2>1, <2>2 DEF Within, FileType, New
<1>10. \A o \in S : \A i \in 1..Len(h.q) : h.q[i].id # o.id
  <2> SUFFICES ASSUME NEW j \in 1..k, NEW i \in 1..Len(h.q), h.q[i].id = g.q[j].id PROVE FALSE
    BY DEF Started
  <2>1. j \in 1..Len(g.q) /\ k + i # j
    BY <1>8
  <2>2. QED
    BY <1>2, <1>7, <1>8, <2>1 DEF Named
<1> HIDE DEF N, S, h
<1>11. Counted(h)
  <2> DEFINE b == [o \in S |-> New(o)]
  <2>1. b \in [S -> N] /\ \A d \in N : \E o \in S : b[o] = d
    BY DEF N
  <2>2. \A o, p \in S : b[o] = b[p] => o = p
    BY <1>4
  <2> HIDE DEF b
  <2>3. IsFiniteSet(N) /\ Cardinality(N) = k
    <3>1. b \in Bijection(S, N)
      BY <2>1, <2>2 DEF Bijection, Injection, Surjection, IsInjective
    <3>2. QED
      BY <1>1, <3>1, FS_Bijection DEF ExistsBijection
  <2>4. CountedOn(h.inflight, "size") = CountedOn(g.inflight, "size")
    BY <1>5, <1>6 DEF CountedOn
  <2>5. CountedOn(h.inflight, "non") = CountedOn(g.inflight, "non") \cup N
    BY <1>5, <1>6 DEF CountedOn
  <2>6. CountedOn(g.inflight, "non") \cap N = {}
    BY <1>1, <1>5 DEF CountedOn
  <2> DEFINE A == CountedOn(g.inflight, "non")
  <2>7. IsFiniteSet(A) /\ Cardinality(A) \in Nat
    <3>1. A \in SUBSET g.inflight
      BY DEF CountedOn
    <3>2. QED
      BY <1>2, <3>1, FS_Subset, FS_CardinalityType DEF Counted
  <2> HIDE DEF A
  <2>8. Cardinality(A \cup N) = Cardinality(A) + k
    <3>1. Cardinality(A \cup N) = Cardinality(A) + Cardinality(N) - Cardinality(A \cap N)
      BY <2>3, <2>7, FS_Union
    <3>2. Cardinality(A \cap N) = 0
      BY <2>6, FS_EmptySet DEF A
    <3>3. QED
      BY <2>3, <2>7, <3>1, <3>2
  <2>9. IsFiniteSet(h.inflight)
    <3>1. IsFiniteSet(g.inflight)
      BY <1>2 DEF Counted
    <3>2. IsFiniteSet(g.inflight \cup N)
      BY <2>3, <3>1, FS_Union
    <3>3. QED
      BY <1>6, <3>2
  <2>10. QED
    BY <1>2, <1>6, <2>4, <2>5, <2>8, <2>9 DEF Counted, A
<1>12. Named(h, n)
  <2>1. \A i \in 1..Len(h.q) : h.q[i].id <= n
    BY <1>2, <1>7, <1>8 DEF Named
  <2>2. \A i, j \in 1..Len(h.q) : h.q[i].id = h.q[j].id => i = j
    <3> SUFFICES ASSUME NEW i \in 1..Len(h.q), NEW j \in 1..Len(h.q), h.q[i].id = h.q[j].id PROVE i = j
      OBVIOUS
    <3>1. k + i \in 1..Len(g.q) /\ k + j \in 1..Len(g.q) /\ g.q[k + i].id = g.q[k + j].id
      BY <1>7, <1>8
    <3>2. k + i = k + j
      BY <1>2, <3>1 DEF Named
    <3>3. QED
      BY <3>2
  <2>3. ASSUME NEW d \in h.inflight PROVE d.op.id <= n /\ \A i \in 1..Len(h.q) : h.q[i].id # d.op.id
    <3>1. CASE d \in g.inflight
      BY <1>2, <1>7, <1>8, <3>1 DEF Named
    <3>2. CASE d \in N
      BY <1>1, <1>5, <1>10, <3>2
    <3>3. QED
      BY <1>6, <3>1, <3>2
  <2>4. \A d, e \in h.inflight : d.op.id = e.op.id => d = e
    BY <1>1, <1>2, <1>5, <1>6 DEF Named
  <2>5. QED
    BY <2>1, <2>2, <2>3, <2>4 DEF Named
<1>13. FlushesAlone(h)
  <2>1. \A i \in 1..Len(h.q) : h.q[i].type = "flush" => MustRunAlone(h.q[i])
    BY <1>2, <1>7, <1>8 DEF FlushesAlone
  <2>2. \A o \in S : o.type = "flush" => MustRunAlone(o)
    BY <1>2, <1>8, FieldTypes DEF FlushesAlone, S, Started
  <2>3. QED
    BY <1>2, <1>5, <1>6, <2>1, <2>2 DEF FlushesAlone
<1>14. CASE k = 0
  <2>1. N = {}
    BY <1>14 DEF N, S, Started
  <2>2. QED
    BY <1>2, <1>6, <1>9, <1>11, <1>12, <1>13, <2>1
       DEF FileOK, Apart, DiskFollows, DataKept, FlushSees, h
<1>15. CASE k > 0
  <2>1. \A d \in g.inflight : d.counter = "non"
    BY <1>2, <1>15, NothingInFlight, FieldTypes DEF CountedOn
  <2>2. \A o \in S : Inside(New(o), g.committed) /\ ~MustRunAlone(o)
    <3>1. SUFFICES ASSUME NEW o \in S
                   PROVE  Inside(New(o), g.committed) /\ ~MustRunAlone(o)
      OBVIOUS
    <3>2. ~MustRunAlone(o) /\ (o.type = "write" => ~(End(o) > g.committed))
      BY <1>3 DEF SizeChanging
    <3>3. o.type = "write" => End(o) <= g.committed /\ 0 <= o.len
      BY <1>1, <3>2, FieldTypes DEF Op, End
    <3>4. QED
      BY <1>4, <3>2, <3>3 DEF Inside
  <2>3. \A d \in N : Inside(d, g.committed)
    BY <1>5, <2>2
  <2>4. Apart(h)
    BY <1>2, <1>5, <1>6, <2>1, <2>3 DEF Apart
  <2>5. DiskFollows(h) /\ DataKept(h, a)
    BY <1>2, <1>5, <1>6 DEF DiskFollows, DataKept
  <2>6. FlushSees(h)
    <3>1. \A d \in N : d.op.type # "flush"
      BY <1>2, <1>5, <1>8, <2>2, FieldTypes DEF FlushesAlone, S, Started
    <3>2. QED
      BY <1>2, <1>6, <3>1 DEF FlushSees
  <2>7. QED
    BY <1>9, <1>11, <1>12, <1>13, <2>4, <2>5, <2>6 DEF FileOK, h
<1>16. QED
  BY <1>14, <1>15 DEF h

LEMMA AloneKeeps ==
  ASSUME NEW g \in FileType, NEW a, NEW n, FileOK(g, a, n), g.inflight = {}, 1 \in 1..Len(g.q),
         SizeChanging(g.q[1], g.committed), NEW st \in {"submitted", "failed"},
         NEW z \in Nat, NEW s \in SUBSET Int, NEW dn \in BOOLEAN, a \subseteq s,
         st = "submitted" /\ g.q[1].type = "flush" => z = g.logical
  PROVE  Alone(g, st, z, s, dn) \in FileType /\ FileOK(Alone(g, st, z, s, dn), a, n)
<1> DEFINE o == g.q[1]
           d == Dispatch(o, g.committed, st)
           h == Alone(g, st, z, s, dn)
<1>1. o \in Op /\ Len(g.q) \in Nat
  BY FieldTypes
<1>2. d \in Flight /\ d.op = o /\ d.counter = "size" /\ d.state = st /\ d.ret = 0
  BY <1>1 DEF Dispatch, Flight
<1>3. /\ h.q = SubSeq(g.q, 2, Len(g.q)) /\ h.inflight = {d}
      /\ h.nonSize = 0 /\ h.sizeCh = 1 /\ h.committed = z
      /\ h.logical = g.logical /\ h.done = dn /\ h.disk = z /\ h.stored = s
  BY DEF Alone, FileType
<1>4. /\ h.q \in Seq(Op) /\ Len(h.q) = Len(g.q) - 1 /\ \A i \in 1..Len(h.q) : h.q[i] = g.q[1 + i]
  <2>1. 1 \in 0..Len(g.q) /\ 1 + 1 = 2
    BY <1>1
  <2>2. QED
    BY <1>3, <2>1, RestOfQueue
<1>5. \A i \in 1..Len(h.q) : 1 + i \in 1..Len(g.q) /\ 1 + i # 1
  BY <1>1, <1>4
<1>6. h \in FileType
  <2>1. SubSeq(g.q, 2, Len(g.q)) \in Seq(Op) /\ {d} \subseteq Flight
    BY <1>2, <1>3, <1>4
  <2>2. QED
    BY <2>1 DEF Alone, FileType
<1>7. /\ Named(g, n) /\ FlushesAlone(g) /\ DataKept(g, a)
  BY DEF FileOK
<1> HIDE DEF o, d, h
<1>8. Counted(h)
  <2>1. CountedOn({d}, "size") = {d} /\ CountedOn({d}, "non") = {}
    BY <1>2 DEF CountedOn
  <2>2. Cardinality({d}) = 1 /\ IsFiniteSet({d}) /\ Cardinality({}) = 0
    BY FS_Singleton, FS_EmptySet
  <2>3. QED
    BY <1>3, <2>1, <2>2 DEF Counted
<1>9. Named(h, n)
  <2>1. \A i \in 1..Len(h.q) : h.q[i].id <= n
    BY <1>4, <1>5, <1>7 DEF Named
  <2>2. \A i, j \in 1..Len(h.q) : h.q[i].id = h.q[j].id => i = j
    <3> SUFFICES ASSUME NEW i \in 1..Len(h.q), NEW j \in 1..Len(h.q), h.q[i].id = h.q[j].id PROVE i = j
      OBVIOUS
    <3>1. 1 + i \in 1..Len(g.q) /\ 1 + j \in 1..Len(g.q) /\ g.q[1 + i].id = g.q[1 + j].id
      BY <1>4, <1>5
    <3>2. 1 + i = 1 + j
      BY <1>7, <3>1 DEF Named
    <3>3. QED
      BY <3>2
  <2>3. o.id <= n /\ \A i \in 1..Len(h.q) : h.q[i].id # o.id
    <3>1. o.id <= n
      BY <1>7 DEF Named, o
    <3>2. ASSUME NEW i \in 1..Len(h.q), h.q[i].id = o.id PROVE FALSE
      <4>1. 1 + i \in 1..Len(g.q) /\ g.q[1 + i].id = g.q[1].id /\ 1 + i # 1
        BY <1>4, <1>5, <3>2 DEF o
      <4>2. QED
        BY <1>7, <4>1 DEF Named
    <3>3. QED
      BY <3>1, <3>2
  <2>4. QED
    BY <1>2, <1>3, <2>1, <2>2, <2>3 DEF Named
<1>10. FlushesAlone(h)
  <2>1. \A i \in 1..Len(h.q) : h.q[i].type = "flush" => MustRunAlone(h.q[i])
    BY <1>4, <1>5, <1>7 DEF FlushesAlone
  <2>2. o.type = "flush" => MustRunAlone(o)
    BY <1>7 DEF FlushesAlone, o
  <2>3. QED
    BY <1>2, <1>3, <2>1, <2>2 DEF FlushesAlone
<1>11. Apart(h) /\ DiskFollows(h)
  BY <1>2, <1>3 DEF Apart, DiskFollows
<1>12. DataKept(h, a)
  BY <1>2, <1>3, <1>7 DEF DataKept
<1>13. FlushSees(h)
  BY <1>2, <1>3 DEF FlushSees, o
<1>14. QED
  BY <1>6, <1>8, <1>9, <1>10, <1>11, <1>12, <1>13 DEF FileOK, h

\* process_queue() on a file in order leaves one in order, and fulfils
\* _completed only when nothing is queued or in flight.
LEMMA RunQueueKeeps ==
  ASSUME NEW g \in FileType, NEW a, NEW n, FileOK(g, a, n), ~completed, RunQueue(g)
  PROVE  /\ File' \in FileType /\ FileOK(File', a, n) /\ completed' \in BOOLEAN
         /\ completed' => q' = <<>> /\ inflight' = {}
<1> DEFINE k == Dispatched(g)
           S == Started(g, k)
           size == Cardinality({o \in S : SizeChanging(o, g.committed)})
           h == [g EXCEPT !.q = SubSeq(g.q, k + 1, Len(g.q)), !.sizeCh = g.sizeCh + size,
                          !.nonSize = g.nonSize + (k - size)]
           trims == \E o \in S : Trims(g, o)
           flights(state) == g.inflight \cup {Dispatch(o, g.committed, state) : o \in S}
<1>1. /\ q' = h.q /\ sizeCh' = h.sizeCh /\ nonSize' = h.nonSize /\ logical' = h.logical
      /\ completed' = (completed \/ MayQuit(h))
      /\ done' = (h.done /\ ~MayQuit(h))
      /\ \/ /\ ~trims
            /\ committed' = g.committed /\ disk' = g.disk /\ stored' = g.stored
            /\ inflight' = flights("submitted")
         \/ /\ trims
            /\ committed' = g.logical /\ disk' = g.logical
            /\ stored' = g.stored \cap 0..(g.logical - 1)
            /\ inflight' = flights("submitted")
         \/ /\ trims
            /\ committed' = g.committed /\ disk' = g.disk /\ stored' = g.stored
            /\ inflight' = flights("failed")
  BY DEF RunQueue, Started
<1>2. /\ h.q = SubSeq(g.q, k + 1, Len(g.q)) /\ h.sizeCh = g.sizeCh + size
      /\ h.nonSize = g.nonSize + (k - size) /\ h.logical = g.logical /\ h.done = g.done
  BY DEF FileType
<1>3. k \in 0..Len(g.q) /\ \A j \in 1..k : MayDispatch(g, j)
  BY DispatchedIs
<1>4. done' \in BOOLEAN
  BY <1>1, Zenon
<1>5. /\ Counted(g) /\ FlushesAlone(g) /\ Apart(g) /\ DiskFollows(g) /\ DataKept(g, a)
      /\ Len(g.q) \in Nat /\ g.sizeCh \in Nat /\ g.nonSize \in Nat
      /\ g.committed \in Nat /\ g.logical \in Nat /\ g.disk \in Nat /\ g.stored \subseteq Int
  BY FieldTypes DEF FileOK
<1>6. \A j \in 1..k : j \in 1..Len(g.q) /\ g.q[j] \in Op
  BY <1>3, <1>5, FieldTypes
<1> HIDE DEF k, h
<1>7. File' = [q |-> q', inflight |-> inflight', committed |-> committed', logical |-> logical',
               sizeCh |-> sizeCh', nonSize |-> nonSize', done |-> done', disk |-> disk', stored |-> stored']
  BY DEF File
<1>8. File' \in FileType /\ FileOK(File', a, n)
  <2>1. CASE \A j \in 1..k : ~SizeChanging(g.q[j], g.committed)
    <3>1. size = 0
      <4>1. {o \in S : SizeChanging(o, g.committed)} = {}
        BY <2>1 DEF Started
      <4>2. QED
        BY <4>1, FS_EmptySet
    <3>2. ~trims
      <4>1. \A j \in 1..k : g.q[j].type # "flush"
        BY <1>5, <1>6, <2>1 DEF FlushesAlone, SizeChanging
      <4>2. QED
        BY <4>1 DEF Started, Trims
    <3> HIDE DEF size, trims
    <3>3. k > 0 => g.sizeCh = 0
      <4>1. k > 0 => 1 \in 1..k
        BY <1>3
      <4>2. QED
        BY <1>3, <4>1 DEF MayDispatch
    <3>4. Within(g, k, done') \in FileType /\ FileOK(Within(g, k, done'), a, n)
      BY <1>3, <1>4, <2>1, <3>3, WithinKeeps
    <3>5. g.sizeCh + size = g.sizeCh /\ g.nonSize + (k - size) = g.nonSize + k
      BY <1>3, <1>5, <3>1
    <3>6. File' = Within(g, k, done')
      BY <1>1, <1>2, <1>7, <3>2, <3>5 DEF Within, FileType
    <3>7. QED
      BY <3>4, <3>6
  <2>2. CASE \E j \in 1..k : SizeChanging(g.q[j], g.committed)
    <3>1. PICK j \in 1..k : SizeChanging(g.q[j], g.committed)
      BY <2>2
    <3>2. j = 1 /\ g.sizeCh = 0 /\ g.nonSize = 0
      BY <1>3, <3>1 DEF MayDispatch
    <3>3. g.inflight = {}
      BY <1>5, <3>2, NothingInFlight
    <3>4. k = 1
      <4>1. SUFFICES ASSUME 2 \in 1..k PROVE FALSE
        BY <1>3, <3>1
      <4>2. 1 \in 1..(2 - 1)
        OBVIOUS
      <4>3. QED
        BY <1>3, <3>1, <3>2, <4>1, <4>2 DEF MayDispatch
    <3> DEFINE o == g.q[1]
    <3>5. S = {o}
      BY <3>4 DEF Started
    <3>6. SizeChanging(o, g.committed) /\ 1 \in 1..Len(g.q)
      BY <1>6, <3>1, <3>2
    <3>7. size = 1
      <4>1. {p \in S : SizeChanging(p, g.committed)} = {o}
        BY <3>5, <3>6
      <4>2. QED
        BY <4>1, FS_Singleton
    <3>8. trims <=> Trims(g, o)
      BY <3>5
    <3>9. \A st : flights(st) = {Dispatch(o, g.committed, st)}
      BY <3>3, <3>5
    <3>10. g.disk = g.committed /\ a \subseteq g.stored
      BY <1>5, <3>3 DEF DiskFollows, DataKept
    <3> HIDE DEF o, size, trims, flights, S
    <3>11. /\ q' = SubSeq(g.q, 2, Len(g.q)) /\ sizeCh' = 1 /\ nonSize' = 0 /\ logical' = g.logical
      BY <1>1, <1>2, <3>2, <3>4, <3>7
    <3>12. CASE /\ ~trims
                /\ committed' = g.committed /\ disk' = g.disk /\ stored' = g.stored
                /\ inflight' = flights("submitted")
      <4>1. File' = Alone(g, "submitted", g.committed, g.stored, done')
        BY <1>7, <3>9, <3>10, <3>11, <3>12 DEF Alone, FileType, o
      <4>2. o.type = "flush" => g.committed = g.logical
        BY <3>8, <3>12 DEF Trims
      <4>3. QED
        BY <1>4, <1>5, <3>3, <3>6, <3>10, <4>1, <4>2, AloneKeeps DEF o
    <3>13. CASE /\ trims
                /\ committed' = g.logical /\ disk' = g.logical
                /\ stored' = g.stored \cap 0..(g.logical - 1)
                /\ inflight' = flights("submitted")
      <4>1. File' = Alone(g, "submitted", g.logical, g.stored \cap 0..(g.logical - 1), done')
        BY <1>7, <3>9, <3>10, <3>11, <3>13 DEF Alone, FileType, o
      <4>2. a \subseteq g.stored \cap 0..(g.logical - 1) /\ g.stored \cap 0..(g.logical - 1) \in SUBSET Int
        BY <1>5, <3>10 DEF DataKept
      <4>3. QED
        BY <1>4, <1>5, <3>3, <3>6, <4>1, <4>2, AloneKeeps DEF o
    <3>14. CASE /\ trims
                /\ committed' = g.committed /\ disk' = g.disk /\ stored' = g.stored
                /\ inflight' = flights("failed")
      <4>1. File' = Alone(g, "failed", g.committed, g.stored, done')
        BY <1>7, <3>9, <3>10, <3>11, <3>14 DEF Alone, FileType, o
      <4>2. QED
        BY <1>4, <1>5, <3>3, <3>6, <3>10, <4>1, AloneKeeps DEF o
    <3>15. QED
      BY <1>1, <3>12, <3>13, <3>14
  <2>3. QED
    BY <2>1, <2>2
<1>9. completed' \in BOOLEAN
  BY <1>1, Zenon DEF MayQuit
<1>10. ASSUME completed' PROVE q' = <<>> /\ inflight' = {}
  <2>1. MayQuit(h)
    BY <1>1, <1>10
  <2>2. q' = <<>> /\ sizeCh' = 0 /\ nonSize' = 0
    BY <1>1, <2>1 DEF MayQuit
  <2>3. (File').sizeCh = 0 /\ (File').nonSize = 0 /\ (File').inflight = inflight' /\ Counted(File')
    BY <1>7, <1>8, <2>2 DEF FileOK
  <2>4. (File').inflight = {}
    BY <1>8, <2>3, NothingInFlight
  <2>5. QED
    BY <2>2, <2>3, <2>4
<1>11. QED
  BY <1>8, <1>9, <1>10

LEMMA ProcessQueueKeeps ==
  ASSUME mode \in Modes, NEW f \in FileType, NEW a, NEW n, FileOK(f, a, n), ~completed, ProcessQueue(f)
  PROVE  /\ File' \in FileType /\ FileOK(File', a, n) /\ completed' \in BOOLEAN
         /\ completed' => q' = <<>> /\ inflight' = {}
<1>1. PICK g \in Optimized(f) : RunQueue(g)
  BY DEF ProcessQueue
<1>2. g \in FileType /\ FileOK(g, a, n)
  BY OptimizedKeeps
<1>3. QED
  BY <1>1, <1>2, RunQueueKeeps

-----------------------------------------------------------------------------
(* What the user calls *)

\* The invariant in the form the steps are proved from, and to which they come
\* back.
LEMMA Parts ==
  ASSUME IInv
  PROVE  /\ mode \in Modes /\ issued \in Nat /\ File \in FileType /\ FileOK(File, acked, issued)
         /\ q \in Seq(Op) /\ inflight \subseteq Flight /\ committed \in Nat /\ logical \in Nat
         /\ sizeCh \in Nat /\ nonSize \in Nat /\ done \in BOOLEAN /\ disk \in Nat /\ stored \subseteq Int
         /\ \A d \in inflight : d.op \in Op /\ d.counter \in {"size", "non"} /\ d.ret \in Nat
<1>1. mode \in Modes /\ issued \in Nat /\ File \in FileType /\ FileOK(File, acked, issued)
  BY AppendFileAssumption DEF IInv
<1>2. /\ File.q = q /\ File.inflight = inflight /\ File.committed = committed /\ File.logical = logical
      /\ File.sizeCh = sizeCh /\ File.nonSize = nonSize /\ File.done = done /\ File.disk = disk
      /\ File.stored = stored
  BY DEF File
<1>3. QED
  BY <1>1, <1>2, FieldTypes

LEMMA BackToIInv ==
  ASSUME mode' = mode, mode \in Modes, issued' \in 0..MaxOps, completed' \in BOOLEAN,
         File' \in FileType, FileOK(File', acked', issued'),
         completed' => q' = <<>> /\ inflight' = {}
  PROVE  IInv'
<1>1. \A o : MustRunAlone(o)' <=> MustRunAlone(o)
  BY DEF MustRunAlone
<1>2. FileOK(File, acked, issued)'
  BY <1>1 DEF FileOK, Counted, Named, FlushesAlone, Apart, Inside, DiskFollows, DiskAfter, DataKept,
              FlushSees, End, CountedOn, Max2
<1>3. QED
  BY <1>2 DEF IInv, FileType, Flight, Op, OpType

LEMMA AlignUpGrows == ASSUME NEW n \in Nat PROVE n <= AlignUp(n)
<1>1. Align \in Nat \ {0}
  BY AppendFileAssumption
<1> DEFINE x == n + Align - 1
<1>2. x \in Nat /\ x = Align * (x \div Align) + (x % Align) /\ x % Align \in 0..(Align - 1)
  BY <1>1
<1>3. AlignUp(n) = (x \div Align) * Align /\ AlignUp(n) \in Nat
  BY AlignUpType DEF AlignUp
<1>4. x \div Align \in Int
  BY <1>1, <1>2
<1>5. (x \div Align) * Align = Align * (x \div Align)
  BY <1>1, <1>4
<1>6. QED
  BY <1>1, <1>2, <1>3, <1>5

\* An operation at the end of the queue.
LEMMA EnqueueKeeps ==
  ASSUME IInv, NEW o \in Op, o.id = issued + 1, o.type = "flush" => MustRunAlone(o), Enqueue(o)
  PROVE  IInv'
<1> DEFINE f == [File EXCEPT !.q = Append(q, o)]
<1>1. /\ ~completed /\ issued' = issued + 1 /\ ProcessQueue(f)
      /\ UNCHANGED <<mode, closed, acked>> /\ issued' \in 0..MaxOps
  <2>1. /\ ~completed /\ issued' = issued + 1 /\ ProcessQueue(f)
        /\ UNCHANGED <<mode, closed, acked>> /\ issued < MaxOps
    BY DEF Enqueue, File
  <2>2. issued' \in 0..MaxOps
    BY <2>1, Parts, AppendFileAssumption
  <2>3. QED
    BY <2>1, <2>2
<1>2. /\ f.q = Append(q, o) /\ f.inflight = inflight /\ f.committed = committed /\ f.logical = logical
      /\ f.sizeCh = sizeCh /\ f.nonSize = nonSize /\ f.done = done /\ f.disk = disk /\ f.stored = stored
  BY DEF File
<1> DEFINE L == Len(q)
<1>3. /\ f.q \in Seq(Op) /\ Len(f.q) = L + 1 /\ L \in Nat /\ f.q[L + 1] = o
      /\ \A i \in 1..L : f.q[i] = q[i]
      /\ \A i \in 1..Len(f.q) : i \in 1..L \/ i = L + 1
  <2>1. q \in Seq(Op)
    BY Parts
  <2>2. L \in Nat
    BY <2>1, LenProperties
  <2>3. QED
    BY <1>2, <2>1, <2>2, AppendProperties
<1>4. f \in FileType
  BY <1>2, <1>3, Parts DEF File, FileType
<1>5. /\ Counted(File) /\ Named(File, issued) /\ FlushesAlone(File) /\ Apart(File)
      /\ DiskFollows(File) /\ DataKept(File, acked) /\ FlushSees(File)
  BY Parts DEF FileOK
<1> HIDE DEF f, L
<1>6. Counted(f) /\ Apart(f) /\ DiskFollows(f) /\ DataKept(f, acked) /\ FlushSees(f)
  BY <1>2, <1>5 DEF File, Counted, Apart, DiskFollows, DataKept, FlushSees
<1>7. /\ \A i \in 1..L : q[i].id <= issued /\ (q[i].type = "flush" => MustRunAlone(q[i]))
      /\ \A i, j \in 1..L : q[i].id = q[j].id => i = j
      /\ \A d \in inflight : d.op.id <= issued /\ \A i \in 1..L : q[i].id # d.op.id
      /\ \A d, e \in inflight : d.op.id = e.op.id => d = e
      /\ \A d \in inflight : d.op.type = "flush" => MustRunAlone(d.op)
  BY <1>5 DEF Named, FlushesAlone, File, L
<1>8. /\ \A i \in 1..L : q[i].id \in Nat /\ q[i].id <= issued + 1 /\ q[i].id # o.id
      /\ \A d \in inflight : d.op.id <= issued + 1 /\ d.op.id # o.id
      /\ o.id <= issued + 1
  <2>1. \A i \in 1..L : q[i].id \in Nat
    <3>1. q \in Seq(Op)
      BY Parts
    <3>2. \A i \in 1..L : q[i] \in Op
      BY <3>1, ElementOfSeq DEF L
    <3>3. QED
      BY <3>2 DEF Op
  <2>2. \A d \in inflight : d.op.id \in Nat
    BY Parts DEF Op
  <2>3. QED
    BY <1>7, <2>1, <2>2, Parts
<1>9. Named(f, issued + 1)
  <2>1. \A i \in 1..Len(f.q) : f.q[i].id <= issued + 1
    BY <1>3, <1>8
  <2>2. ASSUME NEW i \in 1..Len(f.q), NEW j \in 1..Len(f.q), f.q[i].id = f.q[j].id PROVE i = j
    <3>1. CASE i \in 1..L /\ j \in 1..L
      BY <1>3, <1>7, <2>2, <3>1
    <3>2. CASE i \in 1..L /\ j = L + 1
      BY <1>3, <1>8, <2>2, <3>2
    <3>3. CASE i = L + 1 /\ j \in 1..L
      BY <1>3, <1>8, <2>2, <3>3
    <3>4. QED
      BY <1>3, <3>1, <3>2, <3>3
  <2>3. \A d \in f.inflight : d.op.id <= issued + 1 /\ \A i \in 1..Len(f.q) : f.q[i].id # d.op.id
    BY <1>2, <1>3, <1>7, <1>8
  <2>4. QED
    BY <1>2, <1>7, <2>1, <2>2, <2>3 DEF Named
<1>10. FlushesAlone(f)
  BY <1>2, <1>3, <1>7 DEF FlushesAlone
<1>11. FileOK(f, acked, issued + 1)
  BY <1>6, <1>9, <1>10 DEF FileOK
<1>12. /\ File' \in FileType /\ FileOK(File', acked, issued + 1) /\ completed' \in BOOLEAN
       /\ completed' => q' = <<>> /\ inflight' = {}
  BY <1>1, <1>4, <1>11, Parts, ProcessQueueKeeps
<1>13. mode' = mode /\ acked' = acked /\ mode \in Modes
  BY <1>1, Parts
<1>14. FileOK(File', acked', issued')
  BY <1>1, <1>12, <1>13
<1>15. QED
  BY <1>1, <1>12, <1>13, <1>14, BackToIInv

LEMMA UserPreserves == ASSUME IInv, User PROVE IInv'
<1>1. ASSUME NEW type \in OpType, NEW pos \in Nat, NEW len \in Nat,
             type = "flush" => mode.exclusive \/ mode.sloppy, Enqueue(NewOp(type, pos, len))
      PROVE  IInv'
  <2> DEFINE o == NewOp(type, pos, len)
  <2>1. o \in Op /\ o.id = issued + 1 /\ o.type = type
    BY Parts DEF NewOp, Op
  <2>2. o.type = "flush" => MustRunAlone(o)
    BY <1>1, <2>1 DEF MustRunAlone
  <2>3. Enqueue(o)
    BY <1>1
  <2> HIDE DEF o
  <2>4. QED
    BY <2>1, <2>2, <2>3, EnqueueKeeps
<1>2. ASSUME NEW e \in Extents, Read(e[1], e[2]) PROVE IInv'
  <2>1. e[1] \in Nat /\ e[2] \in Nat /\ e[1] < logical /\ logical \in Nat
    BY <1>2, Parts, AppendFileAssumption DEF Read
  <2>2. AlignUp(logical) \in Nat /\ logical <= AlignUp(logical)
    BY <2>1, AlignUpType, AlignUpGrows
  <2>3. Min2(e[1] + e[2], AlignUp(logical)) - e[1] \in Nat
    BY <2>1, <2>2 DEF Min2
  <2>4. QED
    BY <1>1, <1>2, <2>1, <2>3 DEF Read, OpType
<1>3. ASSUME NEW e \in Extents, Write(e[1], e[2]) PROVE IInv'
  <2>1. e[1] \in Nat /\ e[2] \in Nat
    BY AppendFileAssumption
  <2>2. QED
    BY <1>1, <1>3, <2>1 DEF Write, OpType
<1>4. ASSUME NEW v \in Vectors, ReadVector(v[1], v[2]) PROVE IInv'
  <2> DEFINE pos == v[1]
             iov == v[2]
             fits(k) == pos + Total(1..k, iov) <= logical
             K == {k \in 0..Len(iov) : fits(k)}
  <2>1. pos \in Nat /\ iov \in Seq(Nat) /\ pos < logical /\ logical \in Nat
    BY <1>4, Parts, AppendFileAssumption DEF ReadVector
  <2>2. Len(iov) \in Nat /\ \A i \in 1..Len(iov) : iov[i] \in Nat
    BY <2>1, LenProperties, ElementOfSeq
  <2> HIDE DEF pos, iov
  <2>3. fits(0)
    <3>1. 1..0 = {}
      OBVIOUS
    <3>2. Total(1..0, iov) = 0
      BY <3>1, TotalOfEmpty
    <3>3. QED
      BY <2>1, <3>2
  <2>4. PICK k \in K : k < Len(iov) => k + 1 \notin K
    <3> HIDE DEF fits
    <3>1. K \in SUBSET (0..Len(iov)) /\ 0 \in K
      BY <2>2, <2>3
    <3> HIDE DEF K
    <3>2. QED
      BY <2>2, <3>1, LoopStops
  <2>5. fits(k) /\ (k < Len(iov) => ~fits(k + 1))
    <3> HIDE DEF fits
    <3>1. QED
      BY <2>2, <2>4
  <2>6. FittingBuffers(pos, iov) = CHOOSE n \in 0..Len(iov) : fits(n) /\ (n < Len(iov) => ~fits(n + 1))
    BY DEF FittingBuffers
  <2> HIDE DEF fits
  <2>7. FittingBuffers(pos, iov) \in 0..Len(iov)
    BY <2>4, <2>5, <2>6
  <2> DEFINE n == FittingBuffers(pos, iov)
  <2>8. Total(1..n, iov) \in Nat
    <3>1. n \in Nat /\ \A i \in 1..n : iov[i] \in Nat
      BY <2>2, <2>7
    <3> HIDE DEF n
    <3>2. IsFiniteSet(1..n)
      BY <3>1, FS_Interval
    <3>3. QED
      BY <3>1, <3>2, TotalType
  <2>9. Enqueue(NewOp("read", pos, Total(1..n, iov)))
    BY <1>4 DEF ReadVector, pos, iov
  <2>10. QED
    BY <1>1, <2>1, <2>8, <2>9 DEF OpType
<1>5. ASSUME NEW n \in Lengths, Truncate(n) PROVE IInv'
  <2>1. n \in Nat
    BY AppendFileAssumption
  <2>2. QED
    BY <1>1, <1>5, <2>1 DEF Truncate, OpType
<1>6. CASE Flush
  <2>1. mode.exclusive \/ mode.sloppy
    BY <1>6 DEF Flush
  <2>2. QED
    BY <1>1, <1>6, <2>1 DEF Flush, OpType
<1>7. CASE Close
  <2> DEFINE f == [File EXCEPT !.done = TRUE]
  <2>1. ~completed /\ ProcessQueue(f) /\ UNCHANGED <<mode, closed, acked, issued>>
    BY <1>7 DEF Close
  <2>2. /\ f.q = q /\ f.inflight = inflight /\ f.committed = committed /\ f.logical = logical
        /\ f.sizeCh = sizeCh /\ f.nonSize = nonSize /\ f.disk = disk /\ f.stored = stored
        /\ f \in FileType
    BY Parts DEF File, FileType
  <2> HIDE DEF f
  <2>3. FileOK(f, acked, issued)
    BY <2>2, Parts DEF File, FileOK, Counted, Named, FlushesAlone, Apart, DiskFollows, DataKept, FlushSees
  <2>4. /\ File' \in FileType /\ FileOK(File', acked, issued) /\ completed' \in BOOLEAN
        /\ completed' => q' = <<>> /\ inflight' = {}
    BY <2>1, <2>2, <2>3, Parts, ProcessQueueKeeps
  <2>5. mode' = mode /\ acked' = acked /\ issued' = issued /\ mode \in Modes /\ issued' \in 0..MaxOps
    BY <2>1 DEF IInv
  <2>6. FileOK(File', acked', issued')
    BY <2>4, <2>5
  <2>7. QED
    BY <2>4, <2>5, <2>6, BackToIInv
<1>8. QED
  BY <1>2, <1>3, <1>4, <1>5, <1>6, <1>7 DEF User

-----------------------------------------------------------------------------
(* The kernel and the continuations *)

LEMMA InitEstablishes == Init => IInv
<1> SUFFICES ASSUME Init PROVE IInv
  OBVIOUS
<1>1. /\ q = <<>> /\ inflight = {} /\ sizeCh = 0 /\ nonSize = 0 /\ done = FALSE /\ completed = FALSE
      /\ issued = 0 /\ mode \in Modes /\ logical = InitialSize /\ disk = committed
      /\ stored = 0..(InitialSize - 1) /\ acked = stored
  BY DEF Init
<1>2. InitialSize \in Nat /\ SizeHint \in Nat /\ MaxOps \in Nat
  BY AppendFileAssumption
<1>3. committed \in Nat
  BY <1>2, AlignUpType DEF Init
<1>4. q \in Seq(Op) /\ Len(q) = 0
  BY <1>1, EmptySeq
<1>5. done \in BOOLEAN /\ completed \in BOOLEAN
  BY <1>1, Zenon
<1>6. /\ File.q = q /\ File.inflight = {} /\ File.committed = committed /\ File.logical = InitialSize
      /\ File.sizeCh = 0 /\ File.nonSize = 0 /\ File.disk = committed /\ File.stored = 0..(InitialSize - 1)
  BY <1>1 DEF File
<1>7. File \in FileType
  BY <1>1, <1>2, <1>3, <1>4, <1>5 DEF File, FileType
<1>8. Counted(File)
  <2>1. CountedOn({}, "size") = {} /\ CountedOn({}, "non") = {}
    BY DEF CountedOn
  <2>2. QED
    BY <1>6, <2>1, FS_EmptySet DEF Counted
<1>9. Named(File, 0) /\ FlushesAlone(File) /\ Apart(File) /\ DiskFollows(File) /\ FlushSees(File)
  BY <1>4, <1>6 DEF Named, FlushesAlone, Apart, DiskFollows, FlushSees
<1>10. DataKept(File, acked)
  BY <1>1, <1>6 DEF DataKept
<1>11. issued \in 0..MaxOps
  BY <1>1, <1>2
<1>12. QED
  BY <1>1, <1>5, <1>7, <1>8, <1>9, <1>10, <1>11 DEF IInv, FileOK

LEMMA FinishClosePreserves == ASSUME IInv, FinishClose PROVE IInv'
<1>1. /\ completed /\ q = <<>> /\ inflight = {}
      /\ UNCHANGED <<mode, logical, q, inflight, sizeCh, nonSize, done, completed, acked, issued>>
  BY DEF FinishClose, IInv
<1>2. \/ committed' = logical /\ disk' = logical /\ stored' = stored \cap 0..(logical - 1)
      \/ committed' = committed /\ disk' = disk /\ stored' = stored
  BY DEF FinishClose
<1>3. /\ Counted(File) /\ Named(File, issued) /\ FlushesAlone(File)
      /\ DiskFollows(File) /\ DataKept(File, acked)
  BY Parts DEF FileOK
<1>4. disk = committed /\ acked \subseteq stored /\ acked \subseteq 0..(logical - 1)
  BY <1>1, <1>3 DEF DiskFollows, DataKept, File
<1>5. File' \in FileType
  BY <1>1, <1>2, Parts DEF File, FileType
<1>6. Counted(File') /\ Named(File', issued) /\ FlushesAlone(File')
  BY <1>1, <1>3 DEF File, Counted, Named, FlushesAlone
<1>7. Apart(File') /\ DiskFollows(File') /\ FlushSees(File')
  BY <1>1, <1>2, <1>4 DEF File, Apart, DiskFollows, FlushSees
<1>8. DataKept(File', acked)
  BY <1>1, <1>2, <1>4 DEF File, DataKept
<1>9. FileOK(File', acked', issued')
  BY <1>1, <1>6, <1>7, <1>8 DEF FileOK
<1>10. mode' = mode /\ mode \in Modes /\ issued' \in 0..MaxOps /\ completed' \in BOOLEAN
       /\ q' = <<>> /\ inflight' = {}
  BY <1>1 DEF IInv
<1>11. QED
  BY <1>5, <1>9, <1>10, BackToIInv

\* What the kernel does to the file when d becomes x.
Answered(d, x) ==
  /\ x.op = d.op /\ x.counter = d.counter /\ x.state \in {"done", "failed"}
  /\ inflight' = (inflight \ {d}) \cup {x}
  /\ x.state = "done" /\ x.op.type = "write" =>
       /\ disk' = Max2(disk, x.op.pos + x.ret) /\ x.ret <= x.op.len
       /\ stored' = stored \cup x.op.pos..(x.op.pos + x.ret - 1)
  /\ x.state = "done" /\ x.op.type = "truncate" =>
       disk' = x.op.pos /\ stored' = stored \cap 0..(x.op.pos - 1)
  /\ ~(x.state = "done" /\ x.op.type \in {"write", "truncate"}) =>
       disk' = disk /\ stored' = stored /\ x.ret = d.ret

LEMMA KernelDoneAnswers ==
  ASSUME IInv, NEW d \in inflight, KernelDone(d)
  PROVE  \E x \in Flight : Answered(d, x)
<1> DEFINE y(st, r) == [d EXCEPT !.state = st, !.ret = r]
<1>1. d \in Flight /\ d.op.len \in Nat /\ d.ret \in Nat
  BY Parts DEF Flight, Op
<1>2. \A st \in {"done", "failed"} : \A r \in Nat :
        /\ y(st, r) \in Flight /\ y(st, r).op = d.op /\ y(st, r).counter = d.counter
        /\ y(st, r).state = st /\ y(st, r).ret = r
  BY <1>1 DEF Flight
<1>3. \A st \in {"done", "failed"} : [d EXCEPT !.state = st] = y(st, d.ret)
  BY <1>1 DEF Flight
<1>4. CASE /\ d.op.type = "write"
           /\ \E ret \in {n \in 1..d.op.len : n % Align = 0} \cup {d.op.len} :
                /\ disk' = Max2(disk, d.op.pos + ret)
                /\ stored' = stored \cup d.op.pos..(d.op.pos + ret - 1)
                /\ inflight' = (inflight \ {d}) \cup {[d EXCEPT !.state = "done", !.ret = ret]}
  <2>1. PICK ret \in {n \in 1..d.op.len : n % Align = 0} \cup {d.op.len} :
          /\ disk' = Max2(disk, d.op.pos + ret)
          /\ stored' = stored \cup d.op.pos..(d.op.pos + ret - 1)
          /\ inflight' = (inflight \ {d}) \cup {y("done", ret)}
    BY <1>4
  <2>2. ret \in Nat /\ ret <= d.op.len
    BY <1>1
  <2> HIDE DEF y
  <2>3. Answered(d, y("done", ret))
    BY <1>2, <1>4, <2>1, <2>2 DEF Answered
  <2>4. QED
    BY <1>2, <2>2, <2>3
<1>5. CASE /\ d.op.type = "truncate" /\ disk' = d.op.pos /\ stored' = stored \cap 0..(d.op.pos - 1)
           /\ inflight' = (inflight \ {d}) \cup {[d EXCEPT !.state = "done"]}
  <2>1. inflight' = (inflight \ {d}) \cup {y("done", d.ret)}
    BY <1>3, <1>5
  <2> HIDE DEF y
  <2>2. Answered(d, y("done", d.ret))
    BY <1>1, <1>2, <1>5, <2>1 DEF Answered
  <2>3. QED
    BY <1>1, <1>2, <2>2
<1>6. CASE /\ d.op.type \in {"read", "flush"} /\ UNCHANGED kernel
           /\ inflight' = (inflight \ {d}) \cup {[d EXCEPT !.state = "done"]}
  <2>1. inflight' = (inflight \ {d}) \cup {y("done", d.ret)}
    BY <1>3, <1>6
  <2> HIDE DEF y
  <2>2. Answered(d, y("done", d.ret))
    BY <1>1, <1>2, <1>6, <2>1 DEF Answered, kernel
  <2>3. QED
    BY <1>1, <1>2, <2>2
<1>7. CASE UNCHANGED kernel /\ inflight' = (inflight \ {d}) \cup {[d EXCEPT !.state = "failed"]}
  <2>1. inflight' = (inflight \ {d}) \cup {y("failed", d.ret)}
    BY <1>3, <1>7
  <2> HIDE DEF y
  <2>2. Answered(d, y("failed", d.ret))
    BY <1>1, <1>2, <1>7, <2>1 DEF Answered, kernel
  <2>3. QED
    BY <1>1, <1>2, <2>2
<1>8. QED
  BY <1>4, <1>5, <1>6, <1>7 DEF KernelDone

LEMMA KernelDonePreserves == ASSUME IInv, NEW d \in inflight, KernelDone(d) PROVE IInv'
<1>1. PICK x \in Flight : Answered(d, x)
  BY KernelDoneAnswers
<1>2. /\ d.state = "submitted"
      /\ UNCHANGED <<mode, committed, logical, q, sizeCh, nonSize, done, completed, closed, acked, issued>>
  BY DEF KernelDone
<1>3. /\ d.op \in Op /\ d.op.pos \in Nat /\ d.op.len \in Nat /\ x.ret \in Nat
      /\ d.op.type \in {"read", "write", "flush", "truncate"} /\ x \notin inflight \ {d}
      /\ d.counter \in {"size", "non"}
  <2>1. d.op \in Op /\ x.ret \in Nat /\ d.counter \in {"size", "non"}
    BY Parts DEF Flight
  <2>2. x \notin inflight \ {d}
    BY <1>1, Parts DEF FileOK, Named, File, Answered
  <2>3. QED
    BY <2>1, <2>2 DEF Op, OpType
<1>4. /\ x.op = d.op /\ x.counter = d.counter /\ x.state \in {"done", "failed"}
      /\ inflight' = (inflight \ {d}) \cup {x}
      /\ x.state = "done" /\ x.op.type = "write" =>
           /\ disk' = Max2(disk, x.op.pos + x.ret) /\ x.ret <= x.op.len
           /\ stored' = stored \cup x.op.pos..(x.op.pos + x.ret - 1)
      /\ x.state = "done" /\ x.op.type = "truncate" =>
           disk' = x.op.pos /\ stored' = stored \cap 0..(x.op.pos - 1)
      /\ ~(x.state = "done" /\ x.op.type \in {"write", "truncate"}) =>
           disk' = disk /\ stored' = stored /\ x.ret = d.ret
  BY <1>1 DEF Answered
<1>5. /\ Counted(File) /\ Named(File, issued) /\ FlushesAlone(File) /\ Apart(File)
      /\ DiskFollows(File) /\ DataKept(File, acked) /\ FlushSees(File)
  BY Parts DEF FileOK
<1>6. disk' \in Nat /\ stored' \subseteq Int
  BY <1>3, <1>4, Parts DEF Max2
<1>7. File' \in FileType
  BY <1>2, <1>4, <1>6, Parts DEF File, FileType
<1>8. Counted(File')
  <2> DEFINE A(c) == CountedOn(inflight, c)
  <2>1. IsFiniteSet(inflight)
    BY <1>5 DEF Counted, File
  <2>2. IsFiniteSet(inflight \ {d}) /\ IsFiniteSet((inflight \ {d}) \cup {x})
    BY <2>1, FS_RemoveElement, FS_AddElement
  <2>3. \A c : Cardinality(CountedOn((inflight \ {d}) \cup {x}, c)) = Cardinality(A(c))
    <3> SUFFICES ASSUME NEW c PROVE Cardinality(CountedOn((inflight \ {d}) \cup {x}, c)) = Cardinality(A(c))
      OBVIOUS
    <3>1. CASE d.counter # c
      <4>1. CountedOn((inflight \ {d}) \cup {x}, c) = A(c)
        BY <1>4, <3>1 DEF CountedOn
      <4>2. QED
        BY <4>1
    <3>2. CASE d.counter = c
      <4>1. CountedOn((inflight \ {d}) \cup {x}, c) = (A(c) \ {d}) \cup {x} /\ d \in A(c) /\ x \notin A(c) \ {d}
        BY <1>3, <1>4, <3>2 DEF CountedOn
      <4>2. A(c) \in SUBSET inflight
        BY DEF CountedOn
      <4> HIDE DEF A
      <4>3. IsFiniteSet(A(c)) /\ Cardinality(A(c)) \in Nat
        BY <2>1, <4>2, FS_Subset, FS_CardinalityType
      <4>4. IsFiniteSet(A(c) \ {d}) /\ Cardinality(A(c) \ {d}) = Cardinality(A(c)) - 1
        BY <4>1, <4>3, FS_RemoveElement
      <4>5. Cardinality((A(c) \ {d}) \cup {x}) = Cardinality(A(c) \ {d}) + 1
        BY <4>1, <4>4, FS_AddElement
      <4>6. Cardinality((A(c) \ {d}) \cup {x}) = Cardinality(A(c))
        BY <4>3, <4>4, <4>5
      <4>7. QED
        BY <4>1, <4>6
    <3>3. QED
      BY <3>1, <3>2
  <2>4. QED
    BY <1>2, <1>4, <1>5, <2>2, <2>3 DEF Counted, File
<1>9. Named(File', issued) /\ FlushesAlone(File')
  <2>1. \A e \in inflight' : \E h \in inflight : e.op = h.op
    BY <1>4
  <2>2. \A e, h \in inflight' : e.op.id = h.op.id => e = h
    BY <1>4, <1>5 DEF Named, File
  <2>3. QED
    BY <1>2, <1>5, <2>1, <2>2 DEF Named, FlushesAlone, File
<1>10. CASE d.counter = "size"
  <2>1. inflight = {d} /\ inflight' = {x} /\ disk = committed /\ acked \subseteq stored
    BY <1>2, <1>4, <1>5, <1>10 DEF Apart, DiskFollows, DataKept, File
  <2>2. Apart(File') /\ FlushSees(File')
    BY <1>4, <1>10, <2>1 DEF Apart, FlushSees, File
  <2>3. DiskFollows(File')
    <3>1. x.state = "done" => disk' = DiskAfter(x, committed)
      BY <1>4, <2>1 DEF DiskAfter
    <3>2. x.state # "done" => disk' = committed
      BY <1>4, <2>1
    <3>3. x.counter = "size" /\ committed' = committed /\ File'.disk = disk'
          /\ File'.committed = committed' /\ File'.inflight = {x}
      BY <1>2, <1>4, <1>10, <2>1 DEF File
    <3>4. QED
      BY <3>1, <3>2, <3>3 DEF DiskFollows
  <2>4. DataKept(File', acked)
    <3>1. acked \subseteq 0..(logical - 1)
      BY <1>5 DEF DataKept, File
    <3>2. QED
      BY <1>2, <1>3, <1>4, <2>1, <3>1 DEF DataKept, File
  <2>5. FileOK(File', acked', issued')
    BY <1>2, <1>8, <1>9, <2>2, <2>3, <2>4 DEF FileOK
  <2>6. QED
    BY <1>2, <1>7, <2>5, BackToIInv DEF IInv
<1>11. CASE d.counter = "non"
  <2>1. \A e \in inflight : e.counter = "non" /\ Inside(e, committed)
    <3>1. \A e \in inflight : e.counter # "size"
      BY <1>5, <1>11 DEF Apart, File
    <3>2. QED
      BY <1>5, <3>1, Parts DEF Apart, File
  <2>2. disk = committed /\ acked \subseteq stored
    <3>1. \A e \in inflight : e.op.type # "truncate"
      BY <2>1 DEF Inside, MustRunAlone
    <3>2. QED
      BY <1>5, <2>1, <3>1 DEF DiskFollows, DataKept, File
  <2>3. \A e \in inflight : e.op.type # "truncate" /\ e.op.type # "flush"
    BY <1>5, <2>1 DEF Inside, MustRunAlone, FlushesAlone, File
  <2>4. disk' = disk /\ Inside(x, committed)
    <3>1. CASE x.state = "done" /\ x.op.type = "write"
      <4>1. End(d.op) <= committed /\ End(d.op) = d.op.pos + d.op.len
        BY <1>4, <2>1, <3>1 DEF Inside, End
      <4>2. d.op.pos + x.ret <= committed
        BY <1>3, <1>4, <3>1, <4>1, Parts
      <4>3. disk' = disk
        BY <1>3, <1>4, <2>2, <3>1, <4>2, Parts DEF Max2
      <4>4. Inside(x, committed)
        BY <1>4, <2>1, <3>1, <4>1 DEF Inside
      <4>5. QED
        BY <4>3, <4>4
    <3>2. CASE ~(x.state = "done" /\ x.op.type = "write")
      BY <1>4, <2>1, <2>3, <3>2 DEF Inside
    <3>3. QED
      BY <3>1, <3>2
  <2>5. stored \subseteq stored'
    BY <1>4, <2>3
  <2>6. Apart(File') /\ FlushSees(File') /\ DiskFollows(File')
    BY <1>2, <1>4, <2>1, <2>2, <2>3, <2>4 DEF Apart, FlushSees, DiskFollows, File
  <2>7. DataKept(File', acked)
    <3>1. acked \subseteq 0..(logical - 1) /\ acked \subseteq stored'
      BY <1>5, <2>2, <2>5 DEF DataKept, File
    <3>2. \A e \in inflight' : e.state = "done" /\ e.op.type = "write" => e.op.pos..(e.op.pos + e.ret - 1) \subseteq stored'
      <4>1. SUFFICES ASSUME NEW e \in inflight', e.state = "done", e.op.type = "write"
                     PROVE  e.op.pos..(e.op.pos + e.ret - 1) \subseteq stored'
        OBVIOUS
      <4>2. CASE e = x
        BY <1>4, <4>1, <4>2
      <4>3. CASE e \in inflight
        <5>1. e.op.pos..(e.op.pos + e.ret - 1) \subseteq stored
          BY <1>5, <4>1, <4>3 DEF DataKept, File
        <5>2. QED
          BY <2>5, <5>1
      <4>4. QED
        BY <1>4, <4>2, <4>3
    <3>3. \A e \in inflight' : e.op.type # "truncate"
      BY <1>4, <2>3
    <3>4. QED
      BY <1>2, <3>1, <3>2, <3>3 DEF DataKept, File
  <2>8. FileOK(File', acked', issued')
    BY <1>2, <1>8, <1>9, <2>6, <2>7 DEF FileOK
  <2>9. QED
    BY <1>2, <1>7, <2>8, BackToIInv DEF IInv
<1>12. QED
  BY <1>3, <1>10, <1>11

\* The file when d has left it, with the sizes c and l.
Left(d, c, l) ==
  [q |-> q, inflight |-> inflight \ {d}, committed |-> c, logical |-> l,
   sizeCh |-> IF d.counter = "size" THEN sizeCh - 1 ELSE sizeCh,
   nonSize |-> IF d.counter = "non" THEN nonSize - 1 ELSE nonSize,
   done |-> done, disk |-> disk, stored |-> stored]

\* The file with other fields.
FileOf(i, c, l, s, n) ==
  [q |-> q, inflight |-> i, committed |-> c, logical |-> l, sizeCh |-> s, nonSize |-> n,
   done |-> done, disk |-> disk, stored |-> stored]

\* What leaves is no longer counted.
LEMMA LeavingIsCounted ==
  ASSUME IInv, NEW d \in inflight, NEW c \in Nat, NEW l \in Nat
  PROVE  Left(d, c, l) \in FileType /\ Counted(Left(d, c, l))
<1> DEFINE I == inflight \ {d}
           A(k) == CountedOn(inflight, k)
<1>1. /\ IsFiniteSet(inflight) /\ sizeCh = Cardinality(A("size")) /\ nonSize = Cardinality(A("non"))
  BY Parts DEF FileOK, Counted, File
<1>2. \A k : A(k) \in SUBSET inflight
  BY DEF CountedOn
<1>3. /\ CountedOn(I, d.counter) = A(d.counter) \ {d} /\ d \in A(d.counter)
      /\ \A k : k # d.counter => CountedOn(I, k) = A(k)
  BY DEF CountedOn
<1> HIDE DEF A
<1>4. IsFiniteSet(I) /\ \A k : IsFiniteSet(A(k))
  BY <1>1, <1>2, FS_Subset
<1>5. \A k : Cardinality(A(k)) \in Nat
  BY <1>4, FS_CardinalityType
<1>6. IsFiniteSet(A(d.counter) \ {d}) /\ Cardinality(A(d.counter) \ {d}) = Cardinality(A(d.counter)) - 1
  BY <1>3, <1>4, FS_RemoveElement
<1>7. Cardinality(A(d.counter) \ {d}) \in Nat
  BY <1>6, FS_CardinalityType
<1>8. d.counter \in {"size", "non"}
  BY Parts
<1> DEFINE s == IF d.counter = "size" THEN sizeCh - 1 ELSE sizeCh
           n == IF d.counter = "non" THEN nonSize - 1 ELSE nonSize
<1>9. s = Cardinality(CountedOn(I, "size")) /\ n = Cardinality(CountedOn(I, "non"))
  <2>1. CASE d.counter = "size"
    <3>1. CountedOn(I, "size") = A("size") \ {d} /\ CountedOn(I, "non") = A("non")
      BY <1>3, <2>1
    <3>2. s = sizeCh - 1 /\ n = nonSize
      BY <2>1
    <3>3. QED
      BY <1>1, <1>6, <2>1, <3>1, <3>2
  <2>2. CASE d.counter = "non"
    <3>1. CountedOn(I, "non") = A("non") \ {d} /\ CountedOn(I, "size") = A("size")
      BY <1>3, <2>2
    <3>2. n = nonSize - 1 /\ s = sizeCh
      BY <2>2
    <3>3. QED
      BY <1>1, <1>6, <2>2, <3>1, <3>2
  <2>3. QED
    BY <1>8, <2>1, <2>2
<1>10. s \in Nat /\ n \in Nat
  <2>1. \A k : IsFiniteSet(CountedOn(I, k))
    <3>1. \A k : CountedOn(I, k) \in SUBSET I
      BY DEF CountedOn
    <3>2. QED
      BY <1>4, <3>1, FS_Subset
  <2>2. QED
    BY <1>9, <2>1, FS_CardinalityType
<1> HIDE DEF I
<1>11. I \subseteq Flight
  BY Parts DEF I
<1>12. /\ Left(d, c, l).inflight = I /\ Left(d, c, l).sizeCh = s /\ Left(d, c, l).nonSize = n
  BY DEF Left, I
<1>13. Counted(Left(d, c, l))
  BY <1>4, <1>9, <1>12 DEF Counted
<1>14. Left(d, c, l) = [q |-> q, inflight |-> I, committed |-> c, logical |-> l, sizeCh |-> s,
                        nonSize |-> n, done |-> done, disk |-> disk, stored |-> stored]
  BY DEF Left, I
<1> HIDE DEF s, n
<1>15. Left(d, c, l) \in FileType
  BY <1>10, <1>11, <1>14, Parts DEF FileType
<1>16. QED
  BY <1>13, <1>15

\* The continuations of an operation leave the file in order.
LEMMA LeftKeeps ==
  ASSUME IInv, NEW d \in inflight, NEW c \in Nat, NEW l \in Nat, NEW a, d.state \in {"done", "failed"},
         \/ /\ d.state = "done" /\ d.op.type = "write"
            /\ a = acked \cup d.op.pos..(d.op.pos + d.ret - 1)
            /\ c = Max2(committed, d.op.pos + d.ret) /\ l = Max2(logical, d.op.pos + d.ret)
         \/ /\ d.state = "done" /\ d.op.type = "truncate"
            /\ a = acked \cap 0..(d.op.pos - 1) /\ c = d.op.pos /\ l = d.op.pos
         \/ /\ d.state = "failed" \/ d.op.type \in {"read", "flush"}
            /\ a = acked /\ c = committed /\ l = logical
  PROVE  FileOK(Left(d, c, l), a, issued)
<1> DEFINE F == Left(d, c, l)
<1>1. /\ F.q = q /\ F.inflight = inflight \ {d} /\ F.committed = c /\ F.logical = l
      /\ F.disk = disk /\ F.stored = stored
  BY DEF Left
<1>2. /\ Named(File, issued) /\ FlushesAlone(File) /\ Apart(File)
      /\ DiskFollows(File) /\ DataKept(File, acked) /\ FlushSees(File)
  BY Parts DEF FileOK
<1>3. Counted(F)
  BY LeavingIsCounted
<1>4. d.op \in Op /\ d.op.pos \in Nat /\ d.op.len \in Nat /\ d.ret \in Nat /\ d.counter \in {"size", "non"}
  BY Parts DEF Op
<1> HIDE DEF F
<1>5. Named(F, issued) /\ FlushesAlone(F)
  BY <1>1, <1>2 DEF Named, FlushesAlone, File
<1>6. acked \subseteq 0..(logical - 1) /\ logical \in Nat /\ committed \in Nat
  BY <1>2, Parts DEF DataKept, File
<1>7. a \subseteq 0..(l - 1)
  BY <1>4, <1>6 DEF Max2
<1>8. CASE d.counter = "size"
  <2>1. inflight = {d} /\ F.inflight = {}
    BY <1>1, <1>2, <1>8 DEF Apart, File
  <2>2. Apart(F) /\ FlushSees(F)
    BY <2>1 DEF Apart, FlushSees
  <2>3. disk = c
    <3>1. d.state = "done" => disk = DiskAfter(d, committed)
      BY <1>2, <1>8 DEF DiskFollows, File
    <3>2. d.state # "done" => disk = committed
      BY <1>2, <2>1 DEF DiskFollows, File
    <3>3. QED
      BY <3>1, <3>2 DEF DiskAfter
  <2>4. DiskFollows(F)
    BY <1>1, <2>1, <2>3 DEF DiskFollows
  <2>5. a \subseteq stored
    <3>1. d.state = "done" => /\ d.op.type = "write" => d.op.pos..(d.op.pos + d.ret - 1) \subseteq stored
                              /\ d.op.type = "truncate" => acked \cap 0..(d.op.pos - 1) \subseteq stored
      BY <1>2 DEF DataKept, File
    <3>2. (d.state = "done" /\ d.op.type = "truncate") \/ acked \subseteq stored
      BY <1>2, <2>1 DEF DataKept, File
    <3> HIDE DEF F
    <3>3. QED
      BY <3>1, <3>2
  <2>6. DataKept(F, a)
    BY <1>1, <1>7, <2>1, <2>5 DEF DataKept
  <2>7. QED
    BY <1>3, <1>5, <2>2, <2>4, <2>6 DEF FileOK, F
<1>9. CASE d.counter = "non"
  <2>1. \A e \in inflight : e.counter = "non" /\ Inside(e, committed)
    <3>1. \A e \in inflight : e.counter # "size"
      BY <1>2, <1>9 DEF Apart, File
    <3>2. QED
      BY <1>2, <3>1, Parts DEF Apart, File
  <2>2. \A e \in inflight : e.op.type # "truncate" /\ e.op.type # "flush"
    BY <1>2, <2>1 DEF Inside, MustRunAlone, FlushesAlone, File
  <2>3. disk = committed /\ acked \subseteq stored
    BY <1>2, <2>1, <2>2 DEF DiskFollows, DataKept, File
  <2>4. c = committed
    <3>1. d.op.type = "write" => d.op.pos + d.op.len <= committed /\ d.ret <= d.op.len
      BY <2>1 DEF Inside, End
    <3>2. d.op.type = "write" => Max2(committed, d.op.pos + d.ret) = committed
      BY <1>4, <1>6, <3>1 DEF Max2
    <3>3. QED
      BY <2>2, <3>2
  <2>5. Apart(F) /\ FlushSees(F) /\ DiskFollows(F)
    BY <1>1, <2>1, <2>2, <2>3, <2>4 DEF Apart, FlushSees, DiskFollows
  <2>6. a \subseteq stored
    <3>1. d.state = "done" /\ d.op.type = "write" => d.op.pos..(d.op.pos + d.ret - 1) \subseteq stored
      BY <1>2 DEF DataKept, File
    <3>2. QED
      BY <2>2, <2>3, <3>1
  <2>7. DataKept(F, a)
    BY <1>1, <1>2, <1>7, <2>2, <2>6 DEF DataKept, File
  <2>8. QED
    BY <1>3, <1>5, <2>5, <2>7 DEF FileOK, F
<1>10. QED
  BY <1>4, <1>8, <1>9

LEMMA CompletePreserves == ASSUME IInv, NEW d \in inflight, Complete(d) PROVE IInv'
<1> DEFINE f == [File EXCEPT !.inflight = @ \ {d},
                             !.sizeCh = IF d.counter = "size" THEN @ - 1 ELSE @,
                             !.nonSize = IF d.counter = "non" THEN @ - 1 ELSE @]
<1>1. f = Left(d, committed, logical)
  <2> DEFINE s == IF d.counter = "size" THEN sizeCh - 1 ELSE sizeCh
             n == IF d.counter = "non" THEN nonSize - 1 ELSE nonSize
  <2>1. File.inflight = inflight /\ File.sizeCh = sizeCh /\ File.nonSize = nonSize
    BY DEF File
  <2>2. f = [File EXCEPT !.inflight = inflight \ {d}, !.sizeCh = s, !.nonSize = n]
    BY <2>1
  <2>3. /\ Left(d, committed, logical) = FileOf(inflight \ {d}, committed, logical, s, n)
        /\ File = FileOf(inflight, committed, logical, sizeCh, nonSize)
    BY DEF Left, File, FileOf
  <2> HIDE DEF f, s, n
  <2>4. [[[File EXCEPT !.inflight = inflight \ {d}] EXCEPT !.sizeCh = s] EXCEPT !.nonSize = n] =
          FileOf(inflight \ {d}, committed, logical, s, n)
    <3> DEFINE g == [File EXCEPT !.inflight = inflight \ {d}]
               h == [g EXCEPT !.sizeCh = s]
    <3>1. g = FileOf(inflight \ {d}, committed, logical, sizeCh, nonSize)
      BY <2>3 DEF FileOf
    <3> HIDE DEF g
    <3>2. h = FileOf(inflight \ {d}, committed, logical, s, nonSize)
      BY <3>1 DEF FileOf
    <3> HIDE DEF h
    <3>3. [h EXCEPT !.nonSize = n] = FileOf(inflight \ {d}, committed, logical, s, n)
      BY <3>2 DEF FileOf
    <3>4. QED
      BY <3>3 DEF g, h
  <2>5. f = [[[File EXCEPT !.inflight = inflight \ {d}] EXCEPT !.sizeCh = s] EXCEPT !.nonSize = n]
    BY <2>2, Zenon
  <2>6. QED
    BY <2>3, <2>4, <2>5
<1>2. /\ CommitSize(d, f) = Left(d, Max2(committed, d.op.pos + d.ret), Max2(logical, d.op.pos + d.ret))
      /\ SetSize(d, f) = Left(d, d.op.pos, d.op.pos)
  <2> DEFINE m1 == Max2(committed, d.op.pos + d.ret)
             m2 == Max2(logical, d.op.pos + d.ret)
  <2> HIDE DEF f
  <2>1. f.committed = committed /\ f.logical = logical
    BY <1>1 DEF Left
  <2>2. CommitSize(d, f) = [f EXCEPT !.committed = m1, !.logical = m2]
    BY <2>1 DEF CommitSize
  <2> HIDE DEF m1, m2
  <2>3. \A c, l : [[f EXCEPT !.committed = c] EXCEPT !.logical = l] = Left(d, c, l)
    <3> DEFINE i == inflight \ {d}
               s == IF d.counter = "size" THEN sizeCh - 1 ELSE sizeCh
               n == IF d.counter = "non" THEN nonSize - 1 ELSE nonSize
    <3>1. \A c, l : Left(d, c, l) = FileOf(i, c, l, s, n)
      BY DEF Left, FileOf
    <3> HIDE DEF i, s, n
    <3>2. \A c : [f EXCEPT !.committed = c] = FileOf(i, c, logical, s, n)
      BY <1>1, <3>1 DEF FileOf
    <3>3. ASSUME NEW c, NEW l PROVE [[f EXCEPT !.committed = c] EXCEPT !.logical = l] = Left(d, c, l)
      <4> DEFINE g == [f EXCEPT !.committed = c]
      <4>1. g = FileOf(i, c, logical, s, n)
        BY <3>2
      <4> HIDE DEF g
      <4>2. [g EXCEPT !.logical = l] = FileOf(i, c, l, s, n)
        BY <4>1 DEF FileOf
      <4>3. QED
        BY <3>1, <4>2 DEF g
    <3>4. QED
      BY <3>3
  <2>4. \A c, l : [f EXCEPT !.committed = c, !.logical = l] = Left(d, c, l)
    BY <2>3, Zenon
  <2>5. QED
    BY <2>2, <2>4 DEF SetSize, m1, m2
<1>3. /\ d.state \in {"done", "failed"} /\ UNCHANGED <<mode, closed, issued>>
      /\ \/ /\ d.state = "done" /\ d.op.type = "write"
            /\ acked' = acked \cup d.op.pos..(d.op.pos + d.ret - 1)
            /\ ProcessQueue(CommitSize(d, f))
         \/ /\ d.state = "done" /\ d.op.type = "truncate"
            /\ acked' = acked \cap 0..(d.op.pos - 1)
            /\ ProcessQueue(SetSize(d, f))
         \/ /\ d.state = "failed" \/ d.op.type \in {"read", "flush"}
            /\ acked' = acked
            /\ ProcessQueue(f)
  BY DEF Complete
<1>4. /\ d.op.pos \in Nat /\ d.ret \in Nat /\ committed \in Nat /\ logical \in Nat
      /\ Max2(committed, d.op.pos + d.ret) \in Nat /\ Max2(logical, d.op.pos + d.ret) \in Nat
  BY Parts DEF Op, Max2
<1> HIDE DEF f
<1>5. ASSUME NEW c \in Nat, NEW l \in Nat, FileOK(Left(d, c, l), acked', issued), ProcessQueue(Left(d, c, l))
      PROVE  IInv'
  <2>1. ~completed
    BY DEF IInv
  <2>2. Left(d, c, l) \in FileType
    BY LeavingIsCounted
  <2>3. /\ File' \in FileType /\ FileOK(File', acked', issued) /\ completed' \in BOOLEAN
        /\ completed' => q' = <<>> /\ inflight' = {}
    BY <1>5, <2>1, <2>2, Parts, ProcessQueueKeeps
  <2>4. mode' = mode /\ issued' = issued /\ mode \in Modes /\ issued' \in 0..MaxOps
    BY <1>3 DEF IInv
  <2>5. FileOK(File', acked', issued')
    BY <2>3, <2>4
  <2>6. QED
    BY <2>3, <2>4, <2>5, BackToIInv
<1>6. CASE /\ d.state = "done" /\ d.op.type = "write"
           /\ acked' = acked \cup d.op.pos..(d.op.pos + d.ret - 1)
           /\ ProcessQueue(CommitSize(d, f))
  BY <1>2, <1>3, <1>4, <1>5, <1>6, LeftKeeps
<1>7. CASE /\ d.state = "done" /\ d.op.type = "truncate"
           /\ acked' = acked \cap 0..(d.op.pos - 1)
           /\ ProcessQueue(SetSize(d, f))
  BY <1>2, <1>3, <1>4, <1>5, <1>7, LeftKeeps
<1>8. CASE /\ d.state = "failed" \/ d.op.type \in {"read", "flush"}
           /\ acked' = acked
           /\ ProcessQueue(f)
  BY <1>1, <1>3, <1>4, <1>5, <1>8, LeftKeeps
<1>9. QED
  BY <1>3, <1>6, <1>7, <1>8

-----------------------------------------------------------------------------
(* The theorems *)

LEMMA NextPreserves == IInv /\ [Next]_vars => IInv'
<1> SUFFICES ASSUME IInv, [Next]_vars PROVE IInv'
  OBVIOUS
<1>1. CASE UNCHANGED vars
  <2>1. /\ mode' = mode /\ committed' = committed /\ logical' = logical /\ q' = q /\ inflight' = inflight
        /\ sizeCh' = sizeCh /\ nonSize' = nonSize /\ done' = done /\ completed' = completed
        /\ disk' = disk /\ stored' = stored /\ acked' = acked /\ issued' = issued
    BY <1>1 DEF vars
  <2>2. File' = File
    BY <2>1 DEF File
  <2>3. /\ mode \in Modes /\ issued' \in 0..MaxOps /\ completed' \in BOOLEAN
        /\ File' \in FileType /\ FileOK(File', acked', issued')
        /\ completed' => q' = <<>> /\ inflight' = {}
    BY <2>1, <2>2 DEF IInv
  <2>4. QED
    BY <2>1, <2>3, BackToIInv
<1>2. CASE User
  BY <1>2, UserPreserves
<1>3. CASE FinishClose
  BY <1>3, FinishClosePreserves
<1>4. ASSUME NEW d \in inflight, KernelDone(d) \/ Complete(d) PROVE IInv'
  BY <1>4, KernelDonePreserves, CompletePreserves
<1>5. QED
  BY <1>1, <1>2, <1>3, <1>4 DEF Next, System, Closed

LEMMA InvariantHolds == Spec => []IInv
<1>1. Init => IInv
  BY InitEstablishes
<1>2. IInv /\ [Next]_vars => IInv'
  BY NextPreserves
<1>3. QED
  BY <1>1, <1>2, PTL DEF Spec

\* The counters count: at most one operation that changes the size is in flight.
LEMMA CountersAreRight == IInv => TypeOK
<1> SUFFICES ASSUME IInv PROVE TypeOK
  OBVIOUS
<1> DEFINE A == CountedOn(inflight, "size")
<1>1. /\ sizeCh = Cardinality(A) /\ nonSize = Cardinality(CountedOn(inflight, "non"))
      /\ IsFiniteSet(inflight)
  BY Parts DEF FileOK, Counted, File
<1>2. Apart(File)
  BY Parts DEF FileOK
<1>3. A \in SUBSET inflight
  BY DEF CountedOn
<1>4. A = {} \/ \E d : A = {d}
  BY <1>2 DEF Apart, File, CountedOn
<1>5. Cardinality(A) \in 0..1
  <2> HIDE DEF A
  <2>1. CASE A = {}
    BY <2>1, FS_EmptySet
  <2>2. CASE \E d : A = {d}
    <3>1. PICK d : A = {d}
      BY <2>2
    <3>2. Cardinality({d}) = 1
      BY FS_Singleton
    <3>3. QED
      BY <3>1, <3>2
  <2>3. QED
    BY <1>4, <2>1, <2>2
<1>6. /\ A = {d \in inflight : d.counter = "size"}
      /\ CountedOn(inflight, "non") = {d \in inflight : d.counter = "non"}
  BY DEF CountedOn
<1> HIDE DEF A
<1>7. mode \in Modes /\ committed \in Nat /\ logical \in Nat /\ disk \in Nat /\ nonSize \in Nat /\ issued \in 0..MaxOps
  BY Parts DEF IInv
<1>8. QED
  BY <1>1, <1>5, <1>6, <1>7 DEF TypeOK

\* A write beyond the end the kernel has, a truncate or an exclusive flush is the
\* only operation of the file in the kernel, on any filesystem and after any
\* failures (may_dispatch(), reactor.cc 1566-1573).
THEOREM EofChangersAloneHolds == Spec => []EofChangersAlone
<1>1. IInv => EofChangersAlone
  <2> SUFFICES ASSUME IInv, NEW d \in Submitted,
                      (d.op.type = "write" /\ End(d.op) > disk) \/ MustRunAlone(d.op)
               PROVE  inflight = {d}
    BY CountersAreRight DEF EofChangersAlone
  <2>1. d \in inflight /\ d.state = "submitted"
    BY DEF Submitted
  <2>2. Apart(File) /\ DiskFollows(File)
    BY Parts DEF FileOK
  <2>3. d.counter \in {"size", "non"} /\ d.op \in Op /\ disk \in Nat /\ committed \in Nat
    BY <2>1, Parts
  <2>4. d.counter # "non"
    <3>1. SUFFICES ASSUME d.counter = "non" PROVE FALSE
      OBVIOUS
    <3>2. Inside(d, committed)
      BY <2>1, <2>2, <3>1 DEF Apart, File
    <3>3. \A e \in inflight : e.counter # "size"
      BY <2>1, <2>2, <3>1 DEF Apart, File
    <3>4. disk = committed
      BY <2>2, <3>3 DEF DiskFollows, File
    <3>5. End(d.op) \in Nat
      BY <2>3 DEF End, Op
    <3>6. QED
      BY <2>3, <3>2, <3>4, <3>5 DEF Inside
  <2>5. QED
    BY <2>1, <2>2, <2>3, <2>4 DEF Apart, File
<1>2. QED
  BY <1>1, InvariantHolds, PTL

\* What has been acknowledged to a writer stays in the file until the user
\* truncates it, and an exclusive flush finds the file trimmed to it
\* (commit_size(), reactor.cc 1652-1656; flush(), 1771-1790).
THEOREM AckedDataStaysHolds == Spec => []AckedDataStays
<1>1. IInv => AckedDataStays
  <2> SUFFICES ASSUME IInv PROVE AckedDataStays
    OBVIOUS
  <2>1. DataKept(File, acked) /\ FlushSees(File) /\ logical \in Nat
    BY Parts DEF FileOK
  <2>2. acked \subseteq 0..(logical - 1)
    BY <2>1 DEF DataKept, File
  <2>3. (\A d \in inflight : d.state = "done" => d.op.type # "truncate") => acked \subseteq stored
    BY <2>1 DEF DataKept, File
  <2>4. \A d \in Submitted : d.op.type = "flush" => disk = logical
    BY <2>1 DEF FlushSees, Submitted, File
  <2>5. \A u \in acked : u < logical
    BY <2>1, <2>2
  <2>6. QED
    BY <2>3, <2>4, <2>5 DEF AckedDataStays
<1>2. QED
  BY <1>1, InvariantHolds, PTL

=============================================================================
