------------------------------- MODULE Memory -------------------------------
(***************************************************************************)
(* The allocator of a shard (core/memory.cc): the buddy allocator of page  *)
(* spans, the pools of small objects above it, reclaim when memory runs    *)
(* low, and the list on which other threads leave objects for the shard to *)
(* free.                                                                   *)
(*                                                                         *)
(* The shard runs one operation at a time, and an operation may contain    *)
(* others: an allocation that leaves little memory frees what is on that   *)
(* list, has caches give up objects, and allocates a task, all before it   *)
(* returns, and all within the pools it is about to change itself.  Only   *)
(* the list is shared between threads.                                     *)
(*                                                                         *)
(* Addresses count units; PageUnits of them are a page.                    *)
(***************************************************************************)
EXTENDS Integers, Sequences, FiniteSets, SequencesExt, FiniteSetsExt

CONSTANTS
  NrPages,      \* nr_pages
  PageUnits,    \* page_size
  Reserved,     \* the pages in front, which hold the array of struct page
  MinFreePages, \* min_free_pages
  Pools,        \* the small pools
  ObjectSize,   \* _object_size of each
  Preferred,    \* _span_sizes.preferred
  Fallback,     \* _span_sizes.fallback
  MaxFree,      \* _max_free
  TaskPool,     \* the pool of the task that the reclaim hook makes
  Threads,      \* the other threads
  LargeSizes,   \* the numbers of pages the program asks for
  MaxLive,      \* how many objects it has at most
  None          \* no pool, nothing to push

Null == 0

ASSUME MemoryAssumption ==
  /\ NrPages \in Nat /\ Reserved \in 1..NrPages /\ PageUnits \in Nat \ {0}
  /\ MinFreePages \in Nat /\ MaxLive \in Nat
  /\ LargeSizes \subseteq Nat \ {0}
  /\ TaskPool \in Pools /\ None \notin Pools
  /\ \A p \in Pools :
       /\ ObjectSize[p] \in 1..(Fallback[p] * PageUnits)
       /\ Fallback[p] \in 1..Preferred[p]
       /\ MaxFree[p] \in Nat \ {0, 1}

VARIABLES
  cpu,      \* cpu_mem, the cpu_pages of the shard
  held,     \* the objects the program has, wherever their owners run
  pushing   \* each other thread in free_cross_cpu()

vars == <<cpu, held, pushing>>

Pages == 0..NrPages   \* the last one is a sentinel
LastIndex == CHOOSE i \in 0..NrPages : 2^i >= NrPages /\ \A j \in 0..(i - 1) : 2^j < NrPages
Indices == 0..LastIndex

\* index_of(): the smallest index such that n pages fit the spans stored there.
IndexOf == [n \in 1..NrPages |-> CHOOSE i \in Indices : 2^i >= n /\ \A j \in 0..(i - 1) : 2^j < n]

PageOf(x) == x \div PageUnits
AddressOf(page) == page * PageUnits

\* F(x), written so that TLC evaluates x once however often F refers to it.
Of(F(_), x) == CHOOSE r \in {F(y) : y \in {x}} : TRUE

\* A loop that is over after n rounds: Round(x) = x says that it is.
Loop(Round(_), x, n) ==
  LET after[k \in 0..n] == IF k = 0 THEN x ELSE Of(Round, after[k - 1])
  IN  after[n]

-----------------------------------------------------------------------------
(* Spans of pages *)

FreeSpanNoMerge(c, start, n) ==
  [c EXCEPT !.nrFree = @ + n,
            !.free[start] = TRUE, !.free[start + n - 1] = TRUE,
            !.size[start] = n, !.size[start + n - 1] = n,
            !.spans[IndexOf[n]] = <<start>> \o @]

\* Mutant: the buddy stays in the count of free pages.
GrowSpan_Recounted(g) ==
  LET lower == (g.start \div g.n) % 2 = 0
      probe == IF lower THEN g.start + g.n ELSE g.start - 1
      buddy == IF lower THEN probe ELSE g.start - g.n
  IN  IF g.c.free[probe] /\ g.c.size[probe] = g.n
      THEN [c |-> [g.c EXCEPT !.spans[IndexOf[g.n]] = Remove(@, buddy)],
            start |-> Min({g.start, buddy}), n |-> 2 * g.n]
      ELSE g

\* grow_span(): the near end of the buddy tells whether it is a free span of the
\* same size.
GrowSpan(g) ==
  LET lower == (g.start \div g.n) % 2 = 0
      probe == IF lower THEN g.start + g.n ELSE g.start - 1
      buddy == IF lower THEN probe ELSE g.start - g.n
  IN  IF g.c.free[probe] /\ g.c.size[probe] = g.n
      THEN [c |-> [g.c EXCEPT !.spans[IndexOf[g.n]] = Remove(@, buddy), !.nrFree = @ - g.n],
            start |-> Min({g.start, buddy}), n |-> 2 * g.n]
      ELSE g

FreeSpan(c, start, n) ==
  LET g == Loop(GrowSpan, [c |-> c, start |-> start, n |-> n], LastIndex)
  IN  FreeSpanNoMerge(g.c, g.start, g.n)

\* The largest power of two that divides n.
LowBit == [n \in 1..NrPages |-> Max({2^i : i \in {j \in Indices : n % 2^j = 0}})]

FreeSpanUnaligned(c, start, n) ==
  LET Piece(g) ==
        LET now == Min({LowBit[g.start], LowBit[g.n]})
        IN  IF g.n = 0 THEN g
            ELSE [c |-> FreeSpan(g.c, g.start, now), start |-> g.start + now, n |-> g.n - now]
  IN  Loop(Piece, [c |-> c, start |-> start, n |-> n], n).c

\* The lists in which find_and_unlink_span() finds a span for n pages.
Fits(c, n) == {i \in Indices : i >= IndexOf[n] /\ c.spans[i] # <<>>}

\* The span it takes, split down to size, the rest freed; it is in no pool.
TakeSpan(c, n) ==
  LET i     == Min(Fits(c, n))
      start == Head(c.spans[i])
      k     == IndexOf[n]
      taken == [c EXCEPT !.spans[i] = Tail(@), !.nrFree = @ - 2^i]
      split == FoldLeft(LAMBDA d, j : FreeSpanNoMerge(d, start + 2^(i - j), 2^(i - j)),
                        taken, [j \in 1..(i - k) |-> j])
      end   == start + 2^k - 1
  IN  [c |-> [split EXCEPT !.free[start] = FALSE, !.free[end] = FALSE,
                           !.size[start] = 2^k, !.size[end] = 2^k, !.pool[start] = None],
       ptr |-> AddressOf(start)]

-----------------------------------------------------------------------------
(* Freeing *)

Goal(p) == (MaxFree[p] \div 2 + MaxFree[p]) \div 2

\* One round of trim_free_list(): an object goes back to its span, and the span,
\* if that was the last, to the free ones.
TrimOne(c, p) ==
  LET x    == Head(c.objs[p])
      span == PageOf(x) - c.offset[PageOf(x)]
      d    == [c EXCEPT !.objs[p] = Tail(@),
                        !.spanList[p] = IF c.freelist[span] = <<>> THEN <<span>> \o @ ELSE @,
                        !.freelist[span] = <<x>> \o @,
                        !.small[span] = @ - 1]
  IN  IF d.small[span] > 0 THEN d
      ELSE FreeSpan([d EXCEPT !.spanList[p] = Remove(@, span), !.freelist[span] = <<>>],
                    span, d.size[span])

TrimFreeList(c, p) ==
  Loop(LAMBDA d : IF Len(d.objs[p]) > Goal(p) THEN TrimOne(d, p) ELSE d, c, Len(c.objs[p]))

\* small_pool::deallocate().
Deallocate(c, p, x) ==
  LET d == [c EXCEPT !.objs[p] = <<x>> \o @]
  IN  IF Len(d.objs[p]) >= MaxFree[p] THEN TrimFreeList(d, p) ELSE d

\* cpu_pages::free().
FreeObject(c, x) ==
  IF c.pool[PageOf(x)] # None
  THEN Deallocate(c, c.pool[PageOf(x)], x)
  ELSE FreeSpan(c, PageOf(x), c.size[PageOf(x)])

DrainCrossCpuFreelist(c) == FoldLeft(FreeObject, [c EXCEPT !.xcpu = <<>>], c.xcpu)

\* A reclaimer gives up an object of its cache.
DoReclaim(c) ==
  LET x == Min(c.cache)
  IN  FreeObject([c EXCEPT !.cache = @ \ {x}], x)

RunReclaimers(c) ==
  LET target == Max({c.nrFree + 1, MinFreePages})
  IN  Loop(LAMBDA d : IF d.nrFree < target /\ d.cache # {} THEN DoReclaim(d) ELSE d,
           c, Cardinality(c.cache))

-----------------------------------------------------------------------------
(* Allocating *)

\* allocate_large_and_trim() up to maybe_reclaim().  Nothing is asked for once
\* an exception has been thrown.
AllocateSpan(c, n) ==
  IF n >= NrPages \/ c.thrown THEN [c |-> c, ptr |-> Null]
  ELSE Of(LAMBDA d : IF Fits(d, n) = {} THEN [c |-> d, ptr |-> Null] ELSE TakeSpan(d, n),
          Loop(LAMBDA e : IF Fits(e, n) = {} /\ e.cache # {} THEN RunReclaimers(e) ELSE e,
               c, Cardinality(c.cache)))

\* The objects in a span of n pages, in the order in which they are linked.
ObjectsIn(p, span, n) ==
  [i \in 1..(n * PageUnits) \div ObjectSize[p] |-> AddressOf(span) + (i - 1) * ObjectSize[p]]

\* The first loop of add_more_objects(): the free objects of a span come back.
Refill(c, p) ==
  LET span == Head(c.spanList[p])
  IN  [c EXCEPT !.spanList[p] = Tail(@),
                !.objs[p] = Reverse(c.freelist[span]) \o @,
                !.small[span] = @ + Len(c.freelist[span]),
                !.freelist[span] = <<>>]

\* Mutant: _free is read before the span is allocated.
WithSpan_StaleFree(c, before, p, span, n) ==
  LET objects == ObjectsIn(p, span, n)
  IN  [c EXCEPT !.pool = [q \in Pages |-> IF q \in span..(span + n - 1) THEN p ELSE @[q]],
                !.offset = [q \in Pages |-> IF q \in span..(span + n - 1) THEN q - span ELSE @[q]],
                !.small[span] = Len(objects),
                !.freelist[span] = <<>>,
                !.objs[p] = Reverse(objects) \o before.objs[p]]

\* A span of n pages becomes one of pool p.
WithSpan(c, before, p, span, n) ==
  LET objects == ObjectsIn(p, span, n)
  IN  [c EXCEPT !.pool = [q \in Pages |-> IF q \in span..(span + n - 1) THEN p ELSE @[q]],
                !.offset = [q \in Pages |-> IF q \in span..(span + n - 1) THEN q - span ELSE @[q]],
                !.small[span] = Len(objects),
                !.freelist[span] = <<>>,
                !.objs[p] = Reverse(objects) \o @]

RECURSIVE AllocateLarge(_, _)

\* add_more_objects().
AddMoreObjects(c, p) ==
  LET Few(d) == Len(d.objs[p]) < Goal(p)
      refilled == Loop(LAMBDA d : IF d.spanList[p] # <<>> /\ Few(d) THEN Refill(d, p) ELSE d,
                       c, Len(c.spanList[p]))
      Got(r, d, n) == IF r.ptr = Null THEN r.c ELSE WithSpan(r.c, d, p, PageOf(r.ptr), n)
      Span(d) ==
        IF ~Few(d) THEN d
        ELSE Of(LAMBDA best :
                  IF best.ptr # Null THEN Got(best, d, Preferred[p])
                  ELSE Of(LAMBDA small : Got(small, d, Fallback[p]), AllocateLarge(best.c, Fallback[p])),
                AllocateLarge(d, Preferred[p]))
  IN  Loop(Span, refilled, Goal(p))

\* small_pool::allocate().
AllocateSmall(c, p) ==
  Of(LAMBDA d : IF d.objs[p] = <<>> \/ d.thrown THEN [c |-> d, ptr |-> Null]
                ELSE [c |-> [d EXCEPT !.objs[p] = Tail(@)], ptr |-> Head(d.objs[p])],
     IF c.objs[p] = <<>> THEN AddMoreObjects(c, p) ELSE c)

\* schedule_reclaim(): the hook makes a task with operator new.  Its allocation
\* cannot come back here, since current_min_free_pages is zero.  Should it fail,
\* bad_alloc goes on through all of the allocator, which catches nothing.
ScheduleReclaim(c) ==
  Of(LAMBDA r : IF r.ptr = Null THEN [r.c EXCEPT !.thrown = TRUE] ELSE [r.c EXCEPT !.task = r.ptr],
     AllocateSmall([c EXCEPT !.curMin = 0], TaskPool))

MaybeReclaim(c) ==
  IF c.nrFree >= c.curMin THEN c
  ELSE Of(LAMBDA d : IF d.nrFree >= d.curMin THEN d ELSE ScheduleReclaim(d),
          RunReclaimers(DrainCrossCpuFreelist(c)))

\* allocate_large_and_trim().  An exception of maybe_reclaim() leaves the span
\* that was taken to nobody.
AllocateLarge(c, n) ==
  Of(LAMBDA r : IF r.ptr = Null THEN r
                ELSE Of(LAMBDA d : [c |-> d, ptr |-> IF d.thrown THEN Null ELSE r.ptr], MaybeReclaim(r.c)),
     AllocateSpan(c, n))

-----------------------------------------------------------------------------

Empty ==
  [free |-> [q \in Pages |-> FALSE], size |-> [q \in Pages |-> 0],
   pool |-> [q \in Pages |-> None], offset |-> [q \in Pages |-> 0],
   small |-> [q \in Pages |-> 0], freelist |-> [q \in Pages |-> <<>>],
   spans |-> [i \in Indices |-> <<>>], nrFree |-> 0, curMin |-> MinFreePages,
   objs |-> [p \in Pools |-> <<>>], spanList |-> [p \in Pools |-> <<>>],
   xcpu |-> <<>>, cache |-> {}, task |-> Null, thrown |-> FALSE]

\* initialize(), and the reclaim hook is set.
Init ==
  /\ cpu = FreeSpanUnaligned(Empty, Reserved, NrPages - Reserved)
  /\ held = {}
  /\ pushing = [t \in Threads |-> None]

InFlight == ToSet(cpu.xcpu) \cup {pushing[t].obj : t \in {u \in Threads : pushing[u] # None}}

\* An exception has met malloc() or operator new(nothrow), which are throw():
\* the program has ended.
Ended == cpu.thrown

\* How an allocation that leaves the allocator as c may return to the program:
\* through operator new an exception is its own to handle, and it goes on.
Outcomes(c) == {c, [c EXCEPT !.thrown = FALSE]}

\* The program gets r.ptr, if anything, and keeps it or caches it where a
\* reclaimer finds it.
Obtain(r, cached) ==
  /\ ~Ended
  /\ Cardinality(held \cup cpu.cache \cup InFlight) < MaxLive
  /\ \E c \in Outcomes(r.c) :
       \/ /\ ~cached
          /\ cpu' = c
          /\ held' = held \cup ({r.ptr} \ {Null})
       \/ /\ cached
          /\ cpu' = [c EXCEPT !.cache = @ \cup ({r.ptr} \ {Null})]
          /\ UNCHANGED held
  /\ UNCHANGED pushing

Allocate(p, cached) == \E r \in {AllocateSmall(cpu, p)} : Obtain(r, cached)

AllocatePages(n, cached) == \E r \in {AllocateLarge(cpu, n)} : Obtain(r, cached)

\* The shard frees x.
Free(x) ==
  /\ ~Ended
  /\ cpu' = FreeObject([cpu EXCEPT !.cache = @ \ {x}], x)
  /\ held' = held \ {x}
  /\ UNCHANGED pushing

\* object_size().
SizeOf(x) ==
  LET page == PageOf(x)
  IN  IF cpu.pool[page] # None THEN ObjectSize[cpu.pool[page]] ELSE cpu.size[page] * PageUnits

\* realloc() of x to what malloc() returns as r, if it does and if anything; x is
\* freed after it was copied.
Reallocate(x, r) ==
  /\ ~Ended
  /\ IF r.ptr = Null THEN cpu' = r.c /\ UNCHANGED held
     ELSE cpu' = FreeObject(r.c, x) /\ held' = (held \ {x}) \cup {r.ptr}
  /\ UNCHANGED pushing

ReallocateSmall(x, p) ==
  /\ ObjectSize[p] > SizeOf(x)
  /\ \E r \in {AllocateSmall(cpu, p)} : Reallocate(x, r)

ReallocatePages(x, n) ==
  /\ n * PageUnits > SizeOf(x)
  /\ \E r \in {AllocateLarge(cpu, n)} : Reallocate(x, r)

\* shrink() of x to n pages: the part that is split off is freed.
Shrink(x, n) ==
  LET span == PageOf(x)
      old  == cpu.size[span]
      new  == 2^IndexOf[n]
      cut  == [cpu EXCEPT !.size[span] = new, !.free[span + new - 1] = FALSE,
                          !.size[span + new - 1] = new]
  IN  /\ ~Ended
      /\ cpu.pool[span] = None
      /\ new < old
      /\ cpu' = FreeSpanUnaligned(cut, span + new, old - new)
      /\ UNCHANGED <<held, pushing>>

\* drain_cross_cpu_freelist_pollfn.
Poll ==
  /\ ~Ended
  /\ cpu.xcpu # <<>>
  /\ cpu' = DrainCrossCpuFreelist(cpu)
  /\ UNCHANGED <<held, pushing>>

\* Mutant: the limit stays where schedule_reclaim() put it.
ReclaimTask_StaysOff ==
  /\ ~Ended
  /\ cpu.task # Null
  /\ LET c == IF cpu.nrFree < MinFreePages THEN RunReclaimers(cpu) ELSE cpu
     IN  cpu' = FreeObject([c EXCEPT !.task = Null], cpu.task)
  /\ UNCHANGED <<held, pushing>>

\* The task of schedule_reclaim() runs, and is freed.
ReclaimTask ==
  /\ ~Ended
  /\ cpu.task # Null
  /\ LET c == IF cpu.nrFree < MinFreePages THEN RunReclaimers(cpu) ELSE cpu
     IN  cpu' = FreeObject([c EXCEPT !.curMin = MinFreePages, !.task = Null], cpu.task)
  /\ UNCHANGED <<held, pushing>>

-----------------------------------------------------------------------------
(* free_cross_cpu() *)

XcpuHead == IF cpu.xcpu = <<>> THEN Null ELSE Head(cpu.xcpu)

\* Another thread frees x, and reads the head of the list.
FreeCrossCpu(t, x) ==
  /\ ~Ended
  /\ pushing[t] = None
  /\ held' = held \ {x}
  /\ pushing' = [pushing EXCEPT ![t] = [obj |-> x, old |-> XcpuHead]]
  /\ UNCHANGED cpu

\* compare_exchange_weak(): x is linked in front of what was read, or the head
\* has changed and is read again.
CompareExchange(t) ==
  /\ ~Ended
  /\ pushing[t] # None
  /\ \/ /\ pushing[t].old = XcpuHead
        /\ cpu' = [cpu EXCEPT !.xcpu = <<pushing[t].obj>> \o @]
        /\ pushing' = [pushing EXCEPT ![t] = None]
     \/ /\ pushing[t].old # XcpuHead
        /\ pushing' = [pushing EXCEPT ![t].old = XcpuHead]
        /\ UNCHANGED cpu
  /\ UNCHANGED held

-----------------------------------------------------------------------------

Stay == Ended /\ UNCHANGED vars

Next ==
  \/ \E p \in Pools, cached \in BOOLEAN : Allocate(p, cached)
  \/ \E n \in LargeSizes, cached \in BOOLEAN : AllocatePages(n, cached)
  \/ \E x \in held \cup cpu.cache : Free(x)
  \/ \E x \in held, n \in 1..NrPages : Shrink(x, n)
  \/ \E x \in held, p \in Pools : ReallocateSmall(x, p)
  \/ \E x \in held, n \in LargeSizes : ReallocatePages(x, n)
  \/ \E t \in Threads : CompareExchange(t) \/ \E x \in held : FreeCrossCpu(t, x)
  \/ Poll \/ ReclaimTask \/ Stay

Spec == Init /\ [][Next]_vars

-----------------------------------------------------------------------------
(* Properties *)

\* Where the spans begin, if each begins where the last one ends.
Tiling ==
  FoldLeft(LAMBDA t, q : IF q = t.next /\ cpu.size[q] > 0
                         THEN [heads |-> t.heads \cup {q}, next |-> q + cpu.size[q]] ELSE t,
           [heads |-> {}, next |-> Reserved], [i \in 1..(NrPages - Reserved) |-> Reserved + i - 1])

Live == held \cup cpu.cache \cup InFlight \cup ({cpu.task} \ {Null})

Injective(s) == Cardinality(ToSet(s)) = Len(s)

\* The spans taken as large objects that nobody has.
LostSpans ==
  {h \in Tiling.heads : ~cpu.free[h] /\ cpu.pool[h] = None /\ AddressOf(h) \notin Live}

\* The limit is off, and no task is to come that would put it back.
Unwatched == cpu.curMin = 0 /\ cpu.task = Null

\* Spans tile the memory, each aligned to its size and with the same flags at
\* both ends, which is all that grow_span() looks at; the lists hold the free
\* ones, counted, and no two free buddies; the others are one large object each,
\* or hold small ones, and none is lost as long as the reclaim hook does not throw.
PagesPartitioned ==
  LET heads == Tiling.heads
      free  == {h \in heads : cpu.free[h]}
      n(h)  == cpu.size[h]
  IN  /\ Tiling.next = NrPages
      /\ \A h \in heads :
           /\ n(h) \in {2^i : i \in Indices} /\ h % n(h) = 0
           /\ cpu.size[h + n(h) - 1] = n(h) /\ cpu.free[h + n(h) - 1] = cpu.free[h]
      /\ \A i \in Indices :
           Injective(cpu.spans[i]) /\ ToSet(cpu.spans[i]) = {h \in free : n(h) = 2^i}
      /\ cpu.nrFree = FoldSet(LAMBDA h, s : n(h) + s, 0, free)
      /\ \A h, k \in free : n(h) = n(k) /\ k = h + n(h) => (h \div n(h)) % 2 = 1
      /\ \A h \in heads \ free : cpu.pool[h] # None => cpu.small[h] > 0
      /\ LostSpans # {} => Unwatched
      /\ \A x \in Live : cpu.pool[PageOf(x)] = None => x = AddressOf(PageOf(x)) /\ PageOf(x) \in heads

\* Every object of a span of a pool is in one place: free in the pool, free in
\* the span, in use, or on its way back to the shard; so no two in use overlap.
\* The page of each leads to its pool and its span.
ObjectsAccounted ==
  \A p \in Pools :
    LET spans   == {h \in Tiling.heads : ~cpu.free[h] /\ cpu.pool[h] = p}
        pages(h) == IF cpu.size[h] >= Preferred[p] THEN Preferred[p] ELSE Fallback[p]
        objects(h) == ToSet(ObjectsIn(p, h, pages(h)))
        used    == {x \in Live : cpu.pool[PageOf(x)] = p}
        all     == UNION {objects(h) : h \in spans}
    IN  /\ all = used \cup ToSet(cpu.objs[p]) \cup UNION {ToSet(cpu.freelist[h]) : h \in spans}
        /\ Cardinality(all) = Cardinality(used) + Len(cpu.objs[p])
                                + FoldSet(LAMBDA h, s : Len(cpu.freelist[h]) + s, 0, spans)
        /\ \A h \in spans :
             /\ cpu.small[h] = Cardinality(objects(h)) - Len(cpu.freelist[h])
             /\ \A x \in objects(h) : cpu.pool[PageOf(x)] = p /\ PageOf(x) - cpu.offset[PageOf(x)] = h
        /\ Injective(cpu.spanList[p])
        /\ ToSet(cpu.spanList[p]) = {h \in spans : cpu.freelist[h] # <<>>}

\* When the reclaim hook throws, the span that was being allocated is lost and the
\* limit stays off; so that can happen once, and no second span is ever lost.
\* Whatever else an operation and its reclaim run into, a task is there as long as
\* the limit is off, and each shortage ends with the shard watching its memory.
WatchEndsWithLoss == Cardinality(LostSpans) = IF Unwatched THEN 1 ELSE 0

\* memory.hh:214, "When free memory is below this value, reclaimers are invoked
\* until it goes above again": as long as the program runs, either the limit is the
\* one it has set, or a task is there that invokes them and puts it back.
ReclaimIsResumed == Ended \/ cpu.curMin = MinFreePages \/ cpu.task # Null

=============================================================================
