------------------------------ MODULE Semaphore ------------------------------
(***************************************************************************)
(* seastar::basic_semaphore (core/semaphore.hh) on top of                  *)
(* seastar::expiring_fifo (core/expiring_fifo.hh), used by a set of fibers *)
(* of one shard.  A shard is single threaded, so every call is atomic; the *)
(* fibers interleave between calls, and a future that was made ready is    *)
(* observed by its fiber in a later task.                                  *)
(***************************************************************************)
EXTENDS Integers, Sequences, FiniteSets, SequencesExt, Sums

CONSTANTS
  Fibers,   \* the fibers that call into the semaphore
  Units,    \* the count the semaphore is constructed with
  Nrs,      \* the amounts of units wait() and try_wait() may ask for
  Consumed, \* the amounts consume_units() may take; {} when it is not used
  MaxSlots  \* bound of the model: entries of the list, expired ones included

ASSUME SemaphoreAssumption ==
  /\ IsFiniteSet(Fibers)
  /\ Units \in Nat
  /\ Nrs \subseteq Nat
  /\ Consumed \subseteq Nat
  /\ MaxSlots \in Nat

VARIABLES
  count,    \* _count, a signed number: consume() may take it below zero
  ex,       \* whether _ex is set
  list,     \* expiring_fifo::_list
  size,     \* expiring_fifo::_size
  fut,      \* the future each fiber got from its last call
  nr        \* the amount the call a fiber has under way asked for, else 0

vars == <<count, ex, list, size, fut, nr>>

\* "idle": no call under way; "pending": in the wait list; "ready": the future
\* has its value, the continuation has not run; "holding": owns a
\* semaphore_units; the others: the future holds that exception.
FutState == {"idle", "pending", "ready", "holding", "timed_out", "broken"}

\* An expiring_fifo::entry.  live: its payload is engaged; timed: it was
\* pushed with a timeout, so its timer is armed.
Entry == [fiber : Fibers, nr : Nat, timed : BOOLEAN, live : BOOLEAN]

Init ==
  /\ count = Units
  /\ ex = FALSE
  /\ list = <<>>
  /\ size = 0
  /\ fut = [f \in Fibers |-> "idle"]
  /\ nr = [f \in Fibers |-> 0]

-----------------------------------------------------------------------------
(* expiring_fifo *)

\* Mutant: the expired entries at the front stay there.
DropExpiredFront_Noop(l) == l

\* expiring_fifo::drop_expired_front: what is left of l once the expired
\* entries at its front are popped.
DropExpiredFront(l) ==
  LET first == SelectInSeq(l, LAMBDA e : e.live)
  IN  IF first = 0 THEN <<>> ELSE SubSeq(l, first, Len(l))

FifoEmpty == size = 0

\* The units the live entries among the first k ask for.
AskedBy(k) == Total({i \in 1..k : list[i].live}, [i \in 1..k |-> list[i].nr])

-----------------------------------------------------------------------------
(* basic_semaphore *)

HasAvailableUnits(c, n) == c >= 0 /\ c >= n

\* Mutant: a newcomer does not look at the wait list.
MayProceed_Barging(n) == HasAvailableUnits(count, n)

MayProceed(n) == HasAvailableUnits(count, n) /\ FifoEmpty

\* wait(timeout, nr): timed is FALSE for time_point::max().
Wait(f, n, timed) ==
  /\ fut[f] = "idle"
  /\ nr' = [nr EXCEPT ![f] = n]
  /\ UNCHANGED ex
  /\ \/ /\ MayProceed(n)
        /\ count' = count - n
        /\ fut' = [fut EXCEPT ![f] = "ready"]
        /\ UNCHANGED <<list, size>>
     \/ /\ ~MayProceed(n)
        /\ ex
        /\ fut' = [fut EXCEPT ![f] = "broken"]
        /\ UNCHANGED <<count, list, size>>
     \/ /\ ~MayProceed(n)
        /\ ~ex
        /\ Len(list) < MaxSlots
        /\ list' = Append(list, [fiber |-> f, nr |-> n, timed |-> timed, live |-> TRUE])
        /\ size' = size + 1
        /\ fut' = [fut EXCEPT ![f] = "pending"]
        /\ UNCHANGED count

\* try_wait(nr): when it returns false nothing changes.
TryWait(f, n) ==
  /\ fut[f] = "idle"
  /\ MayProceed(n)
  /\ count' = count - n
  /\ fut' = [fut EXCEPT ![f] = "ready"]
  /\ nr' = [nr EXCEPT ![f] = n]
  /\ UNCHANGED <<ex, list, size>>

\* consume_units(sem, nr): consume() never blocks and never looks at the list.
ConsumeUnits(f, n) ==
  /\ fut[f] = "idle"
  /\ count' = IF ex THEN count ELSE count - n
  /\ fut' = [fut EXCEPT ![f] = "holding"]
  /\ nr' = [nr EXCEPT ![f] = n]
  /\ UNCHANGED <<ex, list, size>>

\* The continuation of get_units(): it wraps the granted units, or passes the
\* exception on to the fiber, which gives up.
RunContinuation(f) ==
  /\ fut[f] \in {"ready", "timed_out", "broken"}
  /\ fut' = [fut EXCEPT ![f] = IF @ = "ready" THEN "holding" ELSE "idle"]
  /\ nr' = [nr EXCEPT ![f] = IF fut[f] = "ready" THEN @ ELSE 0]
  /\ UNCHANGED <<count, ex, list, size>>

\* How many entries the loop of signal() pops when the count is c: it goes on
\* as long as the entry at the front is satisfied by what the previous ones
\* left.
Popped(c) ==
  CHOOSE k \in 0..Len(list) :
    /\ \A j \in 1..k : list[j].live => HasAvailableUnits(c - AskedBy(j - 1), list[j].nr)
    /\ k < Len(list) =>
         /\ list[k + 1].live
         /\ ~HasAvailableUnits(c - AskedBy(k), list[k + 1].nr)

\* The fibers whose promises signal() fulfils when it pops the first k entries.
Woken(k) == {list[i].fiber : i \in {j \in 1..k : list[j].live}}

\* Mutant: the units of the woken waiters are not taken off the counter.
Signal_KeepsUnits(f, n, st) ==
  /\ ~ex
  /\ LET k == Popped(count + n)
     IN  /\ count' = count + n
         /\ list' = SubSeq(list, k + 1, Len(list))
         /\ size' = size - Cardinality(Woken(k))
         /\ fut' = [g \in Fibers |-> IF g \in Woken(k) THEN "ready"
                                     ELSE IF g = f THEN st ELSE fut[g]]

\* signal(n), called by fiber f, whose future is then in state st.
Signal(f, n, st) ==
  \/ /\ ex
     /\ fut' = [fut EXCEPT ![f] = st]
     /\ UNCHANGED <<count, list, size>>
  \/ /\ ~ex
     /\ LET c == count + n
            k == Popped(c)
        IN  /\ count' = c - AskedBy(k)
            /\ list' = SubSeq(list, k + 1, Len(list))
            /\ size' = size - Cardinality(Woken(k))
            /\ fut' = [g \in Fibers |-> IF g \in Woken(k) THEN "ready"
                                        ELSE IF g = f THEN st ELSE fut[g]]

\* ~semaphore_units, or a signal() of units given out by release().
Return(f) ==
  /\ fut[f] = "holding"
  /\ Signal(f, nr[f], "idle")
  /\ nr' = [nr EXCEPT ![f] = 0]
  /\ UNCHANGED ex

\* The timer of entry i: the expiry handler fails the promise, the payload is
\* dropped, and so are the expired entries at the front.  No waiter is woken.
Expire(i) ==
  /\ list[i].live
  /\ list[i].timed
  /\ fut' = [fut EXCEPT ![list[i].fiber] = "timed_out"]
  /\ size' = size - 1
  /\ list' = DropExpiredFront([list EXCEPT ![i].live = FALSE])
  /\ UNCHANGED <<count, ex, nr>>

\* broken(): called by whoever shuts the semaphore's user down.
Broken ==
  /\ ex' = TRUE
  /\ count' = 0
  /\ list' = <<>>
  /\ size' = 0
  /\ fut' = [f \in Fibers |-> IF fut[f] = "pending" THEN "broken" ELSE fut[f]]
  /\ UNCHANGED nr

Next ==
  \/ \E f \in Fibers :
       \/ \E n \in Nrs : TryWait(f, n) \/ \E t \in BOOLEAN : Wait(f, n, t)
       \/ \E n \in Consumed : ConsumeUnits(f, n)
       \/ RunContinuation(f)
       \/ Return(f)
  \/ \E i \in 1..Len(list) : Expire(i)
  \/ Broken

Spec == Init /\ [][Next]_vars


\* Continuations of resolved futures run because the reactor keeps running
\* tasks; units come back because ~semaphore_units runs on every path of
\* with_semaphore().  Timers, broken() and new calls owe nothing.
Fairness == \A f \in Fibers : WF_vars(RunContinuation(f)) /\ WF_vars(Return(f))

FairSpec == Spec /\ Fairness

-----------------------------------------------------------------------------
(* Properties *)

\* The units that fibers keep from the counter.
Holders == {f \in Fibers : fut[f] \in {"ready", "holding"}}
HeldUnits == Total(Holders, nr)

\* Every variable has the type its C++ declaration gives it.
TypeOK ==
  /\ count \in Int
  /\ ex \in BOOLEAN
  /\ list \in Seq(Entry)
  /\ size \in Nat
  /\ fut \in [Fibers -> FutState]
  /\ nr \in [Fibers -> Nat]

\* expiring_fifo.hh:80, "There is an invariant that the front element is never
\* expired": signal() and broken() dereference front() on the strength of
\* size > 0 alone, whatever timers fired in between.
FrontNeverExpired ==
  /\ list # <<>> => list[1].live
  /\ size = Cardinality({i \in 1..Len(list) : list[i].live})

\* A promise is neither lost nor fulfilled twice: the fibers with a pending
\* future are exactly those with an engaged entry, one entry each.
PendingIffQueued ==
  \A f \in Fibers :
    LET mine == {i \in 1..Len(list) : list[i].live /\ list[i].fiber = f}
    IN  /\ (fut[f] = "pending") <=> (mine # {})
        /\ \A i, j \in mine : i = j
        /\ \A i \in mine : list[i].nr = nr[f]

\* broken() leaves nobody behind: no fiber is, or ever again gets, blocked.
BrokenFreesEveryone == ex => list = <<>> /\ \A f \in Fibers : fut[f] # "pending"

\* The wait list as signal(), broken() and the timers find it, whichever of
\* them ran before: every pending promise in it, once, and a live front.
WaitListSound == TypeOK /\ FrontNeverExpired /\ PendingIffQueued /\ BrokenFreesEveryone

\* However grants, timeouts and consume() interleave, no unit is created or
\* lost until the semaphore is broken.
UnitsConserved == ~ex => count + HeldUnits = Units

\* semaphore.hh:130, "Waits are serviced in FIFO order": when a step grants
\* units to a waiter, or lets a newcomer through without waiting, every fiber
\* that was queued before it has been served or has given up by then.
FifoService ==
  [][\A f \in Fibers :
       fut'[f] = "ready" /\ fut[f] # "ready" =>
         \A i \in 1..Len(list) :
           \/ fut[f] = "pending" /\ \E j \in 1..i : list[j].live /\ list[j].fiber = f
           \/ ~list[i].live
           \/ fut'[list[i].fiber] = "ready"]_vars

\* semaphore.hh:134, "a future that becomes ready when sufficient units are
\* available to satisfy the request": when no call asks for more than the
\* semaphore was made with and holders return their units, every waiter is
\* answered, although an expiry wakes nobody; only consume(), which passes the queue by, could
\* starve it by being called again and again.
ConsumedNoMore == <>[][\A f \in Fibers, n \in Consumed : ~ConsumeUnits(f, n)]_vars

WaiterAnswered ==
  ConsumedNoMore => \A f \in Fibers : fut[f] = "pending" ~> fut[f] # "pending"

=============================================================================
