----------------------------- MODULE SharedMutex -----------------------------
(***************************************************************************)
(* seastar::shared_mutex (core/shared_mutex.hh) and the fibers of a shard  *)
(* that use it through with_shared() and with_lock().                      *)
(***************************************************************************)
EXTENDS Integers, Sequences, FiniteSets

CONSTANT Lockers   \* the fibers that use the mutex

ASSUME SharedMutexAssumption == IsFiniteSet(Lockers)

VARIABLES
  readers,   \* _readers
  writer,    \* _writer
  waiters,   \* _waiters: who waits, and for which access
  st         \* what each fiber is doing

mutexVars == <<readers, writer, waiters, st>>

\* "reading" and "writing" begin when the future of the lock call is resolved:
\* from then on the fiber's function may run, until it unlocks.
FiberState == {"idle", "waiting", "reading", "writing"}

Waiter == [fiber : Lockers, forWrite : BOOLEAN]

MutexInit ==
  /\ readers = 0
  /\ writer = FALSE
  /\ waiters = <<>>
  /\ st = [f \in Lockers |-> "idle"]

Enqueue(f, forWrite) ==
  /\ waiters' = Append(waiters, [fiber |-> f, forWrite |-> forWrite])
  /\ st' = [st EXCEPT ![f] = "waiting"]
  /\ UNCHANGED <<readers, writer>>

\* Mutant: a reader gets in past the waiters.
LockShared_Barging(f) ==
  /\ st[f] = "idle"
  /\ \/ /\ ~writer
        /\ readers' = readers + 1
        /\ st' = [st EXCEPT ![f] = "reading"]
        /\ UNCHANGED <<writer, waiters>>
     \/ /\ writer
        /\ Enqueue(f, FALSE)

\* lock_shared()
LockShared(f) ==
  /\ st[f] = "idle"
  /\ \/ /\ ~writer /\ waiters = <<>>
        /\ readers' = readers + 1
        /\ st' = [st EXCEPT ![f] = "reading"]
        /\ UNCHANGED <<writer, waiters>>
     \/ /\ writer \/ waiters # <<>>
        /\ Enqueue(f, FALSE)

\* Mutant: lock() forgets the readers.
Lock_IgnoresReaders(f) ==
  /\ st[f] = "idle"
  /\ ~writer
  /\ writer' = TRUE
  /\ st' = [st EXCEPT ![f] = "writing"]
  /\ UNCHANGED <<readers, waiters>>

\* lock(): it does not look at the waiters.
Lock(f) ==
  /\ st[f] = "idle"
  /\ \/ /\ readers = 0 /\ ~writer
        /\ writer' = TRUE
        /\ st' = [st EXCEPT ![f] = "writing"]
        /\ UNCHANGED <<readers, waiters>>
     \/ /\ readers # 0 \/ writer
        /\ Enqueue(f, TRUE)

\* The first k waiters, and no more, wait in a row for shared access.
LeadingReaders(k) ==
  /\ \A i \in 1..k : ~waiters[i].forWrite
  /\ k < Len(waiters) => waiters[k + 1].forWrite

\* Mutant: one waiter for shared access is let in, and the loop stops.
Wake_OneReader(r, st0) ==
  /\ waiters # <<>> /\ ~waiters[1].forWrite
  /\ readers' = r + 1
  /\ writer' = FALSE
  /\ waiters' = Tail(waiters)
  /\ st' = [st0 EXCEPT ![waiters[1].fiber] = "reading"]

\* wake(), called with _readers = r and _writer = FALSE by a fiber that left
\* the fibers in states st0: every waiter for shared access before the first
\* one for exclusive access gets in, or else that one if nobody reads.
Wake(r, st0) ==
  \/ \E k \in 1..Len(waiters) :
       /\ LeadingReaders(k)
       /\ readers' = r + k
       /\ writer' = FALSE
       /\ waiters' = SubSeq(waiters, k + 1, Len(waiters))
       /\ st' = [f \in Lockers |-> IF f \in {waiters[i].fiber : i \in 1..k}
                                  THEN "reading" ELSE st0[f]]
  \/ /\ waiters # <<>> /\ waiters[1].forWrite /\ r = 0
     /\ readers' = r
     /\ writer' = TRUE
     /\ waiters' = Tail(waiters)
     /\ st' = [st0 EXCEPT ![waiters[1].fiber] = "writing"]
  \/ /\ waiters # <<>> => waiters[1].forWrite /\ r # 0
     /\ readers' = r
     /\ writer' = FALSE
     /\ waiters' = waiters
     /\ st' = st0

\* Mutant: the reader is counted out twice.
UnlockShared_CountedTwice(f) ==
  /\ st[f] = "reading"
  /\ Wake(readers - 2, [st EXCEPT ![f] = "idle"])

\* unlock_shared()
UnlockShared(f) ==
  /\ st[f] = "reading"
  /\ Wake(readers - 1, [st EXCEPT ![f] = "idle"])

\* unlock()
Unlock(f) ==
  /\ st[f] = "writing"
  /\ Wake(readers, [st EXCEPT ![f] = "idle"])

MutexNext == \E f \in Lockers : LockShared(f) \/ Lock(f) \/ UnlockShared(f) \/ Unlock(f)

MutexSpec == MutexInit /\ [][MutexNext]_mutexVars

\* with_shared() and with_lock() unlock in a finally(), so a fiber that got the
\* mutex gives it back once its function is done.
MutexFairness == \A f \in Lockers : WF_mutexVars(UnlockShared(f) \/ Unlock(f))

MutexFairSpec == MutexSpec /\ MutexFairness

-----------------------------------------------------------------------------
(* Properties *)

Readers == {f \in Lockers : st[f] = "reading"}
Writers == {f \in Lockers : st[f] = "writing"}

MutexTypeOK ==
  /\ readers \in Nat
  /\ writer \in BOOLEAN
  /\ waiters \in Seq(Waiter)
  /\ st \in [Lockers -> FiberState]

\* shared_mutex.hh:83, "ready when no access, shared or exclusive is granted to
\* anyone": a writer excludes everybody else, whatever the counter and the flag
\* say and however the waiters were woken.
Exclusion ==
  \A f, g \in Lockers : st[f] = "writing" /\ st[g] \in {"reading", "writing"} => f = g

\* The counter and the flag are exactly what the fibers hold.
CountersMatch ==
  /\ readers = Cardinality(Readers)
  /\ writer <=> (Writers # {})

\* Every blocked fiber is in the queue once, and only blocked fibers are.
WaitingIffQueued ==
  /\ \A i, j \in 1..Len(waiters) : waiters[i].fiber = waiters[j].fiber => i = j
  /\ \A f \in Lockers : st[f] = "waiting" <=> \E i \in 1..Len(waiters) : waiters[i].fiber = f

\* Somebody holds the mutex while fibers wait, so that an unlock will come and
\* look at them; and a waiter for shared access is at the front only behind a
\* writer.  lock() relies on this: it never looks at the queue.
NobodyStranded ==
  waiters # <<>> =>
    /\ readers > 0 \/ writer
    /\ ~waiters[1].forWrite => writer

\* First come, first served: no step lets a fiber in while one that was queued
\* before it stays blocked.
MutexFifoService ==
  [][\A f \in Lockers :
       st[f] \in {"idle", "waiting"} /\ st'[f] \in {"reading", "writing"} =>
         \A i \in 1..Len(waiters) :
           \/ st'[waiters[i].fiber] # "waiting"
           \/ \E j \in 1..i : waiters[j].fiber = f]_mutexVars

\* As holders unlock, every blocked fiber gets in: no reader or writer starves.
NoStarvation == \A f \in Lockers : st[f] = "waiting" ~> st[f] # "waiting"

=============================================================================
