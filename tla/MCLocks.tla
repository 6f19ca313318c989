------------------------------- MODULE MCLocks -------------------------------
(***************************************************************************)
(* Instances of Semaphore and SharedMutex for TLC.  They have nothing in   *)
(* common, so a behaviour is one of the semaphore or one of the mutex, and *)
(* the states of the two add up.  No symmetry reduction is used: the run   *)
(* checks liveness too.                                                    *)
(***************************************************************************)
EXTENDS Semaphore, SharedMutex

VARIABLE lock   \* which of the two the fibers use

OfSemaphore == lock = "semaphore" /\ UNCHANGED <<lock, mutexVars>>
OfMutex == lock = "mutex" /\ UNCHANGED <<lock, vars>>

LocksInit == Init /\ MutexInit /\ lock \in {"semaphore", "mutex"}

LocksNext ==
  \/ \E f \in Fibers, n \in Nrs : OfSemaphore /\ TryWait(f, n)
  \/ \E f \in Fibers, n \in Nrs, timed \in BOOLEAN : OfSemaphore /\ Wait(f, n, timed)
  \/ \E f \in Fibers, n \in Consumed : OfSemaphore /\ ConsumeUnits(f, n)
  \/ \E f \in Fibers : OfSemaphore /\ RunContinuation(f)
  \/ \E f \in Fibers : OfSemaphore /\ Return(f)
  \/ \E i \in 1..Len(list) : OfSemaphore /\ Expire(i)
  \/ OfSemaphore /\ Broken
  \/ \E f \in Lockers : OfMutex /\ LockShared(f)
  \/ \E f \in Lockers : OfMutex /\ Lock(f)
  \/ \E f \in Lockers : OfMutex /\ UnlockShared(f)
  \/ \E f \in Lockers : OfMutex /\ Unlock(f)

\* FairSpec or MutexFairSpec, of the lock that is used; the other one is never
\* touched, so that its fairness asks for nothing.
LocksSpec == LocksInit /\ [][LocksNext]_<<lock, vars, mutexVars>> /\ Fairness /\ MutexFairness
=============================================================================
