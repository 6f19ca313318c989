------------------------------- MODULE SmpSleep -------------------------------
(***************************************************************************)
(* How a reactor thread goes to sleep and is woken by the threads that     *)
(* push work into its queues (core/reactor.cc, core/alien.cc and           *)
(* core/systemwide_memory_barrier.cc).                                     *)
(*                                                                         *)
(* The senders avoid a memory fence: they push, then read _sleeping with   *)
(* relaxed ordering.  The sleeping thread pays instead, by making every    *)
(* thread execute a fence between its store to _sleeping and its last look *)
(* at the queues.  The model gives every thread a store buffer, the only   *)
(* reordering x86 does, which is also the one the code's comment is about. *)
(*                                                                         *)
(* One reactor is modelled as the sleeper, with any number of senders:     *)
(* other reactors, or alien threads.  Each sender has a queue of its own.  *)
(***************************************************************************)
EXTENDS Integers, Sequences, FiniteSets

CONSTANTS
  Senders,     \* the threads that push work for the reactor
  MaxPushes,   \* bound of the model: pushes of each sender
  BufferSize   \* stores a store buffer has room for

ASSUME SmpSleepAssumption == MaxPushes \in Nat /\ BufferSize \in Nat \ {0}

VARIABLES
  sleeping,    \* reactor::_sleeping, as memory holds it
  queued,      \* per sender, the items of its queue that memory shows
  sbuf,        \* per sender, its store buffer
  rbuf,        \* the reactor's store buffer: its own stores to _sleeping
  pc,          \* per sender, where it is in push() and maybe_wakeup()
  rpc,         \* where the reactor is in its loop and in sleep()
  acked,       \* the senders whose fence the barrier has had executed
  polled,      \* the queues found empty by the poll after the barrier
  signal,      \* whether alarm_signal() is pending for the reactor thread
  pushes       \* how many items each sender has pushed

sleepVars == <<sleeping, queued, sbuf, rbuf, pc, rpc, acked, polled, signal, pushes>>

\* What a sender's store buffer may hold: the write index of its queue, moved
\* by one item, and the value false for _sleeping.
Stores == {"push", "clear"}

SenderPc == {"idle", "pushed", "seen", "cleared"}
ReactorPc == {"running", "setting", "barrier", "polling", "asleep", "leaving"}

SleepInit ==
  /\ sleeping = FALSE
  /\ queued = [s \in Senders |-> 0]
  /\ sbuf = [s \in Senders |-> <<>>]
  /\ rbuf = <<>>
  /\ pc = [s \in Senders |-> "idle"]
  /\ rpc = "running"
  /\ acked = {}
  /\ polled = {}
  /\ signal = FALSE
  /\ pushes = [s \in Senders |-> 0]

-----------------------------------------------------------------------------
(* A sender: lf_queue::push() and lf_queue::maybe_wakeup() *)

\* The push of move_pending(), flush_response_batch() or alien submit_item():
\* the new write index is in the sender's store buffer.
Push(s) ==
  /\ pc[s] = "idle"
  /\ pushes[s] < MaxPushes
  /\ Len(sbuf[s]) < BufferSize
  /\ sbuf' = [sbuf EXCEPT ![s] = Append(@, "push")]
  /\ pc' = [pc EXCEPT ![s] = "pushed"]
  /\ pushes' = [pushes EXCEPT ![s] = @ + 1]
  /\ UNCHANGED <<sleeping, queued, rbuf, rpc, acked, polled, signal>>

\* The value of _sleeping sender s reads: its own buffered store first.
Reads(s) == sleeping /\ \A i \in 1..Len(sbuf[s]) : sbuf[s][i] # "clear"

\* remote->_sleeping.load(relaxed)
LoadSleeping(s) ==
  /\ pc[s] = "pushed"
  /\ pc' = [pc EXCEPT ![s] = IF Reads(s) THEN "seen" ELSE "idle"]
  /\ UNCHANGED <<sleeping, queued, sbuf, rbuf, rpc, acked, polled, signal, pushes>>

\* remote->_sleeping.store(false, relaxed)
ClearSleeping(s) ==
  /\ pc[s] = "seen"
  /\ Len(sbuf[s]) < BufferSize
  /\ sbuf' = [sbuf EXCEPT ![s] = Append(@, "clear")]
  /\ pc' = [pc EXCEPT ![s] = "cleared"]
  /\ UNCHANGED <<sleeping, queued, rbuf, rpc, acked, polled, signal, pushes>>

\* Mutant: the sender clears the flag and leaves the signal to somebody else.
Wakeup_NoSignal(s) ==
  /\ pc[s] = "cleared"
  /\ sbuf[s] = <<>>
  /\ pc' = [pc EXCEPT ![s] = "idle"]
  /\ UNCHANGED <<sleeping, queued, sbuf, rbuf, rpc, acked, polled, signal, pushes>>

\* remote->wakeup(): the kernel takes locks on the way to the target thread, so
\* the caller's stores are visible before the signal is.
Wakeup(s) ==
  /\ pc[s] = "cleared"
  /\ sbuf[s] = <<>>
  /\ signal' = TRUE
  /\ pc' = [pc EXCEPT ![s] = "idle"]
  /\ UNCHANGED <<sleeping, queued, sbuf, rbuf, rpc, acked, polled, pushes>>

\* The memory system writes back the oldest store of a sender's buffer.
DrainSender(s) ==
  /\ sbuf[s] # <<>>
  /\ sbuf' = [sbuf EXCEPT ![s] = Tail(@)]
  /\ \/ /\ Head(sbuf[s]) = "push"
        /\ queued' = [queued EXCEPT ![s] = @ + 1]
        /\ UNCHANGED sleeping
     \/ /\ Head(sbuf[s]) = "clear"
        /\ sleeping' = FALSE
        /\ UNCHANGED queued
  /\ UNCHANGED <<rbuf, pc, rpc, acked, polled, signal, pushes>>

-----------------------------------------------------------------------------
(* The reactor *)

\* Mutant: the first pop of process_queue() is not tested for success.
Process_EmptyPop(s) ==
  /\ rpc = "running"
  /\ queued' = [queued EXCEPT ![s] = @ - 1]
  /\ UNCHANGED <<sleeping, sbuf, rbuf, pc, rpc, acked, polled, signal, pushes>>

\* process_incoming() takes what it sees of one queue.
Process(s) ==
  /\ rpc = "running"
  /\ queued[s] > 0
  /\ queued' = [queued EXCEPT ![s] = 0]
  /\ UNCHANGED <<sleeping, sbuf, rbuf, pc, rpc, acked, polled, signal, pushes>>

\* sleep(), up to try_enter_interrupt_mode() of smp_pollfn: the reactor has
\* found nothing to do for a while and stores true into _sleeping.
TryEnterInterruptMode ==
  /\ rpc = "running"
  /\ Len(rbuf) < BufferSize
  /\ rbuf' = Append(rbuf, TRUE)
  /\ rpc' = "setting"
  /\ UNCHANGED <<sleeping, queued, sbuf, pc, acked, polled, signal, pushes>>

\* A store of false to _sleeping and back to the loop.
StayAwake ==
  /\ Len(rbuf) < BufferSize
  /\ rbuf' = Append(rbuf, FALSE)
  /\ rpc' = "running"
  /\ acked' = {}
  /\ polled' = {}

\* try_systemwide_memory_barrier() found no way to interrupt the others.
BarrierFails ==
  /\ rpc = "setting"
  /\ StayAwake
  /\ UNCHANGED <<sleeping, queued, sbuf, pc, signal, pushes>>

\* Mutant: a fence on the reactor's own thread in place of the barrier.
BarrierStart_LocalFence ==
  /\ rpc = "setting"
  /\ rbuf = <<>>
  /\ rpc' = "barrier"
  /\ acked' = Senders
  /\ UNCHANGED <<sleeping, queued, sbuf, rbuf, pc, polled, signal, pushes>>

\* membarrier() or madvise() enters the kernel, which fences the caller first
\* and then interrupts every thread of the process.
BarrierStart ==
  /\ rpc = "setting"
  /\ rbuf = <<>>
  /\ rpc' = "barrier"
  /\ acked' = {}
  /\ UNCHANGED <<sleeping, queued, sbuf, rbuf, pc, polled, signal, pushes>>

\* The interrupt reaches sender s, which executes a fence: its stores from
\* before are visible.
BarrierReaches(s) ==
  /\ rpc = "barrier"
  /\ s \notin acked
  /\ sbuf[s] = <<>>
  /\ acked' = acked \cup {s}
  /\ UNCHANGED <<sleeping, queued, sbuf, rbuf, pc, rpc, polled, signal, pushes>>

BarrierDone ==
  /\ rpc = "barrier"
  /\ acked = Senders
  /\ rpc' = "polling"
  /\ polled' = {}
  /\ UNCHANGED <<sleeping, queued, sbuf, rbuf, pc, acked, signal, pushes>>

\* Mutant: the second poll is skipped, as the first one found nothing.
PollQueue_Skipped(s) ==
  /\ rpc = "polling"
  /\ s \notin polled
  /\ polled' = polled \cup {s}
  /\ UNCHANGED <<sleeping, queued, sbuf, rbuf, pc, rpc, acked, signal, pushes>>

\* poll() after the barrier looks at the queues one by one.  An item found is
\* processed, and the reactor stays awake ("raced").
PollQueue(s) ==
  /\ rpc = "polling"
  /\ s \notin polled
  /\ \/ /\ queued[s] = 0
        /\ polled' = polled \cup {s}
        /\ UNCHANGED <<queued, rbuf, rpc, acked>>
     \/ /\ queued[s] > 0
        /\ queued' = [queued EXCEPT ![s] = 0]
        /\ StayAwake
  /\ UNCHANGED <<sleeping, sbuf, pc, signal, pushes>>

\* epoll_pwait() with the signal unblocked, atomically with the wait.
WaitAndProcess ==
  /\ rpc = "polling"
  /\ polled = Senders
  /\ rpc' = "asleep"
  /\ UNCHANGED <<sleeping, queued, sbuf, rbuf, pc, acked, polled, signal, pushes>>

\* A pending signal interrupts the wait.
SignalWakes ==
  /\ rpc = "asleep"
  /\ signal
  /\ signal' = FALSE
  /\ rpc' = "leaving"
  /\ UNCHANGED <<sleeping, queued, sbuf, rbuf, pc, acked, polled, pushes>>

\* So do file descriptors and timers.
EventEndsSleep ==
  /\ rpc = "asleep"
  /\ rpc' = "leaving"
  /\ UNCHANGED <<sleeping, queued, sbuf, rbuf, pc, acked, polled, signal, pushes>>

\* exit_interrupt_mode()
ExitInterruptMode ==
  /\ rpc = "leaving"
  /\ StayAwake
  /\ UNCHANGED <<sleeping, queued, sbuf, pc, signal, pushes>>

DrainReactor ==
  /\ rbuf # <<>>
  /\ sleeping' = Head(rbuf)
  /\ rbuf' = Tail(rbuf)
  /\ UNCHANGED <<queued, sbuf, pc, rpc, acked, polled, signal, pushes>>

-----------------------------------------------------------------------------

Sender(s) == Push(s) \/ LoadSleeping(s) \/ ClearSleeping(s) \/ Wakeup(s) \/ DrainSender(s)

Reactor ==
  \/ TryEnterInterruptMode
  \/ BarrierFails
  \/ BarrierStart
  \/ BarrierDone
  \/ WaitAndProcess
  \/ SignalWakes
  \/ EventEndsSleep
  \/ ExitInterruptMode
  \/ DrainReactor
  \/ \E s \in Senders : Process(s) \/ BarrierReaches(s) \/ PollQueue(s)

SleepNext == (\E s \in Senders : Sender(s)) \/ Reactor

SleepSpec == SleepInit /\ [][SleepNext]_sleepVars

\* Threads run, stores reach memory, signals and barrier interrupts arrive.
\* File descriptors and timers need not do anything, and a reactor with work
\* in sight does it rather than going to sleep for ever.
SleepFairness ==
  /\ \A s \in Senders :
       /\ WF_sleepVars(LoadSleeping(s)) /\ WF_sleepVars(ClearSleeping(s))
       /\ WF_sleepVars(Wakeup(s)) /\ WF_sleepVars(DrainSender(s))
       /\ SF_sleepVars(Process(s)) /\ WF_sleepVars(PollQueue(s))
       /\ WF_sleepVars(BarrierReaches(s))
  /\ WF_sleepVars(BarrierStart) /\ WF_sleepVars(BarrierDone) /\ WF_sleepVars(WaitAndProcess)
  /\ WF_sleepVars(SignalWakes) /\ WF_sleepVars(ExitInterruptMode) /\ WF_sleepVars(DrainReactor)

SleepFairSpec == SleepSpec /\ SleepFairness

-----------------------------------------------------------------------------
(* Properties *)

SleepTypeOK ==
  /\ sleeping \in BOOLEAN
  /\ queued \in [Senders -> Nat]
  /\ sbuf \in [Senders -> Seq(Stores)]
  /\ rbuf \in Seq(BOOLEAN)
  /\ pc \in [Senders -> SenderPc]
  /\ rpc \in ReactorPc
  /\ acked \subseteq Senders
  /\ polled \subseteq Senders
  /\ signal \in BOOLEAN
  /\ pushes \in [Senders -> Nat]

\* Somebody is still on the way to the reactor with a signal.
WakerUnderWay == signal \/ \E s \in Senders : pc[s] \in {"pushed", "seen", "cleared"}

\* reactor.cc:3605, "This is read-after-write, which wants memory_order_seq_cst,
\* but we insert that barrier using systemwide_memory_barrier()": a reactor
\* never sleeps on an item while nobody is about to wake it.
NoLostWakeup == rpc = "asleep" /\ (\E s \in Senders : queued[s] > 0) => WakerUnderWay

\* Once the senders are idle and their stores visible, a sleeping reactor
\* either has empty queues and shows the flag to the next sender, or has been
\* signalled.
SleepIsAnnounced ==
  rpc = "asleep" /\ (\A s \in Senders : pc[s] = "idle" /\ sbuf[s] = <<>>) =>
    signal \/ (sleeping /\ \A s \in Senders : queued[s] = 0)

\* Every item pushed is eventually taken off its queue, without any event but
\* the sender's own signal to end a sleep.
PushedIsProcessed == \A s \in Senders : queued[s] > 0 ~> queued[s] = 0

=============================================================================
