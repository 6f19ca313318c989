------------------------------- MODULE SmpQueue -------------------------------
(***************************************************************************)
(* smp_message_queue (core/reactor.hh, core/reactor.cc): the pair of       *)
(* bounded single-producer queues through which the reactor "from" has     *)
(* functions run on the reactor "to" and gets their results back.          *)
(*                                                                         *)
(* Both directions are batched.  Requests gather in pending_fifo and       *)
(* responses in _completed_fifo, and each poll moves to the shared queue   *)
(* what fits.  A reactor whose poll got nothing may go to sleep; a push    *)
(* wakes it (SmpSleep shows that the wakeup is not lost, and is why sleep  *)
(* is one step here).                                                      *)
(***************************************************************************)
EXTENDS Integers, Sequences, FiniteSets, SequencesExt

CONSTANTS
  Items,        \* the functions submitted, one work item each
  QueueLength,  \* capacity of _pending and of _completed (128)
  BatchSize,    \* batch_size (16)
  After,        \* After[i]: functions that must begin before i's can end
  StopItem      \* the function reactor::stop() submits

ASSUME SmpQueueAssumption ==
  /\ QueueLength \in Nat \ {0}
  /\ BatchSize \in Nat \ {0}
  /\ After \in [Items -> SUBSET Items]

VARIABLES
  fifo,        \* _tx.a.pending_fifo
  pending,     \* _pending, the shared request queue
  running,     \* items whose function has begun on "to"
  doneFifo,    \* _completed_fifo
  completed,   \* _completed, the shared response queue
  fut,         \* the future submit() returned for an item
  curLen,      \* _current_queue_length
  awake,       \* the reactors that are not asleep
  stopped,     \* engine()._stopped on "to"
  exited       \* "to" has left reactor::run()

vars == <<fifo, pending, running, doneFifo, completed, fut, curLen, awake, stopped, exited>>

Init ==
  /\ fifo = <<>>
  /\ pending = <<>>
  /\ running = {}
  /\ doneFifo = <<>>
  /\ completed = <<>>
  /\ fut = [i \in Items |-> "none"]
  /\ curLen = 0
  /\ awake = {"from", "to"}
  /\ stopped = FALSE
  /\ exited = FALSE

\* How much of src spsc_queue::push() moves to the queue dst.
Pushed(src, dst) ==
  IF Len(src) <= QueueLength - Len(dst) THEN Len(src) ELSE QueueLength - Len(dst)

-----------------------------------------------------------------------------
(* The submitting side *)

\* Mutant: a fifo that does not fit goes out newest first.
MovePending_NewestFirst(f, got, up) ==
  LET n == Pushed(f, pending)
  IN  /\ pending' = pending \o SubSeq(f, Len(f) - n + 1, Len(f))
      /\ fifo' = SubSeq(f, 1, Len(f) - n)
      /\ curLen' = curLen + n - got
      /\ awake' = IF n > 0 THEN up \cup {"to"} ELSE up

\* move_pending() on the fifo f, in a poll that got this many completions; up
\* is who stays awake but for the wakeup of the push.
MovePending(f, got, up) ==
  LET n == Pushed(f, pending)
  IN  /\ pending' = pending \o SubSeq(f, 1, n)
      /\ fifo' = SubSeq(f, n + 1, Len(f))
      /\ curLen' = curLen + n - got
      /\ awake' = IF n > 0 THEN up \cup {"to"} ELSE up

\* submit() and submit_item()
Submit(i) ==
  /\ "from" \in awake
  /\ fut[i] = "none"
  /\ fut' = [fut EXCEPT ![i] = "waiting"]
  /\ LET f == Append(fifo, i)
     IN  \/ Len(f) >= BatchSize /\ MovePending(f, 0, awake)
         \/ Len(f) < BatchSize /\ fifo' = f /\ UNCHANGED <<pending, curLen, awake>>
  /\ UNCHANGED <<running, doneFifo, completed, stopped, exited>>

\* poll_queues(): flush_request_batch() and process_completions()
PollFrom ==
  /\ "from" \in awake
  /\ MovePending(fifo, Len(completed), awake)
  /\ completed' = <<>>
  /\ fut' = [i \in Items |-> IF i \in ToSet(completed) THEN "ready" ELSE fut[i]]
  /\ UNCHANGED <<running, doneFifo, stopped, exited>>

\* The last poll before sleep: what it flushes does not count as work, nor does
\* what it cannot flush.
SleepFrom ==
  /\ "from" \in awake
  /\ completed = <<>>
  /\ MovePending(fifo, 0, awake \ {"from"})
  /\ UNCHANGED <<running, doneFifo, completed, fut, stopped, exited>>

-----------------------------------------------------------------------------
(* The executing side *)

\* flush_response_batch() on the fifo c
FlushResponseBatch(c, up) ==
  LET n == Pushed(c, completed)
  IN  /\ completed' = completed \o SubSeq(c, 1, n)
      /\ doneFifo' = SubSeq(c, n + 1, Len(c))
      /\ awake' = IF n > 0 THEN up \cup {"from"} ELSE up

\* poll_queues(): flush_response_batch() and process_incoming().  A function
\* that ends at once does so in a Respond step that follows.
PollTo ==
  /\ "to" \in awake
  /\ ~stopped
  /\ FlushResponseBatch(doneFifo, awake)
  /\ pending' = <<>>
  /\ running' = running \cup ToSet(pending)
  /\ UNCHANGED <<fifo, fut, curLen, stopped, exited>>

\* Mutant: responses that did not fit are not counted as work left.
SleepTo_UnflushedIgnored ==
  /\ "to" \in awake
  /\ ~stopped
  /\ pending = <<>>
  /\ FlushResponseBatch(doneFifo, awake \ {"to"})
  /\ UNCHANGED <<fifo, pending, running, fut, curLen, stopped, exited>>

\* The last poll before sleep: has_unflushed_responses() does count.
SleepTo ==
  /\ "to" \in awake
  /\ ~stopped
  /\ pending = <<>>
  /\ Len(doneFifo) <= QueueLength - Len(completed)
  /\ FlushResponseBatch(doneFifo, awake \ {"to"})
  /\ UNCHANGED <<fifo, pending, running, fut, curLen, stopped, exited>>

Begun(i) == fut[i] # "none" /\ i \notin ToSet(fifo) \cup ToSet(pending)

\* The function of reactor::stop() has run the exit tasks and sets _stopped;
\* its own response is still to be made.
SetStopped ==
  /\ "to" \in awake
  /\ StopItem \in running
  /\ ~stopped
  /\ stopped' = TRUE
  /\ UNCHANGED <<fifo, pending, running, doneFifo, completed, fut, curLen, awake, exited>>

\* The function of item i ends, or throws: respond()
Respond(i) ==
  /\ "to" \in awake
  /\ ~exited
  /\ i \in running
  /\ \A j \in After[i] : Begun(j)
  /\ i = StopItem => stopped
  /\ running' = running \ {i}
  /\ LET c == Append(doneFifo, i)
     IN  \/ /\ Len(c) >= BatchSize \/ stopped
            /\ FlushResponseBatch(c, awake)
         \/ /\ Len(c) < BatchSize /\ ~stopped
            /\ doneFifo' = c
            /\ UNCHANGED <<completed, awake>>
  /\ UNCHANGED <<fifo, pending, fut, curLen, stopped, exited>>

\* run() breaks out of its loop when its final tasks are done, among them the
\* response to the stop request.
Exit ==
  /\ stopped
  /\ ~exited
  /\ StopItem \notin running
  /\ exited' = TRUE
  /\ UNCHANGED <<fifo, pending, running, doneFifo, completed, fut, curLen, awake, stopped>>

\* Mutant: the submitter has no timer armed.
EventWakes_ToOnly(r) ==
  /\ r = "to"
  /\ r \notin awake
  /\ awake' = awake \cup {r}
  /\ UNCHANGED <<fifo, pending, running, doneFifo, completed, fut, curLen, stopped, exited>>

\* A timer ends the sleep of reactor r; run() keeps one armed for the load
\* average, every second.
EventWakes(r) ==
  /\ r \notin awake
  /\ awake' = awake \cup {r}
  /\ UNCHANGED <<fifo, pending, running, doneFifo, completed, fut, curLen, stopped, exited>>

-----------------------------------------------------------------------------

From == PollFrom \/ SleepFrom \/ EventWakes("from") \/ \E i \in Items : Submit(i)

To == PollTo \/ SleepTo \/ SetStopped \/ Exit \/ EventWakes("to") \/ \E i \in Items : Respond(i)

Next == From \/ To

Spec == Init /\ [][Next]_vars

\* Reactors poll again and again while they are awake, and functions whose
\* wait is over end.  The load timer ends every sleep.
Fairness ==
  /\ SF_vars(PollFrom) /\ SF_vars(PollTo)
  /\ \A i \in Items : SF_vars(Respond(i))
  /\ WF_vars(EventWakes("from")) /\ WF_vars(EventWakes("to"))

FairSpec == Spec /\ Fairness

-----------------------------------------------------------------------------
(* Properties *)

\* The shared queues stay within their capacity and the counter above zero.
TypeOK ==
  /\ fifo \in Seq(Items) /\ doneFifo \in Seq(Items)
  /\ pending \in Seq(Items) /\ Len(pending) <= QueueLength
  /\ completed \in Seq(Items) /\ Len(completed) <= QueueLength
  /\ running \subseteq Items
  /\ fut \in [Items -> {"none", "waiting", "ready"}]
  /\ curLen \in Nat
  /\ awake \subseteq {"from", "to"}
  /\ stopped \in BOOLEAN /\ exited \in BOOLEAN

\* Nobody sleeps on what the other side waits for; a request may be left in
\* the fifo of a sleeper only if the queue was full, and then others are out.
SleepIsSafe ==
  /\ TypeOK
  /\ "to" \notin awake => pending = <<>> /\ doneFifo = <<>>
  /\ "from" \notin awake => completed = <<>> /\ (fifo # <<>> => curLen >= QueueLength)

\* Every future submit() returns becomes ready, once what its function waits for
\* is submitted too and unless the reactor is stopped meanwhile: even if that
\* waits behind a full queue.
SubmittedCompletes ==
  \A i \in Items \ {StopItem} :
    fut[i] = "waiting" /\ (\A j \in After[i] : fut[j] # "none")
      ~> fut[i] = "ready" \/ stopped

\* The queue implements what submit_to() promises.
Abstract == INSTANCE SubmitTo WITH
  waiting <- pending \o fifo,
  ended <- ToSet(doneFifo) \cup ToSet(completed),
  ready <- {i \in Items : fut[i] = "ready"}

ImplementsSubmitTo == Abstract!Spec

=============================================================================
