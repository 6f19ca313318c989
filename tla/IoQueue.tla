------------------------------- MODULE IoQueue -------------------------------
(***************************************************************************)
(* Disk requests on the shard that coordinates a disk: the fair queue      *)
(* (core/fair_queue.hh), io_queue and the batches given to io_submit(2)    *)
(* (core/reactor.cc), and the thread that submits what must not block the  *)
(* reactor.                                                                *)
(*                                                                         *)
(* A request waits in the queue of its class until the limits of the disk  *)
(* let it be dispatched.  It then takes a control block, stands in         *)
(* _pending_aio, and goes to the kernel.  A request submitted with the     *)
(* nowait flag may come back with EAGAIN: it is submitted again, without   *)
(* the flag, by the system call thread.  The kernel may take a part of a   *)
(* batch, or refuse its first request.                                     *)
(*                                                                         *)
(* Time is left out of the accumulated cost of a class: costs are those of *)
(* requests close in time, and the decay is the loss of what lies further  *)
(* back than Window.                                                       *)
(***************************************************************************)
EXTENDS Integers, SequencesExt, Sums

CONSTANTS
  Requests,        \* the requests; one that was answered may be made again
  Classes,         \* the priority classes
  ClassOf,         \* the class of each request
  LengthOf,        \* the bytes each request moves
  Writes,          \* the requests that write
  BadFd,           \* those on a file descriptor that io_submit() refuses
  BlockingFs,      \* those on a file system without the nowait flag
  ReadCount,       \* read_request_base_count
  WriteReqs,       \* disk_req_write_to_read_multiplier
  WriteBytes,      \* disk_bytes_write_to_read_multiplier
  Capacity,        \* config::capacity, at most max_aio_per_queue
  MaxReqCount,     \* config::max_req_count
  MaxBytesCount,   \* config::max_bytes_count
  MaxAio,          \* reactor::max_aio
  QueueLength,     \* syscall_work_queue::queue_length
  Shares,          \* the shares a class may have
  Window,          \* bound of the accumulated cost
  Unsigned         \* one more than the largest unsigned

ASSUME IoQueueAssumption ==
  /\ IsFiniteSet(Requests) /\ IsFiniteSet(Classes)
  /\ ClassOf \in [Requests -> Classes]
  /\ LengthOf \in [Requests -> Nat]
  /\ Writes \subseteq Requests /\ BadFd \subseteq Requests /\ BlockingFs \subseteq Requests
  /\ {ReadCount, WriteReqs, WriteBytes} \subseteq Nat \ {0}
  /\ {Capacity, MaxReqCount, MaxBytesCount, MaxAio, QueueLength, Window,
      Unsigned} \subseteq Nat \ {0}
  /\ Capacity <= MaxAio
  /\ Shares \subseteq Nat \ {0} /\ Shares # {}

VARIABLES
  queue,       \* priority_class::_queue
  accumulated, \* priority_class::_accumulated
  shares,      \* priority_class::_shares
  handles,     \* fair_queue::_handles; a class in it has _queued set
  queued,      \* _requests_queued
  load,        \* _requests_executing, _req_count_executing, _bytes_count_executing
  free,        \* how many control blocks _free_iocbs holds
  pending,     \* _pending_aio
  retry,       \* _pending_aio_retry
  nowait,      \* the requests whose control block has the nowait flag
  nowaitOk,    \* aio_nowait_supported
  flushing,    \* where the reactor is: "no", or in flush_pending_aio()
  batches,     \* what the system call thread is to submit
  submitted,   \* what it has submitted, until the reactor sees it
  kernel,      \* the requests the kernel has
  events,      \* those it is done with, until io_getevents()
  answer       \* what became of each request's promise; "none" while it waits

fairQueue == <<queue, accumulated, shares, handles, queued>>
aio == <<pending, retry>>
flags == <<nowait, nowaitOk>>
threadPool == <<batches, submitted>>
system == <<kernel, events>>
vars == <<fairQueue, load, free, aio, flags, flushing, threadPool, system, answer>>

Errno == {"EINVAL", "EAGAIN", "EBADF"}

\* What io_submit() returned: how many requests it took, or -1 and errno.
Result == [taken : Nat, errno : Errno \cup {"none"}]

Init ==
  /\ queue = [c \in Classes |-> <<>>]
  /\ accumulated = [c \in Classes |-> 0]
  /\ shares \in [Classes -> Shares]
  /\ handles = {} /\ queued = 0
  /\ load = [requests |-> 0, weight |-> 0, bytes |-> 0]
  /\ free = MaxAio
  /\ pending = <<>> /\ retry = <<>>
  /\ nowait = {} /\ nowaitOk = TRUE
  /\ flushing = "no"
  /\ batches = <<>> /\ submitted = <<>>
  /\ kernel = {} /\ events = <<>>
  /\ answer = [r \in Requests |-> "not asked"]

-----------------------------------------------------------------------------
(* io_queue and fair_queue *)

\* What a request counts for; io_desc keeps both as unsigned.
Weight(r) == (IF r \in Writes THEN WriteReqs ELSE ReadCount) % Unsigned

Size(r) == ((IF r \in Writes THEN WriteBytes ELSE ReadCount) * LengthOf[r]) % Unsigned

\* What the requests of a set count for.
WeightOf(R) == Total(R, [r \in Requests |-> Weight(r)])

SizeOf(R) == Total(R, [r \in Requests |-> Size(r)])

\* fair_queue::queue(), with push_priority_class().
Enqueue(c, r) ==
  /\ handles' = handles \cup {c}
  /\ queue' = [queue EXCEPT ![c] = Append(@, r)]
  /\ queued' = queued + 1

\* queue_request() on the coordinator.
QueueRequest(r) ==
  /\ flushing = "no"
  /\ answer[r] # "none"
  /\ Enqueue(ClassOf[r], r)
  /\ answer' = [answer EXCEPT ![r] = "none"]
  /\ UNCHANGED <<accumulated, shares, load, free, aio, flags, flushing, threadPool, system>>

\* update_shares_for_class() on the coordinator.
UpdateShares(c, s) ==
  /\ flushing = "no"
  /\ shares[c] # s
  /\ shares' = [shares EXCEPT ![c] = s]
  /\ UNCHANGED <<queue, accumulated, handles, queued, load, free, aio, flags, flushing,
                 threadPool, system, answer>>

CanDispatch ==
  /\ queued > 0
  /\ load.requests < Capacity
  /\ load.weight < MaxReqCount
  /\ load.bytes < MaxBytesCount

Started(l, r) ==
  [requests |-> l.requests + 1,
   weight |-> (l.weight + Weight(r)) % Unsigned,
   bytes |-> (l.bytes + Size(r)) % Unsigned]

\* notify_requests_finished(), for each request of a set.
Finished(l, R) ==
  [requests |-> l.requests - Cardinality(R),
   weight |-> (l.weight - WeightOf(R)) % Unsigned,
   bytes |-> (l.bytes - SizeOf(R)) % Unsigned]

\* Mutant: class_compare the other way round.
Top_Largest(c) == /\ c \in handles
                  /\ \A d \in handles : accumulated[c] >= accumulated[d]

\* The class on top of the heap is one that has accumulated least.
Top(c) == /\ c \in handles
          /\ \A d \in handles : accumulated[c] <= accumulated[d]

Max2(a, b) == IF a >= b THEN a ELSE b

\* Class c pays for request r, in inverse proportion to its shares.
Charged(c, r) ==
  LET cost  == Max2(1, (Weight(r) + Size(r)) \div shares[c])
      paid  == [accumulated EXCEPT ![c] = @ + cost]
      decay == Max2(0, paid[c] - Window)
  IN  [d \in Classes |-> Max2(0, paid[d] - decay)]

\* submit_io(): a control block, and the nowait flag while it is thought to
\* be supported.
SubmitIo(r) ==
  /\ free' = free - 1
  /\ nowait' = IF nowaitOk THEN nowait \cup {r} ELSE nowait \ {r}
  /\ pending' = Append(pending, r)

\* One turn of dispatch_requests().
Dispatch ==
  /\ flushing = "dispatching"
  /\ CanDispatch
  /\ \E c \in Classes :
       LET r == Head(queue[c])
       IN  /\ Top(c)
           /\ queue' = [queue EXCEPT ![c] = Tail(@)]
           /\ handles' = IF Len(queue[c]) > 1 THEN handles ELSE handles \ {c}
           /\ accumulated' = Charged(c, r)
           /\ queued' = queued - 1
           /\ load' = Started(load, r)
           /\ SubmitIo(r)
  /\ UNCHANGED <<shares, retry, nowaitOk, flushing, threadPool, system, answer>>

-----------------------------------------------------------------------------
(* io_submit(2) and the kernel *)

Accepts(r) == r \notin BadFd /\ ~(r \in nowait /\ r \in BlockingFs)

Refusal(r) ==
  IF r \in BadFd THEN "EBADF"
  ELSE IF r \in nowait /\ r \in BlockingFs THEN "EINVAL"
  ELSE "EAGAIN"

\* The kernel takes requests in their order and stops at one it refuses; the
\* call fails when that is the first.
IoSubmit(s) ==
  {[taken |-> 0, errno |-> Refusal(s[1])]}
    \cup {[taken |-> n, errno |-> "none"] : n \in
            {k \in 1..Len(s) : \A i \in 1..k : Accepts(s[i])}}

\* A request that may not wait would have to.
KernelWouldBlock(r) ==
  /\ r \in kernel /\ r \in nowait
  /\ kernel' = kernel \ {r}
  /\ events' = Append(events, [request |-> r, res |-> "EAGAIN"])
  /\ UNCHANGED <<fairQueue, load, free, aio, flags, flushing, threadPool, answer>>

KernelCompletes(r) ==
  /\ r \in kernel
  /\ kernel' = kernel \ {r}
  /\ events' = Append(events, [request |-> r, res |-> "done"])
  /\ UNCHANGED <<fairQueue, load, free, aio, flags, flushing, threadPool, answer>>

-----------------------------------------------------------------------------
(* The pollers of the reactor *)

\* Mutant: a refused request keeps its share of the limits.
HandleAioError_KeepsShare(r, errno) ==
  \/ /\ errno = "EINVAL"
     /\ nowaitOk' = FALSE
     /\ nowait' = nowait \ {r}
     /\ UNCHANGED <<free, answer, load>>
  \/ /\ errno = "EAGAIN"
     /\ UNCHANGED <<flags, free, answer, load>>
  \/ /\ errno = "EBADF"
     /\ free' = free + 1
     /\ answer' = [answer EXCEPT ![r] = "EBADF"]
     /\ UNCHANGED <<flags, load>>

\* handle_aio_error() for the first request of a batch; what the kernel can
\* give here beside these ends the program.
HandleAioError(r, errno) ==
  \/ /\ errno = "EINVAL"
     /\ nowaitOk' = FALSE
     /\ nowait' = nowait \ {r}
     /\ UNCHANGED <<free, answer, load>>
  \/ /\ errno = "EAGAIN"
     /\ UNCHANGED <<flags, free, answer, load>>
  \/ /\ errno = "EBADF"
     /\ free' = free + 1
     /\ answer' = [answer EXCEPT ![r] = "EBADF"]
     /\ load' = Finished(load, {r})
     /\ UNCHANGED flags

\* How many requests of the batch the reactor is done with.
Consumed(result) == IF result.errno = "EBADF" THEN 1 ELSE result.taken

HandleResult(s, result) ==
  IF result.errno = "none"
  THEN UNCHANGED <<flags, free, answer, load>>
  ELSE HandleAioError(s[1], result.errno)

\* flush_pending_aio() is called, and polls the queue of the disk.
Flush ==
  /\ flushing = "no"
  /\ CanDispatch \/ pending # <<>> \/ retry # <<>>
  /\ flushing' = "dispatching"
  /\ UNCHANGED <<fairQueue, load, free, aio, flags, threadPool, system, answer>>

Dispatched ==
  /\ flushing = "dispatching"
  /\ ~CanDispatch
  /\ flushing' = "submitting"
  /\ UNCHANGED <<fairQueue, load, free, aio, flags, threadPool, system, answer>>

\* One turn of its loop.
SubmitPending ==
  /\ flushing = "submitting"
  /\ pending # <<>>
  /\ \E result \in IoSubmit(pending) :
       /\ HandleResult(pending, result)
       /\ pending' = SubSeq(pending, Consumed(result) + 1, Len(pending))
       /\ kernel' = kernel \cup ToSet(SubSeq(pending, 1, result.taken))
  /\ UNCHANGED <<fairQueue, retry, flushing, threadPool, events>>

\* Its end: what has to be tried again goes to the system call thread.
FlushEnds ==
  /\ flushing = "submitting"
  /\ pending = <<>>
  /\ batches' = IF retry # <<>> THEN Append(batches, retry) ELSE batches
  /\ retry' = <<>>
  /\ flushing' = "no"
  /\ UNCHANGED <<fairQueue, load, free, pending, flags, submitted, system, answer>>

\* The system call thread submits its next batch; a batch waits for
\* _queue_has_room, which counts those the reactor has not seen.
ThreadSubmits(result) ==
  /\ batches # <<>>
  /\ Len(submitted) < QueueLength
  /\ result \in IoSubmit(Head(batches))
  /\ kernel' = kernel \cup ToSet(SubSeq(Head(batches), 1, result.taken))
  /\ submitted' = Append(submitted, [iocbs |-> Head(batches), result |-> result])
  /\ batches' = Tail(batches)
  /\ UNCHANGED <<fairQueue, load, free, aio, flags, flushing, events, answer>>

\* Mutant: the whole batch is tried once more, what the kernel took included.
RetrySubmitted_WholeBatch ==
  /\ flushing = "no"
  /\ submitted # <<>>
  /\ LET s == Head(submitted).iocbs
     IN  /\ HandleResult(s, Head(submitted).result)
         /\ retry' = retry \o s
  /\ submitted' = Tail(submitted)
  /\ UNCHANGED <<fairQueue, pending, flushing, batches, system>>

\* The continuation in the reactor: the rest of the batch is tried once more.
RetrySubmitted ==
  /\ flushing = "no"
  /\ submitted # <<>>
  /\ LET s == Head(submitted).iocbs
         result == Head(submitted).result
     IN  /\ HandleResult(s, result)
         /\ retry' = retry \o SubSeq(s, Consumed(result) + 1, Len(s))
  /\ submitted' = Tail(submitted)
  /\ UNCHANGED <<fairQueue, pending, flushing, batches, system>>

\* The members of a set of numbers, in their order.
InOrder(N) ==
  [k \in 1..Cardinality(N) |-> CHOOSE i \in N : Cardinality({j \in N : j <= i}) = k]

\* The requests of the events with result res.
RequestsWith(res) ==
  LET places == InOrder({i \in DOMAIN events : events[i].res = res})
  IN  [k \in DOMAIN places |-> events[places[k]].request]

\* process_io(): every event that is there.
ProcessIo ==
  /\ flushing = "no"
  /\ events # <<>>
  /\ LET again == RequestsWith("EAGAIN")
         done == ToSet(RequestsWith("done"))
     IN  /\ nowait' = nowait \ ToSet(again)
         /\ retry' = retry \o again
         /\ free' = free + Cardinality(done)
         /\ answer' = [r \in Requests |-> IF r \in done THEN "done" ELSE answer[r]]
         /\ load' = Finished(load, done)
  /\ events' = <<>>
  /\ UNCHANGED <<fairQueue, pending, nowaitOk, flushing, threadPool, kernel>>

-----------------------------------------------------------------------------
Next ==
  \/ \E r \in Requests : QueueRequest(r) \/ KernelWouldBlock(r) \/ KernelCompletes(r)
  \/ \E c \in Classes, s \in Shares : UpdateShares(c, s)
  \/ Flush \/ Dispatch \/ Dispatched \/ SubmitPending \/ FlushEnds
  \/ \E n \in 0..Cardinality(Requests), e \in Errno \cup {"none"} :
       ThreadSubmits([taken |-> n, errno |-> e])
  \/ RetrySubmitted \/ ProcessIo

Spec == Init /\ [][Next]_vars

\* The system call thread gets somewhere with request r: the kernel takes it,
\* or says what is wrong with it.
ThreadServes(r) ==
  \E n \in 0..Cardinality(Requests), e \in Errno \cup {"none"} :
    /\ ThreadSubmits([taken |-> n, errno |-> e])
    /\ \/ \E i \in 1..n : Head(batches)[i] = r
       \/ e \in {"EINVAL", "EBADF"} /\ Head(batches)[1] = r

\* The reactor calls every poller in each turn of its loop; the kernel ends
\* what it took, and does not answer EAGAIN to a submission for ever.
Fairness ==
  /\ WF_vars(Flush) /\ WF_vars(Dispatch) /\ WF_vars(Dispatched)
  /\ WF_vars(SubmitPending) /\ WF_vars(FlushEnds)
  /\ SF_vars(RetrySubmitted) /\ SF_vars(ProcessIo)
  /\ WF_vars(\E n \in 0..Cardinality(Requests), e \in Errno \cup {"none"} :
               ThreadSubmits([taken |-> n, errno |-> e]))
  /\ \A r \in Requests : /\ SF_vars(ThreadServes(r))
                         /\ WF_vars(KernelCompletes(r) \/ KernelWouldBlock(r))

FairSpec == Spec /\ Fairness

-----------------------------------------------------------------------------
(* Properties *)

TypeOK ==
  /\ queue \in [Classes -> Seq(Requests)]
  /\ accumulated \in [Classes -> 0..Window]
  /\ shares \in [Classes -> Shares]
  /\ handles \subseteq Classes /\ queued \in Nat
  /\ load \in [requests : 0..Capacity, weight : 0..(Unsigned - 1), bytes : 0..(Unsigned - 1)]
  /\ free \in 0..MaxAio
  /\ pending \in Seq(Requests) /\ retry \in Seq(Requests)
  /\ nowait \subseteq Requests /\ nowaitOk \in BOOLEAN
  /\ flushing \in {"no", "dispatching", "submitting"}
  /\ batches \in Seq(Seq(Requests))
  /\ submitted \in Seq([iocbs : Seq(Requests), result : Result])
  /\ kernel \subseteq Requests
  /\ events \in Seq([request : Requests, res : {"EAGAIN", "done"}])
  /\ answer \in [Requests -> {"not asked", "none", "EBADF", "done"}]

\* The requests the disk works on: those dispatched and not yet answered.
Executing == {r \in Requests : answer[r] = "none" /\ r \notin ToSet(queue[ClassOf[r]])}

Times(r, s) == Cardinality({i \in DOMAIN s : s[i] = r})

TimesInAll(r, ss) == Total(DOMAIN ss, [i \in DOMAIN ss |-> Times(r, ss[i])])

\* The part of an examined batch that the kernel did not take.
Rest(b) == SubSeq(b.iocbs, b.result.taken + 1, Len(b.iocbs))

\* How many times request r stands somewhere, between the call that makes it
\* and its answer.
Copies(r) ==
  Times(r, queue[ClassOf[r]]) + Times(r, pending) + Times(r, retry)
    + TimesInAll(r, batches)
    + TimesInAll(r, [i \in DOMAIN submitted |-> Rest(submitted[i])])
    + Times(r, [i \in DOMAIN events |-> events[i].request])
    + (IF r \in kernel THEN 1 ELSE 0)

\* Nothing is lost, submitted twice or answered twice, whatever part of a
\* batch the kernel takes and whichever thread submits it: a request that
\* waits is in exactly one place (flush_pending_aio() and its continuation,
\* reactor.cc:1103-1134; process_io(), reactor.cc:1170-1182).  And the error of
\* io_submit(), that of the first of the batch (reactor.cc:1077), goes to the
\* request it is about.
InFlightOnce ==
  \A r \in Requests :
    /\ Copies(r) = IF answer[r] = "none" THEN 1 ELSE 0
    /\ answer[r] \in {"EBADF", "done"} => (answer[r] = "EBADF") = (r \in BadFd)

\* Every path that ends a request gives back what dispatching it took: its
\* share of the limits and its control block; so the limits hold (the request
\* that reaches one may pass it), and a control block is there for every
\* request dispatched.  The heap holds the classes that have something queued
\* (fair_queue.hh:234-274, reactor.cc:1078-1091 and 1179-1182).
BooksBalance ==
  /\ TypeOK
  /\ load = [requests |-> Cardinality(Executing),
             weight |-> WeightOf(Executing) % Unsigned,
             bytes |-> SizeOf(Executing) % Unsigned]
  /\ load.requests <= Capacity
  /\ load.weight < MaxReqCount \/ \E r \in Requests : load.weight < MaxReqCount + Weight(r)
  /\ free = MaxAio - load.requests
  /\ handles = {c \in Classes : queue[c] # <<>>}
  /\ queued = Total(Classes, [c \in Classes |-> Len(queue[c])])

\* Every request is answered, however long its class has been behind: other
\* classes may make requests for ever, the kernel may refuse or postpone it,
\* and shares may change (dispatch_requests(), fair_queue.hh:240-274; the
\* retries, reactor.cc:1121-1135).
RequestsAnswered ==
  \A r \in Requests : answer[r] = "none" ~> answer[r] # "none"
=============================================================================
