# A verification of the Seastar runtime

The repository collects notes on systems programming, and with them a full copy of
Seastar 18.08, the thread-per-core C++ framework, under
`rpc/seastar/seastar-18.08-branch/`. The notes hold no program; everything here is about
Seastar, and all paths below are relative to that directory.

A Seastar program runs one *reactor* per hardware thread (a *shard*). Within a shard
everything is cooperative: a task runs to its end, and concurrency is between tasks, that is
between the promises, continuations, timers and I/O completions that become ready in an
order nobody controls. Between shards there are no locks: work travels through queues of
single producers and single consumers, and the only shared words are a sleep flag per reactor
and the lists of the allocator. The models follow this: **one action is one run of a task (or
callback) to its end**, except where threads share memory (`SmpSleep`, and the list of foreign
frees in `Memory`), where one action is one access.

1. [Inventory](#1-inventory)
2. [Modules](#2-modules)
3. [Runs](#3-runs)
4. [Fairness](#4-fairness)
5. [Proofs](#5-proofs)
6. [Disagreements found](#6-disagreements-found)
7. [What is not covered](#7-what-is-not-covered)
8. [Plan](#8-plan)
9. [Using the project](#9-using-the-project)

## 1. Inventory

### Within a shard

| component | state | operations | what is hard | what makes it correct |
|---|---|---|---|---|
| semaphore, `expiring_fifo` (`core/semaphore.hh`, `core/expiring_fifo.hh`) | signed counter, list of waiters whose entries may have expired, exception once broken | `wait`, `try_wait`, `consume`, `signal`, `broken`, units that return themselves | expiry in the middle of the list; a counter below zero; newcomers between a signal and the continuation it woke | units conserved, FIFO, each waiter answered once, front of the list never expired |
| `shared_mutex` (`core/shared_mutex.hh`) | reader count, writer flag, queue | lock and unlock, shared and exclusive | `lock()` does not look at the queue; `wake()` pops a run of readers or one writer | exclusion, FIFO, nobody waits for a free mutex, no starvation |
| `rwlock`, `condition_variable`, `gate`, `queue`, `pipe`, `shared_future`, `stream`, `abort_source` (`core/*.hh`) | a semaphore, a counter, a buffer, or a list of callbacks | as the names say | closing while others wait | hand-over once, in order; close waits for all |
| futures and promises (`core/future.hh`) | value, exception or continuation | `then`, `set_value` | moves of the state within one call | resolved once |
| task queues (`core/reactor.cc` 475-535, `run_tasks`) | tasks and virtual run time of each scheduling group | activate, run, pre-empt | integer run times scaled by shares | no group starves |
| timers (`core/timer-set.hh`) | buckets by the highest bit that differs from the last expiry | insert, remove, expire | boundaries of buckets | a timer fires once, not early |

### Between shards and threads

| component | state | operations | what is hard | what makes it correct |
|---|---|---|---|---|
| sleep and wakeup (`core/reactor.cc` 2950-2968, 3284-3344, 3602-3617; `core/systemwide_memory_barrier.cc`; `core/alien.cc`) | the flag `_sleeping`, the queue indexes, a pending signal | push, `maybe_wakeup`, `try_enter_interrupt_mode`, `exit_interrupt_mode` | the sender has no fence: the sleeper makes all threads execute one | no item is slept on |
| `smp_message_queue` (`core/reactor.hh` 278-390, `core/reactor.cc` 3535-3690) | two local fifos, two bounded queues, a length counter | `submit`, two polls, `respond`, shutdown | partial batches; going to sleep with something unflushed; a full queue when the reactor stops | each function runs once, in order, and its future is resolved |
| alien queues (`core/alien.cc`) | a bounded queue with many producers | `run_on`, `submit_to` | as above, without responses | as above |
| allocator (`core/memory.cc`) | spans of pages by size, small pools with free lists and partly used spans, limits for reclaim, one list of foreign frees per shard | allocate, free, shrink, drain, reclaim, the reclaim task | reclaim frees and allocates in the middle of an allocation, of the same pool too; the list is pushed by all and taken by one | spans tile the memory, buddies are merged, no object lost or given out twice, reclaim resumes (it does not once its hook has thrown: section 6) |
| `sharded<>` (`core/sharded.hh`) | an instance per shard | `start`, `stop`, `invoke_on_all` | rests on `submit_to` | |

### Files

| component | state | operations | what is hard | what makes it correct |
|---|---|---|---|---|
| append-challenged files (`core/reactor.cc` 1531-1848, `core/file-impl.hh` 95-165) | committed and logical size, queue, two counters of operations in flight | read, write, flush, truncate, close | an operation's class depends on a size that other operations move; `ftruncate` ahead of the writes; partial writes and errors | what moves the end of file is alone; data acknowledged stays; all operations and `close()` end |
| I/O queue (`core/fair_queue.hh`, `core/reactor.cc` 1051-1347) | requests per priority class, accumulated cost, capacity in use, control blocks, the batches of the system call thread | queue, dispatch, submit, retry, complete, change shares | requests refused or taken in part by `io_submit`; EAGAIN retried in another thread; counts as `unsigned` | each request in one place and answered once, everything taken given back, every class served |
| streams on files (`core/fstream.cc`) | read-ahead and write-behind in flight | read, write, flush, close | errors of what runs ahead | order; close waits |

### Network and RPC

| component | state | operations | what is hard | what makes it correct |
|---|---|---|---|---|
| RPC client and send loop (`rpc/rpc.cc` 60-202, 560-696; `rpc/rpc_impl.hh`) | outgoing queue, outstanding replies, error flag, cancel functions that point into both | call, cancel, `stop`, send loop, reader, timers | everything races with everything: timer, cancel, reply, send loop, loss of the connection | a call ends once; what was withdrawn is not sent |
| RPC server (`rpc/rpc.cc` 700-986) | connection table, streams of each connection, memory semaphore, gate | accept, negotiate, register a stream with its parent, read, run, reply, `stop` | readers blocked on memory when a connection or the server ends; a parent that ends while its stream registers | memory bounded; streams are found by their parents; `stop()` waits for all it owns |
| RPC streams (`rpc/rpc.cc` 230-480, `rpc/rpc_impl.hh` 648-760, `core/queue.hh`) | a connection per stream, the frames queued at the reader, two bounds on memory, end marker, flags of what is closed | write, flush, close a sink; read, close a source; the connection's loops and its end | the two ends close in either order and live on other shards; a queue aborted with frames in it | order, end of stream last and once, both ends finish |
| native TCP (`net/tcp.hh`) | sequence numbers that wrap, data not acknowledged, data out of order, windows, four timers | connect, listen, send, receive a segment, poll for output, close | loss, reordering, duplication, zero windows, early timers | the byte stream arrives in order, then its end; it does arrive |
| the native stack below TCP (`net/ip.cc`, `net/arp.cc`, `net/udp.cc`) | fragments, address tables, channels | | timeouts | |
| posix stack, TLS, DNS, HTTP, drivers | wrappers and parsers | | | |

### How they interact

```
 callers --get_units()--> semaphore <--permits-- rpc server --gate--> handlers
 rpc client / server --send()--> send loop --condition variable (a semaphore)--> output stream
 any shard --submit()--> smp_message_queue --push, maybe_wakeup()--> sleep and wakeup
 file --enqueue()--> append-challenged queue --> io_queue (submit_to its shard) --> kernel aio
 sink --submit_to--> connection --send loop--> network --reader--> queue --submit_to--> source
 any thread --free_cross_cpu()--> list of a shard's allocator <--drain-- poller, maybe_reclaim()
 reactor::run() polls the smp queues, the alien queue, aio, epoll and timers
```

A component calls the one below and continues when its future is ready. `RpcServer` holds the
units of a semaphore across the life of a request (its variables `avail` and `waitq` are the
semaphore's counter and list); `SmpQueue` takes the wakeup of `SmpSleep` as one step; the
connections of `RpcStream` have the send loop of `RpcClient`, reduced to frames. Every component has an entry in PROJECT.json with its sources and with what is left out, and the
hazards are listed there at their lines.

## 2. Modules

| module | models | composed with |
|---|---|---|
| `Semaphore` | `basic_semaphore` over `expiring_fifo` | |
| `SharedMutex` | `shared_mutex` | |
| `SmpSleep` | sleep, wakeup, memory barrier | |
| `SubmitTo` | what `smp::submit_to()` promises | abstract specification of `SmpQueue` |
| `SmpQueue` | `smp_message_queue`, both sides | `INSTANCE SubmitTo` as refinement |
| `IoQueue` | `fair_queue`, `io_queue`, submission and retry of aio | with the system call thread and a kernel as environment |
| `AppendFile` | `append_challenged_posix_file_impl` | |
| `RpcClient` | `rpc::client`, the send loop | with a server and a network as environment |
| `RpcServer` | `rpc::server`, its connections, negotiation, streams, limits and gate | with the semaphore and the gate |
| `StreamChannel` | one direction of an rpc stream | abstract specification of `RpcStream` |
| `RpcStream` | sink, source and both connections of a stream | the two ends over a network; `INSTANCE StreamChannel` twice |
| `ByteStream` | one direction of a connection | abstract specification of `Tcp` |
| `Tcp` | the two control blocks of a connection | the two ends over a faulty network; `INSTANCE ByteStream` twice |
| `Memory` | `cpu_pages` and `small_pool` of a shard | with other threads that free its objects |
| `Sums` | sums of units, as sizes of sets | used by `Semaphore`, `AppendFile`, `RpcServer`, `IoQueue`, `Tcp` |
| `Locks_proofs` | proofs about `Semaphore` and `SharedMutex` | |
| `Smp_proofs` | proofs about `SmpQueue` and `SmpSleep` | |
| `Rpc_proofs` | proofs about `RpcClient` and `RpcServer` | |
| `AppendFile_proofs`, `IoQueue_proofs`, `RpcStream_proofs`, `Tcp_proofs` | proofs about one module each | |
| `DataFacts` | lemmas on queues, loops, sums and remainders | cited by the proofs |
| `MC...` | instances for TLC | `MCLocks` is one of `Semaphore` and of `SharedMutex` |

Two components that are proved in one module have no name in common: what would be `Init`, `Next`,
`Spec` or `TypeOK` twice is `MutexInit`, `SleepSpec`, `ClientTypeOK` and so on in `SharedMutex`,
`SmpSleep` and `RpcClient`.

### Semaphore

`count`, `ex`, `list` and `size` are `_count`, `_ex` and the two members of the fifo; `fut` is
the state of the future each fiber got. An entry has `live` (its payload is engaged) because
the code keeps expired entries in the middle of the list and drops them from the front only:
`Expire` is the timer callback, `DropExpiredFront` the clean-up it ends with, and `Signal` the
wake-up loop (`Popped` is how far it goes, `Woken` whom it answers). Between a promise being fulfilled and its
continuation (`RunContinuation`) other fibers run. `Return` is `~semaphore_units`, and `Broken`
leaves the counter at zero. `rwlock` is this module with readers that ask for one unit and
writers that ask for all.

### SharedMutex

`readers`, `writer` and `waiters` are the members; `st` is what each fiber does. `Wake` is
`wake()` with its loop unrolled: the leading run of readers, or a writer if nobody reads, or
nothing. The two unlock operations end in it, as in the code.

### SmpSleep

Threads share memory here, so an action is an access, and each thread has a store buffer
(`sbuf`, `rbuf`), the one reordering x86 does. A sender pushes (`Push`), reads the flag
(`LoadSleeping`), clears it (`ClearSleeping`) and signals (`Wakeup`), all without a fence; the
reactor raises the flag (`TryEnterInterruptMode`), has every thread execute a fence
(`BarrierStart`, `BarrierReaches`, `BarrierDone`), polls every queue once more (`PollQueue`),
and waits (`WaitAndProcess`). A signal that came early stays pending, as `epoll_pwait` unblocks
it atomically with the wait. The barrier may find no way to interrupt the others
(`BarrierFails`), and then the reactor stays awake. Of the other pollers only their effect is
kept: they may wake the reactor at any time (`EventEndsSleep`). Left out: `process_queue()` takes one item
and then the rest of what is visible (`reactor.cc` 3620-3640), which is one step here.

### SubmitTo and SmpQueue

`SmpQueue` has the two fifos (`fifo`, `doneFifo`), the two queues of bounded length
(`pending`, `completed`), and `curLen`, the unsigned length counter moved in `MovePending` by
the difference of two batches. The poll of either side is one action, in two forms: one that
goes on, and one that is the last before sleep, with the conditions under which the code counts
it as work (`SleepFrom` does not count requests it cannot flush, `SleepTo` does count
responses). A push wakes the other side. `After` says which functions wait for which: that is
how a caller can come to depend on a request that is stuck behind a full queue. `SetStopped`
and `Exit` are the end of the executing reactor.

`SubmitTo` has a sequence of functions not begun, the set running, the set ended and the set
whose futures are ready. The mapping hides batching, capacity and sleep:
`waiting` is `pending \o fifo`, and `ended` is what either response queue holds.

### IoQueue

`queue`, `accumulated` and `shares` are the members of a priority class, `handles` the heap of
`fair_queue`, `load` its three counters of what executes, `free` the control blocks.
`pending` is `_pending_aio`, `retry` is `_pending_aio_retry`, `batches` the work of the system
call thread and `submitted` what it has given back; `kernel` and `events` are the other side.
`Flush` to `FlushEnds` are `flush_pending_aio()`: first turns of `dispatch_requests()` (`Dispatch`,
`Dispatched`), then batches given to the kernel (`SubmitPending`) with every outcome of `io_submit`
the code handles: a part taken, the first request refused with EBADF, with EAGAIN, or with EINVAL
for a file system without the nowait flag, which turns the flag off for all. What is left is
submitted once more by the system call thread (`ThreadSubmits`) and examined in the reactor
(`RetrySubmitted`); `ProcessIo` takes the events and gives back. Counters are `unsigned`
and wrap at `Unsigned`; a request of that size counts as none. Accumulated cost decays with
time in the code (`normalize_stats` and an exponential); the model keeps the order of what
happened lately and forgets what is further back than `Window`. Left out: registration of
classes, and other error numbers of `io_submit`, which end the program in the flush.

### AppendFile

The file's own `committed` and `logical` sizes stand against `disk`, the size the kernel has;
data is the set of units `stored`, and `acked` remembers the writes that were acknowledged.
Every handler works on a record of the fields it touches and ends in `ProcessQueue`, which is
`optimize_queue()` (`Optimized`: `ftruncate` to the end of the queued writes, unless it fails),
the dispatch loop (`Dispatched`) and the check for the end of `close()` (both in `RunQueue`). A
vectored read is its position and the length of the buffers that fit (`FittingBuffers`): the
queue knows no more of it. The counter an
operation is counted on is fixed when it is dispatched. `Trims` is the `ftruncate` within a
flush. `KernelDone` completes, in part or with an error; `Complete` is the chain of
continuations: sizes, promise, counter, queue. `mode` ranges over the filesystems of
`make_file_impl()`.

### RpcClient

The fiber the constructor starts (`fiber`), the send loop (`loop`) and the user run
interleaved. A call (`Call`) puts a message into `queue` and a handler into `handlers`; its
future waits for both (`sent` and `outcome`). The loop has the states of a wait on a condition
variable with a predicate, because a message can expire or be cancelled after the predicate held
and before the continuation runs (`LoopFindsNothing`). `canSend` and `canWait` are the cancel
functions that a `cancellable` holds, one with an iterator into the queue, one with a key of the
table. The end of a connection is in the order of the code: error flag, condition variable
broken, send loop ended, queue cleared, stream closed, table cleared. The server reads, runs or
refuses in order and answers in any order.

### RpcServer

The accept loop, the readers and `stop()` are tasks of one shard. A connection that is accepted
negotiates (`Negotiate`): it stays a connection, is refused, or turns out to be a stream of an
earlier one (`NegotiateStream`). A stream is then found its parent by a message to the parent's
shard (`RegisterStream`), which succeeds if the parent is known and not ending; it leaves the
table `_conns`, is on the parent's list `streams`, and is taken off (`DeregisterStream`) by a
message again when it ends. Whether the server has a streaming domain at all is chosen at the
start (`domain`). `ClientConnects` makes the
future of `accept()` ready and `Accept` is its continuation, so `stop()` fits between. A request
goes from its reader through the wait for memory (`WaitForResources`) to the handler, the
reply and the return of its permit and of the gate; a closed gate or a broken semaphore takes
the path the code takes for that exception. `conn` is the state of a connection's reader and
`errors` is `_error`. `avail` and `waitq` are the semaphore, with the wake-up loop
(`PoppedWaiters`).

### StreamChannel and RpcStream

Each end has a sink with its calls under way (`sends`: `writer` is the fiber that uses the sink,
`ex` its stored exception), a source (`source` is the fiber in `operator()`, `bufs` what one
visit to the connection brought), and the connection between them: `loop` is the send loop,
`reader` the loop that reads frames (`held` is the one it is about to queue), `queue` the bounded
queue of frames with `aborted`, the rest its flags. The sink and the source may be on another
shard: what they ask travels by `submit_to()`, in order, so each call is a step that asks, one
at the connection and one of the answer (`Send`/`Sent`, `StreamReceive`/`Consume`). Both closes of
both ends occur in every order, and the network may break or the parent may stop (`MaxFaults`).

`StreamChannel` knows how many messages were given and got, and how the two sides ended. The
two instances, one per direction, are the refinement: no message is lost, repeated or overtaken
before the reader is told of the end, and the end is told only after close; the other outcome
is an error.

### ByteStream and Tcp

`tcb` holds the members of the control block under short names (`una`, `next`, `window`, `wl1`,
`wl2`, `unsent`, `data` for `unacknowledged.data`, `rnext`, `rdata`, `ooo` for the out-of-order
map, the timers). `BytesIn` and `FlightSize` count the bytes in `data`. `Receive` is the whole of the input path, `input_handle_listen_state()` to
`input_handle_other_state()` with every early return, and the output it calls; `Poll` is
`get_packet()` from the device, which builds at most one segment. The three timers
(`DelayedAckFires`, `RetransmitFires`, `PersistFires`) and the application (`Send`,
`CloseWrite`, `SendFin`, `Wait`, `Read`) are one action each. Sequence numbers are those of
a ring of `SeqSpace`, compared by signed difference as in the code. The network of an end is a
queue; a fault loses its first segment, repeats it, or lets a timer fire early, and what
overtakes it follows. `merge_out_of_order()` looks at a packet it has moved from
(`net/tcp.hh:1875-1876`): the model ends in `crashed` where the built program does so.

Left out: the congestion window, window scaling,
several connections, the backlog of a listener, aborts by the user, and giving up after five
retransmissions. In this code the congestion window bounds a single packet; what is in flight it bounds only
after the first and the second duplicate acknowledgment, to itself and two segments more (limited transfer,
`net/tcp.hh` 533-539). The model sends then what the receiver's window allows, which the code may hold back;
in the run that is two bytes and never more than the code allows.

### Memory

`cpu` is `cpu_mem` as one record: per page the fields of `struct page`; `spans`, the lists of
free spans; per pool `objs` (`_free`) and `spanList`; `xcpu`, the list other threads push on;
and what the limits say. An operation is one action and contains what it calls, so the nested
cases are real: `AllocateLarge` takes a span and then calls `MaybeReclaim`, which drains `xcpu`,
has the caches give up objects, and, if memory is still short, allocates the task of the reclaim
hook, all of which may change the very pool the allocation was made for. `Allocate` may put what
it gets into a cache, which is what a reclaimer finds. `Reallocate` allocates, with all that may
mean, before it frees the old object, which stays when nothing can be had. `FreeCrossCpu` reads the head of the list
and `CompareExchange` succeeds or reads it again.

The task of the hook may be more than there is memory for. Then `bad_alloc` goes through the whole
operation (`thrown`): nothing more is allocated, and the span that was taken goes to nobody. What
comes of it depends on who asked (`Outcomes`): `malloc()`, on which `realloc()` rests, and
`operator new(nothrow)` let no exception out, and the program has ended (`Ended`); `operator new` passes it on to
the program, which goes on with the limit off and no task. No invariant of run `memory` excuses either. Left
out are the memory of the exception object itself (`malloc`, or the emergency pool of the C++ runtime) and the growth of
the queue the task is put on.

## 3. Runs

Every cfg of a passing run checks for deadlock too. Safety and liveness share a run, without
symmetry, so that one exploration answers both.

| run | instance | distinct states | shows |
|---|---|---|---|
| `locks` | either a semaphore with 3 fibers, 2 units, requests of 1 and 2, consume of 3, or a `shared_mutex` with 5 fibers | 14,292 and 5,232 | `WaitListSound`, `UnitsConserved`, `FifoService`, every waiter is answered unless `consume()` never stops (`WaiterAnswered`); `Exclusion`, `NobodyStranded`, `MutexFifoService`, `NoStarvation` |
| `smp_sleep` | 2 senders, 2 pushes each, buffers of 2 | 55,727 | `NoLostWakeup`, `SleepIsAnnounced`; `PushedIsProcessed` with no help from other events |
| `smp_queue` | 4 functions, queues of 2, batches of 2 | 3,260 | `SleepIsSafe`, `ImplementsSubmitTo`; `SubmittedCompletes` even behind a full queue |
| `io_queue` | 3 requests in 2 classes, each made again and again, two control blocks | 27,946 | `InFlightOnce`, `BooksBalance`; every request is answered (`RequestsAnswered`) |
| `append_file` | 5 modes, 3 operations and a close, blocks of 2 units | 144,473 | `EofChangersAlone`, `AckedDataStays`; `OperationsComplete`, close included |
| `rpc_client` | 2 calls of every kind | 64,695 | `CancelFindsItsTarget`, `WithdrawnNeverRuns`, `OutcomeIsFinal`; `CallsEnd` |
| `rpc_server` | 2 connections, of which the second may be a stream, 2 requests, sizes 1 to 3, limit 2, with and without a streaming domain | 250,508 | `MemoryBounded`, `StreamsAreListed`, `HandlersEndBeforeStop`; `RequestsEnd`, and `stop()` ends |
| `rpc_stream` | 2 messages to the server, none back, both ends close; one fault, memory 2, queue 1 | 394,535 | `EosIsLast`, `ImplementsChannel`; `StreamEnds` |
| `tcp` | 3 bytes to the server, none back, window 2, one fault | 57,712 | `SenderKeepsUnacked`, `ImplementsByteStream`; `BothEnd` |
| `memory` | 7 pages, 2 pools, 2 live objects, 2 other threads | 198,264 | `PagesPartitioned`, `ObjectsAccounted`, `WatchEndsWithLoss` |

The two locks of `locks` have nothing in common; a behaviour is of the one or of the other, so the numbers of states
add up. Two more runs, `tcp_unread` and `memory_unwatched`, exhibit the disagreements of section 6.

The type invariant of a module is checked on its own (`locks` for the mutex, `smp_sleep`,
`rpc_server`) or is the first conjunct of another invariant.

Why the bounds are enough for the cases that matter:

* `locks`, semaphore: with two units and three fibers there is a request that needs all, one that
  needs half, and a third fiber for the middle of the list. An expired entry in the middle
  needs a live one before and behind it; `MaxSlots` = 4 leaves room for one expired entry more
  than fibers. Consuming three takes the counter below zero.
* `locks`, mutex: five fibers make a holder, two readers in a row, a writer, and another reader
  behind it.
* `smp_sleep`: the second sender is needed for a stale store of *false* that hides the next
  sleep from the first; two pushes per sender let a sleep fall between them; a buffer of two
  holds a push and a clear.
* `smp_queue`: queue and batch of two with four items fill the queue and leave items behind in
  the fifo; the first two items wait for the last, so the queue drains only if the stuck item
  gets through. `StopItem` is the third, so the stop races with the rest.
* `io_queue`: a class with two reads and one with a write make the classes compete and leave a
  backlog; with two control blocks and a limit of two a read and a write together pass a limit
  that two reads just reach. One read has a bad descriptor and the write is on a file system
  without the nowait flag, so each error of `io_submit` occurs at the head of a batch and behind
  it. The write has the length 0 as an unsigned number. Requests are made again for ever, so
  nothing is served because the others have run out.
* `append_file`: three operations are one that blocks, one that is blocked, and one behind it,
  or one that fails in between. Blocks of two units have unaligned ends of file; extents are
  within the file, at its end and past a hole; the buffer of the vector reaches
  across its end.
* `rpc_client`: the races are between one call and the rest of the system; the second call is
  there for order in the queue and for the loop's state when the first is withdrawn. The kinds
  cover every branch of `send_helper`.
* `rpc_server`: two requests of size 2 cannot run together under a limit of 2, so one waits for
  the other; size 3 is refused. Two connections let one fail while the other waits, or be the
  parent of the other. Connections and requests are numbered in the order in which they come:
  which is which does not matter.
* `rpc_stream`: memory for two messages and a queue of one block the sink and the reader
  separately; with one fault the network breaks or the parent stops at any moment, and without
  it both ends close in every order.
* `tcp`: three bytes and a window of two close the window with data left over, so the persist
  timer is needed; a segment has one byte; sequence numbers wrap within the data (the client
  starts at 30 of 32). One lost, repeated or overtaken segment, or one early timer, at any point of the
  connection, reaches all of the handshake, the transfer and the closing. Fast retransmission
  needs four segments in flight, that is a larger window, and is not reached.
* `memory`: with seven pages after the reserved one, spans of 1, 2 and 4 pages form and merge,
  and two objects use up the memory. Pool *b* has objects of a page and a half in spans of three
  pages (it gets four) or two, so that objects cross pages, spans are partly used, and the
  fallback is taken; pool *a* is also that of the reclaim task, so that its allocation nests in
  itself. Memory gets so full that the task of the hook fails, from `malloc` and from `operator new`, and the
  program goes on for any number of operations after the latter. With two threads a
  compare-and-exchange loses to the owner and to the other thread.

Each property of a passing run has a mutant: the definition `..._WhatIsWrong` next to a
definition is that definition with a plausible slip in the code, and with it the property is
violated. They are listed in PROJECT.json.

## 4. Fairness

Liveness is stated under what the code's scheduling provides, and no more.

* A ready task runs: `run()` loops over its task queues as long as there are tasks, which
  gives weak fairness of every continuation.
* Units and locks come back, because `with_semaphore`, `with_shared` and `with_lock` release in
  a `finally`; this takes user functions to end. Timers of a semaphore, `broken()` and new calls
  owe nothing, so no property rests on a timeout to help.
* `SmpSleep`: threads execute, store buffers drain, the kernel delivers signals and barrier
  interrupts. Processing of a queue is strongly fair: the reactor goes to sleep only from a
  loop that has polled its queues, so in a run in which an item is visible again and again it
  is taken. File descriptors and timers (`EventEndsSleep`) owe nothing: the sender's signal alone
  must do.
* `SmpQueue`: polls are strongly fair since sleep disables them, and `EventWakes` is weakly
  fair because `run()` arms a periodic timer of one second (the load timer, `reactor.cc`
  3226-3243). `SubmittedCompletes` really needs it: a submitter that goes to sleep on requests
  it could not flush is not woken by the executing side, which has no response to send while
  its functions wait for those requests. Without the timer that is a deadlock (this is the
  mutant of the property).
* `IoQueue`: every poller runs in each turn of the loop, so flushing, dispatch and submission
  are weakly fair. The continuation of a retry and `process_io` are strongly fair, since a
  flush under way can disable them again and again but not at the time the poller is called. The
  kernel ends what it took and does not answer EAGAIN to one request for ever (`ThreadServes`).
  Callers owe nothing and may make requests for ever.
* `AppendFile`: the kernel completes what it was given, and continuations run.
* `RpcClient`: timers fire; the kernel ends a connect, a write and, on a dead connection, a
  read. Servers, users and live connections owe nothing, which is why `CallsEnd` is stated for
  calls with a timeout and for connections that are down.
* `RpcServer`: handlers end, readers see the end of a stream
  after it is shut down, messages between connections arrive. A reply is written or fails, in the end: this
  presumes of each client that it reads what it is sent or that its connection breaks, since a client that
  stays connected and never reads fills the socket and holds up the send loop, with the memory of the
  requests behind it, for ever. Other than that clients owe nothing.
* `RpcStream`: ready tasks run and the network delivers or breaks. The writing fiber closes its
  sink and the reading fiber reads to the end or to an error, which is what `rpc.md` asks of the
  user; without it nothing need end.
* `Tcp`: the applications go on, segments arrive, delayed acknowledgments go out; an armed
  retransmission or persist timer fires, strongly, because the other traffic may arm it anew. At
  most `MaxFaults` segments are lost, so a segment sent again and again arrives.
* `Memory` states no liveness: reclaim ends within the operation, and that the reclaim task runs
  is fairness of the reactor; `WatchEndsWithLoss` says that there is one as long as it is needed,
  but for the case of section 6.

## 5. Proofs

Ten components are proved with TLAPS, for every value of their constants: 29 theorems over 398
lemmas, 20,605 obligations. The
proofs of all but one component have the same shape: a state predicate `IInv`, one lemma that `Init` establishes it,
one that every step preserves it, with a step or a lemma per action, and theorems that follow. Each `IInv` was an
invariant of a TLC run before it was proved.

| module | component | theorems | of the properties the run checks |
|---|---|---|---|
| `Locks_proofs` | `Semaphore` | `WaitListSoundHolds`, `UnitsConservedHolds`, `FifoServiceHolds` | all safety |
| | `SharedMutex` | `MutexTypeCorrect`, `ExclusionHolds`, `CountersMatchHolds`, `NobodyStrandedHolds`, `MutexFifoServiceHolds` | all safety |
| `Smp_proofs` | `SmpQueue` | `SleepIsSafeHolds`, `ImplementsSubmitToHolds` | all safety and the refinement |
| | `SmpSleep` | `SleepTypeCorrect`, `NoLostWakeupHolds`, `SleepIsAnnouncedHolds` | all safety |
| `AppendFile_proofs` | `AppendFile` | `EofChangersAloneHolds`, `AckedDataStaysHolds` | all safety |
| `IoQueue_proofs` | `IoQueue` | `InFlightOnceHolds`, `BooksBalanceHolds` | all safety |
| `Rpc_proofs` | `RpcClient` | `CancelFindsItsTargetHolds`, `WithdrawnNeverRunsHolds`, `OutcomeIsFinalHolds` | all safety |
| | `RpcServer` | `TypeCorrect`, `MemoryBoundedHolds`, `StreamsAreListedHolds`, `HandlersEndBeforeStopHolds` | all safety |
| `RpcStream_proofs` | `RpcStream` | `EosIsLastHolds`, `ImplementsChannelHolds` | all safety and the refinement |
| `Tcp_proofs` | `Tcp` | `SenderKeepsUnackedHolds` | all safety but the refinement |
| `DataFacts` | | (lemmas only) | |

`WaitListSoundHolds`, `SleepIsSafeHolds`, `EofChangersAloneHolds`, `CancelFindsItsTargetHolds`,
`InFlightOnceHolds`, `EosIsLastHolds` and `SenderKeepsUnackedHolds` are the type theorems of their
components too: the type invariant is a conjunct of the property.

**Semaphore** (any finite set of fibers, any count, amounts and bound `MaxSlots` on the list). Here the two
invariants of the run are inductive together. The wait list may hold expired entries, so all is
said by entries that are live: each pending promise is one live entry with the same amount, and
`size` counts them (`WaitersByEntry`, `WokenByEntry`). `PoppedIs` says where the loop of
`signal()` stops and why everybody it passes was covered by the counter; `ReturnWakes` is the
heart, the step in which units come back, entries leave in any mixture of live and expired, and
the sum of what is held must still be right. Sums are taken with `Total`. That the front never
expired is what `FifoService` rests on: `may_proceed()` tests whether the list is empty by its size,
and a list of size zero holds nobody (`NobodyWaits`).

**SharedMutex** (any finite set of fibers). `Exclusion` alone is not inductive: the code tests
`_readers` and `_writer`, not who holds the mutex, so the invariant must say that the counter is
the number of readers and the flag means a writer (`CountersMatch`), which in turn needs that
the queue holds each blocked fiber once (`WaitingIffQueued`: `wake()` adds one to the counter per
entry), and, because `lock()` ignores the queue, that nobody is queued on a free mutex
(`NobodyStranded`). The five are inductive together. The lemma `WakeRestores` is the heart: it
takes the state in which an unlock calls `wake()` to the invariant, whichever branch is taken;
`WokenAreDistinct` supplies the cardinality of the run of readers. `MutexFifoService` follows from
`WakeFromTheFront` and, for `lock()`, from `NobodyStranded`.

**SmpSleep** (any set of senders, pushes and depth of the store buffers). The invariant adds to
the types three facts: a buffered store of *false* belongs to a sender about to signal
(`ClearsSignal`); between the barrier and the end of the sleep the reactor's own buffer is empty
and the flag is up, or whoever took it down signals (`FlagIsSet`); and a push that the barrier
or the last poll did not reach has its waker under way (`MissedIsWoken`). The argument is that of
the comment in the code: the fence each sender executes splits its pushes into those the poll
sees and those after which the sender reads the flag as set.

**SmpQueue** (any functions, any dependence among them, any length of queue and batch).
`SleepIsSafe` compares the length counter with the capacity of the queue, and the code moves that
counter by differences of batches; so the invariant says what it counts (`CurLenCounts`), which
needs that an item is in one place at a time and there once (`InOnePlace`). With
`WaitingIsOnTheWay` (a future is not ready exactly while its item is somewhere) the same
invariant carries the refinement. `PushMoves` describes a push of a batch, and `RequestsMove`
and `ResponsesMove` the two directions of the poll. `NextRefines` then maps each action to one
of `SubmitTo` or to a stutter: the only visible steps are the submission, the beginning of the
functions of a batch, the end of one, and the resolution of the futures of a batch; flushing,
refused pushes, sleeping and waking are invisible.

**AppendFile** (any kinds of filesystem, alignment, sizes, extents, vectors and number of
operations). `EofChangersAlone` is not inductive: what is alone when it is dispatched stays alone
only because the counters, which are all that `may_dispatch()` looks at, count what is in flight
(`Counted`), by the class an operation had when it was dispatched and not the one it has
now (`Apart`). `AckedDataStays` needs to know where the true end of the file is while
the continuation that will record it has not run (`DiskFollows`), that a flush in the queue is one that
has to be alone (`FlushesAlone`), and that a completed write is in the file before it is
acknowledged (`DataKept`). All of it is stated of the record a handler works on (`FileOK`), so that
`ProcessQueueKeeps` can be proved once, for a queue any handler may leave, and used by all.
`OptimizedKeeps` is the `ftruncate` ahead of the writes, `StartedAreMany` the count of what one turn
of the loop starts, and `KernelDonePreserves` and `CompletePreserves` the two ends of an
operation.

**IoQueue** (any finite sets of requests and classes, any weights, limits and width of the counters, and
whatever part of a batch the kernel takes). The two properties are almost inductive together, once
each is read as sums. `InFlightOnce` says that a request without an answer is in one of seven places
once, so the proof counts (`Times`, `TimesInAll`: how often a request is in a sequence, or in a sequence
of batches) and shows that what leaves one count enters another (`OnceKept`, `BatchIsCut`,
`EventsSplit`). `BooksBalance` equates the three counters with totals over what executes, modulo the width
of an `unsigned` (`UnsignedSums`), and the heap with the classes that have a queue. Two facts had to be
added: what `io_submit` said of a batch is true of its first request when it is looked at later
(`Sound`), without which a request on a bad descriptor could be answered as if done; and the limit
is passed by one request at most (`Peak`), which bounds the counters while they are taken back.
`QueueRequestKeeps`, `DispatchKeeps` and `ReturnedKeeps` (the end of a request on every path that has one)
are the heart.

**RpcClient** (any set of calls of any kinds). The cancel functions act without a check, so
`CancelFindsItsTarget` is an equality between the functions and what they act on; it is not
inductive, since a message that was queued twice, or was in the queue and on its way, would keep
its cancel function too long or lose it too early. `QueuedOnce` rules that out, `MadeByCalls`
says that only calls that were made leave anything behind, and `LoopIsOff` that nothing is sent
before the connection is set up. `WithdrawTakesOut` is the erasure from the middle of the queue.
`OutcomeIsFinal` is proved of each step from the same invariant.

**RpcServer** (any connections, a finite set of requests, any limit). The bound on memory holds
because what is free and what the permits hold add up to the limit (`MemoryAccounted`), through
the wake-up loop, which gives units to several requests in one step (`PoppedIs`, `Released`), and
because the semaphore's list is exactly the set of requests that wait (`WaitersListed`).
A reader stands still while its request waits, so the state of a connection and of the
request it reads determine each other (`ReadersWait`); without it a connection could end with its
request left in the list. `StreamsAreListed` needs that a stream is a child of one connection,
which was negotiated before it, and that it never carries requests (`Families`), and that the future of
`accept()` stands for a connection not in use (`AcceptedIsNew`). Most actions are calm for two of the
three parts: `MemoryCalm`, `FamiliesCalm` and `ReaderMoves` say so once.

**RpcStream** (any numbers of messages, any memory and length of the queue, any number of faults). What an end
has still to be given is looked at as one sequence, its `Path`: what its source holds, the queue,
the frame in the hands of its reader, the network. `Delivered` says that the path goes on in order from what was
got, up to the end mark, as far as some message k; `Sending`, that the sender's calls go on
from k: those answered, the one being written, those queued, those not yet at the connection, each in
its turn unless there was an error. Most steps move a frame along the path or a call along its turns
and leave k as it is; only `Written` moves a frame from one to the other (`WrittenKeeps`).
`SinkSound` and `SourceSound` are about one end. `EosIsLast` needs the latter: the end mark takes
all of the memory, so it is alone where it is queued (`TakenByEos`). The refinement of `StreamChannel`
follows (`EachStepIsOneMove`, `NextRefines`): in each direction a step is one of its five actions or a
stutter, and the end is told only with everything got, because the path has the end mark after message
`given` and the source has come to it (`EosReached`). A frame lost with its queue leads to the error and
never to the end.

**Tcp** (any numbers of bytes, segment size, window, initial sequence numbers, and up to five
faults). The proof is not about sequence numbers but about places: the SYN of an
end has place 0, its bytes 1, 2, 3 and so on; `Places` says that the signed comparisons of the code compare
places as long as those are less than half of the ring, which `TcpAssumption` requires of a whole connection.
(So a connection that sends more than half of `SeqSpace` is not covered; within that, numbers wrap at any point.)
`SenderKeepsUnacked` depends on what the network holds, since an acknowledgment that was not true, or was no
longer true, would drop data. So the invariant says of every segment under way or queued that it is `Sound`:
its bytes are those of its places, it acknowledges no more than its sender has taken, and the edge of
its window is one that the receiver of data has, or had before it closed. What is true of a
segment stays true as its ends go on (`GoesOn`), which is why segments that are repeated, delayed or overtaken do
no harm. Of the ends it says what a control block is before it is established (`Opening`), how what is given and
not acknowledged is laid out in segments and what is still to be sent (`Sender`, `Layout`), what the last update of the window was
(`WindowUpdates`: an old segment may not close or open it), and how the two ends are linked
(`Link`: what is acknowledged was taken, what was taken was sent, what is in flight fits). `Handshake`
says that nothing but SYNs is about until the client has heard the server. There is a lemma for each
action. Receiving is split as the code is: a segment is taken from the network, its
acknowledgment (`AckFieldKept`, which contains the recovery, the window and the FIN that is acknowledged), its
text with what waits out of order (`TextKept`), its FIN (`FinKept`), and the output this leads to
(`OutputResembles`), put together in `TakenKept` and `ThroughKept`; `GreetedKept` and `ListenedKept` are the handshake,
`DeadKept` a reset. As the theorem has no hypothesis on the applications, it also holds of a server that is not
`Polite`.

**DataFacts** holds what these proofs have in common: what the operations on queues do to the set of
elements and to the absence of repetition (`ToSetOfAppend`, `...Tail`, `...RemoveAt`, `...Parts`, `...Concat`), that
a loop over a queue has a place where it stops (`LoopStops`), remainders (`SameRemainder`,
`RemainderOf`: the provers do not know them for a modulus that is a constant of the model), and sums. A sum defined
by recursion or by a fold is out of the prover's reach, because what it computes is known by induction
over its definition; so `Sums` defines the sum of w[x] over x as the number of pairs of an x and
one of its w[x] units. Sums of that kind are what the semaphores of the code count, TLC
evaluates them, and the library's facts about cardinality give `TotalOfUnion`, `TotalOfAdded`,
`TotalOfChanged` and the others.

The assumptions are those named in the modules (`SemaphoreAssumption`, `SharedMutexAssumption`,
`SmpSleepAssumption`, `SmpQueueAssumption`, `AppendFileAssumption`, `IoQueueAssumption`, `RpcClientAssumption`,
`RpcServerAssumption`, `RpcStreamAssumption`, `TcpAssumption`); TLC evaluates them in the runs. They say that constants are numbers and
sets of the right kind; that the fibers of a semaphore or a mutex, the requests of a server and the requests and
classes of a disk are
finitely many, as `_size`, `_readers`, the memory and the loads count them; that the two ends of a connection are two,
and the three frames of a stream that are no messages are three; that `NoCall` is no call and `None` no connection or request;
that the limit of the server covers an answer to an
unknown verb (section 6); that an io queue hands out no more requests than there are control blocks
(`Capacity <= MaxAio`), as the configuration does; and, for `Tcp`, that the places of a connection are below
half of `SeqSpace`, and that there are at most five faults, so that the code does not give the
connection up, which is not in the model.

Only model-checked:

* all liveness, which is beyond the prover, and so what rests on fairness (section 4);
* `Memory`: its recursive operator, as the allocator allocates while it allocates, and the loops over
  lists and powers of two it is made of would need induction over data, which is not to be had; the
  prover cannot be used with a module that has a recursive operator at all;
* `ImplementsByteStream` of `Tcp`. It does not hold for every value of the constants: with a server that is not
  `Polite` the bytes of section 6 are lost, and the end is told without them. The run has a polite
  one. What a theorem would need beyond `SenderKeepsUnacked` is what has been read and what waits to be read,
  byte by byte, and which states of the two ends go together when both close.

## 6. Disagreements found

Two runs expect a violation; each is a finding in PROJECT.json with the line it contradicts.

`tcp_unread`: a client that has closed its output gets the last byte and the FIN of the server;
the connection enters TIME_WAIT, whose `cleanup()` clears the received data, and the
application reads a clean end of stream without the byte that was acknowledged.

`memory_unwatched`: an allocation leaves less free memory than the limit, `schedule_reclaim()` sets the limit to zero and
calls the hook, and there is no memory for the task that would put it back (`core/memory.cc` 1024-1037,
`core/reactor.cc` 581-585). The exception goes through `small_pool::allocate()`, which
"should not throw in case of running out of memory" (1084). `malloc()` would end the program;
`operator new` passes it on, the program handles it, frees, and allocates again, but the limit stays zero
and reclaimers are no longer invoked when free memory is low, which `core/memory.hh:214` says they are.
They still are when an allocation finds no span at all. The span that was being allocated is
lost; run `memory` shows that this happens once at most, that nothing else is lost with
it, and that no other path leaves the limit off (`WatchEndsWithLoss`, `PagesPartitioned`, `ObjectsAccounted`).

These the models describe as the code has them, without a run of their own:

| where | what happens |
|---|---|
| `core/semaphore.hh:105` | The waiter at the front times out; the next one, which the counter now covers, is not woken until somebody signals. |
| `core/reactor.cc:3575` | A reactor that stops with its response queue full leaves its loop with the last response in the local fifo, where it stays. |
| `rpc/rpc.cc:944-949` | Without a streaming domain all connections have one id, and the table keeps the first: `stop()` does not know of the others. |
| `rpc/rpc.cc:737`, `934` | A connection whose `accept()` was ready when `stop()` ran is entered afterwards and outlives the server; a stream, which has left the table, is not waited for either. |
| `rpc/rpc.cc:680` | When a connection ends, the frames queued at its reader are dropped, the end of stream among them: a source fails although both ends closed in good order. |
| `net/tcp.hh:1502` | In CLOSE_WAIT the input path returns before the output at 1543, so data that waits for the window of the peer stays (the comment at 1307 has it otherwise). This is why the server of run `tcp` is `Polite`: it closes only after the end of its input, so that the client is not in CLOSE_WAIT with data to send. |

Seen while reading and not modelled:

* files and I/O: a vectored read past the end of file keeps the length of the excess in place of
  what remains, so that a buffer of 6 units on a file of 4 reads 2 (`core/reactor.cc:1698`); the
  vectored read of a posix file is built as a plain read into the array of
  buffers (`core/reactor.cc:1425`); `generate_config` tests the bandwidth where it sets the
  request count and the other way round (4113-4118); EINVAL that is not about nowait makes the
  flush spin, and the length of a request is truncated to `unsigned` so that reads of 32 MB and
  more count as nothing (the latter is in the model);
* aliens and `rwlock`: a full batch from aliens is padded past the end of its array
  (`core/alien.cc:75`); `rwlock` ignores the timeout of its hold functions (`core/rwlock.hh:150`);
* rpc: a cancellable that moves while its message is written leaves a pointer into a freed entry
  (`rpc/rpc_types.hh:143`); the time left of a call is a signed difference sent unsigned
  (`rpc/rpc.cc:109`); `client::stop()` after a compressor threw leaves the socket open
  (`rpc/rpc.cc:589`); the future of an entry that the send queue throws away succeeds
  (`rpc/rpc.cc:135`), so that `sink.close()` may succeed with nothing sent; `doc/rpc.md:67` says
  streams close with their parent, which only the client does. The answer to an unknown verb
  takes 28 units of memory, so a server whose `max_memory` is below that would wait for ever; the
  model assumes a larger limit;
* tcp: giving up after five retransmissions tells no waiter (1974, 1933); `zero_window_probing_out`
  is one byte and wraps; the persist timer is not stopped by `cleanup()` and goes on with
  nothing to send; `read()` opens the window without telling the peer; after a reset a reader that
  was not waiting reads a clean end; `_pending` of a listener does not come down when a half-open
  connection is reset; a stale acknowledgment may open a closed window again (1418); the loss of the
  first segment never leads to a fast retransmission (1398);
* allocator: `_pages_in_use` goes up by the pages asked for (1139) and down by those of the span
  (1173), which differ for pools that prefer a span that is no power of two; it is only used in the
  report of a failure. `do_resize` leaves the new `page` entries as they are while
  `grow_span` looks at them. `shrink` to nothing does not end. Objects of a shard whose thread
  has ended are lost, as the comment says. `allocate_aligned` gives a small request a size that is a power
  of two but not its alignment (1261), and `allocate_large_aligned` ignores the alignment (630), so
  `posix_memalign` aligns to no more than the size; `memalign` rounds the size up first (1592).

## 7. What is not covered

* Allocation failure: Seastar handles `bad_alloc` in many places; `Memory` has the failure itself
  and its way through the allocator, no other module has its handling.
* Data: values and exceptions carried by futures, serialization, compression, buffers. A message
  is a model value or a number; a file is a set of written units; all frames have one size.
* Time: a timer fires at any moment. Arithmetic on durations is out; in `IoQueue` what time does to
  the accumulated cost is replaced by a window.
* `Semaphore` does not move units between objects (`split`, `adopt`) and `SmpQueue` leaves out
  scheduling groups.
* `RpcClient` has one connection, established in one step and without streams; the send loop of
  `RpcServer` is that of `RpcClient`, reduced to replies that are written or thrown away; in
  `RpcStream` the return of memory for frames and the visit to a connection on the other shard are
  one step. The streams of `RpcServer` carry nothing.
* `Tcp`: see the section on the module. Under a window this small a segment that overlaps what
  is known in part does not occur.
* `Memory`: growth at start, aligned allocation, the heap profiler, statistics, the memory of exceptions.
* Components with status `not_modelled`: see PROJECT.json. Those that only move bytes to a
  device or a library (drivers, TLS, DNS, metrics), parse or format (HTTP, JSON), or wrap others
  (`sharded<>`, `condition_variable`) are not planned.

## 8. Plan

Done, in this order: `Semaphore` and `SharedMutex` (everything waits on them), `SmpSleep` and
`SmpQueue` (the only concurrency between shards), `AppendFile`, `RpcClient`, `RpcServer`; then
`IoQueue`, `RpcStream` over `StreamChannel`, `Tcp` over `ByteStream`, the negotiation and the
streams of `RpcServer`, and `Memory`.

Modules that could follow:

1. `GateQueuePipe`: gate, queue and pipe as used together by the streams.
2. `TaskQueues`: shares and virtual run time of the scheduler.
3. `TimerSet`, as a pure algorithm against a reference definition.
4. Read-ahead and write-behind of file streams (`core/fstream.cc`).

Proved, in this order: `SharedMutex` and `SmpSleep`; then the lemmas on data, `RpcClient`, `SmpQueue` with
its refinement, `Semaphore`, `AppendFile`, `RpcServer`; then `IoQueue`, `RpcStream` with its refinement, and
`Tcp`. Next would be that what a reader of `Tcp` has got is a prefix of what was given, from
`TextSound` and the link of the two ends, which give it for what is read in order and leave what waits out of order;
and, for `Memory`, a version of `AllocateLarge` without recursion, whose partition of pages could then
be proved for spans of any sizes.

## 9. Using the project

```
tlc -workers 2 -config RpcClient.cfg MCRpcClient.tla      # a run
tlapm Locks_proofs.tla                                    # a proof
```

The runs, their modules and cfgs are listed in PROJECT.json under `runs`. The longest,
`append_file`, `rpc_stream` and `rpc_server`, take two to three minutes with two workers, `tcp`,
`io_queue` and `memory` about one, the others less. Of the proofs from nothing, that of
`Tcp` takes about twelve minutes, that of `RpcStream` seven, `IoQueue` and `Rpc_proofs` two to
three, the others up to two.
