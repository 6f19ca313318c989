------------------------------ MODULE AppendFile ------------------------------
(***************************************************************************)
(* append_challenged_posix_file_impl (core/reactor.cc, core/file-impl.hh): *)
(* the queue that orders asynchronous operations on one file, because "a   *)
(* write that changes eof will be blocked by any other concurrent AIO      *)
(* operation to the same file".  The file keeps two sizes of its own, what *)
(* the kernel has (_committed_size) and what the user has written          *)
(* (_logical_size), and grows the file ahead of the writes with ftruncate. *)
(*                                                                         *)
(* Sizes count units of which Align make a DMA block.  Data is abstracted  *)
(* to the set of units that have been written.                             *)
(***************************************************************************)
EXTENDS Integers, SequencesExt, FiniteSets, Sums

CONSTANTS
  Modes,        \* [sloppy, exclusive, concurrency] of make_file_impl()
  Align,        \* _disk_write_dma_alignment, _disk_read_dma_alignment
  InitialSize,  \* size of the file when it is opened
  SizeHint,     \* file_open_options::sloppy_size_hint
  Extents,      \* <<pos, len>> of reads and writes
  Lengths,      \* arguments of truncate()
  Vectors,      \* <<pos, iov>> of vectored reads
  MaxOps        \* bound of the model: operations issued

ASSUME AppendFileAssumption ==
  /\ Modes \subseteq [sloppy : BOOLEAN, exclusive : BOOLEAN, concurrency : {0, 1}]
  /\ Align \in Nat \ {0}
  /\ InitialSize \in Nat /\ SizeHint \in Nat /\ MaxOps \in Nat
  /\ Extents \subseteq Nat \X Nat /\ Lengths \subseteq Nat
  /\ Vectors \subseteq Nat \X Seq(Nat)

VARIABLES
  mode,        \* _sloppy_size, _fsync_is_exclusive, _max_size_changing_ops
  committed,   \* _committed_size
  logical,     \* _logical_size
  q,           \* _q, the operations not dispatched
  inflight,    \* operations dispatched whose continuation has not run
  sizeCh,      \* _current_size_changing_ops
  nonSize,     \* _current_non_size_changing_ops
  done,        \* _done
  completed,   \* _completed is fulfilled
  closed,      \* close() has closed the descriptor
  disk,        \* the size the kernel has
  stored,      \* units of the file that hold written data
  acked,       \* units of writes that have been acknowledged
  issued       \* number of operations issued

kernel == <<disk, stored>>
vars == <<mode, committed, logical, q, inflight, sizeCh, nonSize, done, completed,
          closed, disk, stored, acked, issued>>

Max2(a, b) == IF a >= b THEN a ELSE b
Min2(a, b) == IF a <= b THEN a ELSE b
AlignUp(n) == ((n + Align - 1) \div Align) * Align

\* An operation.
NewOp(type, pos, len) ==
  [id |-> issued + 1, type |-> type, pos |-> pos, len |-> len]
End(o) == o.pos + o.len

\* The constructor: the sloppy size hint is allocated unless ftruncate fails.
Init ==
  /\ mode \in Modes
  /\ logical = InitialSize
  /\ \/ committed = InitialSize
     \/ mode.sloppy /\ InitialSize < AlignUp(SizeHint) /\ committed = AlignUp(SizeHint)
  /\ disk = committed
  /\ stored = 0..(InitialSize - 1)
  /\ acked = stored
  /\ q = <<>>
  /\ inflight = {}
  /\ sizeCh = 0 /\ nonSize = 0
  /\ done = FALSE /\ completed = FALSE /\ closed = FALSE
  /\ issued = 0

-----------------------------------------------------------------------------
(* The queue.  A handler works on a record f of the fields it reads and      *)
(* writes, and leaves them to process_queue() as the last thing it does.     *)

File == [q |-> q, inflight |-> inflight, committed |-> committed, logical |-> logical,
         sizeCh |-> sizeCh, nonSize |-> nonSize, done |-> done, disk |-> disk, stored |-> stored]

\* Mutant: only a truncate has to be alone.
MustRunAlone_TruncateOnly(o) == o.type = "truncate"

MustRunAlone(o) ==
  o.type = "truncate" \/ (o.type = "flush" /\ (mode.exclusive \/ mode.sloppy))

SizeChanging(o, c) == (o.type = "write" /\ End(o) > c) \/ MustRunAlone(o)

\* Mutant: a write that grows the file does not wait for operations within it.
MayDispatch_IgnoresOthers(f, j) ==
  f.sizeCh = 0 /\ \A i \in 1..(j - 1) : ~SizeChanging(f.q[i], f.committed)

\* may_dispatch() of the j-th operation, those before it dispatched already.
MayDispatch(f, j) ==
  /\ f.sizeCh = 0
  /\ \A i \in 1..(j - 1) : ~SizeChanging(f.q[i], f.committed)
  /\ SizeChanging(f.q[j], f.committed) => f.nonSize = 0 /\ j = 1

\* How many operations the loop of process_queue() takes off the queue.
Dispatched(f) ==
  CHOOSE k \in 0..Len(f.q) :
    /\ \A j \in 1..k : MayDispatch(f, j)
    /\ k < Len(f.q) => ~MayDispatch(f, k + 1)

\* The writes that grow the file, ahead of anything that must run alone.
Appending(f) ==
  {j \in 1..Len(f.q) :
     /\ \A i \in 1..j : ~MustRunAlone(f.q[i])
     /\ f.q[j].type = "write" /\ End(f.q[j]) > f.committed}

\* When optimize_queue() calls ftruncate().
MayExtend(f) ==
  /\ f.sizeCh = 0 /\ f.nonSize = 0
  /\ \/ Cardinality(Appending(f)) > mode.concurrency
     \/ mode.sloppy /\ Appending(f) # {}

SpeculativeSize(f) ==
  LET ends == {End(f.q[j]) : j \in Appending(f)}
      last == CHOOSE e \in ends : \A x \in ends : x <= e
  IN  IF mode.sloppy /\ last < 2 * f.committed THEN AlignUp(2 * f.committed) ELSE last

Extended(f, size) == [f EXCEPT !.committed = size, !.disk = size]

\* optimize_queue(): what f may be after it.  If ftruncate fails, the next write
\* will pick it up.
Optimized(f) == {f} \cup (IF MayExtend(f) THEN {Extended(f, SpeculativeSize(f))} ELSE {})

\* dispatch(): the counter an operation is counted on is fixed here.
Dispatch(o, c, state) ==
  [op |-> o, counter |-> IF SizeChanging(o, c) THEN "size" ELSE "non", state |-> state, ret |-> 0]

\* A flush trims the file to what has been written before it syncs.
Trims(f, o) == o.type = "flush" /\ f.logical # f.committed

MayQuit(f) == f.done /\ f.q = <<>> /\ f.sizeCh = 0 /\ f.nonSize = 0

\* The loop of process_queue(), and the end of a close() that waited for it,
\* when optimize_queue() has left g.
RunQueue(g) ==
  LET k == Dispatched(g)
      started == {g.q[j] : j \in 1..k}
      size == Cardinality({o \in started : SizeChanging(o, g.committed)})
      h == [g EXCEPT !.q = SubSeq(@, k + 1, Len(@)), !.sizeCh = @ + size, !.nonSize = @ + (k - size)]
      trims == \E o \in started : Trims(g, o)
      flights(state) == g.inflight \cup {Dispatch(o, g.committed, state) : o \in started}
  IN  /\ q' = h.q /\ sizeCh' = h.sizeCh /\ nonSize' = h.nonSize /\ logical' = h.logical
      /\ completed' = (completed \/ MayQuit(h))
      /\ done' = (h.done /\ ~MayQuit(h))
      /\ \/ /\ ~trims
            /\ committed' = g.committed /\ disk' = g.disk /\ stored' = g.stored
            /\ inflight' = flights("submitted")
         \/ /\ trims
            /\ committed' = g.logical /\ disk' = g.logical
            /\ stored' = g.stored \cap 0..(g.logical - 1)
            /\ inflight' = flights("submitted")
         \/ /\ trims
            /\ committed' = g.committed /\ disk' = g.disk /\ stored' = g.stored
            /\ inflight' = flights("failed")

\* process_queue() takes the variables from f to their values after it.
ProcessQueue(f) == \E g \in Optimized(f) : RunQueue(g)

-----------------------------------------------------------------------------
(* What the user calls *)

Enqueue(o) ==
  /\ ~done /\ ~completed
  /\ issued < MaxOps
  /\ issued' = issued + 1
  /\ ProcessQueue([File EXCEPT !.q = Append(@, o)])
  /\ UNCHANGED <<mode, closed, acked>>

\* A read at or past the end returns at once; another asks for no more than
\* the blocks that hold the file.
Read(pos, len) ==
  /\ pos < logical
  /\ Enqueue(NewOp("read", pos, Min2(pos + len, AlignUp(logical)) - pos))

\* The loop of the vectored read_dma(): how many buffers fit before the end.
FittingBuffers(pos, iov) ==
  LET fits(k) == pos + Total(1..k, iov) <= logical
  IN  CHOOSE n \in 0..Len(iov) : fits(n) /\ (n < Len(iov) => ~fits(n + 1))

\* The vectored read_dma(): the operation is as long as the buffers that fit.
ReadVector(pos, iov) ==
  /\ pos < logical
  /\ Enqueue(NewOp("read", pos, Total(1..FittingBuffers(pos, iov), iov)))

Write(pos, len) == Enqueue(NewOp("write", pos, len))

\* flush() goes straight to the disk unless it has to be alone.
Flush ==
  /\ mode.exclusive \/ (mode.sloppy /\ logical # committed)
  /\ Enqueue(NewOp("flush", 0, 0))

Truncate(length) == Enqueue(NewOp("truncate", length, 0))

\* close(), operations pending or not.
Close ==
  /\ ~done /\ ~completed
  /\ ProcessQueue([File EXCEPT !.done = TRUE])
  /\ UNCHANGED <<mode, closed, acked, issued>>

\* The continuation of close() trims the file and closes the descriptor.
FinishClose ==
  /\ completed /\ ~closed
  /\ closed' = TRUE
  /\ \/ /\ logical # committed
        /\ committed' = logical /\ disk' = logical
        /\ stored' = stored \cap 0..(logical - 1)
     \/ UNCHANGED <<committed, disk, stored>>
  /\ UNCHANGED <<mode, logical, q, inflight, sizeCh, nonSize, done, completed, acked, issued>>

-----------------------------------------------------------------------------
(* The kernel, and the continuations *)

\* The kernel completes the operation of d, in part, in full or with an error.
KernelDone(d) ==
  /\ d.state = "submitted"
  /\ \/ /\ d.op.type = "write"
        /\ \E ret \in {n \in 1..d.op.len : n % Align = 0} \cup {d.op.len} :
             /\ disk' = Max2(disk, d.op.pos + ret)
             /\ stored' = stored \cup d.op.pos..(d.op.pos + ret - 1)
             /\ inflight' = (inflight \ {d}) \cup {[d EXCEPT !.state = "done", !.ret = ret]}
     \/ /\ d.op.type = "truncate"
        /\ disk' = d.op.pos
        /\ stored' = stored \cap 0..(d.op.pos - 1)
        /\ inflight' = (inflight \ {d}) \cup {[d EXCEPT !.state = "done"]}
     \/ /\ d.op.type \in {"read", "flush"}
        /\ inflight' = (inflight \ {d}) \cup {[d EXCEPT !.state = "done"]}
        /\ UNCHANGED kernel
     \/ /\ inflight' = (inflight \ {d}) \cup {[d EXCEPT !.state = "failed"]}
        /\ UNCHANGED kernel
  /\ UNCHANGED <<mode, committed, logical, q, sizeCh, nonSize, done, completed, closed, acked, issued>>

\* commit_size() after a write
CommitSize(d, f) ==
  [f EXCEPT !.committed = Max2(@, d.op.pos + d.ret), !.logical = Max2(@, d.op.pos + d.ret)]

\* truncate() sets both sizes.
SetSize(d, f) == [f EXCEPT !.committed = d.op.pos, !.logical = d.op.pos]

\* Mutant: an operation that failed does not run the queue.
Complete_FailedStops(d) ==
  /\ d.state \in {"done", "failed"}
  /\ LET f == [File EXCEPT !.inflight = @ \ {d},
                           !.sizeCh = IF d.counter = "size" THEN @ - 1 ELSE @,
                           !.nonSize = IF d.counter = "non" THEN @ - 1 ELSE @]
     IN  \/ /\ d.state = "failed"
            /\ acked' = acked
            /\ inflight' = f.inflight /\ sizeCh' = f.sizeCh /\ nonSize' = f.nonSize
            /\ UNCHANGED <<committed, logical, q, done, completed, disk, stored>>
         \/ /\ d.state = "done"
            /\ acked' = acked
            /\ ProcessQueue(f)
  /\ UNCHANGED <<mode, closed, issued>>

\* The continuations of an operation: the sizes, the caller's promise, the
\* counter, and the queue.
Complete(d) ==
  /\ d.state \in {"done", "failed"}
  /\ LET f == [File EXCEPT !.inflight = @ \ {d},
                           !.sizeCh = IF d.counter = "size" THEN @ - 1 ELSE @,
                           !.nonSize = IF d.counter = "non" THEN @ - 1 ELSE @]
     IN  \/ /\ d.state = "done" /\ d.op.type = "write"
            /\ acked' = acked \cup d.op.pos..(d.op.pos + d.ret - 1)
            /\ ProcessQueue(CommitSize(d, f))
         \/ /\ d.state = "done" /\ d.op.type = "truncate"
            /\ acked' = acked \cap 0..(d.op.pos - 1)
            /\ ProcessQueue(SetSize(d, f))
         \/ /\ d.state = "failed" \/ d.op.type \in {"read", "flush"}
            /\ acked' = acked
            /\ ProcessQueue(f)
  /\ UNCHANGED <<mode, closed, issued>>

-----------------------------------------------------------------------------

User ==
  \/ \E e \in Extents : Read(e[1], e[2]) \/ Write(e[1], e[2])
  \/ \E v \in Vectors : ReadVector(v[1], v[2])
  \/ \E n \in Lengths : Truncate(n)
  \/ Flush
  \/ Close

\* Nothing happens to a closed file.
Closed == closed /\ UNCHANGED vars

System == FinishClose \/ \E d \in inflight : KernelDone(d) \/ Complete(d)

Next == User \/ System \/ Closed

Spec == Init /\ [][Next]_vars

\* The kernel completes what it is given and continuations run.
FairSpec == Spec /\ WF_vars(System)

-----------------------------------------------------------------------------
(* Properties *)

TypeOK ==
  /\ mode \in Modes
  /\ committed \in Nat /\ logical \in Nat /\ disk \in Nat
  /\ sizeCh \in 0..1 /\ nonSize \in Nat /\ issued \in 0..MaxOps
  /\ sizeCh = Cardinality({d \in inflight : d.counter = "size"})
  /\ nonSize = Cardinality({d \in inflight : d.counter = "non"})

Submitted == {d \in inflight : d.state = "submitted"}

\* file-impl.hh:98, "a write that changes eof will be blocked by any other
\* concurrent AIO operation to the same file": a write past the end the kernel
\* has, a truncate or an exclusive flush is the only operation there is.
EofChangersAlone ==
  /\ TypeOK
  /\ \A d \in Submitted :
       (d.op.type = "write" /\ End(d.op) > disk) \/ MustRunAlone(d.op) => inflight = {d}

\* Data of an acknowledged write stays in the file, whatever ftruncate() the
\* queue issues, until the user truncates it, and size() reaches as far.  While
\* an exclusive flush syncs, the file holds what was written and no more.
AckedDataStays ==
  /\ \A u \in acked : u < logical
  /\ (\A d \in inflight : d.state = "done" => d.op.type # "truncate") => acked \subseteq stored
  /\ \A d \in Submitted : d.op.type = "flush" => disk = logical

\* Every operation issued is completed, after errors of others too, and close()
\* ends: it closes the descriptor only when nothing uses it.
OperationsComplete ==
  /\ q # <<>> \/ inflight # {} ~> q = <<>> /\ inflight = {}
  /\ done ~> closed /\ q = <<>> /\ inflight = {}

=============================================================================
