------------------------------ MODULE RpcStream ------------------------------
(***************************************************************************)
(* A stream of Seastar RPC: sink and source at both ends                   *)
(* (rpc/rpc_impl.hh), over a connection of their own (rpc/rpc.cc,          *)
(* rpc/rpc.hh) with its send loop, its reader and the queue of frames      *)
(* (core/queue.hh) between the reader and the source.                      *)
(*                                                                         *)
(* The sink and the source of an end may live on another shard than its    *)
(* connection: what they ask of it travels by submit_to(), in order, and   *)
(* so do the answers.  The connection is established and negotiated.       *)
(* Messages are numbered; all have size 1.                                 *)
(***************************************************************************)
EXTENDS Integers, Sequences, FiniteSets, SequencesExt, Sums

CONSTANTS
  Client, Server,      \* the two ends
  Messages,            \* how many messages the fiber of each end sends
  Memory,              \* max_stream_buffers_memory
  MaxQueued,           \* max_queued_stream_buffers
  Eos,                 \* a frame of length -1U, the end of the stream
  EofMark,             \* the marker stream_receive() puts back
  Fin,                 \* the end of the peer's output
  MaxFaults            \* how often the network fails or the stream's parent stops

Ends == {Client, Server}

ASSUME RpcStreamAssumption ==
  /\ Client # Server
  /\ Messages \in [Ends -> Nat]
  /\ Cardinality({Eos, EofMark, Fin}) = 3 /\ {Eos, EofMark, Fin} \cap Nat = {}
  /\ Memory \in Nat \ {0} /\ MaxQueued \in Nat \ {0}
  /\ MaxFaults \in Nat

VARIABLES
  given,       \* how many messages the writing fiber has passed to its sink
  writer,      \* that fiber: "open", "closing" in sink::close(), "closed"
  ex,          \* sink::impl::_ex, set or not
  sends,       \* the calls of the sink on its connection, until their answer
  got,         \* how many messages the reading fiber has been given
  source,      \* the fiber in source_impl::operator()
  bufs,        \* source::impl::_bufs
  loop,        \* send_loop()
  reader,      \* the loop that reads frames
  held,        \* the frame it is about to queue
  queue,       \* _stream_queue
  aborted,     \* the queue's _ex
  error,       \* _error
  sinkClosed,  \* _sink_closed
  sourceClosed,\* _source_closed
  closing,     \* stream_close(): "no", "flushing" in _write_buf.close(), "stopping"
  stopped,     \* _stopped
  shut,        \* the directions of the socket that are shut down
  net,         \* the frames under way to each end
  broken,      \* the network has failed
  faults       \* how many faults there were

app == <<given, writer, got>>
sink == <<ex, sends>>
src == <<source, bufs>>
frames == <<reader, held, queue, aborted>>
closed == <<sinkClosed, sourceClosed, closing, stopped>>
socket == <<shut, net, broken, faults>>
vars == <<app, sink, src, loop, frames, error, closed, socket>>

Peer(e) == IF e = Client THEN Server ELSE Client

\* A call of the sink: on its way to the connection; in _outgoing_queue; being
\* written; its future ready, without or with an exception; and for close(),
\* waiting for stream_close().
SendState == {"called", "queued", "writing", "sent", "failed", "closing"}

Init ==
  /\ given = [e \in Ends |-> 0] /\ writer = [e \in Ends |-> "open"]
  /\ ex = [e \in Ends |-> FALSE] /\ sends = [e \in Ends |-> <<>>]
  /\ got = [e \in Ends |-> 0] /\ source = [e \in Ends |-> "idle"]
  /\ bufs = [e \in Ends |-> <<>>]
  /\ loop = [e \in Ends |-> "waiting"]
  /\ reader = [e \in Ends |-> "reading"] /\ held = [e \in Ends |-> Fin]
  /\ queue = [e \in Ends |-> <<>>] /\ aborted = [e \in Ends |-> FALSE]
  /\ error = [e \in Ends |-> FALSE]
  /\ sinkClosed = [e \in Ends |-> FALSE] /\ sourceClosed = [e \in Ends |-> FALSE]
  /\ closing = [e \in Ends |-> "no"] /\ stopped = [e \in Ends |-> FALSE]
  /\ shut = [e \in Ends |-> {}] /\ net = [e \in Ends |-> <<>>] /\ broken = FALSE
  /\ faults = 0

-----------------------------------------------------------------------------
(* Closing *)

\* connection::abort().
Abort(e) ==
  /\ error' = [error EXCEPT ![e] = TRUE]
  /\ shut' = IF error[e] THEN shut ELSE [shut EXCEPT ![e] = @ \cup {"input"}]

\* close_sink() and close_source() with both closed: stream_close().
StreamClose(e) ==
  /\ closing' = [closing EXCEPT ![e] = IF error[e] THEN "stopping" ELSE "flushing"]

\* _write_buf.close() is done, and stop() follows.
WriteBufClosed(e) ==
  /\ closing[e] = "flushing"
  /\ closing' = [closing EXCEPT ![e] = "stopping"]
  /\ error' = [error EXCEPT ![e] = TRUE]
  /\ shut' = [shut EXCEPT ![e] = @ \cup {"output"} \cup (IF error[e] THEN {} ELSE {"input"})]
  /\ net' = IF "output" \in shut[e] \/ broken THEN net ELSE [net EXCEPT ![Peer(e)] = Append(@, Fin)]
  /\ UNCHANGED <<app, sink, src, loop, frames, sinkClosed, sourceClosed, stopped, broken, faults>>

\* stop_send_loop() and what comes after it: the send loop has ended and so has
\* a close of the output; what is left in the queue is thrown away, which makes
\* the futures of send() ready.
StopSendLoop(e) ==
  /\ reader[e] = "ended" /\ loop[e] = "ended" /\ ~stopped[e]
  /\ closing[e] # "flushing"
  /\ sends' = [sends EXCEPT ![e] =
                [i \in DOMAIN @ |->
                  IF @[i].state = "queued" THEN [@[i] EXCEPT !.state = "sent"] ELSE @[i]]]
  /\ stopped' = [stopped EXCEPT ![e] = TRUE]
  /\ UNCHANGED <<app, ex, src, loop, frames, error, sinkClosed, sourceClosed, closing, socket>>

-----------------------------------------------------------------------------
(* The sink *)

\* sink_impl::operator(): with room for the message, an exception if a call
\* before failed, and else a call on the connection.
Write(e) ==
  /\ writer[e] = "open"
  /\ given[e] < Messages[e]
  /\ Len(sends[e]) < Memory
  /\ ~ex[e]
  /\ given' = [given EXCEPT ![e] = @ + 1]
  /\ sends' = [sends EXCEPT ![e] = Append(@, [msg |-> given[e] + 1, state |-> "called"])]
  /\ UNCHANGED <<writer, got, ex, src, loop, frames, error, closed, socket>>

\* sink_impl::close(): it waits for all the memory.  The fiber closes when it
\* has sent its messages, or one was refused.
CloseSink(e) ==
  /\ writer[e] = "open"
  /\ given[e] = Messages[e] \/ ex[e]
  /\ sends[e] = <<>>
  /\ writer' = [writer EXCEPT ![e] = "closing"]
  /\ sends' = [sends EXCEPT ![e] = <<[msg |-> Eos, state |-> "called"]>>]
  /\ UNCHANGED <<given, got, ex, src, loop, frames, error, closed, socket>>

\* The call arrives at the connection: send(), unless there was an error.
Send(e) ==
  \E i \in DOMAIN sends[e] :
    /\ sends[e][i].state = "called"
    /\ \A j \in 1..(i - 1) : sends[e][j].state # "called"
    /\ sends' = [sends EXCEPT ![e][i].state =
                  IF error[e] \/ (sends[e][i].msg = Eos /\ ex[e]) THEN "failed" ELSE "queued"]
    /\ UNCHANGED <<app, ex, src, loop, frames, error, closed, socket>>

\* The answer of operator()'s call: its memory comes back.
Sent(e) ==
  \E i \in DOMAIN sends[e] :
    /\ sends[e][i].state \in {"sent", "failed"}
    /\ sends[e][i].msg # Eos
    /\ ex' = [ex EXCEPT ![e] = @ \/ sends[e][i].state = "failed"]
    /\ sends' = [sends EXCEPT ![e] = RemoveAt(@, i)]
    /\ UNCHANGED <<app, src, loop, frames, error, closed, socket>>

\* The end of the stream is sent, or was refused: close_sink().
EosSent(e) ==
  \E i \in DOMAIN sends[e] :
    /\ sends[e][i].msg = Eos
    /\ sends[e][i].state \in {"sent", "failed"}
    /\ sinkClosed' = [sinkClosed EXCEPT ![e] = TRUE]
    /\ \/ /\ sourceClosed[e]
          /\ StreamClose(e)
          /\ sends' = [sends EXCEPT ![e][i].state = "closing"]
          /\ UNCHANGED writer
       \/ /\ ~sourceClosed[e]
          /\ sends' = [sends EXCEPT ![e] = <<>>]
          /\ writer' = [writer EXCEPT ![e] = "closed"]
          /\ UNCHANGED closing
    /\ UNCHANGED <<given, got, ex, src, loop, frames, error, sourceClosed, stopped, socket>>

-----------------------------------------------------------------------------
(* The send loop *)

Queued(e) == {i \in DOMAIN sends[e] : sends[e][i].state = "queued"}

\* The continuation of wait(): it writes even if there was an error meanwhile.
LoopTakes(e) ==
  /\ loop[e] = "waiting"
  /\ \E i \in Queued(e) :
       /\ \A j \in Queued(e) : i <= j
       /\ sends' = [sends EXCEPT ![e][i].state = "writing"]
  /\ loop' = [loop EXCEPT ![e] = "writing"]
  /\ UNCHANGED <<app, ex, src, frames, error, closed, socket>>

\* stop_send_loop() breaks the condition variable.
LoopBroken(e) ==
  /\ loop[e] = "waiting"
  /\ Queued(e) = {} /\ reader[e] = "ended"
  /\ loop' = [loop EXCEPT ![e] = "ended"]
  /\ UNCHANGED <<app, sink, src, frames, error, closed, socket>>

\* The write ends or fails; either way the entry is destroyed, and its future
\* is ready.
Written(e) ==
  \E i \in DOMAIN sends[e] :
    /\ sends[e][i].state = "writing"
    /\ sends' = [sends EXCEPT ![e][i].state = "sent"]
    /\ \/ /\ ~broken /\ "output" \notin shut[e]
          /\ net' = [net EXCEPT ![Peer(e)] = Append(@, sends[e][i].msg)]
          /\ loop' = [loop EXCEPT ![e] = IF error[e] THEN "ended" ELSE "waiting"]
          /\ UNCHANGED error
       \/ /\ broken \/ "output" \in shut[e]
          /\ error' = [error EXCEPT ![e] = TRUE]
          /\ loop' = [loop EXCEPT ![e] = "ended"]
          /\ UNCHANGED net
    /\ UNCHANGED <<app, ex, src, frames, closed, shut, broken, faults>>

-----------------------------------------------------------------------------
(* The reader of the connection *)

\* What a frame takes from _stream_sem: the end of the stream, of size -1U,
\* takes all of it.
FrameSize(f) == IF f = Eos THEN Memory ELSE IF f = EofMark THEN 0 ELSE 1

\* What the frames of s take.
Taken(s) == Total(DOMAIN s, [i \in DOMAIN s |-> FrameSize(s[i])])

Used(e) ==
  Taken(queue[e]) + Taken(bufs[e]) + (IF reader[e] = "room" THEN FrameSize(held[e]) ELSE 0)

\* Mutant: abort() of the queue forgets the promise in _not_empty.
ReaderEnds_WaiterKept(e) ==
  /\ reader' = [reader EXCEPT ![e] = "ended"]
  /\ error' = [error EXCEPT ![e] = TRUE]
  /\ queue' = [queue EXCEPT ![e] = <<>>]
  /\ aborted' = [aborted EXCEPT ![e] = TRUE]
  /\ shut' = [shut EXCEPT ![e] = @ \cup (IF e = Server THEN {"input", "output"} ELSE {"output"})]
  /\ net' = IF "output" \in shut[e] \/ broken THEN net ELSE [net EXCEPT ![Peer(e)] = Append(@, Fin)]
  /\ UNCHANGED source

\* The loop of process() or of the client ends: the queue is aborted and
\* stop_send_loop() shuts the output down.
ReaderEnds(e) ==
  /\ reader' = [reader EXCEPT ![e] = "ended"]
  /\ error' = [error EXCEPT ![e] = TRUE]
  /\ queue' = [queue EXCEPT ![e] = <<>>]
  /\ aborted' = [aborted EXCEPT ![e] = TRUE]
  /\ source' = [source EXCEPT ![e] = IF @ = "waiting" THEN "refused" ELSE @]
  /\ shut' = [shut EXCEPT ![e] = @ \cup (IF e = Server THEN {"input", "output"} ELSE {"output"})]
  /\ net' = IF "output" \in shut[e] \/ broken THEN net ELSE [net EXCEPT ![Peer(e)] = Append(@, Fin)]

ReadFrame(e) ==
  /\ reader[e] = "reading"
  /\ net[e] # <<>> /\ Head(net[e]) # Fin
  /\ held' = [held EXCEPT ![e] = Head(net[e])]
  /\ net' = [net EXCEPT ![e] = Tail(@)]
  /\ reader' = [reader EXCEPT ![e] = "memory"]
  /\ UNCHANGED <<app, sink, src, loop, queue, aborted, error, closed, shut, broken, faults>>

ReadEof(e) ==
  /\ \/ reader[e] = "leaving"
     \/ /\ reader[e] = "reading"
        /\ \/ net[e] # <<>> /\ Head(net[e]) = Fin
           \/ broken
           \/ "input" \in shut[e]
  /\ ReaderEnds(e)
  /\ UNCHANGED <<app, sink, bufs, loop, held, closed, broken, faults>>

\* push_eventually() with room; it wakes the source, and do_until() looks at
\* its condition.
Push(e) ==
  /\ queue' = [queue EXCEPT ![e] = Append(@, held[e])]
  /\ held' = [held EXCEPT ![e] = Fin]
  /\ reader' = [reader EXCEPT ![e] = IF error[e] THEN "leaving" ELSE "reading"]
  /\ source' = [source EXCEPT ![e] = IF @ = "waiting" THEN "ready" ELSE @]

\* Mutant: a frame is queued without its memory.
ProcessIncoming_NoMemory(e) ==
  /\ reader[e] = "memory"
  /\ \/ /\ Len(queue[e]) < MaxQueued
        /\ Push(e)
     \/ /\ Len(queue[e]) >= MaxQueued
        /\ reader' = [reader EXCEPT ![e] = "room"]
        /\ UNCHANGED <<queue, held, source>>
  /\ UNCHANGED <<app, sink, bufs, loop, aborted, error, closed, socket>>

\* stream_process_incoming(): get_units() of _stream_sem, and the frame is
\* pushed, or waits for room.
ProcessIncoming(e) ==
  /\ reader[e] = "memory"
  /\ Used(e) + FrameSize(held[e]) <= Memory
  /\ \/ /\ Len(queue[e]) < MaxQueued
        /\ Push(e)
     \/ /\ Len(queue[e]) >= MaxQueued
        /\ reader' = [reader EXCEPT ![e] = "room"]
        /\ UNCHANGED <<queue, held, source>>
  /\ UNCHANGED <<app, sink, bufs, loop, aborted, error, closed, socket>>

PushEventually(e) ==
  /\ reader[e] = "room"
  /\ Len(queue[e]) < MaxQueued
  /\ Push(e)
  /\ UNCHANGED <<app, sink, bufs, loop, aborted, error, closed, socket>>

-----------------------------------------------------------------------------
(* The source *)

\* source_impl::operator() with something in _bufs.
Read(e) ==
  /\ source[e] = "idle"
  /\ bufs[e] # <<>>
  /\ got' = [got EXCEPT ![e] = Head(bufs[e])]
  /\ bufs' = [bufs EXCEPT ![e] = Tail(@)]
  /\ UNCHANGED <<given, writer, sink, source, loop, frames, error, closed, socket>>

\* Without: stream_receive() on the connection.
StreamReceive(e) ==
  /\ source[e] = "idle"
  /\ bufs[e] = <<>>
  /\ source' = [source EXCEPT ![e] =
                 IF aborted[e] THEN "refused" ELSE IF queue[e] # <<>> THEN "ready" ELSE "waiting"]
  /\ UNCHANGED <<app, sink, bufs, loop, frames, error, closed, socket>>

\* close_source(), and the reading fiber gets result when it is done.
CloseSource(e, result) ==
  /\ sourceClosed' = [sourceClosed EXCEPT ![e] = TRUE]
  /\ \/ /\ sinkClosed[e]
        /\ StreamClose(e)
        /\ source' = [source EXCEPT ![e] = IF result = "eof" THEN "ending" ELSE "failing"]
     \/ /\ ~sinkClosed[e]
        /\ source' = [source EXCEPT ![e] = result]
        /\ UNCHANGED closing

AtEos(s) == s # <<>> /\ Last(s) \in {Eos, EofMark}

\* The frames before the end of the stream, the last frame if it is there.
DataFrames(s) == IF AtEos(s) THEN Front(s) ELSE s

\* The continuation in stream_receive() takes all there is.  The marker goes
\* back if there was data before it.
Consume(e) ==
  /\ source[e] = "ready"
  /\ ~aborted[e]
  /\ bufs' = [bufs EXCEPT ![e] = DataFrames(queue[e])]
  /\ \/ /\ DataFrames(queue[e]) # <<>>
        /\ queue' = [queue EXCEPT ![e] = IF AtEos(@) THEN <<EofMark>> ELSE <<>>]
        /\ source' = [source EXCEPT ![e] = "idle"]
        /\ UNCHANGED <<sourceClosed, closing>>
     \/ /\ DataFrames(queue[e]) = <<>>
        /\ queue' = [queue EXCEPT ![e] = <<>>]
        /\ CloseSource(e, "eof")
  /\ UNCHANGED <<app, sink, loop, reader, held, aborted, error, sinkClosed, stopped, socket>>

\* Mutant: an aborted queue is taken for the end of the stream.
ReceiveFails_AsEof(e) ==
  /\ source[e] = "refused" \/ (source[e] = "ready" /\ aborted[e])
  /\ CloseSource(e, "eof")
  /\ UNCHANGED <<app, sink, bufs, loop, frames, error, sinkClosed, stopped, socket>>

\* The queue was aborted before that.
ReceiveFails(e) ==
  /\ source[e] = "refused" \/ (source[e] = "ready" /\ aborted[e])
  /\ CloseSource(e, "failed")
  /\ UNCHANGED <<app, sink, bufs, loop, frames, error, sinkClosed, stopped, socket>>

\* stop() in stream_close() is ready: whoever closed last goes on.
CloseDone(e) ==
  /\ closing[e] = "stopping"
  /\ stopped[e]
  /\ \/ /\ source[e] \in {"ending", "failing"}
        /\ source' = [source EXCEPT ![e] = IF @ = "ending" THEN "eof" ELSE "failed"]
        /\ UNCHANGED <<sends, writer>>
     \/ /\ \E i \in DOMAIN sends[e] : sends[e][i].state = "closing"
        /\ sends' = [sends EXCEPT ![e] = <<>>]
        /\ writer' = [writer EXCEPT ![e] = "closed"]
        /\ UNCHANGED source
  /\ UNCHANGED <<given, got, ex, bufs, loop, frames, error, closed, socket>>

-----------------------------------------------------------------------------
(* The environment *)

NetworkBreaks ==
  /\ faults < MaxFaults
  /\ faults' = faults + 1
  /\ ~broken
  /\ broken' = TRUE
  /\ UNCHANGED <<app, sink, src, loop, frames, error, closed, shut, net>>

\* abort_all_streams(), when the client of the stream's parent ends.
ParentStops ==
  /\ faults < MaxFaults
  /\ faults' = faults + 1
  /\ ~error[Client]
  /\ Abort(Client)
  /\ UNCHANGED <<app, sink, src, loop, frames, closed, net, broken>>

Ended(e) == writer[e] = "closed" /\ source[e] \in {"eof", "failed"} /\ stopped[e]

\* Nothing is left to do.
AtRest ==
  /\ \A e \in Ends : Ended(e)
  /\ UNCHANGED vars

Connection(e) ==
  \/ Send(e) \/ Sent(e) \/ EosSent(e)
  \/ LoopTakes(e) \/ LoopBroken(e) \/ Written(e)
  \/ ReadFrame(e) \/ ReadEof(e) \/ ProcessIncoming(e) \/ PushEventually(e)
  \/ StreamReceive(e) \/ Consume(e) \/ ReceiveFails(e)
  \/ WriteBufClosed(e) \/ StopSendLoop(e) \/ CloseDone(e)

Next ==
  \/ \E e \in Ends : Write(e) \/ CloseSink(e) \/ Read(e) \/ Connection(e)
  \/ NetworkBreaks \/ ParentStops
  \/ AtRest

Spec == Init /\ [][Next]_vars

\* Ready tasks run; the two fibers of an end go on, the writer closes its sink
\* and the reader reads until it is told to stop; the network delivers.
Fairness ==
  \A e \in Ends :
    /\ WF_vars(Write(e)) /\ WF_vars(CloseSink(e)) /\ WF_vars(Read(e))
    /\ WF_vars(Send(e)) /\ WF_vars(Sent(e)) /\ WF_vars(EosSent(e))
    /\ WF_vars(LoopTakes(e) \/ LoopBroken(e) \/ Written(e))
    /\ WF_vars(ReadFrame(e) \/ ReadEof(e) \/ ProcessIncoming(e) \/ PushEventually(e))
    /\ WF_vars(StreamReceive(e) \/ Consume(e) \/ ReceiveFails(e))
    /\ WF_vars(WriteBufClosed(e)) /\ WF_vars(StopSendLoop(e)) /\ WF_vars(CloseDone(e))

FairSpec == Spec /\ Fairness

-----------------------------------------------------------------------------
(* Properties *)

Frames == Nat \cup {Eos, EofMark, Fin}

TypeOK ==
  /\ given \in [Ends -> Nat] /\ got \in [Ends -> Nat]
  /\ writer \in [Ends -> {"open", "closing", "closed"}]
  /\ ex \in [Ends -> BOOLEAN]
  /\ sends \in [Ends -> Seq([msg : Nat \cup {Eos}, state : SendState])]
  /\ source \in [Ends -> {"idle", "waiting", "ready", "refused",
                          "ending", "failing", "eof", "failed"}]
  /\ bufs \in [Ends -> Seq(Nat)]
  /\ loop \in [Ends -> {"waiting", "writing", "ended"}]
  /\ reader \in [Ends -> {"reading", "memory", "room", "leaving", "ended"}]
  /\ held \in [Ends -> Frames] /\ queue \in [Ends -> Seq(Frames \ {Fin})]
  /\ aborted \in [Ends -> BOOLEAN] /\ error \in [Ends -> BOOLEAN]
  /\ sinkClosed \in [Ends -> BOOLEAN] /\ sourceClosed \in [Ends -> BOOLEAN]
  /\ closing \in [Ends -> {"no", "flushing", "stopping"}]
  /\ stopped \in [Ends -> BOOLEAN]
  /\ shut \in [Ends -> SUBSET {"input", "output"}]
  /\ net \in [Ends -> Seq(Frames \ {EofMark})] /\ broken \in BOOLEAN
  /\ faults \in 0..MaxFaults

\* What a reading fiber in state s has been told of the stream.
Outcome(s) ==
  IF s \in {"eof", "ending"} THEN "eof"
  ELSE IF s \in {"failed", "failing"} THEN "failed" ELSE "open"

ToServer == INSTANCE StreamChannel WITH
  Messages <- Messages[Client],
  given <- given[Client],
  writer <- IF writer[Client] = "open" THEN "open" ELSE "closing",
  got <- got[Server],
  reader <- Outcome(source[Server])

ToClient == INSTANCE StreamChannel WITH
  Messages <- Messages[Server],
  given <- given[Server],
  writer <- IF writer[Server] = "open" THEN "open" ELSE "closing",
  got <- got[Client],
  reader <- Outcome(source[Client])

\* Both directions are channels: messages arrive in order, none is missing when
\* the end of the stream is reported, whatever fails in between (rpc_impl.hh:
\* 648-735 over rpc.cc:410-465).
ImplementsChannel == ToServer!Spec /\ ToClient!Spec

\* What the assertion of stream_receive() (rpc.cc:460) and the limits rest on:
\* the end of the stream is alone when it is queued, with nothing behind it,
\* and the frames an end holds are within its memory and its queue.
EosIsLast ==
  /\ TypeOK
  /\ \A e \in Ends :
       /\ \A i \in DOMAIN queue[e] :
            queue[e][i] \in {Eos, EofMark} => /\ i = Len(queue[e])
                                              /\ reader[e] \notin {"memory", "room"}
       /\ Used(e) <= Memory
       /\ Len(queue[e]) <= MaxQueued

\* Both fibers of both ends come to an end and the connections stop, in
\* whichever order the four closes happen and whatever breaks: nobody waits
\* for memory, room, a frame, an answer or a stop that does not come
\* (connection::stream_close(), rpc.cc:410-421, with stop_send_loop(),
\* rpc.cc:128-141).
StreamEnds == <>(\A e \in Ends : Ended(e))
=============================================================================
