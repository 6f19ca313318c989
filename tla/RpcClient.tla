------------------------------ MODULE RpcClient ------------------------------
(***************************************************************************)
(* rpc::client and the sending half of rpc::connection (rpc/rpc.cc,        *)
(* rpc/rpc.hh, rpc/rpc_impl.hh), of one connection and on one shard, with  *)
(* the network and the server as its environment.                          *)
(*                                                                         *)
(* A call queues a message and registers a reply handler; its future is    *)
(* when_all() of the two.  The send loop, the reader, timers and the       *)
(* user's cancel() race for both.  A message is identified with its call,  *)
(* as message ids are never reused.                                        *)
(***************************************************************************)
EXTENDS Integers, Sequences, FiniteSets, SequencesExt

CONSTANTS
  Calls,   \* the calls the user makes
  Kinds,   \* the kinds of call it makes, see Kind
  NoCall   \* no call

Kind == {"plain",        \* waits for a reply
         "timed",        \* so, with a timeout
         "late",         \* so, with a timeout that has passed already
         "cancellable",  \* so, with a cancellable
         "oneway"}       \* its handler is of no_wait_type

ASSUME RpcClientAssumption == Kinds \subseteq Kind /\ NoCall \notin Calls

VARIABLES
  kind,      \* the kind of each call, "none" before it is made
  fiber,     \* where the fiber of the client's constructor is
  error,     \* _error
  netDown,   \* the connection is shut down or lost
  queue,     \* _outgoing_queue
  loop,      \* where the send loop is
  writing,   \* the call whose message the send loop has taken
  handlers,  \* _outstanding
  sent,      \* the calls whose send() future is ready
  outcome,   \* the reply future of each call
  canSend,   \* the calls whose cancellable has a cancel_send
  canWait,   \* the calls whose cancellable has a cancel_wait
  wire,      \* messages on their way to the server
  serving,   \* calls the server has to reply to
  ran,       \* calls the server has run the handler of
  replies,   \* replies on their way to the client
  withdrawn  \* history: calls taken off the queue before the send loop did

sending == <<queue, loop, writing, sent, canSend>>
waiting == <<handlers, outcome, canWait>>
remote == <<wire, serving, ran, replies>>
clientVars == <<kind, fiber, error, netDown, sending, waiting, remote, withdrawn>>

Outcome == {"none", "pending", "value", "exception", "timeout", "canceled", "closed"}

FiberState == {"connecting", "reading", "draining", "flushing", "stopped"}

\* "off": not started; "test": at do_until; "blocked": in the condition
\* variable; "signalled": woken, the predicate is still to be evaluated;
\* "ready": the predicate held, the continuation has not run.
LoopState == {"off", "test", "blocked", "signalled", "ready", "writing", "done"}

ClientInit ==
  /\ kind = [c \in Calls |-> "none"]
  /\ fiber = "connecting" /\ error = FALSE /\ netDown = FALSE
  /\ queue = <<>> /\ loop = "off" /\ writing = NoCall /\ sent = {} /\ canSend = {}
  /\ handlers = {} /\ canWait = {}
  /\ outcome = [c \in Calls |-> "none"]
  /\ wire = <<>> /\ serving = {} /\ ran = {} /\ replies = {}
  /\ withdrawn = {}

Queued == ToSet(queue)

-----------------------------------------------------------------------------
(* The user *)

\* send() of a message, and the signal to the send loop.
Send(c, k) ==
  \/ /\ k = "late"
     /\ sent' = sent \cup {c}
     /\ UNCHANGED <<queue, loop, writing, canSend>>
  \/ /\ k # "late"
     /\ queue' = Append(queue, c)
     /\ canSend' = IF k = "cancellable" THEN canSend \cup {c} ELSE canSend
     /\ loop' = IF loop = "blocked" THEN "signalled" ELSE loop
     /\ UNCHANGED <<sent, writing>>

\* wait_for_reply(), which does nothing for a handler of no_wait_type.
WaitForReply(c, k) ==
  \/ /\ k = "oneway"
     /\ outcome' = [outcome EXCEPT ![c] = "value"]
     /\ UNCHANGED <<handlers, canWait>>
  \/ /\ k # "oneway"
     /\ outcome' = [outcome EXCEPT ![c] = "pending"]
     /\ handlers' = handlers \cup {c}
     /\ canWait' = IF k = "cancellable" THEN canWait \cup {c} ELSE canWait

Call(c, k) ==
  /\ kind[c] = "none"
  /\ kind' = [kind EXCEPT ![c] = k]
  /\ \/ /\ error
        /\ outcome' = [outcome EXCEPT ![c] = "closed"]
        /\ sent' = sent \cup {c}
        /\ UNCHANGED <<queue, loop, writing, canSend, handlers, canWait>>
     \/ /\ ~error
        /\ Send(c, k)
        /\ WaitForReply(c, k)
  /\ UNCHANGED <<fiber, error, netDown, remote, withdrawn>>

\* The entry of c, if any, leaves the queue: its destructor makes the send()
\* future ready and takes cancel_send back.
Withdraw(c) ==
  /\ canSend' = canSend \ {c}
  /\ UNCHANGED <<loop, writing>>
  /\ \/ /\ c \notin Queued
        /\ UNCHANGED <<queue, sent, withdrawn>>
     \/ \E i \in DOMAIN queue :
          /\ queue[i] = c
          /\ queue' = RemoveAt(queue, i)
          /\ sent' = sent \cup {c}
          /\ withdrawn' = withdrawn \cup {c}

\* The handler of c, if any, is resolved with o and destroyed, which takes
\* cancel_wait back.
Resolve(c, o) ==
  /\ outcome' = IF c \in handlers THEN [outcome EXCEPT ![c] = o] ELSE outcome
  /\ handlers' = handlers \ {c}
  /\ canWait' = canWait \ {c}

\* cancellable::cancel(), or its destructor.
Cancel(c) ==
  /\ c \in canSend \cup canWait
  /\ Withdraw(c)
  /\ Resolve(c, "canceled")
  /\ UNCHANGED <<kind, fiber, error, netDown, remote>>

\* Mutant: only the handler has a timer.
Expire_ReplyOnly(c) ==
  /\ kind[c] \in {"timed", "late"}
  /\ c \in Queued \cup handlers
  /\ withdrawn' = IF c \in Queued THEN withdrawn \cup {c} ELSE withdrawn
  /\ Resolve(c, "timeout")
  /\ UNCHANGED <<kind, fiber, error, netDown, sending, remote>>

\* The deadline of c passes: the timers of the queued message and of the
\* handler have the same deadline and fire in the same poll.
Expire(c) ==
  /\ kind[c] \in {"timed", "late"}
  /\ c \in Queued \cup handlers
  /\ Withdraw(c)
  /\ Resolve(c, "timeout")
  /\ UNCHANGED <<kind, fiber, error, netDown, remote>>

\* client::stop(): it shuts the socket down only if there was no error yet.
ClientStop ==
  /\ ~error
  /\ error' = TRUE
  /\ netDown' = TRUE
  /\ UNCHANGED <<kind, fiber, sending, waiting, remote, withdrawn>>

-----------------------------------------------------------------------------
(* The send loop *)

\* do_until() looks at _error, then wait() at the queue.
LoopTest ==
  /\ loop = "test"
  /\ loop' = IF error THEN "done" ELSE IF queue # <<>> THEN "ready" ELSE "blocked"
  /\ UNCHANGED <<kind, fiber, error, netDown, queue, writing, sent, canSend, waiting, remote, withdrawn>>

\* wait() evaluates its predicate again; it does not look at _error, and when
\* the condition variable is broken it fails.
LoopRecheck ==
  /\ loop = "signalled"
  /\ loop' = IF queue # <<>> THEN "ready"
             ELSE IF fiber = "draining" THEN "done" ELSE "blocked"
  /\ UNCHANGED <<kind, fiber, error, netDown, queue, writing, sent, canSend, waiting, remote, withdrawn>>

\* The continuation of wait() finds the queue empty: its only message expired
\* or was cancelled in between.
LoopFindsNothing ==
  /\ loop = "ready"
  /\ queue = <<>>
  /\ loop' = "test"
  /\ UNCHANGED <<kind, fiber, error, netDown, queue, writing, sent, canSend, waiting, remote, withdrawn>>

\* Mutant: the request can still be cancelled off the queue.
LoopTake_StillCancellable ==
  /\ loop = "ready"
  /\ queue # <<>>
  /\ writing' = Head(queue)
  /\ queue' = Tail(queue)
  /\ loop' = "writing"
  /\ wire' = Append(wire, Head(queue))
  /\ UNCHANGED <<kind, fiber, error, netDown, sent, canSend, waiting, serving, ran, replies, withdrawn>>

\* It takes the message at the front, whose timer and cancel_send go, and
\* writes it.
LoopTake ==
  /\ loop = "ready"
  /\ queue # <<>>
  /\ writing' = Head(queue)
  /\ queue' = Tail(queue)
  /\ canSend' = canSend \ {Head(queue)}
  /\ loop' = "writing"
  /\ wire' = Append(wire, Head(queue))
  /\ UNCHANGED <<kind, fiber, error, netDown, sent, waiting, serving, ran, replies, withdrawn>>

\* compress(), the user's, throws: the exception ends the loop.
CompressFails ==
  /\ loop = "ready"
  /\ queue # <<>>
  /\ queue' = Tail(queue)
  /\ canSend' = canSend \ {Head(queue)}
  /\ sent' = sent \cup {Head(queue)}
  /\ loop' = "done"
  /\ error' = TRUE
  /\ UNCHANGED <<kind, fiber, netDown, writing, waiting, remote, withdrawn>>

\* The write and the flush end.
Written ==
  /\ loop = "writing"
  /\ sent' = sent \cup {writing}
  /\ writing' = NoCall
  /\ loop' = "test"
  /\ UNCHANGED <<kind, fiber, error, netDown, queue, canSend, waiting, remote, withdrawn>>

WriteFails ==
  /\ loop = "writing"
  /\ netDown
  /\ sent' = sent \cup {writing}
  /\ writing' = NoCall
  /\ loop' = "done"
  /\ error' = TRUE
  /\ UNCHANGED <<kind, fiber, netDown, queue, canSend, waiting, remote, withdrawn>>

-----------------------------------------------------------------------------
(* The fiber the constructor starts *)

\* The socket connects, the negotiation ends, and the send loop starts.
Connect ==
  /\ fiber = "connecting"
  /\ fiber' = "reading"
  /\ loop' = "test"
  /\ UNCHANGED <<kind, error, netDown, queue, writing, sent, canSend, waiting, remote, withdrawn>>

\* The connection fails or is refused, or the negotiation ends in an error.
ConnectFails ==
  /\ fiber = "connecting"
  /\ fiber' = "draining"
  /\ error' = TRUE
  /\ netDown' = TRUE
  /\ UNCHANGED <<kind, sending, waiting, remote, withdrawn>>

\* do_until() has seen the error, or the end of the stream, and
\* stop_send_loop() breaks the condition variable and shuts the output down.
StopReading ==
  /\ error' = TRUE
  /\ netDown' = TRUE
  /\ fiber' = "draining"
  /\ loop' = IF loop = "blocked" THEN "done" ELSE loop

\* Mutant: the handler stays in _outstanding.
ReceiveReply_KeepsHandler(c) ==
  /\ fiber = "reading"
  /\ c \in replies
  /\ replies' = replies \ {c}
  /\ \E o \in IF c \in ran THEN {"value", "exception"} ELSE {"exception"} :
       outcome' = IF c \in handlers THEN [outcome EXCEPT ![c] = o] ELSE outcome
  /\ IF error THEN StopReading ELSE UNCHANGED <<fiber, error, netDown, loop>>
  /\ UNCHANGED <<kind, queue, writing, sent, canSend, handlers, canWait, wire, serving, ran, withdrawn>>

\* A reply: nobody may be waiting for it any more.
ReceiveReply(c) ==
  /\ fiber = "reading"
  /\ c \in replies
  /\ replies' = replies \ {c}
  /\ \E o \in IF c \in ran THEN {"value", "exception"} ELSE {"exception"} : Resolve(c, o)
  /\ IF error THEN StopReading ELSE UNCHANGED <<fiber, error, netDown, loop>>
  /\ UNCHANGED <<kind, queue, writing, sent, canSend, wire, serving, ran, withdrawn>>

\* The reply cannot be unmarshalled: the exception ends the reader, and the
\* handler is destroyed without having been called.
UnmarshalFails(c) ==
  /\ fiber = "reading"
  /\ c \in replies
  /\ c \in handlers
  /\ replies' = replies \ {c}
  /\ Resolve(c, "closed")
  /\ StopReading
  /\ UNCHANGED <<kind, queue, writing, sent, canSend, wire, serving, ran, withdrawn>>

\* The stream ends, or a frame is cut short.
ReadEnds ==
  /\ fiber = "reading"
  /\ netDown
  /\ StopReading
  /\ UNCHANGED <<kind, queue, writing, sent, canSend, waiting, remote, withdrawn>>

\* The send loop is over: stop_send_loop() clears the queue and closes the
\* stream.
ClearQueue ==
  /\ fiber = "draining"
  /\ loop \in {"off", "done"}
  /\ fiber' = "flushing"
  /\ queue' = <<>>
  /\ sent' = sent \cup Queued
  /\ canSend' = canSend \ Queued
  /\ withdrawn' = withdrawn \cup Queued
  /\ UNCHANGED <<kind, error, netDown, loop, writing, waiting, remote>>

\* Mutant: _outstanding is left for the destructor of the client.
ClearOutstanding_Noop ==
  /\ fiber = "flushing"
  /\ fiber' = "stopped"
  /\ UNCHANGED <<kind, error, netDown, sending, waiting, remote, withdrawn>>

\* The stream is closed, or failed to: _outstanding.clear(), _stopped.
ClearOutstanding ==
  /\ fiber = "flushing"
  /\ fiber' = "stopped"
  /\ handlers' = {}
  /\ canWait' = canWait \ handlers
  /\ outcome' = [c \in Calls |-> IF c \in handlers THEN "closed" ELSE outcome[c]]
  /\ UNCHANGED <<kind, error, netDown, sending, remote, withdrawn>>

-----------------------------------------------------------------------------
(* The network and the server *)

LoseConnection ==
  /\ ~netDown
  /\ netDown' = TRUE
  /\ UNCHANGED <<kind, fiber, error, sending, waiting, remote, withdrawn>>

\* The server reads the message at the front.  It runs the handler, or
\* answers with an exception without running it, or drops the request when
\* its timeout has passed or the server is stopping.
ServerReads ==
  /\ wire # <<>>
  /\ LET c == Head(wire)
     IN  \/ ran' = ran \cup {c} /\ serving' = IF kind[c] = "oneway" THEN serving ELSE serving \cup {c}
         \/ ran' = ran /\ serving' = serving \cup {c}
         \/ UNCHANGED <<ran, serving>>
  /\ wire' = Tail(wire)
  /\ UNCHANGED <<kind, fiber, error, netDown, sending, waiting, replies, withdrawn>>

\* Handlers run concurrently: replies come in any order.
ServerReplies(c) ==
  /\ c \in serving
  /\ serving' = serving \ {c}
  /\ replies' = replies \cup {c}
  /\ UNCHANGED <<kind, fiber, error, netDown, sending, waiting, wire, ran, withdrawn>>

-----------------------------------------------------------------------------

User == ClientStop \/ \E c \in Calls : Cancel(c) \/ \E k \in Kinds : Call(c, k)

SendLoop ==
  \/ LoopTest \/ LoopRecheck \/ LoopFindsNothing
  \/ LoopTake \/ CompressFails \/ Written \/ WriteFails

ReplyReader ==
  \/ Connect \/ ConnectFails \/ ReadEnds \/ ClearQueue \/ ClearOutstanding
  \/ \E c \in Calls : ReceiveReply(c) \/ UnmarshalFails(c)

Environment == LoseConnection \/ ServerReads \/ \E c \in Calls : ServerReplies(c)

\* A stopped client that nothing happens to any more.
ClientAtRest == fiber = "stopped" /\ UNCHANGED clientVars

ClientNext == User \/ SendLoop \/ ReplyReader \/ Environment \/ ClientAtRest \/ \E c \in Calls : Expire(c)

ClientSpec == ClientInit /\ [][ClientNext]_clientVars

\* Tasks run and timers fire.  The kernel ends every connect, every write and,
\* on a dead connection, every read.  Servers and users owe nothing.
ClientFairness ==
  /\ WF_clientVars(LoopTest \/ LoopRecheck \/ LoopFindsNothing \/ LoopTake)
  /\ WF_clientVars(Written \/ WriteFails)
  /\ WF_clientVars(Connect \/ ConnectFails)
  /\ WF_clientVars(ReadEnds) /\ WF_clientVars(ClearQueue) /\ WF_clientVars(ClearOutstanding)
  /\ \A c \in Calls : WF_clientVars(Expire(c))

ClientFairSpec == ClientSpec /\ ClientFairness

-----------------------------------------------------------------------------
(* Properties *)

ClientTypeOK ==
  /\ kind \in [Calls -> Kinds \cup {"none"}]
  /\ fiber \in FiberState /\ error \in BOOLEAN /\ netDown \in BOOLEAN
  /\ queue \in Seq(Calls) /\ wire \in Seq(Calls)
  /\ loop \in LoopState /\ writing \in Calls \cup {NoCall}
  /\ loop = "writing" <=> writing # NoCall
  /\ outcome \in [Calls -> Outcome]
  /\ UNION {handlers, sent, canSend, canWait, serving, ran, replies, withdrawn} \subseteq Calls

\* A cancel function is there exactly as long as what it acts on: cancel_send
\* holds an iterator into the queue and cancel_wait indexes _outstanding, and
\* neither checks.  A handler is there exactly as long as its promise is
\* pending.
CancelFindsItsTarget ==
  /\ ClientTypeOK
  /\ canSend = {c \in Queued : kind[c] = "cancellable"}
  /\ canWait = {c \in handlers : kind[c] = "cancellable"}
  /\ \A c \in Calls : outcome[c] = "pending" <=> c \in handlers

\* tests/rpc_test.cc:261, "cancel send side": a call cancelled or timed out
\* while its message is queued never reaches the server.
WithdrawnNeverRuns ==
  withdrawn \cap (ToSet(wire) \cup serving \cup ran \cup replies \cup {writing}) = {}

\* The future of a call is resolved once, whatever timer, cancel, reply or end
\* of the connection comes after; and with a value only if the server ran it.
OutcomeIsFinal ==
  [][\A c \in Calls :
       /\ outcome[c] \notin {"none", "pending"} => outcome'[c] = outcome[c]
       /\ outcome[c] = "pending" /\ outcome'[c] = "value" => c \in ran]_clientVars

Ended(c) == c \in sent /\ outcome[c] \notin {"none", "pending"}

\* A call with a timeout ends, once the write of its message does; and when the
\* connection goes down every call ends, the client stops and nothing is left.
CallsEnd ==
  /\ \A c \in Calls :
       kind[c] # "none" /\ (kind[c] \in {"timed", "late"} \/ netDown) ~> Ended(c)
  /\ netDown ~> fiber = "stopped" /\ queue = <<>> /\ handlers = {}

=============================================================================
