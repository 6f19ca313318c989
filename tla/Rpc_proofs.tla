------------------------------ MODULE Rpc_proofs ------------------------------
(***************************************************************************)
(* Proofs about the two ends of a connection.                              *)
(*                                                                         *)
(* RpcClient, for any set of calls of any kinds: the cancel functions      *)
(* match what they act on, a message withdrawn never leaves, and the       *)
(* future of a call is resolved once.  What they have in common is that a  *)
(* message is in one place at a time, and in the queue once.               *)
(*                                                                         *)
(* RpcServer, for any connections and streams, any requests and any limit  *)
(* of memory: the memory of requests stays within the limit, what waits    *)
(* for it is what the semaphore lists, streams are listed with their       *)
(* parents while they last, and stop() leaves no handler behind.           *)
(***************************************************************************)
EXTENDS RpcClient, RpcServer, DataFacts

-----------------------------------------------------------------------------
(* The client *)

\* Where a message is that has left the queue.
Left == ToSet(wire) \cup serving \cup ran \cup replies \cup ({writing} \ {NoCall})

\* A message is queued once, and is then in no other place.
QueuedOnce ==
  /\ IsInjective(queue)
  /\ Queued \cap (Left \cup withdrawn) = {}

\* Only what a call has made exists, and every call that was made has a future.
MadeByCalls ==
  /\ \A c \in Queued \cup Left \cup withdrawn \cup handlers : kind[c] # "none"
  /\ \A c \in Calls : outcome[c] = "none" <=> kind[c] = "none"

\* The send loop runs only on a connection that was set up.
LoopIsOff == fiber = "connecting" => loop = "off"

\* The inductive invariant.
ClientIInv == CancelFindsItsTarget /\ WithdrawnNeverRuns /\ QueuedOnce /\ MadeByCalls /\ LoopIsOff

\* The variables that hold sets of calls, one by one.
LEMMA SetsOfCalls ==
  UNION {handlers, sent, canSend, canWait, serving, ran, replies, withdrawn} \subseteq Calls
    <=> /\ handlers \subseteq Calls /\ sent \subseteq Calls
        /\ canSend \subseteq Calls /\ canWait \subseteq Calls
        /\ serving \subseteq Calls /\ ran \subseteq Calls
        /\ replies \subseteq Calls /\ withdrawn \subseteq Calls
<1>1. QED
  OBVIOUS

LEMMA ClientInitEstablishes == ClientInit => ClientIInv
<1> SUFFICES ASSUME ClientInit PROVE ClientIInv
  OBVIOUS
<1>1. /\ queue = <<>> /\ wire = <<>> /\ writing = NoCall /\ loop = "off"
      /\ handlers = {} /\ sent = {} /\ canSend = {} /\ canWait = {}
      /\ serving = {} /\ ran = {} /\ replies = {} /\ withdrawn = {}
      /\ fiber = "connecting" /\ error = FALSE /\ netDown = FALSE
      /\ kind = [c \in Calls |-> "none"] /\ outcome = [c \in Calls |-> "none"]
  BY DEF ClientInit
<1>2. Queued = {} /\ ToSet(wire) = {} /\ IsInjective(queue) /\ Left = {}
  BY <1>1, ToSetOfEmpty DEF Queued, Left
<1>3. ClientTypeOK
  <2>1. queue \in Seq(Calls) /\ wire \in Seq(Calls)
    BY <1>1, EmptySeq
  <2>2. QED
    BY <1>1, <2>1, SetsOfCalls DEF ClientTypeOK, FiberState, LoopState, Outcome
<1>4. QED
  BY <1>1, <1>2, <1>3 DEF ClientIInv, CancelFindsItsTarget, WithdrawnNeverRuns, QueuedOnce, MadeByCalls, LoopIsOff

\* A message taken off the queue by its timer or by cancel() is off it.
LEMMA WithdrawTakesOut ==
  ASSUME ClientIInv, NEW c \in Calls, Withdraw(c)
  PROVE  /\ queue' \in Seq(Calls) /\ IsInjective(queue') /\ Queued' = Queued \ {c}
         /\ withdrawn' = withdrawn \cup (Queued \cap {c})
         /\ sent' = sent \cup (Queued \cap {c})
         /\ canSend' = canSend \ {c} /\ loop' = loop /\ writing' = writing
<1>1. queue \in Seq(Calls) /\ IsInjective(queue)
  BY DEF ClientIInv, CancelFindsItsTarget, ClientTypeOK, QueuedOnce
<1>2. DOMAIN queue = 1..Len(queue) /\ Queued = {queue[i] : i \in 1..Len(queue)}
  BY <1>1, ToSetIsImage DEF Queued
<1>3. CASE c \notin Queued /\ UNCHANGED <<queue, sent, withdrawn>>
  BY <1>1, <1>3 DEF Withdraw, Queued
<1>4. ASSUME NEW i \in DOMAIN queue, queue[i] = c, queue' = RemoveAt(queue, i),
             sent' = sent \cup {c}, withdrawn' = withdrawn \cup {c}
      PROVE  /\ queue' \in Seq(Calls) /\ IsInjective(queue') /\ Queued' = Queued \ {c}
             /\ withdrawn' = withdrawn \cup (Queued \cap {c})
             /\ sent' = sent \cup (Queued \cap {c})
  <2>1. queue' \in Seq(Calls) /\ IsInjective(queue') /\ Queued' = Queued \ {c}
    BY <1>1, <1>2, <1>4, ToSetOfRemoveAt DEF Queued
  <2>2. c \in Queued
    BY <1>2, <1>4
  <2>3. QED
    BY <1>4, <2>1, <2>2
<1>5. QED
  BY <1>3, <1>4 DEF Withdraw

\* A message that leaves the queue at its front.
LEMMA FrontTakenOut ==
  ASSUME ClientIInv, queue # <<>>, queue' = Tail(queue)
  PROVE  /\ Head(queue) \in Queued /\ Head(queue) \in Calls
         /\ queue' \in Seq(Calls) /\ IsInjective(queue') /\ Queued' = Queued \ {Head(queue)}
<1>1. queue \in Seq(Calls) /\ IsInjective(queue)
  BY DEF ClientIInv, CancelFindsItsTarget, ClientTypeOK, QueuedOnce
<1>2. QED
  BY <1>1, ToSetOfTail DEF Queued

\* One step per action.
LEMMA ClientNextPreserves == ClientIInv /\ [ClientNext]_clientVars => ClientIInv'
<1> SUFFICES ASSUME ClientIInv, [ClientNext]_clientVars PROVE ClientIInv'
  OBVIOUS
<1> USE RpcClientAssumption DEF FiberState, LoopState, Outcome
<1>1. wire \in Seq(Calls) /\ queue \in Seq(Calls) /\ Queued \subseteq Calls
  BY ToSetIsImage DEF ClientIInv, CancelFindsItsTarget, ClientTypeOK, Queued
<1>2. ASSUME NEW c \in Calls, NEW k \in Kinds, Call(c, k) PROVE ClientIInv'
  <2>1. /\ c \notin Queued \cup Left \cup withdrawn \cup handlers /\ outcome[c] = "none"
        /\ k # "none" /\ kind[c] = "none" /\ kind' = [kind EXCEPT ![c] = k]
        /\ c \notin canSend \cup canWait
    BY <1>2 DEF Call, Kind, ClientIInv, MadeByCalls, CancelFindsItsTarget
  <2>2. CASE error \/ k = "late"
    <3>1. queue' = queue /\ Queued' = Queued
      BY <1>2, <2>2 DEF Call, Send, Queued
    <3>2. QED
      BY <1>2, <2>1, <2>2, <3>1, SetsOfCalls
      DEF Call, Send, WaitForReply, remote,
          ClientIInv, CancelFindsItsTarget, WithdrawnNeverRuns, QueuedOnce, MadeByCalls, LoopIsOff,
          ClientTypeOK, Left
  <2>3. CASE ~error /\ k # "late"
    <3>1. /\ queue' = Append(queue, c)
          /\ canSend' = IF k = "cancellable" THEN canSend \cup {c} ELSE canSend
          /\ loop' = IF loop = "blocked" THEN "signalled" ELSE loop
          /\ UNCHANGED <<sent, writing, fiber, error, netDown, remote, withdrawn>>
          /\ WaitForReply(c, k)
      BY <1>2, <2>3 DEF Call, Send
    <3>2. IsInjective(queue) /\ c \notin ToSet(queue)
      BY <2>1 DEF ClientIInv, QueuedOnce, Queued
    <3>3. /\ queue' \in Seq(Calls) /\ Queued' = Queued \cup {c} /\ IsInjective(queue')
      BY <1>1, <3>1, <3>2, ToSetOfAppend DEF Queued
    <3>4. /\ handlers' = IF k = "oneway" THEN handlers ELSE handlers \cup {c}
          /\ outcome' = [outcome EXCEPT ![c] = IF k = "oneway" THEN "value" ELSE "pending"]
          /\ canWait' = IF k = "cancellable" THEN canWait \cup {c} ELSE canWait
      BY <3>1 DEF WaitForReply
    <3>5. ClientTypeOK'
      BY <2>1, <3>1, <3>3, <3>4, SetsOfCalls DEF ClientIInv, CancelFindsItsTarget, ClientTypeOK, remote
    <3>6. CancelFindsItsTarget'
      BY <2>1, <3>1, <3>3, <3>4, <3>5, SetsOfCalls DEF ClientIInv, CancelFindsItsTarget, ClientTypeOK
    <3>7. WithdrawnNeverRuns' /\ LoopIsOff'
      BY <3>1 DEF ClientIInv, WithdrawnNeverRuns, LoopIsOff, remote
    <3>8. QueuedOnce'
      BY <2>1, <3>1, <3>3 DEF ClientIInv, QueuedOnce, Left, remote
    <3>9. MadeByCalls'
      BY <2>1, <3>1, <3>3, <3>4, SetsOfCalls DEF ClientIInv, CancelFindsItsTarget, ClientTypeOK, MadeByCalls, Left, remote
    <3>10. QED
      BY <3>6, <3>7, <3>8, <3>9 DEF ClientIInv
  <2>4. QED
    BY <2>2, <2>3
<1>3. ASSUME NEW c \in Calls, Cancel(c) PROVE ClientIInv'
  BY <1>3, WithdrawTakesOut, SetsOfCalls
  DEF Cancel, Resolve, remote,
      ClientIInv, CancelFindsItsTarget, WithdrawnNeverRuns, QueuedOnce, MadeByCalls, LoopIsOff,
          ClientTypeOK, Left
<1>4. ASSUME NEW c \in Calls, Expire(c) PROVE ClientIInv'
  BY <1>4, WithdrawTakesOut, SetsOfCalls
  DEF Expire, Resolve, remote,
      ClientIInv, CancelFindsItsTarget, WithdrawnNeverRuns, QueuedOnce, MadeByCalls, LoopIsOff,
          ClientTypeOK, Left
<1>5. ASSUME LoopTake PROVE ClientIInv'
  <2>1. wire' \in Seq(Calls) /\ ToSet(wire') = ToSet(wire) \cup {Head(queue)}
    BY <1>1, <1>5, ToSetOfAppend, FrontTakenOut DEF LoopTake
  <2>2. QED
    BY <1>5, <2>1, FrontTakenOut, SetsOfCalls
    DEF LoopTake, waiting,
        ClientIInv, CancelFindsItsTarget, WithdrawnNeverRuns, QueuedOnce, MadeByCalls, LoopIsOff,
          ClientTypeOK, Left
<1>6. ASSUME CompressFails PROVE ClientIInv'
  BY <1>6, FrontTakenOut, SetsOfCalls
  DEF CompressFails, waiting, remote,
      ClientIInv, CancelFindsItsTarget, WithdrawnNeverRuns, QueuedOnce, MadeByCalls, LoopIsOff,
          ClientTypeOK, Left
<1>7. ASSUME ClearQueue PROVE ClientIInv'
  <2>1. queue' \in Seq(Calls) /\ IsInjective(queue') /\ Queued' = {}
    BY <1>7, ToSetOfEmpty, EmptySeq DEF ClearQueue, Queued
  <2>2. QED
    BY <1>1, <1>7, <2>1, SetsOfCalls
    DEF ClearQueue, waiting, remote,
        ClientIInv, CancelFindsItsTarget, WithdrawnNeverRuns, QueuedOnce, MadeByCalls, LoopIsOff,
          ClientTypeOK, Left
<1>8. ASSUME ServerReads PROVE ClientIInv'
  <2>1. /\ wire' \in Seq(Calls) /\ Head(wire) \in Calls
        /\ ToSet(wire) = ToSet(wire') \cup {Head(wire)}
    BY <1>1, <1>8, ToSetOfTail DEF ServerReads
  <2>2. QED
    BY <1>8, <2>1, SetsOfCalls
    DEF ServerReads, sending, waiting, Queued,
        ClientIInv, CancelFindsItsTarget, WithdrawnNeverRuns, QueuedOnce, MadeByCalls, LoopIsOff,
          ClientTypeOK, Left
<1>9. ASSUME ClientStop PROVE ClientIInv'
  BY <1>9, SetsOfCalls
  DEF ClientStop, Queued, sending, waiting, remote,
      ClientIInv, CancelFindsItsTarget, WithdrawnNeverRuns, QueuedOnce, MadeByCalls, LoopIsOff,
      ClientTypeOK, Left
<1>10. ASSUME LoopTest PROVE ClientIInv'
  BY <1>10, SetsOfCalls
  DEF LoopTest, Queued, sending, waiting, remote,
      ClientIInv, CancelFindsItsTarget, WithdrawnNeverRuns, QueuedOnce, MadeByCalls, LoopIsOff,
      ClientTypeOK, Left
<1>11. ASSUME LoopRecheck PROVE ClientIInv'
  BY <1>11, SetsOfCalls
  DEF LoopRecheck, Queued, sending, waiting, remote,
      ClientIInv, CancelFindsItsTarget, WithdrawnNeverRuns, QueuedOnce, MadeByCalls, LoopIsOff,
      ClientTypeOK, Left
<1>12. ASSUME LoopFindsNothing PROVE ClientIInv'
  BY <1>12, SetsOfCalls
  DEF LoopFindsNothing, Queued, sending, waiting, remote,
      ClientIInv, CancelFindsItsTarget, WithdrawnNeverRuns, QueuedOnce, MadeByCalls, LoopIsOff,
      ClientTypeOK, Left
<1>13. ASSUME Written PROVE ClientIInv'
  BY <1>13, SetsOfCalls
  DEF Written, Queued, sending, waiting, remote,
      ClientIInv, CancelFindsItsTarget, WithdrawnNeverRuns, QueuedOnce, MadeByCalls, LoopIsOff,
      ClientTypeOK, Left
<1>14. ASSUME WriteFails PROVE ClientIInv'
  BY <1>14, SetsOfCalls
  DEF WriteFails, Queued, sending, waiting, remote,
      ClientIInv, CancelFindsItsTarget, WithdrawnNeverRuns, QueuedOnce, MadeByCalls, LoopIsOff,
      ClientTypeOK, Left
<1>15. ASSUME Connect PROVE ClientIInv'
  BY <1>15, SetsOfCalls
  DEF Connect, Queued, sending, waiting, remote,
      ClientIInv, CancelFindsItsTarget, WithdrawnNeverRuns, QueuedOnce, MadeByCalls, LoopIsOff,
      ClientTypeOK, Left
<1>16. ASSUME ConnectFails PROVE ClientIInv'
  BY <1>16, SetsOfCalls
  DEF ConnectFails, Queued, sending, waiting, remote,
      ClientIInv, CancelFindsItsTarget, WithdrawnNeverRuns, QueuedOnce, MadeByCalls, LoopIsOff,
      ClientTypeOK, Left
<1>17. ASSUME ReadEnds PROVE ClientIInv'
  BY <1>17, SetsOfCalls
  DEF ReadEnds, StopReading, Queued, sending, waiting, remote,
      ClientIInv, CancelFindsItsTarget, WithdrawnNeverRuns, QueuedOnce, MadeByCalls, LoopIsOff,
      ClientTypeOK, Left
<1>18. ASSUME ClearOutstanding PROVE ClientIInv'
  BY <1>18, SetsOfCalls
  DEF ClearOutstanding, Queued, sending, waiting, remote,
      ClientIInv, CancelFindsItsTarget, WithdrawnNeverRuns, QueuedOnce, MadeByCalls, LoopIsOff,
      ClientTypeOK, Left
<1>19. ASSUME LoseConnection PROVE ClientIInv'
  BY <1>19, SetsOfCalls
  DEF LoseConnection, Queued, sending, waiting, remote,
      ClientIInv, CancelFindsItsTarget, WithdrawnNeverRuns, QueuedOnce, MadeByCalls, LoopIsOff,
      ClientTypeOK, Left
<1>20. ASSUME NEW c \in Calls, ReceiveReply(c) PROVE ClientIInv'
  <2>1. /\ replies' = replies \ {c} /\ c \in replies
        /\ handlers' = handlers \ {c} /\ canWait' = canWait \ {c}
        /\ UNCHANGED <<kind, queue, writing, sent, canSend, wire, serving, ran, withdrawn>>
        /\ Queued' = Queued
    BY <1>20 DEF ReceiveReply, Resolve, Queued
  <2>2. PICK o \in {"value", "exception"} :
          outcome' = IF c \in handlers THEN [outcome EXCEPT ![c] = o] ELSE outcome
    BY <1>20 DEF ReceiveReply, Resolve
  <2>3. /\ fiber = "reading" /\ fiber' \in {"reading", "draining"}
        /\ error' \in {error, TRUE} /\ netDown' \in {netDown, TRUE}
        /\ loop' = loop \/ (loop = "blocked" /\ loop' = "done")
    BY <1>20 DEF ReceiveReply, StopReading
  <2>4. CancelFindsItsTarget'
    <3>1. ClientTypeOK
      BY DEF ClientIInv, CancelFindsItsTarget
    <3>2. outcome' \in [Calls -> Outcome]
      BY <2>2, <3>1 DEF ClientTypeOK
    <3>3. /\ fiber' \in FiberState /\ error' \in BOOLEAN /\ netDown' \in BOOLEAN
          /\ loop' \in LoopState /\ (loop' = "writing" <=> writing' # NoCall)
      BY <2>1, <2>3, <3>1 DEF ClientTypeOK
    <3>4. UNION {handlers', sent', canSend', canWait', serving', ran', replies', withdrawn'} \subseteq Calls
      BY <2>1, <3>1, SetsOfCalls DEF ClientTypeOK
    <3>5. ClientTypeOK'
      BY <2>1, <3>1, <3>2, <3>3, <3>4 DEF ClientTypeOK
    <3>6. \A d \in Calls : outcome'[d] = "pending" <=> d \in handlers'
      BY <2>1, <2>2, <3>1 DEF ClientIInv, CancelFindsItsTarget, ClientTypeOK
    <3>7. /\ canSend' = {d \in Queued' : kind'[d] = "cancellable"}
          /\ canWait' = {d \in handlers' : kind'[d] = "cancellable"}
      BY <2>1 DEF ClientIInv, CancelFindsItsTarget
    <3>8. QED
      BY <3>5, <3>6, <3>7 DEF CancelFindsItsTarget
  <2>5. WithdrawnNeverRuns' /\ QueuedOnce' /\ LoopIsOff'
    BY <2>1, <2>3 DEF ClientIInv, WithdrawnNeverRuns, QueuedOnce, LoopIsOff, Left
  <2>6. MadeByCalls'
    <3>1. Left' \subseteq Left /\ handlers' \subseteq handlers
      BY <2>1 DEF Left
    <3>2. \A d \in Calls : outcome'[d] = "none" <=> outcome[d] = "none"
      BY <2>2 DEF ClientIInv, CancelFindsItsTarget, ClientTypeOK
    <3>3. QED
      BY <2>1, <3>1, <3>2 DEF ClientIInv, MadeByCalls
  <2>7. QED
    BY <2>4, <2>5, <2>6 DEF ClientIInv
<1>21. ASSUME NEW c \in Calls, UnmarshalFails(c) PROVE ClientIInv'
  BY <1>21, SetsOfCalls
  DEF UnmarshalFails, Resolve, StopReading, Queued, sending, waiting, remote,
      ClientIInv, CancelFindsItsTarget, WithdrawnNeverRuns, QueuedOnce, MadeByCalls, LoopIsOff,
      ClientTypeOK, Left
<1>22. ASSUME NEW c \in Calls, ServerReplies(c) PROVE ClientIInv'
  BY <1>22, SetsOfCalls
  DEF ServerReplies, Queued, sending, waiting, remote,
      ClientIInv, CancelFindsItsTarget, WithdrawnNeverRuns, QueuedOnce, MadeByCalls, LoopIsOff,
      ClientTypeOK, Left
<1>23. CASE UNCHANGED clientVars
  <2>1. /\ kind' = kind /\ fiber' = fiber /\ error' = error /\ netDown' = netDown
        /\ queue' = queue /\ loop' = loop /\ writing' = writing /\ sent' = sent
        /\ canSend' = canSend /\ handlers' = handlers /\ outcome' = outcome
        /\ canWait' = canWait /\ wire' = wire /\ serving' = serving /\ ran' = ran
        /\ replies' = replies /\ withdrawn' = withdrawn
    BY <1>23 DEF clientVars, sending, waiting, remote
  <2>2. QED
    BY <2>1 DEF Queued, ClientIInv, CancelFindsItsTarget, WithdrawnNeverRuns, QueuedOnce, MadeByCalls,
                LoopIsOff, ClientTypeOK, Left
<1>24. QED
  BY <1>2, <1>3, <1>4, <1>5, <1>6, <1>7, <1>8, <1>9, <1>10, <1>11, <1>12, <1>13, <1>14, <1>15, <1>16, <1>17, <1>18, <1>19, <1>20, <1>21, <1>22, <1>23
  DEF ClientNext, User, SendLoop, ReplyReader, Environment, ClientAtRest

LEMMA ClientInvariantHolds == ClientSpec => []ClientIInv
<1>1. QED
  BY ClientInitEstablishes, ClientNextPreserves, PTL DEF ClientSpec

\* cancel_send and cancel_wait, which check nothing, are there exactly as long
\* as the queued message and the handler they act on; and the promise of a call
\* is pending exactly as long as its handler is there.
THEOREM CancelFindsItsTargetHolds == ClientSpec => []CancelFindsItsTarget
<1>1. ClientIInv => CancelFindsItsTarget
  BY DEF ClientIInv
<1>2. QED
  BY <1>1, ClientInvariantHolds, PTL

\* A call cancelled or timed out while its message is queued never reaches the
\* server, whatever the send loop does meanwhile.
THEOREM WithdrawnNeverRunsHolds == ClientSpec => []WithdrawnNeverRuns
<1>1. ClientIInv => WithdrawnNeverRuns
  BY DEF ClientIInv
<1>2. QED
  BY <1>1, ClientInvariantHolds, PTL

\* What a step may do to the future of a call c.
ResolvesWell(c) ==
  /\ outcome[c] \notin {"none", "pending"} => outcome'[c] = outcome[c]
  /\ outcome[c] = "pending" /\ outcome'[c] = "value" => c \in ran

\* The handler of a call is resolved only while it is there, and that is while
\* the promise is pending.
LEMMA ResolveIsFinal ==
  ASSUME ClientIInv, NEW c \in Calls, NEW o \in Outcome, Resolve(c, o), o = "value" => c \in ran
  PROVE  \A d \in Calls : ResolvesWell(d)
<1>1. outcome' = outcome \/ (c \in handlers /\ outcome' = [outcome EXCEPT ![c] = o])
  BY DEF Resolve
<1>2. outcome \in [Calls -> Outcome] /\ (c \in handlers => outcome[c] = "pending")
  BY DEF ClientIInv, CancelFindsItsTarget, ClientTypeOK
<1>3. QED
  BY <1>1, <1>2 DEF ResolvesWell

\* The future of a call is resolved once, whatever timer, cancel, reply or end of
\* the connection comes after; and with a value only if the server ran it.
THEOREM OutcomeIsFinalHolds == ClientSpec => OutcomeIsFinal
<1>1. ASSUME ClientIInv, [ClientNext]_clientVars PROVE \A c \in Calls : ResolvesWell(c)
  <2>1. outcome \in [Calls -> Outcome]
    BY <1>1 DEF ClientIInv, CancelFindsItsTarget, ClientTypeOK
  <2>2. CASE outcome' = outcome
    BY <2>2 DEF ResolvesWell
  <2>3. ASSUME NEW c \in Calls, NEW k \in Kinds, Call(c, k)
        PROVE  \A d \in Calls : ResolvesWell(d)
    <3>1. outcome[c] = "none"
      BY <1>1, <2>3 DEF Call, ClientIInv, MadeByCalls
    <3>2. PICK o \in Outcome : outcome' = [outcome EXCEPT ![c] = o]
      BY <2>3 DEF Call, WaitForReply, Outcome
    <3>3. QED
      BY <2>1, <3>1, <3>2 DEF ResolvesWell
  <2>4. ASSUME NEW c \in Calls, Cancel(c) \/ Expire(c) \/ ReceiveReply(c) \/ UnmarshalFails(c)
        PROVE  \A d \in Calls : ResolvesWell(d)
    <3>1. PICK o \in Outcome : Resolve(c, o) /\ (o = "value" => c \in ran)
      BY <2>4 DEF Cancel, Expire, ReceiveReply, UnmarshalFails, Outcome
    <3>2. QED
      BY <1>1, <3>1, ResolveIsFinal
  <2>5. ASSUME ClearOutstanding PROVE \A d \in Calls : ResolvesWell(d)
    BY <1>1, <2>5 DEF ClearOutstanding, ClientIInv, CancelFindsItsTarget, ResolvesWell
  <2>6. QED
    BY <1>1, <2>2, <2>3, <2>4, <2>5
    DEF ClientNext, User, SendLoop, ReplyReader, Environment, ClientAtRest, clientVars, waiting,
        ClientStop, LoopTest, LoopRecheck, LoopFindsNothing, LoopTake, CompressFails, Written, WriteFails,
        Connect, ConnectFails, ReadEnds, ClearQueue, LoseConnection, ServerReads, ServerReplies
<1>2. ClientIInv /\ [ClientNext]_clientVars => [\A c \in Calls : ResolvesWell(c)]_clientVars
  BY <1>1
<1>3. OutcomeIsFinal <=> [][\A c \in Calls : ResolvesWell(c)]_clientVars
  BY DEF OutcomeIsFinal, ResolvesWell
<1>4. QED
  BY <1>2, <1>3, ClientInvariantHolds, PTL DEF ClientSpec

-----------------------------------------------------------------------------
(* The server *)

\* The requests a reader waits for memory with, or is about to go on with.
Pending == {"waiting", "granted", "timedout", "broken"}

Types ==
  /\ server \in {"up", "stopping", "stopped"} /\ acceptor \in {"accepting", "accepted", "ended"}
  /\ accepted \in Conns \cup {None} /\ known \subseteq Conns /\ stopping \subseteq Conns
  /\ conn \in [Conns -> ConnState] /\ errors \subseteq Conns
  /\ domain \in BOOLEAN
  /\ parent \in [Conns -> Conns \cup {None}] /\ streams \in [Conns -> SUBSET Conns]
  /\ avail \in Nat /\ waitq \in Seq(Requests)
  /\ req \in [Requests -> Request]

\* The connection accept() is ready with is not a connection of the server yet.
AcceptedIsNew == acceptor = "accepted" => accepted \in Conns /\ conn[accepted] = "none"

\* The waiters of the semaphore, in any order and once each.
WaitersListed ==
  /\ ToSet(waitq) = Requests_({"waiting"}) /\ IsInjective(waitq)
  /\ server # "up" => waitq = <<>>

\* A reader waits for one request at a time.
ReadersWait ==
  /\ \A r \in Requests_(Pending) : req[r].conn \in Conns /\ conn[req[r].conn] = "waiting"
  /\ \A r, q \in Requests_(Pending) : req[r].conn = req[q].conn => r = q
  /\ \A c \in Conns : conn[c] = "waiting" => \E r \in Requests_(Pending) : req[r].conn = c

\* What the permits are for, and what is left, is what there was.
Permits == [r \in Requests |-> Permit(r)]
MemoryAccounted ==
  /\ server = "up" => avail + Total(Requests, Permits) = MaxMemory
  /\ server # "up" => avail = 0 /\ Total(Requests, Permits) <= MaxMemory

\* A stream is one of a connection that has been negotiated, and carries no
\* requests.
Families ==
  /\ \A c \in Conns : parent[c] # None => conn[parent[c]] \notin {"none", "negotiating"}
  /\ \A c \in Conns : conn[c] \in {"none", "negotiating", "waiting"} => parent[c] = None
  /\ \A p \in Conns : \A c \in streams[p] : parent[c] = p

\* The inductive invariant.
IInv ==
  /\ Types /\ AcceptedIsNew /\ WaitersListed /\ ReadersWait /\ MemoryAccounted
  /\ Families /\ StreamsAreListed /\ HandlersEndBeforeStop

-----------------------------------------------------------------------------
(* What most steps leave as it is *)

LEMMA Parts ==
  ASSUME IInv
  PROVE  /\ Types /\ AcceptedIsNew /\ WaitersListed /\ ReadersWait /\ MemoryAccounted
         /\ Families /\ StreamsAreListed /\ HandlersEndBeforeStop
         /\ None \notin Conns /\ None \notin Requests /\ IsFiniteSet(Requests) /\ MaxMemory \in Nat
         /\ \A r \in Requests : req[r] \in Request /\ req[r].size \in Nat /\ req[r].state \in ReqState
         /\ \A r \in Requests : Permits[r] \in Nat /\ Permits[r] = Permit(r)
<1>1. \A r \in Requests : req[r] \in Request /\ req[r].size \in Nat /\ req[r].state \in ReqState
  BY DEF IInv, Types, Request
<1>2. \A r \in Requests : Permits[r] \in Nat /\ Permits[r] = Permit(r)
  BY <1>1 DEF Permits, Permit
<1>3. QED
  BY <1>1, <1>2, RpcServerAssumption DEF IInv

\* The memory of requests does not notice handlers that end, replies on their
\* way, and readers that were not and are not waiting.
LEMMA MemoryCalm ==
  ASSUME IInv, Types', UNCHANGED memory, server' = server \/ (server # "up" /\ server' # "up"),
         \A c \in Conns : conn'[c] = "waiting" <=> conn[c] = "waiting",
         \A r \in Requests :
           /\ req'[r].conn = req[r].conn /\ req'[r].size = req[r].size
           /\ \/ req'[r].state = req[r].state
              \/ {req[r].state, req'[r].state} \subseteq {"running", "replying", "sent"}
  PROVE  WaitersListed' /\ ReadersWait' /\ MemoryAccounted'
<1>1. /\ Requests_(Pending)' = Requests_(Pending)
      /\ Requests_({"waiting"})' = Requests_({"waiting"})
  BY DEF Requests_, Pending
<1>2. avail' = avail /\ waitq' = waitq
  BY DEF memory
<1>3. WaitersListed'
  BY <1>1, <1>2, Parts DEF WaitersListed
<1>4. ReadersWait'
  <2>1. \A r \in Requests_(Pending) : r \in Requests /\ req'[r].conn = req[r].conn
    BY DEF Requests_
  <2>2. QED
    BY <1>1, <2>1, Parts DEF ReadersWait
<1>5. MemoryAccounted'
  <2>1. \A r \in Requests : Permits'[r] = Permits[r]
    BY DEF Permits, Permit
  <2>2. Total(Requests, Permits') = Total(Requests, Permits)
    BY <2>1, TotalOfEqual
  <2>3. QED
    BY <1>2, <2>2, Parts DEF MemoryAccounted
<1>6. QED
  BY <1>3, <1>4, <1>5

\* Connections that are no streams may do as they like once they are accepted,
\* and streams may take any step from their registration to their end.
LEMMA FamiliesCalm ==
  ASSUME IInv, Types', known' \subseteq known, UNCHANGED registry, server' = server \/ server' # "up",
         acceptor' = "accepted" => acceptor = "accepted" /\ accepted' = accepted,
         \A c \in Conns :
           \/ conn'[c] = conn[c]
           \/ /\ parent[c] = None /\ conn[c] # "none" /\ conn'[c] \notin {"none", "negotiating"}
           \/ {conn[c], conn'[c]} \subseteq {"reading", "draining", "leaving"}
  PROVE  AcceptedIsNew' /\ Families' /\ StreamsAreListed'
<1>1. parent' = parent /\ streams' = streams /\ known \subseteq Conns /\ None \notin Conns
  BY Parts DEF registry, Types
<1>2. AcceptedIsNew'
  BY Parts DEF AcceptedIsNew
<1>3. Families'
  <2>1. ASSUME NEW c \in Conns, parent[c] # None PROVE conn'[parent[c]] \notin {"none", "negotiating"}
    <3>1. parent[c] \in Conns /\ conn[parent[c]] \notin {"none", "negotiating"}
      BY <2>1, Parts DEF Families, Types
    <3>2. QED
      BY <3>1
  <2>2. \A c \in Conns : conn'[c] \in {"none", "negotiating", "waiting"} => parent[c] = None
    BY Parts DEF Families
  <2>3. QED
    BY <1>1, <2>1, <2>2, Parts DEF Families
<1>4. StreamsAreListed'
  <2>1. SUFFICES ASSUME server' = "up", NEW p \in known'
                 PROVE  streams[p] = {c \in Conns : parent[c] = p /\ conn'[c] \in {"reading", "draining", "leaving"}}
    BY <1>1 DEF StreamsAreListed
  <2>2. streams[p] = {c \in Conns : parent[c] = p /\ conn[c] \in {"reading", "draining", "leaving"}}
    BY <2>1, Parts DEF StreamsAreListed
  <2>3. p # None
    BY <1>1
  <2>4. \A c \in Conns : parent[c] = p =>
          (conn'[c] \in {"reading", "draining", "leaving"} <=> conn[c] \in {"reading", "draining", "leaving"})
    BY <2>3
  <2>5. QED
    BY <2>2, <2>4
<1>5. QED
  BY <1>2, <1>3, <1>4

\* What a reader that goes on or ends does to its connection.
LEMMA ReaderMoves ==
  ASSUME Types, NEW c \in Conns, Drain(c) \/ ReadOn(c)
  PROVE  \E st \in {"reading", "draining"} :
           /\ conn' = [conn EXCEPT ![c] = st] /\ conn' \in [Conns -> ConnState]
           /\ \A d \in Conns : conn'[d] = IF d = c THEN st ELSE conn[d]
           /\ errors' \subseteq Conns
<1>1. \E st \in {"reading", "draining"} : conn' = [conn EXCEPT ![c] = st] /\ (errors' = errors \/ errors' = errors \cup {c})
  BY DEF Drain, ReadOn
<1>2. conn \in [Conns -> ConnState] /\ errors \subseteq Conns
  BY DEF Types
<1>3. "reading" \in ConnState /\ "draining" \in ConnState
  BY DEF ConnState
<1>4. QED
  BY <1>1, <1>2, <1>3

-----------------------------------------------------------------------------
(* Connections *)

LEMMA ConnectionStep ==
  ASSUME IInv, Types', UNCHANGED <<server, memory, req>>,
         \A c \in Conns : conn'[c] = "waiting" <=> conn[c] = "waiting",
         AcceptedIsNew' /\ Families' /\ StreamsAreListed'
  PROVE  IInv'
<1>1. server' = server /\ req' = req /\ UNCHANGED memory
  OBVIOUS
<1>2. WaitersListed' /\ ReadersWait' /\ MemoryAccounted'
  BY <1>1, MemoryCalm
<1>3. HandlersEndBeforeStop'
  BY <1>1, Parts DEF HandlersEndBeforeStop, InGate, Requests_
<1>4. QED
  BY <1>2, <1>3 DEF IInv

LEMMA ClientConnectsPreserves == ASSUME IInv, NEW c \in Conns, ClientConnects(c) PROVE IInv'
<1>1. /\ UNCHANGED <<server, known, stopping, conn, errors, registry, memory, req>>
      /\ acceptor' = "accepted" /\ accepted' = c /\ conn[c] = "none"
  BY DEF ClientConnects
<1>2. /\ server' = server /\ known' = known /\ stopping' = stopping /\ conn' = conn /\ errors' = errors
      /\ domain' = domain /\ parent' = parent /\ streams' = streams /\ avail' = avail /\ waitq' = waitq
      /\ req' = req
  BY <1>1 DEF registry, memory
<1>3. Types'
  BY <1>1, <1>2, Parts DEF Types
<1>4. AcceptedIsNew' /\ Families' /\ StreamsAreListed'
  BY <1>1, <1>2, Parts DEF AcceptedIsNew, Families, StreamsAreListed
<1>5. QED
  BY <1>2, <1>3, <1>4, ConnectionStep DEF memory

\* A new connection has no streams: nobody can have named it.
LEMMA AcceptPreserves == ASSUME IInv, Accept PROVE IInv'
<1> DEFINE c == accepted
<1>1. /\ UNCHANGED <<server, stopping, errors, registry, memory, req>>
      /\ known' = Emplaced(c) /\ conn' = [conn EXCEPT ![c] = "negotiating"]
      /\ acceptor' \in {"accepting", "ended"} /\ accepted' = None /\ acceptor = "accepted"
  BY DEF Accept
<1>2. /\ server' = server /\ stopping' = stopping /\ errors' = errors
      /\ domain' = domain /\ parent' = parent /\ streams' = streams /\ avail' = avail /\ waitq' = waitq
      /\ req' = req
  BY <1>1 DEF registry, memory
<1>3. c \in Conns /\ conn[c] = "none"
  BY <1>1, Parts DEF AcceptedIsNew
<1> HIDE DEF c
<1>4. known' \subseteq known \cup {c}
  BY <1>1 DEF Emplaced
<1>5. /\ conn \in [Conns -> ConnState]
      /\ \A d \in Conns : conn'[d] = IF d = c THEN "negotiating" ELSE conn[d]
  BY <1>1, <1>3, Parts DEF Types
<1>6. Types'
  <2>1. "negotiating" \in ConnState
    BY DEF ConnState
  <2>2. conn' \in [Conns -> ConnState]
    BY <1>1, <1>5, <2>1
  <2>3. QED
    BY <1>1, <1>2, <1>3, <1>4, <2>2, Parts DEF Types
<1>7. \A d \in Conns : parent[d] # c
  BY <1>3, Parts DEF Families
<1>8. AcceptedIsNew' /\ Families'
  BY <1>1, <1>2, <1>3, <1>5, <1>7, Parts DEF AcceptedIsNew, Families, Types
<1>9. StreamsAreListed'
  <2>1. SUFFICES ASSUME server = "up", NEW p \in known'
                 PROVE  streams[p] = {d \in Conns : parent[d] = p /\ conn'[d] \in {"reading", "draining", "leaving"}}
    BY <1>2 DEF StreamsAreListed
  <2>2. CASE p = c
    BY <1>3, <1>7, <2>2, Parts DEF Families, Types
  <2>3. CASE p # c
    <3>1. p \in known
      BY <1>4, <2>3
    <3>2. streams[p] = {d \in Conns : parent[d] = p /\ conn[d] \in {"reading", "draining", "leaving"}}
      BY <2>1, <3>1, Parts DEF StreamsAreListed
    <3>3. \A d \in Conns : conn'[d] \in {"reading", "draining", "leaving"} <=> conn[d] \in {"reading", "draining", "leaving"}
      BY <1>3, <1>5
    <3>4. QED
      BY <3>2, <3>3
  <2>4. QED
    BY <2>2, <2>3
<1>10. QED
  BY <1>2, <1>3, <1>5, <1>6, <1>8, <1>9, ConnectionStep DEF memory

LEMMA NegotiatePreserves == ASSUME IInv, NEW c \in Conns, Negotiate(c) PROVE IInv'
<1>1. conn[c] = "negotiating" /\ UNCHANGED <<gate, registry, memory, req>> /\ ReadOn(c)
  BY DEF Negotiate
<1>2. PICK st \in {"reading", "draining"} :
        /\ conn' \in [Conns -> ConnState] /\ errors' \subseteq Conns
        /\ \A d \in Conns : conn'[d] = IF d = c THEN st ELSE conn[d]
  BY <1>1, Parts, ReaderMoves
<1>3. Types'
  BY <1>1, <1>2, Parts DEF Types, gate, registry, memory
<1>4. parent[c] = None
  BY <1>1, Parts DEF Families
<1>5. AcceptedIsNew' /\ Families' /\ StreamsAreListed'
  BY <1>1, <1>2, <1>3, <1>4, FamiliesCalm DEF gate
<1>6. QED
  BY <1>1, <1>2, <1>3, <1>5, ConnectionStep DEF gate

LEMMA ReaderEndsPreserves == ASSUME IInv, NEW c \in Conns, ReaderEnds(c) PROVE IInv'
<1>1. conn[c] \in {"negotiating", "reading"} /\ UNCHANGED <<gate, registry, memory, req>> /\ Drain(c)
  BY DEF ReaderEnds
<1>2. PICK st \in {"reading", "draining"} :
        /\ conn' \in [Conns -> ConnState] /\ errors' \subseteq Conns
        /\ \A d \in Conns : conn'[d] = IF d = c THEN st ELSE conn[d]
  BY <1>1, Parts, ReaderMoves
<1>3. Types'
  BY <1>1, <1>2, Parts DEF Types, gate, registry, memory
<1>4. conn[c] = "negotiating" => parent[c] = None
  BY <1>1, Parts DEF Families
<1>5. AcceptedIsNew' /\ Families' /\ StreamsAreListed'
  BY <1>1, <1>2, <1>3, <1>4, FamiliesCalm DEF gate
<1>6. QED
  BY <1>1, <1>2, <1>3, <1>5, ConnectionStep DEF gate

\* What becomes a stream leaves the table before it is one of its parent's.
LEMMA NegotiateStreamPreserves ==
  ASSUME IInv, NEW c \in Conns, NEW p \in Conns, NegotiateStream(c, p)
  PROVE  IInv'
<1>1. /\ conn[c] = "negotiating" /\ p # c /\ conn[p] \notin {"none", "negotiating"}
      /\ UNCHANGED <<server, acceptor, accepted, stopping, domain, streams, memory, req>>
  BY DEF NegotiateStream
<1>2. parent[c] = None
  BY <1>1, Parts DEF Families
<1>3. CASE /\ domain
           /\ parent' = [parent EXCEPT ![c] = p] /\ known' = Erased(c)
           /\ conn' = [conn EXCEPT ![c] = "registering"] /\ UNCHANGED errors
  <2>1. "registering" \in ConnState
    BY DEF ConnState
  <2>2. /\ \A d \in Conns : conn'[d] = IF d = c THEN "registering" ELSE conn[d]
        /\ \A d \in Conns : parent'[d] = IF d = c THEN p ELSE parent[d]
        /\ conn' \in [Conns -> ConnState] /\ parent' \in [Conns -> Conns \cup {None}]
    BY <1>3, <2>1, Parts DEF Types
  <2>3. known' \subseteq known /\ c \notin known'
    BY <1>3 DEF Erased, Id
  <2>4. Types'
    BY <1>1, <1>3, <2>2, <2>3, Parts DEF Types, memory
  <2>5. AcceptedIsNew'
    BY <1>1, <2>2, Parts DEF AcceptedIsNew
  <2>6. Families'
    <3>1. \A d \in Conns : parent'[d] # None => conn'[parent'[d]] \notin {"none", "negotiating"}
      <4>1. SUFFICES ASSUME NEW d \in Conns, parent'[d] # None
                     PROVE  conn'[parent'[d]] \notin {"none", "negotiating"}
        OBVIOUS
      <4>2. CASE d = c
        BY <1>1, <2>2, <4>2
      <4>3. CASE d # c
        <5>1. parent'[d] = parent[d] /\ parent[d] \in Conns /\ conn[parent[d]] \notin {"none", "negotiating"}
          BY <2>2, <4>1, <4>3, Parts DEF Families, Types
        <5>2. QED
          BY <2>2, <5>1
      <4>4. QED
        BY <4>2, <4>3
    <3>2. \A d \in Conns : conn'[d] \in {"none", "negotiating", "waiting"} => parent'[d] = None
      BY <2>2, Parts DEF Families
    <3>3. \A e \in Conns : \A d \in streams[e] : d \in Conns /\ d # c /\ parent[d] = e
      BY <1>2, Parts DEF Families, Types
    <3>4. QED
      BY <1>1, <2>2, <3>1, <3>2, <3>3 DEF Families
  <2>7. StreamsAreListed'
    <3>1. SUFFICES ASSUME server = "up", NEW e \in known'
                   PROVE  streams[e] = {d \in Conns : parent'[d] = e /\ conn'[d] \in {"reading", "draining", "leaving"}}
      BY <1>1 DEF StreamsAreListed
    <3>2. streams[e] = {d \in Conns : parent[d] = e /\ conn[d] \in {"reading", "draining", "leaving"}}
      BY <2>3, <3>1, Parts DEF StreamsAreListed
    <3>3. \A d \in Conns : (parent'[d] = e /\ conn'[d] \in {"reading", "draining", "leaving"})
                           <=> (parent[d] = e /\ conn[d] \in {"reading", "draining", "leaving"})
      BY <1>1, <2>2
    <3>4. QED
      BY <3>2, <3>3
  <2>8. QED
    BY <1>1, <2>2, <2>4, <2>5, <2>6, <2>7, ConnectionStep
<1>4. CASE ~domain /\ Drain(c) /\ UNCHANGED <<known, parent>>
  <2>1. PICK st \in {"reading", "draining"} :
          /\ conn' \in [Conns -> ConnState] /\ errors' \subseteq Conns
          /\ \A d \in Conns : conn'[d] = IF d = c THEN st ELSE conn[d]
    BY <1>4, Parts, ReaderMoves
  <2>2. Types'
    BY <1>1, <1>4, <2>1, Parts DEF Types, memory
  <2>3. AcceptedIsNew' /\ Families' /\ StreamsAreListed'
    BY <1>1, <1>2, <1>4, <2>1, <2>2, FamiliesCalm DEF registry
  <2>4. QED
    BY <1>1, <2>1, <2>2, <2>3, ConnectionStep
<1>5. QED
  BY <1>3, <1>4 DEF NegotiateStream

\* The parent lists the stream as the stream starts to read.
LEMMA RegisterStreamPreserves == ASSUME IInv, NEW c \in Conns, RegisterStream(c) PROVE IInv'
<1>1. conn[c] = "registering" /\ UNCHANGED <<gate, domain, parent, memory, req>>
  BY DEF RegisterStream
<1>2. /\ server' = server /\ acceptor' = acceptor /\ accepted' = accepted /\ known' = known
      /\ stopping' = stopping /\ domain' = domain /\ parent' = parent
      /\ avail' = avail /\ waitq' = waitq /\ req' = req
  BY <1>1 DEF gate, memory
<1>3. PICK st \in {"reading", "draining"} :
        /\ conn' \in [Conns -> ConnState] /\ errors' \subseteq Conns
        /\ \A d \in Conns : conn'[d] = IF d = c THEN st ELSE conn[d]
  <2>1. Drain(c) \/ ReadOn(c)
    BY DEF RegisterStream
  <2>2. QED
    BY <2>1, Parts, ReaderMoves
<1>4. /\ ParentFound(c) => /\ parent[c] \in Conns
                           /\ \A e \in Conns : streams'[e] = IF e = parent[c] THEN streams[e] \cup {c} ELSE streams[e]
      /\ ~ParentFound(c) => streams' = streams
      /\ streams' \in [Conns -> SUBSET Conns]
  <2>1. streams \in [Conns -> SUBSET Conns] /\ None \notin Conns /\ known \subseteq Conns
    BY Parts DEF Types
  <2>2. CASE ParentFound(c)
    <3>1. parent[c] \in Conns /\ streams' = [streams EXCEPT ![parent[c]] = @ \cup {c}]
      BY <2>1, <2>2 DEF RegisterStream, ParentFound
    <3>2. QED
      BY <2>1, <2>2, <3>1
  <2>3. CASE ~ParentFound(c)
    BY <2>1, <2>3 DEF RegisterStream
  <2>4. QED
    BY <2>2, <2>3
<1>5. Types'
  BY <1>2, <1>3, <1>4, Parts DEF Types
<1>6. AcceptedIsNew'
  BY <1>1, <1>2, <1>3, Parts DEF AcceptedIsNew
<1>7. Families'
  <2>1. \A d \in Conns : parent[d] # None => conn'[parent[d]] \notin {"none", "negotiating"}
    <3>1. SUFFICES ASSUME NEW d \in Conns, parent[d] # None PROVE conn'[parent[d]] \notin {"none", "negotiating"}
      OBVIOUS
    <3>2. parent[d] \in Conns /\ conn[parent[d]] \notin {"none", "negotiating"}
      BY <3>1, Parts DEF Families, Types
    <3>3. QED
      BY <1>3, <3>2
  <2>2. \A d \in Conns : conn'[d] \in {"none", "negotiating", "waiting"} => parent[d] = None
    BY <1>3, Parts DEF Families
  <2>3. \A e \in Conns : \A d \in streams'[e] : parent[d] = e
    BY <1>4, Parts DEF Families
  <2>4. QED
    BY <1>2, <2>1, <2>2, <2>3 DEF Families
<1>8. StreamsAreListed'
  <2>1. SUFFICES ASSUME server = "up", NEW e \in known
                 PROVE  streams'[e] = {d \in Conns : parent[d] = e /\ conn'[d] \in {"reading", "draining", "leaving"}}
    BY <1>2 DEF StreamsAreListed
  <2>2. streams[e] = {d \in Conns : parent[d] = e /\ conn[d] \in {"reading", "draining", "leaving"}}
        /\ e \in Conns
    BY <2>1, Parts DEF StreamsAreListed, Types
  <2>3. CASE parent[c] = e
    <3>1. streams'[e] = streams[e] \cup {c}
      BY <1>4, <2>1, <2>2, <2>3 DEF ParentFound
    <3>2. QED
      BY <1>3, <2>2, <2>3, <3>1
  <2>4. CASE parent[c] # e
    <3>1. streams'[e] = streams[e]
      BY <1>4, <2>2, <2>4
    <3>2. \A d \in Conns : parent[d] = e => conn'[d] = conn[d]
      BY <1>3, <2>4
    <3>3. QED
      BY <2>2, <3>1, <3>2
  <2>5. QED
    BY <2>3, <2>4
<1>9. QED
  BY <1>1, <1>2, <1>3, <1>5, <1>6, <1>7, <1>8, ConnectionStep DEF memory

LEMMA DeregisterStreamPreserves == ASSUME IInv, NEW c \in Conns, DeregisterStream(c) PROVE IInv'
<1>1. /\ conn[c] = "leaving" /\ UNCHANGED <<gate, errors, domain, parent, memory, req>>
      /\ conn' = [conn EXCEPT ![c] = "closed"]
  BY DEF DeregisterStream
<1>2. /\ server' = server /\ acceptor' = acceptor /\ accepted' = accepted /\ known' = known
      /\ stopping' = stopping /\ domain' = domain /\ parent' = parent /\ errors' = errors
      /\ avail' = avail /\ waitq' = waitq /\ req' = req
  BY <1>1 DEF gate, memory
<1>3. /\ conn' \in [Conns -> ConnState]
      /\ \A d \in Conns : conn'[d] = IF d = c THEN "closed" ELSE conn[d]
  <2>1. "closed" \in ConnState
    BY DEF ConnState
  <2>2. QED
    BY <1>1, <2>1, Parts DEF Types
<1>4. /\ ParentFound(c) => /\ parent[c] \in Conns
                           /\ \A e \in Conns : streams'[e] = IF e = parent[c] THEN streams[e] \ {c} ELSE streams[e]
      /\ ~ParentFound(c) => streams' = streams
      /\ streams' \in [Conns -> SUBSET Conns]
  BY Parts DEF DeregisterStream, ParentFound, Types
<1>5. Types'
  BY <1>2, <1>3, <1>4, Parts DEF Types
<1>6. AcceptedIsNew'
  BY <1>1, <1>2, <1>3, Parts DEF AcceptedIsNew
<1>7. Families'
  <2>1. \A d \in Conns : parent[d] # None => conn'[parent[d]] \notin {"none", "negotiating"}
    <3>1. SUFFICES ASSUME NEW d \in Conns, parent[d] # None PROVE conn'[parent[d]] \notin {"none", "negotiating"}
      OBVIOUS
    <3>2. parent[d] \in Conns /\ conn[parent[d]] \notin {"none", "negotiating"}
      BY <3>1, Parts DEF Families, Types
    <3>3. QED
      BY <1>3, <3>2
  <2>2. \A d \in Conns : conn'[d] \in {"none", "negotiating", "waiting"} => parent[d] = None
    BY <1>3, Parts DEF Families
  <2>3. \A e \in Conns : \A d \in streams'[e] : parent[d] = e
    BY <1>4, Parts DEF Families
  <2>4. QED
    BY <1>2, <2>1, <2>2, <2>3 DEF Families
<1>8. StreamsAreListed'
  <2>1. SUFFICES ASSUME server = "up", NEW e \in known
                 PROVE  streams'[e] = {d \in Conns : parent[d] = e /\ conn'[d] \in {"reading", "draining", "leaving"}}
    BY <1>2 DEF StreamsAreListed
  <2>2. streams[e] = {d \in Conns : parent[d] = e /\ conn[d] \in {"reading", "draining", "leaving"}}
        /\ e \in Conns
    BY <2>1, Parts DEF StreamsAreListed, Types
  <2>3. CASE parent[c] = e
    <3>1. streams'[e] = streams[e] \ {c}
      BY <1>4, <2>1, <2>2, <2>3 DEF ParentFound
    <3>2. QED
      BY <1>3, <2>2, <2>3, <3>1
  <2>4. CASE parent[c] # e
    <3>1. streams'[e] = streams[e]
      BY <1>4, <2>2, <2>4
    <3>2. \A d \in Conns : parent[d] = e => conn'[d] = conn[d]
      BY <1>3, <2>4
    <3>3. QED
      BY <2>2, <3>1, <3>2
  <2>5. QED
    BY <2>3, <2>4
<1>9. QED
  BY <1>1, <1>2, <1>3, <1>5, <1>6, <1>7, <1>8, ConnectionStep DEF memory

-----------------------------------------------------------------------------
(* Handlers, replies and the end of stop() *)

LEMMA ReplyStep ==
  ASSUME IInv, Types', UNCHANGED <<server, memory>>,
         \A c \in Conns : conn'[c] = "waiting" <=> conn[c] = "waiting",
         \A r \in Requests :
           /\ req'[r].conn = req[r].conn /\ req'[r].size = req[r].size
           /\ \/ req'[r].state = req[r].state
              \/ {req[r].state, req'[r].state} \subseteq {"running", "replying", "sent"},
         AcceptedIsNew' /\ Families' /\ StreamsAreListed'
  PROVE  IInv'
<1>1. server' = server /\ UNCHANGED memory
  OBVIOUS
<1>2. WaitersListed' /\ ReadersWait' /\ MemoryAccounted'
  BY <1>1, MemoryCalm
<1>3. HandlersEndBeforeStop'
  BY <1>1, Parts DEF HandlersEndBeforeStop, InGate, Requests_
<1>4. QED
  BY <1>2, <1>3 DEF IInv

\* The request alone moves.
LEMMA RequestMoves ==
  ASSUME IInv, NEW r \in Requests, NEW st \in {"replying", "sent"}, req[r].state \in {"running", "replying"},
         req' = [req EXCEPT ![r].state = st], UNCHANGED <<gate, conn, errors, registry, memory>>
  PROVE  IInv'
<1>1. /\ req' \in [Requests -> Request]
      /\ \A q \in Requests : /\ req'[q].conn = req[q].conn /\ req'[q].size = req[q].size
                             /\ req'[q].state = IF q = r THEN st ELSE req[q].state
  BY Parts DEF Types, Request, ReqState
<1>2. /\ server' = server /\ acceptor' = acceptor /\ accepted' = accepted /\ known' = known
      /\ stopping' = stopping /\ conn' = conn /\ errors' = errors
      /\ domain' = domain /\ parent' = parent /\ streams' = streams /\ avail' = avail /\ waitq' = waitq
  BY DEF gate, registry, memory
<1>3. Types'
  BY <1>1, <1>2, Parts DEF Types
<1>4. AcceptedIsNew' /\ Families' /\ StreamsAreListed'
  BY <1>2, Parts DEF AcceptedIsNew, Families, StreamsAreListed
<1>5. \A q \in Requests :
         \/ req'[q].state = req[q].state
         \/ {req[q].state, req'[q].state} \subseteq {"running", "replying", "sent"}
  BY <1>1
<1>6. QED
  BY <1>1, <1>2, <1>3, <1>4, <1>5, ReplyStep DEF memory

LEMMA ReplyPreserves == ASSUME IInv, NEW r \in Requests, HandlerEnds(r) \/ ReplyWritten(r) PROVE IInv'
<1>1. PICK st \in {"replying", "sent"} :
        /\ req' = [req EXCEPT ![r].state = st] /\ req[r].state \in {"running", "replying"}
        /\ UNCHANGED <<gate, conn, errors, registry, memory>>
  BY DEF HandlerEnds, ReplyWritten
<1>2. QED
  BY <1>1, RequestMoves

LEMMA ClosePreserves == ASSUME IInv, NEW c \in Conns, Close(c) PROVE IInv'
<1> DEFINE st == IF parent[c] = None THEN "closed" ELSE "leaving"
<1>1. /\ conn[c] = "draining" /\ conn' = [conn EXCEPT ![c] = st] /\ known' = Erased(c)
      /\ req' = [r \in Requests |-> IF req[r].state = "replying" /\ req[r].conn = c
                                    THEN [req[r] EXCEPT !.state = "sent"] ELSE req[r]]
      /\ UNCHANGED <<server, acceptor, accepted, stopping, errors, registry, memory>>
  BY DEF Close
<1>2. known' \subseteq known
  BY <1>1 DEF Erased
<1>3. /\ conn' \in [Conns -> ConnState]
      /\ \A d \in Conns : conn'[d] = IF d = c THEN st ELSE conn[d]
  <2>1. st \in ConnState
    BY DEF ConnState
  <2> HIDE DEF st
  <2>2. QED
    BY <1>1, <2>1, Parts DEF Types
<1>4. ASSUME NEW r \in Requests
      PROVE  /\ req'[r] \in Request /\ req'[r].conn = req[r].conn /\ req'[r].size = req[r].size
             /\ \/ req'[r].state = req[r].state
                \/ {req[r].state, req'[r].state} \subseteq {"running", "replying", "sent"}
  <2>1. req[r] \in Request
    BY Parts
  <2>2. req'[r] = IF req[r].state = "replying" /\ req[r].conn = c THEN [req[r] EXCEPT !.state = "sent"] ELSE req[r]
    BY <1>1
  <2>3. QED
    BY <2>1, <2>2 DEF Request, ReqState
<1>5. req' \in [Requests -> Request]
  <2>1. \A r \in Requests : req'[r] \in Request
    BY <1>4
  <2> DEFINE f(r) == IF req[r].state = "replying" /\ req[r].conn = c
                     THEN [req[r] EXCEPT !.state = "sent"] ELSE req[r]
  <2>2. req' = [r \in Requests |-> f(r)]
    BY <1>1
  <2> HIDE DEF f
  <2>3. QED
    BY <2>1, <2>2
<1>6. /\ server' = server /\ acceptor' = acceptor /\ accepted' = accepted
      /\ stopping' = stopping /\ errors' = errors
      /\ domain' = domain /\ parent' = parent /\ streams' = streams /\ avail' = avail /\ waitq' = waitq
  BY <1>1 DEF registry, memory
<1>7. Types'
  BY <1>2, <1>3, <1>5, <1>6, Parts DEF Types
<1>8. AcceptedIsNew' /\ Families' /\ StreamsAreListed'
  BY <1>1, <1>2, <1>3, <1>6, <1>7, FamiliesCalm DEF registry
<1>9. QED
  BY <1>1, <1>3, <1>4, <1>6, <1>7, <1>8, ReplyStep

\* stop() is ready when the gate is empty.
LEMMA StopDonePreserves == ASSUME IInv, StopDone PROVE IInv'
<1>1. /\ server = "stopping" /\ server' = "stopped" /\ InGate = {}
      /\ UNCHANGED <<acceptor, accepted, known, stopping, conn, errors, registry, memory, req>>
  BY DEF StopDone
<1>2. Types'
  BY <1>1, Parts DEF Types, registry, memory
<1>3. AcceptedIsNew' /\ Families' /\ StreamsAreListed'
  BY <1>1, <1>2, FamiliesCalm
<1>4. WaitersListed' /\ ReadersWait' /\ MemoryAccounted'
  BY <1>1, <1>2, MemoryCalm
<1>5. HandlersEndBeforeStop'
  BY <1>1 DEF HandlersEndBeforeStop, InGate, Requests_
<1>6. QED
  BY <1>2, <1>3, <1>4, <1>5 DEF IInv

LEMMA StutterPreserves == ASSUME IInv, UNCHANGED vars PROVE IInv'
<1>1. UNCHANGED <<server, acceptor, accepted, known, stopping, conn, errors, registry, memory, req>>
  BY DEF vars, gate
<1>2. Types'
  BY <1>1, Parts DEF Types, registry, memory
<1>3. AcceptedIsNew' /\ Families' /\ StreamsAreListed'
  BY <1>1, <1>2, FamiliesCalm
<1>4. QED
  BY <1>1, <1>2, <1>3, ReplyStep

-----------------------------------------------------------------------------
(* The memory of requests *)

\* What the waiters at the front of the list ask for is what they have as
\* requests.
LEMMA AskedIs ==
  ASSUME IInv, NEW k \in 0..Len(waitq)
  PROVE  LET woken == ToSet(SubSeq(waitq, 1, k))
         IN  /\ Asked(k) \in Nat
             /\ woken \subseteq Requests_({"waiting"}) /\ IsFiniteSet(woken)
             /\ \A v : (\A q \in woken : v[q] = req[q].size) => Total(woken, v) = Asked(k)
<1> DEFINE woken == ToSet(SubSeq(waitq, 1, k))
           w == [i \in 1..k |-> req[waitq[i]].size]
           b == [i \in 1..k |-> waitq[i]]
<1>1. waitq \in Seq(Requests) /\ IsInjective(waitq) /\ ToSet(waitq) = Requests_({"waiting"})
  BY Parts DEF Types, WaitersListed
<1>2. /\ Len(waitq) \in Nat /\ \A i \in 1..Len(waitq) : waitq[i] \in Requests
      /\ \A i, j \in 1..Len(waitq) : waitq[i] = waitq[j] => i = j
  BY <1>1, LenProperties, ElementOfSeq, ToSetIsImage
<1>3. k \in Nat /\ \A i \in 1..k : i \in 1..Len(waitq)
  BY <1>2
<1>4. woken = {waitq[i] : i \in 1..k} /\ ToSet(waitq) = {waitq[i] : i \in 1..Len(waitq)}
  BY <1>1, ToSetOfParts, ToSetIsImage
<1>5. \A i \in 1..k : w[i] \in Nat
  BY <1>2, <1>3, Parts
<1>6. b \in Bijection(1..k, woken)
  BY <1>2, <1>3, <1>4 DEF Bijection, Injection, Surjection, IsInjective
<1>7. \A i \in 1..k : b[i] = waitq[i] /\ w[i] = req[b[i]].size /\ b[i] \in woken
  BY <1>4
<1>8. Asked(k) = Total(1..k, w)
  BY DEF Asked
<1>9. woken \subseteq Requests_({"waiting"})
  BY <1>1, <1>3, <1>4
<1>10. IsFiniteSet(1..k)
  BY <1>3, FS_Interval
<1>11. IsFiniteSet(woken)
  <2>1. woken \subseteq Requests
    BY <1>9 DEF Requests_
  <2> HIDE DEF woken
  <2>2. QED
    BY <2>1, Parts, FS_Subset
<1> HIDE DEF w, b, woken
<1>12. Asked(k) \in Nat
  BY <1>5, <1>8, <1>10, TotalType
<1>13. ASSUME NEW v, \A q \in woken : v[q] = req[q].size PROVE Total(woken, v) = Asked(k)
  <2>1. \A i \in 1..k : v[b[i]] = w[i]
    BY <1>7, <1>13
  <2>2. Total(woken, v) = Total(1..k, w)
    BY <1>5, <1>6, <1>10, <2>1, TotalOfRenamed
  <2>3. QED
    BY <1>8, <2>2
<1>14. QED
  BY <1>9, <1>11, <1>12, <1>13 DEF woken

\* signal() stops at a waiter that asks for more than there is.
LEMMA PoppedIs ==
  ASSUME IInv, NEW n \in Nat
  PROVE  PoppedWaiters(n) \in 0..Len(waitq) /\ Asked(PoppedWaiters(n)) <= n
<1> DEFINE K == {k \in 0..Len(waitq) : Asked(k) <= n}
           Stops(k) == Asked(k) <= n /\ (k < Len(waitq) => Asked(k + 1) > n)
<1>1. waitq \in Seq(Requests) /\ Len(waitq) \in Nat
  BY Parts, LenProperties DEF Types
<1>2. 0 \in K
  <2>1. 1..0 = {}
    OBVIOUS
  <2>2. Asked(0) = 0
    BY <2>1, TotalOfEmpty DEF Asked
  <2>3. QED
    BY <1>1, <2>2
<1>3. \A k \in 0..Len(waitq) : Asked(k) \in Nat
  BY AskedIs
<1>4. PICK k \in K : k < Len(waitq) => k + 1 \notin K
  <2>1. K \in SUBSET (0..Len(waitq))
    OBVIOUS
  <2> HIDE DEF K
  <2>2. QED
    BY <1>1, <1>2, <2>1, LoopStops
<1>5. k \in 0..Len(waitq) /\ Stops(k)
  <2>1. k < Len(waitq) => k + 1 \in 0..Len(waitq)
    BY <1>1
  <2>2. k < Len(waitq) => Asked(k + 1) \in Nat
    BY <1>3, <2>1
  <2>3. QED
    BY <1>4, <2>1, <2>2
<1>6. PoppedWaiters(n) = CHOOSE i \in 0..Len(waitq) : Stops(i)
  BY DEF PoppedWaiters
<1> HIDE DEF Stops
<1>7. PoppedWaiters(n) \in 0..Len(waitq) /\ Stops(PoppedWaiters(n))
  BY <1>5, <1>6
<1>8. QED
  BY <1>7 DEF Stops

\* A request that ends gives back its permit, and the waiters that fit take
\* theirs.
LEMMA Released ==
  ASSUME IInv, NEW r \in Requests, req[r].state \in {"granted", "sent"}, ReleaseUnits(r), server' = server
  PROVE  /\ avail' \in Nat /\ waitq' \in Seq(Requests) /\ req' \in [Requests -> Request]
         /\ req'[r].state = "done"
         /\ \A q \in Requests :
              /\ req'[q].conn = req[q].conn /\ req'[q].size = req[q].size
              /\ q # r => \/ req'[q].state = req[q].state
                          \/ req[q].state = "waiting" /\ req'[q].state = "granted"
         /\ WaitersListed' /\ MemoryAccounted'
<1> DEFINE n == avail + Permit(r)
           k == PoppedWaiters(n)
           woken == ToSet(SubSeq(waitq, 1, k))
           rest == SubSeq(waitq, k + 1, Len(waitq))
<1>1. /\ avail' = IF server = "up" THEN n - Asked(k) ELSE avail
      /\ waitq' = rest
      /\ req' = [q \in Requests |->
                  IF q = r THEN [req[q] EXCEPT !.state = "done"]
                  ELSE IF q \in woken THEN [req[q] EXCEPT !.state = "granted"]
                  ELSE req[q]]
  BY DEF ReleaseUnits
<1>2. avail \in Nat /\ n \in Nat /\ Permit(r) = req[r].size /\ Permits[r] = req[r].size
  BY Parts DEF Types, Permit
<1> HIDE DEF n
<1>3. k \in 0..Len(waitq) /\ Asked(k) <= n
  BY <1>2, PoppedIs
<1> HIDE DEF k
<1>4. /\ Asked(k) \in Nat /\ woken \subseteq Requests_({"waiting"}) /\ IsFiniteSet(woken)
      /\ \A v : (\A q \in woken : v[q] = req[q].size) => Total(woken, v) = Asked(k)
  BY <1>3, AskedIs
<1>5. waitq \in Seq(Requests) /\ IsInjective(waitq) /\ ToSet(waitq) = Requests_({"waiting"})
      /\ (server # "up" => waitq = <<>>)
  BY Parts DEF Types, WaitersListed
<1>6. /\ rest \in Seq(Requests) /\ IsInjective(rest)
      /\ ToSet(waitq) = woken \cup ToSet(rest) /\ woken \cap ToSet(rest) = {}
  BY <1>3, <1>5, ToSetOfParts
<1>7. server # "up" => k = 0 /\ rest = <<>> /\ woken = {}
  <2>1. SUFFICES ASSUME server # "up" PROVE k = 0 /\ rest = <<>> /\ woken = {}
    OBVIOUS
  <2>2. waitq = <<>> /\ Len(waitq) = 0 /\ ToSet(waitq) = {}
    BY <1>5, <2>1, EmptySeq, ToSetOfEmpty
  <2>3. ToSet(rest) = {}
    BY <1>6, <2>2
  <2> HIDE DEF rest
  <2>4. QED
    BY <1>3, <1>6, <2>2, <2>3, ToSetOfEmpty
<1> HIDE DEF woken, rest
<1>8. r \notin woken /\ woken \subseteq Requests
  BY <1>4 DEF Requests_
<1>9. ASSUME NEW q \in Requests
      PROVE  /\ req'[q] \in Request /\ req'[q].conn = req[q].conn /\ req'[q].size = req[q].size
             /\ req'[q].state = IF q = r THEN "done" ELSE IF q \in woken THEN "granted" ELSE req[q].state
  <2>1. req[q] \in Request
    BY Parts
  <2>2. req'[q] = IF q = r THEN [req[q] EXCEPT !.state = "done"]
                  ELSE IF q \in woken THEN [req[q] EXCEPT !.state = "granted"]
                  ELSE req[q]
    BY <1>1
  <2>3. QED
    BY <2>1, <2>2 DEF Request, ReqState
<1>10. req' \in [Requests -> Request]
  <2> DEFINE f(q) == IF q = r THEN [req[q] EXCEPT !.state = "done"]
                     ELSE IF q \in woken THEN [req[q] EXCEPT !.state = "granted"]
                     ELSE req[q]
  <2>1. req' = [q \in Requests |-> f(q)]
    BY <1>1
  <2> HIDE DEF f
  <2>2. QED
    BY <1>9, <2>1
<1>11. \A q \in woken : req[q].state = "waiting"
  BY <1>4 DEF Requests_
<1>12. WaitersListed'
  <2>1. Requests_({"waiting"})' = Requests_({"waiting"}) \ woken
    <3>1. \A q \in Requests : req'[q].state = "waiting" <=> req[q].state = "waiting" /\ q \notin woken
      BY <1>9, <1>11
    <3>2. QED
      BY <3>1 DEF Requests_
  <2>2. ToSet(rest) = Requests_({"waiting"}) \ woken
    BY <1>5, <1>6
  <2>3. QED
    BY <1>1, <1>6, <1>7, <2>1, <2>2 DEF WaitersListed
<1>13. Total(Requests, Permits') = (Total(Requests, Permits) - req[r].size) + Asked(k)
       /\ req[r].size <= Total(Requests, Permits) /\ Total(Requests, Permits) \in Nat
  <2> DEFINE T == woken \cup {r}
             P == Permits
             Q == Permits'
  <2>1. \A q \in Requests : P[q] = Permit(q) /\ P[q] \in Nat
    BY Parts
  <2>2. \A q \in Requests : Q[q] = IF q = r THEN 0 ELSE IF q \in woken THEN req[q].size ELSE P[q]
    <3>1. SUFFICES ASSUME NEW q \in Requests
                   PROVE  Q[q] = IF q = r THEN 0 ELSE IF q \in woken THEN req[q].size ELSE P[q]
      OBVIOUS
    <3>2. /\ Q[q] = IF req'[q].state \in {"granted", "running", "replying", "sent"} THEN req'[q].size ELSE 0
          /\ P[q] = IF req[q].state \in {"granted", "running", "replying", "sent"} THEN req[q].size ELSE 0
      BY DEF Permits, Permit
    <3>3. QED
      BY <1>9, <3>2
  <2>3. \A q \in Requests : Q[q] \in Nat
    BY <2>1, <2>2, Parts
  <2>4. \A q \in woken : P[q] = 0
    BY <1>8, <1>11, <2>1 DEF Permit
  <2>5. P[r] = req[r].size /\ Q[r] = 0 /\ \A q \in woken : Q[q] = req[q].size
    BY <1>2, <1>8, <2>2
  <2>6. T \in SUBSET Requests /\ \A q \in Requests \ T : Q[q] = P[q]
    BY <1>8, <2>2
  <2> HIDE DEF P, Q
  <2>7. Total(T, P) = Total(woken, P) + P[r] /\ Total(T, Q) = Total(woken, Q) + Q[r]
    <3>1. (\A q \in woken \cup {r} : P[q] \in Nat) /\ (\A q \in woken \cup {r} : Q[q] \in Nat)
      BY <1>8, <2>1, <2>3
    <3>2. Total(woken \cup {r}, P) = Total(woken, P) + P[r]
      BY <1>4, <1>8, <3>1, TotalOfAdded
    <3>3. Total(woken \cup {r}, Q) = Total(woken, Q) + Q[r]
      BY <1>4, <1>8, <3>1, TotalOfAdded
    <3>4. QED
      BY <3>2, <3>3
  <2>8. Total(woken, P) = 0 /\ Total(woken, Q) = Asked(k)
    BY <1>4, <2>4, <2>5, TotalOfZeros
  <2>9. Total(T, P) = req[r].size /\ Total(T, Q) = Asked(k)
    BY <1>4, <2>5, <2>7, <2>8, Parts
  <2> HIDE DEF T
  <2>10. /\ Total(Requests, P) \in Nat
         /\ Total(Requests, Q) = (Total(Requests, P) - Total(T, P)) + Total(T, Q)
         /\ Total(T, P) <= Total(Requests, P)
    <3>1. IsFiniteSet(Requests) /\ (\A q \in Requests : P[q] \in Nat)
      BY <2>1, Parts
    <3>2. QED
      BY <2>3, <2>6, <3>1, TotalOfChanged
  <2>11. QED
    BY <2>9, <2>10 DEF P, Q
<1>14. avail' \in Nat
  BY <1>1, <1>2, <1>3, <1>4
<1>15. MemoryAccounted'
  <2>1. req[r].size \in Nat /\ MaxMemory \in Nat
    BY Parts
  <2>2. CASE server = "up"
    <3>1. avail + Total(Requests, Permits) = MaxMemory
      BY <2>2, Parts DEF MemoryAccounted
    <3>2. n = avail + req[r].size
      BY <1>2 DEF n
    <3>3. avail' = n - Asked(k)
      BY <1>1, <2>2
    <3>4. avail' + Total(Requests, Permits') = MaxMemory
      BY <1>2, <1>4, <1>13, <2>1, <3>1, <3>2, <3>3
    <3>5. QED
      BY <2>2, <3>4 DEF MemoryAccounted
  <2>3. CASE server # "up"
    <3>1. avail = 0 /\ Total(Requests, Permits) <= MaxMemory
      BY <2>3, Parts DEF MemoryAccounted
    <3>2. Asked(k) = 0
      <4>1. k = 0 /\ 1..0 = {}
        BY <1>7, <2>3
      <4>2. QED
        BY <4>1, TotalOfEmpty DEF Asked
    <3>3. avail' = 0 /\ Total(Requests, Permits') <= MaxMemory
      BY <1>1, <1>13, <2>1, <2>3, <3>1, <3>2
    <3>4. QED
      BY <2>3, <3>3 DEF MemoryAccounted
  <2>4. QED
    BY <2>2, <2>3
<1>16. \A q \in Requests : q # r => \/ req'[q].state = req[q].state
                                    \/ req[q].state = "waiting" /\ req'[q].state = "granted"
  BY <1>9, <1>11
<1>17. QED
  BY <1>1, <1>6, <1>9, <1>10, <1>12, <1>14, <1>15, <1>16

\* The same requests are waited for, by the same readers.
LEMMA ReadersStay ==
  ASSUME IInv, \A c \in Conns : conn'[c] = "waiting" <=> conn[c] = "waiting",
         \A q \in Requests : /\ req'[q].conn = req[q].conn
                             /\ req'[q].state \in Pending <=> req[q].state \in Pending
  PROVE  ReadersWait'
<1>1. Requests_(Pending)' = Requests_(Pending)
  BY DEF Requests_, Pending
<1>2. \A q \in Requests_(Pending) : q \in Requests /\ req'[q].conn = req[q].conn
  BY DEF Requests_
<1>3. QED
  BY <1>1, <1>2, Parts DEF ReadersWait

\* The reader that waited for r goes on.
LEMMA ReaderGoesOn ==
  ASSUME IInv, NEW r \in Requests, req[r].state \in Pending, req'[r].state \notin Pending,
         \A q \in Requests \ {r} : /\ req'[q].conn = req[q].conn
                                   /\ req'[q].state \in Pending <=> req[q].state \in Pending,
         NEW st \in {"reading", "draining"},
         \A d \in Conns : conn'[d] = IF d = req[r].conn THEN st ELSE conn[d]
  PROVE  ReadersWait'
<1>1. Requests_(Pending)' = Requests_(Pending) \ {r} /\ r \in Requests_(Pending)
  BY DEF Requests_, Pending
<1>2. \A q \in Requests_(Pending) : q \in Requests
  BY DEF Requests_
<1>3. ASSUME NEW q \in Requests_(Pending)' PROVE req'[q].conn \in Conns /\ conn'[req'[q].conn] = "waiting"
  <2>1. q \in Requests \ {r} /\ q \in Requests_(Pending)
    BY <1>1, <1>2
  <2>2. req'[q].conn = req[q].conn /\ req[q].conn \in Conns /\ req[q].conn # req[r].conn
        /\ conn[req[q].conn] = "waiting"
    BY <1>1, <2>1, Parts DEF ReadersWait
  <2>3. QED
    BY <2>2
<1>4. ASSUME NEW q \in Requests_(Pending)', NEW p \in Requests_(Pending)', req'[q].conn = req'[p].conn PROVE q = p
  BY <1>1, <1>2, <1>4, Parts DEF ReadersWait
<1>5. ASSUME NEW c \in Conns, conn'[c] = "waiting" PROVE \E q \in Requests_(Pending)' : req'[q].conn = c
  <2>1. c # req[r].conn /\ conn[c] = "waiting"
    BY <1>5
  <2>2. PICK q \in Requests_(Pending) : req[q].conn = c
    BY <2>1, Parts DEF ReadersWait
  <2>3. QED
    BY <1>1, <1>2, <2>1, <2>2
<1>6. QED
  BY <1>3, <1>4, <1>5 DEF ReadersWait

\* The reader of c waits for r.
LEMMA ReaderStarts ==
  ASSUME IInv, NEW r \in Requests, NEW c \in Conns, req[r].state = "new", conn[c] = "reading",
         req'[r].state \in Pending, req'[r].conn = c, \A q \in Requests \ {r} : req'[q] = req[q],
         \A d \in Conns : conn'[d] = IF d = c THEN "waiting" ELSE conn[d]
  PROVE  ReadersWait'
<1>1. Requests_(Pending)' = Requests_(Pending) \cup {r} /\ r \notin Requests_(Pending)
  BY DEF Requests_, Pending
<1>2. \A q \in Requests_(Pending) : q \in Requests
  BY DEF Requests_
<1>3. \A q \in Requests_(Pending) : /\ req'[q].conn = req[q].conn /\ req[q].conn \in Conns
                                    /\ conn[req[q].conn] = "waiting" /\ req[q].conn # c
  BY <1>1, <1>2, Parts DEF ReadersWait
<1>4. ASSUME NEW q \in Requests_(Pending)' PROVE req'[q].conn \in Conns /\ conn'[req'[q].conn] = "waiting"
  BY <1>1, <1>3
<1>5. ASSUME NEW q \in Requests_(Pending)', NEW p \in Requests_(Pending)', req'[q].conn = req'[p].conn PROVE q = p
  BY <1>1, <1>3, <1>5, Parts DEF ReadersWait
<1>6. ASSUME NEW d \in Conns, conn'[d] = "waiting" PROVE \E q \in Requests_(Pending)' : req'[q].conn = d
  BY <1>1, <1>3, <1>6, Parts DEF ReadersWait
<1>7. QED
  BY <1>4, <1>5, <1>6 DEF ReadersWait

\* The permit of one request changes.
LEMMA PermitChanges ==
  ASSUME IInv, NEW r \in Requests, req' \in [Requests -> Request], \A q \in Requests \ {r} : req'[q] = req[q]
  PROVE  /\ Total(Requests, Permits') = (Total(Requests, Permits) - Permits[r]) + Permits'[r]
         /\ Total(Requests, Permits) \in Nat /\ Permits[r] \in Nat /\ Permits'[r] \in Nat
<1> DEFINE P == Permits
           Q == Permits'
<1>1. \A q \in Requests : P[q] \in Nat
  BY Parts
<1>2. \A q \in Requests : Q[q] \in Nat
  BY DEF Permits, Permit, Request
<1>3. \A q \in Requests \ {r} : Q[q] = P[q]
  BY DEF Permits, Permit
<1>4. IsFiniteSet(Requests) /\ {r} \in SUBSET Requests
  BY Parts
<1> HIDE DEF P, Q
<1>5. Total({r}, P) = P[r] /\ Total({r}, Q) = Q[r]
  BY <1>1, <1>2, TotalOfOne
<1>6. /\ Total(Requests, P) \in Nat
      /\ Total(Requests, Q) = (Total(Requests, P) - Total({r}, P)) + Total({r}, Q)
  BY <1>1, <1>2, <1>3, <1>4, TotalOfChanged
<1>7. QED
  BY <1>1, <1>2, <1>5, <1>6 DEF P, Q

LEMMA ReplyDonePreserves == ASSUME IInv, NEW r \in Requests, ReplyDone(r) PROVE IInv'
<1>1. req[r].state = "sent" /\ ReleaseUnits(r) /\ UNCHANGED <<gate, conn, errors, registry>>
  BY DEF ReplyDone
<1>2. /\ server' = server /\ acceptor' = acceptor /\ accepted' = accepted /\ known' = known
      /\ stopping' = stopping /\ conn' = conn /\ errors' = errors
      /\ domain' = domain /\ parent' = parent /\ streams' = streams
  BY <1>1 DEF gate, registry
<1>3. /\ avail' \in Nat /\ waitq' \in Seq(Requests) /\ req' \in [Requests -> Request]
      /\ req'[r].state = "done"
      /\ \A q \in Requests :
           /\ req'[q].conn = req[q].conn /\ req'[q].size = req[q].size
           /\ q # r => \/ req'[q].state = req[q].state
                       \/ req[q].state = "waiting" /\ req'[q].state = "granted"
      /\ WaitersListed' /\ MemoryAccounted'
  BY <1>1, <1>2, Released
<1>4. Types'
  BY <1>2, <1>3, Parts DEF Types
<1>5. AcceptedIsNew' /\ Families' /\ StreamsAreListed'
  BY <1>2, <1>4, FamiliesCalm DEF registry
<1>6. ReadersWait'
  <2>1. \A q \in Requests : req'[q].state \in Pending <=> req[q].state \in Pending
    BY <1>1, <1>3 DEF Pending
  <2>2. QED
    BY <1>2, <1>3, <2>1, ReadersStay
<1>7. HandlersEndBeforeStop'
  BY <1>2, <1>3, Parts DEF HandlersEndBeforeStop, InGate, Requests_
<1>8. QED
  BY <1>3, <1>4, <1>5, <1>6, <1>7 DEF IInv

LEMMA ResourcesTimeOutPreserves == ASSUME IInv, NEW r \in Requests, ResourcesTimeOut(r) PROVE IInv'
<1>1. /\ req[r].state = "waiting" /\ req' = [req EXCEPT ![r].state = "timedout"]
      /\ UNCHANGED <<gate, conn, errors, registry, avail>>
  BY DEF ResourcesTimeOut
<1>2. PICK i \in 1..Len(waitq) : waitq[i] = r /\ waitq' = RemoveAt(waitq, i)
  BY DEF ResourcesTimeOut
<1>3. /\ server' = server /\ acceptor' = acceptor /\ accepted' = accepted /\ known' = known
      /\ stopping' = stopping /\ conn' = conn /\ errors' = errors /\ avail' = avail
      /\ domain' = domain /\ parent' = parent /\ streams' = streams
  BY <1>1 DEF gate, registry
<1>4. /\ req' \in [Requests -> Request]
      /\ \A q \in Requests : /\ req'[q].conn = req[q].conn /\ req'[q].size = req[q].size
                             /\ req'[q].state = IF q = r THEN "timedout" ELSE req[q].state
                             /\ q # r => req'[q] = req[q]
  BY <1>1, Parts DEF Types, Request, ReqState
<1>5. /\ waitq \in Seq(Requests) /\ IsInjective(waitq) /\ ToSet(waitq) = Requests_({"waiting"})
      /\ server # "up" => waitq = <<>>
  BY Parts DEF Types, WaitersListed
<1>6. waitq' \in Seq(Requests) /\ IsInjective(waitq') /\ ToSet(waitq') = ToSet(waitq) \ {r}
  BY <1>2, <1>5, ToSetOfRemoveAt
<1>7. Types'
  BY <1>3, <1>4, <1>6, Parts DEF Types
<1>8. AcceptedIsNew' /\ Families' /\ StreamsAreListed'
  BY <1>3, <1>7, FamiliesCalm DEF registry
<1>9. ReadersWait'
  <2>1. \A q \in Requests : req'[q].state \in Pending <=> req[q].state \in Pending
    BY <1>1, <1>4 DEF Pending
  <2>2. QED
    BY <1>3, <1>4, <2>1, ReadersStay
<1>10. WaitersListed'
  <2>1. Requests_({"waiting"})' = Requests_({"waiting"}) \ {r}
    BY <1>4 DEF Requests_
  <2>2. server = "up"
    <3>1. Len(<<>>) = 0
      BY EmptySeq
    <3>2. waitq # <<>>
      BY <1>2, <3>1
    <3>3. QED
      BY <1>5, <3>2
  <2>3. QED
    BY <1>3, <1>5, <1>6, <2>1, <2>2 DEF WaitersListed
<1>11. MemoryAccounted'
  <2>1. Permits[r] = 0 /\ Permits'[r] = 0
    BY <1>1, <1>4 DEF Permits, Permit
  <2>2. Total(Requests, Permits') = Total(Requests, Permits)
    BY <1>4, <2>1, PermitChanges
  <2>3. QED
    BY <1>3, <2>2, Parts DEF MemoryAccounted
<1>12. HandlersEndBeforeStop'
  BY <1>3, <1>4, Parts DEF HandlersEndBeforeStop, InGate, Requests_
<1>13. QED
  BY <1>7, <1>8, <1>9, <1>10, <1>11, <1>12 DEF IInv

-----------------------------------------------------------------------------
(* The reader of a connection *)

\* A reader goes on with its permit or gives it back.
LEMMA StartPreserves == ASSUME IInv, NEW r \in Requests, Start(r) PROVE IInv'
<1> DEFINE c == req[r].conn
<1>1. req[r].state = "granted" /\ UNCHANGED <<gate, registry>> /\ ReadOn(c)
  BY DEF Start
<1>2. r \in Requests_(Pending) /\ c \in Conns /\ conn[c] = "waiting" /\ parent[c] = None
  BY <1>1, Parts DEF Requests_, Pending, ReadersWait, Families
<1>3. PICK st \in {"reading", "draining"} :
        /\ conn' \in [Conns -> ConnState] /\ errors' \subseteq Conns
        /\ \A d \in Conns : conn'[d] = IF d = c THEN st ELSE conn[d]
  BY <1>1, <1>2, Parts, ReaderMoves
<1>4. /\ server' = server /\ acceptor' = acceptor /\ accepted' = accepted /\ known' = known
      /\ stopping' = stopping /\ domain' = domain /\ parent' = parent /\ streams' = streams
  BY <1>1 DEF gate, registry
<1>5. ASSUME Types' PROVE AcceptedIsNew' /\ Families' /\ StreamsAreListed'
  BY <1>1, <1>2, <1>3, <1>4, <1>5, FamiliesCalm
<1>6. CASE /\ server = "up"
           /\ req' = [req EXCEPT ![r].state =
                       IF req[r].known THEN "running"
                       ELSE IF req[r].conn \in errors THEN "sent" ELSE "replying"]
           /\ UNCHANGED memory
  <2>1. PICK s \in {"running", "sent", "replying"} : req' = [req EXCEPT ![r].state = s]
    BY <1>6
  <2>2. /\ req' \in [Requests -> Request]
        /\ \A q \in Requests : /\ req'[q].conn = req[q].conn /\ req'[q].size = req[q].size
                               /\ req'[q].state = IF q = r THEN s ELSE req[q].state
                               /\ q # r => req'[q] = req[q]
    BY <2>1, Parts DEF Types, Request, ReqState
  <2>3. avail' = avail /\ waitq' = waitq
    BY <1>6 DEF memory
  <2>4. Types'
    BY <1>3, <1>4, <2>2, <2>3, Parts DEF Types
  <2>5. ReadersWait'
    <3>1. req[r].state \in Pending /\ req'[r].state \notin Pending
      BY <1>1, <2>2 DEF Pending
    <3>2. \A q \in Requests \ {r} : req'[q].conn = req[q].conn /\ (req'[q].state \in Pending <=> req[q].state \in Pending)
      BY <2>2
    <3>3. QED
      BY <1>3, <3>1, <3>2, ReaderGoesOn
  <2>6. WaitersListed'
    <3>1. Requests_({"waiting"})' = Requests_({"waiting"})
      BY <1>1, <2>2 DEF Requests_
    <3>2. QED
      BY <1>4, <2>3, <3>1, Parts DEF WaitersListed
  <2>7. MemoryAccounted'
    <3>1. Permits'[r] = Permits[r]
      BY <1>1, <2>2 DEF Permits, Permit
    <3>2. Total(Requests, Permits') = Total(Requests, Permits)
      BY <2>2, <3>1, PermitChanges
    <3>3. QED
      BY <1>4, <2>3, <3>2, Parts DEF MemoryAccounted
  <2>8. HandlersEndBeforeStop'
    BY <1>4, <1>6 DEF HandlersEndBeforeStop
  <2>9. QED
    BY <1>5, <2>4, <2>5, <2>6, <2>7, <2>8 DEF IInv
<1>7. CASE server # "up" /\ ReleaseUnits(r)
  <2>1. /\ avail' \in Nat /\ waitq' \in Seq(Requests) /\ req' \in [Requests -> Request]
        /\ req'[r].state = "done"
        /\ \A q \in Requests :
             /\ req'[q].conn = req[q].conn /\ req'[q].size = req[q].size
             /\ q # r => \/ req'[q].state = req[q].state
                         \/ req[q].state = "waiting" /\ req'[q].state = "granted"
        /\ WaitersListed' /\ MemoryAccounted'
    BY <1>1, <1>4, <1>7, Released
  <2>2. Types'
    BY <1>3, <1>4, <2>1, Parts DEF Types
  <2>3. ReadersWait'
    <3>1. req[r].state \in Pending /\ req'[r].state \notin Pending
      BY <1>1, <2>1 DEF Pending
    <3>2. \A q \in Requests \ {r} : req'[q].conn = req[q].conn /\ (req'[q].state \in Pending <=> req[q].state \in Pending)
      BY <2>1 DEF Pending
    <3>3. QED
      BY <1>3, <3>1, <3>2, ReaderGoesOn
  <2>4. HandlersEndBeforeStop'
    BY <1>4, <2>1, Parts DEF HandlersEndBeforeStop, InGate, Requests_
  <2>5. QED
    BY <1>5, <2>1, <2>2, <2>3, <2>4 DEF IInv
<1>8. QED
  BY <1>6, <1>7 DEF Start

LEMMA NotStartedPreserves == ASSUME IInv, NEW r \in Requests, NotStarted(r) PROVE IInv'
<1> DEFINE c == req[r].conn
<1>1. /\ req[r].state \in {"timedout", "broken"} /\ req' = [req EXCEPT ![r].state = "done"]
      /\ ReadOn(c) \/ Drain(c)
      /\ UNCHANGED <<gate, registry, memory>>
  BY DEF NotStarted
<1>2. r \in Requests_(Pending) /\ c \in Conns /\ conn[c] = "waiting" /\ parent[c] = None
  BY <1>1, Parts DEF Requests_, Pending, ReadersWait, Families
<1>3. PICK st \in {"reading", "draining"} :
        /\ conn' \in [Conns -> ConnState] /\ errors' \subseteq Conns
        /\ \A d \in Conns : conn'[d] = IF d = c THEN st ELSE conn[d]
  BY <1>1, <1>2, Parts, ReaderMoves
<1>4. /\ server' = server /\ acceptor' = acceptor /\ accepted' = accepted /\ known' = known
      /\ stopping' = stopping /\ domain' = domain /\ parent' = parent /\ streams' = streams
      /\ avail' = avail /\ waitq' = waitq
  BY <1>1 DEF gate, registry, memory
<1>5. /\ req' \in [Requests -> Request]
      /\ \A q \in Requests : /\ req'[q].conn = req[q].conn /\ req'[q].size = req[q].size
                             /\ req'[q].state = IF q = r THEN "done" ELSE req[q].state
                             /\ q # r => req'[q] = req[q]
  BY <1>1, Parts DEF Types, Request, ReqState
<1>6. Types'
  BY <1>3, <1>4, <1>5, Parts DEF Types
<1>7. AcceptedIsNew' /\ Families' /\ StreamsAreListed'
  BY <1>1, <1>2, <1>3, <1>4, <1>6, FamiliesCalm
<1>8. ReadersWait'
  <2>1. req[r].state \in Pending /\ req'[r].state \notin Pending
    BY <1>1, <1>5 DEF Pending
  <2>2. \A q \in Requests \ {r} : req'[q].conn = req[q].conn /\ (req'[q].state \in Pending <=> req[q].state \in Pending)
    BY <1>5
  <2>3. QED
    BY <1>3, <2>1, <2>2, ReaderGoesOn
<1>9. WaitersListed'
  <2>1. Requests_({"waiting"})' = Requests_({"waiting"})
    BY <1>1, <1>5 DEF Requests_
  <2>2. QED
    BY <1>4, <2>1, Parts DEF WaitersListed
<1>10. MemoryAccounted'
  <2>1. Permits[r] = 0 /\ Permits'[r] = 0
    BY <1>1, <1>5 DEF Permits, Permit
  <2>2. Total(Requests, Permits') = Total(Requests, Permits)
    BY <1>5, <2>1, PermitChanges
  <2>3. QED
    BY <1>4, <2>2, Parts DEF MemoryAccounted
<1>11. HandlersEndBeforeStop'
  BY <1>4, <1>5, Parts DEF HandlersEndBeforeStop, InGate, Requests_
<1>12. QED
  BY <1>6, <1>7, <1>8, <1>9, <1>10, <1>11 DEF IInv

\* stop() breaks the semaphore: nobody waits for it again, and no permit is given.
LEMMA StopPreserves == ASSUME IInv, Stop PROVE IInv'
<1>1. /\ server = "up" /\ server' = "stopping" /\ stopping' = known /\ errors' = errors \cup known
      /\ acceptor' = IF acceptor = "accepting" THEN "ended" ELSE acceptor
      /\ avail' = 0 /\ waitq' = <<>>
      /\ req' = [r \in Requests |->
                  IF r \in ToSet(waitq) THEN [req[r] EXCEPT !.state = "broken"] ELSE req[r]]
      /\ UNCHANGED <<accepted, known, conn, registry>>
  BY DEF Stop
<1>2. ToSet(waitq) = Requests_({"waiting"})
  BY Parts DEF WaitersListed
<1>3. ASSUME NEW q \in Requests
      PROVE  /\ req'[q] \in Request /\ req'[q].conn = req[q].conn /\ req'[q].size = req[q].size
             /\ req'[q].state = IF req[q].state = "waiting" THEN "broken" ELSE req[q].state
  <2>1. req[q] \in Request
    BY Parts
  <2>2. req'[q] = IF req[q].state = "waiting" THEN [req[q] EXCEPT !.state = "broken"] ELSE req[q]
    BY <1>1, <1>2 DEF Requests_
  <2>3. QED
    BY <2>1, <2>2 DEF Request, ReqState
<1>4. req' \in [Requests -> Request]
  <2> DEFINE f(q) == IF q \in ToSet(waitq) THEN [req[q] EXCEPT !.state = "broken"] ELSE req[q]
  <2>1. req' = [q \in Requests |-> f(q)]
    BY <1>1
  <2> HIDE DEF f
  <2>2. QED
    BY <1>3, <2>1
<1>5. waitq' \in Seq(Requests)
  BY <1>1, EmptySeq
<1>6. Types'
  BY <1>1, <1>4, <1>5, Parts DEF Types, registry
<1>7. AcceptedIsNew' /\ Families' /\ StreamsAreListed'
  BY <1>1, <1>6, FamiliesCalm
<1>8. ReadersWait'
  <2>1. \A q \in Requests : req'[q].state \in Pending <=> req[q].state \in Pending
    BY <1>3 DEF Pending
  <2>2. QED
    BY <1>1, <1>3, <2>1, ReadersStay
<1>9. WaitersListed'
  <2>1. Requests_({"waiting"})' = {}
    BY <1>3 DEF Requests_
  <2>2. QED
    BY <1>1, <2>1, ToSetOfEmpty DEF WaitersListed
<1>10. MemoryAccounted'
  <2>1. \A q \in Requests : Permits'[q] = Permits[q]
    BY <1>3 DEF Permits, Permit
  <2>2. Total(Requests, Permits') = Total(Requests, Permits)
    BY <2>1, TotalOfEqual
  <2>3. Total(Requests, Permits) \in Nat
    BY Parts, TotalType
  <2>4. avail \in Nat /\ avail + Total(Requests, Permits) = MaxMemory
    BY <1>1, Parts DEF MemoryAccounted, Types
  <2>5. Total(Requests, Permits) <= MaxMemory
    BY <2>3, <2>4, Parts
  <2>6. QED
    BY <1>1, <2>2, <2>5 DEF MemoryAccounted
<1>11. HandlersEndBeforeStop'
  BY <1>1 DEF HandlersEndBeforeStop
<1>12. QED
  BY <1>6, <1>7, <1>8, <1>9, <1>10, <1>11 DEF IInv

\* A request that is too large takes no memory.
LEMMA RefusePreserves ==
  ASSUME IInv, NEW r \in Requests, NEW c \in Conns, NEW q \in Request, req[r].state = "new", q.conn = c,
         conn[c] = "reading", parent[c] = None, RefuseTooLarge(c, r, q), UNCHANGED <<gate, registry>>
  PROVE  IInv'
<1>1. /\ server' = server /\ acceptor' = acceptor /\ accepted' = accepted /\ known' = known
      /\ stopping' = stopping /\ domain' = domain /\ parent' = parent /\ streams' = streams
      /\ avail' = avail /\ waitq' = waitq
  BY DEF RefuseTooLarge, gate, registry, memory
<1>2. PICK s \in {"sent", "replying", "done"} :
        /\ req' = [req EXCEPT ![r] = [q EXCEPT !.size = 0, !.state = s]]
        /\ s # "done" => server = "up"
  BY DEF RefuseTooLarge
<1>3. /\ conn' \in [Conns -> ConnState] /\ errors' \subseteq Conns
      /\ \A d \in Conns : conn'[d] = IF d = c /\ s = "done" THEN conn'[c] ELSE conn[d]
      /\ conn'[c] \in {"reading", "draining"}
  <2>1. CASE UNCHANGED <<conn, errors>>
    BY <2>1, Parts DEF Types
  <2>2. CASE /\ req' = [req EXCEPT ![r] = [q EXCEPT !.size = 0, !.state = "done"]] /\ Drain(c)
    <3>1. PICK st \in {"reading", "draining"} :
            /\ conn' \in [Conns -> ConnState] /\ errors' \subseteq Conns
            /\ \A d \in Conns : conn'[d] = IF d = c THEN st ELSE conn[d]
      BY <2>2, Parts, ReaderMoves
    <3>2. s = "done"
      <4>1. req'[r] = [q EXCEPT !.size = 0, !.state = "done"] /\ req'[r] = [q EXCEPT !.size = 0, !.state = s]
        BY <1>2, <2>2, Parts DEF Types
      <4>2. [q EXCEPT !.size = 0, !.state = "done"].state = "done" /\ [q EXCEPT !.size = 0, !.state = s].state = s
        BY DEF Request
      <4>3. QED
        BY <4>1, <4>2
    <3>3. QED
      BY <3>1, <3>2
  <2>3. QED
    BY <2>1, <2>2 DEF RefuseTooLarge
<1>4. /\ req' \in [Requests -> Request] /\ req'[r].state = s /\ req'[r].size = 0 /\ req'[r].conn = c
      /\ \A p \in Requests \ {r} : req'[p] = req[p]
  <2> DEFINE x == [q EXCEPT !.size = 0, !.state = s]
  <2>1. x \in Request /\ x.state = s /\ x.size = 0 /\ x.conn = c
    BY DEF Request, ReqState
  <2> HIDE DEF x
  <2>2. req' = [req EXCEPT ![r] = x]
    BY <1>2 DEF x
  <2>3. QED
    BY <2>1, <2>2, Parts DEF Types
<1>5. Types'
  BY <1>1, <1>3, <1>4, Parts DEF Types
<1>6. AcceptedIsNew' /\ Families' /\ StreamsAreListed'
  BY <1>1, <1>3, <1>5, FamiliesCalm DEF registry
<1>7. s \notin Pending /\ req[r].state \notin Pending
  BY DEF Pending
<1>8. ReadersWait'
  <2>1. Requests_(Pending)' = Requests_(Pending) /\ \A p \in Requests_(Pending) : req'[p] = req[p]
    BY <1>4, <1>7 DEF Requests_, Pending
  <2>2. \A d \in Conns : conn'[d] = "waiting" <=> conn[d] = "waiting"
    BY <1>3
  <2>3. QED
    BY <2>1, <2>2, Parts DEF ReadersWait
<1>9. WaitersListed'
  <2>1. Requests_({"waiting"})' = Requests_({"waiting"})
    BY <1>4 DEF Requests_
  <2>2. QED
    BY <1>1, <2>1, Parts DEF WaitersListed
<1>10. MemoryAccounted'
  <2>1. Permits[r] = 0 /\ Permits'[r] = 0
    BY <1>4 DEF Permits, Permit
  <2>2. Total(Requests, Permits') = Total(Requests, Permits)
    BY <1>4, <2>1, PermitChanges
  <2>3. QED
    BY <1>1, <2>2, Parts DEF MemoryAccounted
<1>11. HandlersEndBeforeStop'
  BY <1>1, <1>2, <1>4, Parts DEF HandlersEndBeforeStop, InGate, Requests_
<1>12. QED
  BY <1>5, <1>6, <1>8, <1>9, <1>10, <1>11 DEF IInv

\* Another one gets its memory, waits for it, or finds the semaphore broken.
LEMMA WaitPreserves ==
  ASSUME IInv, NEW r \in Requests, NEW c \in Conns, NEW q \in Request, req[r].state = "new", q.conn = c,
         q.size > 0, conn[c] = "reading", parent[c] = None, WaitForResources(r, q),
         conn' = [conn EXCEPT ![c] = "waiting"], UNCHANGED <<errors, gate, registry>>
  PROVE  IInv'
<1>1. /\ server' = server /\ acceptor' = acceptor /\ accepted' = accepted /\ known' = known
      /\ stopping' = stopping /\ domain' = domain /\ parent' = parent /\ streams' = streams
      /\ errors' = errors
  BY DEF gate, registry
<1>2. /\ conn' \in [Conns -> ConnState]
      /\ \A d \in Conns : conn'[d] = IF d = c THEN "waiting" ELSE conn[d]
  BY Parts DEF Types, ConnState
<1>3. PICK s \in {"granted", "broken", "waiting"} :
        /\ req' = [req EXCEPT ![r] = [q EXCEPT !.state = s]]
        /\ s = "granted" => avail >= q.size /\ avail' = avail - q.size /\ waitq' = waitq
        /\ s = "broken" => avail' = avail /\ waitq' = waitq /\ server # "up"
        /\ s = "waiting" => avail' = avail /\ waitq' = Append(waitq, r) /\ server = "up"
  BY DEF WaitForResources, memory
<1>4. /\ req' \in [Requests -> Request] /\ req'[r].state = s /\ req'[r].size = q.size /\ req'[r].conn = c
      /\ \A p \in Requests \ {r} : req'[p] = req[p]
  <2> DEFINE x == [q EXCEPT !.state = s]
  <2>1. x \in Request /\ x.state = s /\ x.size = q.size /\ x.conn = c
    BY DEF Request, ReqState
  <2> HIDE DEF x
  <2>2. req' = [req EXCEPT ![r] = x]
    BY <1>3 DEF x
  <2>3. QED
    BY <2>1, <2>2, Parts DEF Types
<1>5. q.size \in Nat /\ avail \in Nat
  BY Parts DEF Request, Types
<1>6. /\ waitq \in Seq(Requests) /\ IsInjective(waitq) /\ ToSet(waitq) = Requests_({"waiting"})
      /\ server # "up" => waitq = <<>>
  BY Parts DEF Types, WaitersListed
<1>7. r \notin ToSet(waitq)
  BY <1>6 DEF Requests_
<1>8. avail' \in Nat /\ waitq' \in Seq(Requests)
  BY <1>3, <1>5, <1>6, ToSetOfAppend
<1>9. Types'
  BY <1>1, <1>2, <1>4, <1>8, Parts DEF Types
<1>10. AcceptedIsNew' /\ Families' /\ StreamsAreListed'
  BY <1>1, <1>2, <1>9, FamiliesCalm DEF registry
<1>11. ReadersWait'
  <2>1. req'[r].state \in Pending
    BY <1>4 DEF Pending
  <2>2. QED
    BY <1>2, <1>4, <2>1, ReaderStarts
<1>12. s = "granted" => server = "up"
  BY <1>3, <1>5, Parts DEF MemoryAccounted
<1>13. WaitersListed'
  <2>1. CASE s = "waiting"
    <3>1. Requests_({"waiting"})' = Requests_({"waiting"}) \cup {r}
      BY <1>4, <2>1 DEF Requests_
    <3>2. ToSet(waitq') = ToSet(waitq) \cup {r} /\ IsInjective(waitq')
      <4>1. waitq' = Append(waitq, r)
        BY <1>3, <2>1
      <4>2. ToSet(Append(waitq, r)) = ToSet(waitq) \cup {r} /\ IsInjective(Append(waitq, r))
        BY <1>6, <1>7, ToSetOfAppend
      <4>3. QED
        BY <4>1, <4>2
    <3>3. QED
      BY <1>1, <1>3, <1>6, <2>1, <3>1, <3>2 DEF WaitersListed
  <2>2. CASE s # "waiting"
    <3>1. Requests_({"waiting"})' = Requests_({"waiting"})
      BY <1>4, <2>2 DEF Requests_
    <3>2. QED
      BY <1>1, <1>3, <1>6, <2>2, <3>1 DEF WaitersListed
  <2>3. QED
    BY <2>1, <2>2
<1>14. MemoryAccounted'
  <2>1. /\ Permits[r] = 0
        /\ Permits'[r] = IF s = "granted" THEN q.size ELSE 0
    BY <1>4 DEF Permits, Permit
  <2>2. /\ Total(Requests, Permits') = (Total(Requests, Permits) - Permits[r]) + Permits'[r]
        /\ Total(Requests, Permits) \in Nat
    BY <1>4, PermitChanges
  <2>3. CASE s = "granted"
    <3>1. avail + Total(Requests, Permits) = MaxMemory
      BY <1>12, <2>3, Parts DEF MemoryAccounted
    <3>2. avail' + Total(Requests, Permits') = MaxMemory
      BY <1>3, <1>5, <2>1, <2>2, <2>3, <3>1
    <3>3. QED
      BY <1>1, <1>12, <2>3, <3>2 DEF MemoryAccounted
  <2>4. CASE s # "granted"
    <3>1. Total(Requests, Permits') = Total(Requests, Permits) /\ avail' = avail
      BY <1>3, <2>1, <2>2, <2>4
    <3>2. QED
      BY <1>1, <3>1, Parts DEF MemoryAccounted
  <2>5. QED
    BY <2>3, <2>4
<1>15. HandlersEndBeforeStop'
  BY <1>1, <1>4, Parts DEF HandlersEndBeforeStop, InGate, Requests_
<1>16. QED
  BY <1>9, <1>10, <1>11, <1>13, <1>14, <1>15 DEF IInv

LEMMA ReadRequestPreserves ==
  ASSUME IInv, NEW c \in Conns, NEW r \in Requests, NEW n \in Sizes \cup {VerbErrorSize},
         NEW timed \in BOOLEAN, NEW verb \in BOOLEAN, ReadRequest(c, r, n, timed, verb)
  PROVE  IInv'
<1> DEFINE q == [state |-> "new", conn |-> c, size |-> n, timed |-> timed, known |-> verb]
<1>1. n \in Nat /\ n > 0
  BY RpcServerAssumption
<1>2. q \in Request /\ q.conn = c /\ q.size = n
  BY <1>1 DEF Request, ReqState
<1>3. conn[c] = "reading" /\ parent[c] = None /\ req[r].state = "new" /\ UNCHANGED <<gate, registry>>
  BY DEF ReadRequest
<1>4. \/ RefuseTooLarge(c, r, q)
      \/ WaitForResources(r, q) /\ conn' = [conn EXCEPT ![c] = "waiting"] /\ UNCHANGED errors
  BY DEF ReadRequest
<1> HIDE DEF q
<1>5. CASE RefuseTooLarge(c, r, q)
  BY <1>2, <1>3, <1>5, RefusePreserves
<1>6. CASE WaitForResources(r, q) /\ conn' = [conn EXCEPT ![c] = "waiting"] /\ UNCHANGED errors
  <2>1. q.size > 0 /\ UNCHANGED <<errors, gate, registry>>
    BY <1>1, <1>2, <1>3, <1>6
  <2>2. QED
    BY <1>2, <1>3, <1>6, <2>1, WaitPreserves
<1>7. QED
  BY <1>4, <1>5, <1>6

-----------------------------------------------------------------------------
(* The theorems *)

LEMMA InitEstablishes == Init => IInv
<1> SUFFICES ASSUME Init PROVE IInv
  OBVIOUS
<1>1. /\ server = "up" /\ acceptor = "accepting" /\ accepted = None /\ known = {} /\ stopping = {}
      /\ conn = [c \in Conns |-> "none"] /\ errors = {} /\ domain \in BOOLEAN
      /\ parent = [c \in Conns |-> None] /\ streams = [c \in Conns |-> {}]
      /\ avail = MaxMemory /\ waitq = <<>>
      /\ req = [r \in Requests |-> [state |-> "new", conn |-> None, size |-> 0, timed |-> FALSE, known |-> TRUE]]
  BY DEF Init
<1>2. Types
  <2>1. [state |-> "new", conn |-> None, size |-> 0, timed |-> FALSE, known |-> TRUE] \in Request
    BY DEF Request, ReqState
  <2>2. <<>> \in Seq(Requests)
    BY EmptySeq
  <2>3. req \in [Requests -> Request]
    BY <1>1, <2>1
  <2>4. QED
    BY <1>1, <2>2, <2>3, RpcServerAssumption DEF Types, ConnState
<1>3. AcceptedIsNew /\ Families /\ StreamsAreListed /\ HandlersEndBeforeStop
  BY <1>1 DEF AcceptedIsNew, Families, StreamsAreListed, HandlersEndBeforeStop
<1>4. WaitersListed
  <2>1. ToSet(waitq) = {} /\ IsInjective(waitq)
    BY <1>1, ToSetOfEmpty
  <2>2. Requests_({"waiting"}) = {}
    BY <1>1 DEF Requests_
  <2>3. QED
    BY <1>1, <2>1, <2>2 DEF WaitersListed
<1>5. ReadersWait
  <2>1. Requests_(Pending) = {}
    BY <1>1 DEF Requests_, Pending
  <2>2. \A c \in Conns : conn[c] # "waiting"
    BY <1>1
  <2>3. QED
    BY <2>1, <2>2 DEF ReadersWait
<1>6. MemoryAccounted
  <2>1. \A r \in Requests : Permits[r] = 0
    BY <1>1 DEF Permits, Permit
  <2>2. Total(Requests, Permits) = 0
    BY <2>1, TotalOfZeros
  <2>3. QED
    BY <1>1, <2>2, RpcServerAssumption DEF MemoryAccounted
<1>7. QED
  BY <1>2, <1>3, <1>4, <1>5, <1>6 DEF IInv

LEMMA NextPreserves == IInv /\ [Next]_vars => IInv'
<1> SUFFICES ASSUME IInv, [Next]_vars PROVE IInv'
  OBVIOUS
<1>1. CASE UNCHANGED vars
  BY <1>1, StutterPreserves
<1>2. CASE Accept \/ Stop \/ StopDone
  BY <1>2, AcceptPreserves, StopPreserves, StopDonePreserves
<1>3. ASSUME NEW c \in Conns, ClientConnects(c) PROVE IInv'
  BY <1>3, ClientConnectsPreserves
<1>4. ASSUME NEW c \in Conns, Reader(c) PROVE IInv'
  <2>1. CASE Negotiate(c) \/ RegisterStream(c) \/ DeregisterStream(c) \/ ReaderEnds(c) \/ Close(c)
    BY <2>1, NegotiatePreserves, RegisterStreamPreserves, DeregisterStreamPreserves, ReaderEndsPreserves,
       ClosePreserves
  <2>2. CASE \E p \in Conns : NegotiateStream(c, p)
    BY <2>2, NegotiateStreamPreserves
  <2>3. CASE \E r \in Requests, n \in Sizes \cup {VerbErrorSize}, t, v \in BOOLEAN : ReadRequest(c, r, n, t, v)
    BY <2>3, ReadRequestPreserves
  <2>4. QED
    BY <1>4, <2>1, <2>2, <2>3 DEF Reader
<1>5. ASSUME NEW r \in Requests, Progress(r) PROVE IInv'
  BY <1>5, StartPreserves, NotStartedPreserves, ReplyPreserves, ReplyDonePreserves DEF Progress
<1>6. ASSUME NEW r \in Requests, ResourcesTimeOut(r) PROVE IInv'
  BY <1>6, ResourcesTimeOutPreserves
<1>7. QED
  BY <1>1, <1>2, <1>3, <1>4, <1>5, <1>6 DEF Next, AtRest

LEMMA InvariantHolds == Spec => []IInv
<1>1. Init => IInv
  BY InitEstablishes
<1>2. IInv /\ [Next]_vars => IInv'
  BY NextPreserves
<1>3. QED
  BY <1>1, <1>2, PTL DEF Spec

\* The semaphore's list is that of the requests whose readers wait for memory,
\* and a reader waits for one request at a time (wait_for_resources(),
\* rpc.hh:478), for any connections, requests and limit.
THEOREM TypeCorrect == Spec => []TypeOK
<1>1. IInv => TypeOK
  <2> SUFFICES ASSUME IInv PROVE TypeOK
    OBVIOUS
  <2>1. avail \in 0..MaxMemory
    <3>1. Total(Requests, Permits) \in Nat
      BY Parts, TotalType
    <3>2. QED
      BY <3>1, Parts DEF MemoryAccounted, Types
  <2>2. \A c \in Conns : conn[c] = "waiting" <=> \E r \in Requests_(Pending) : req[r].conn = c
    BY Parts DEF ReadersWait
  <2>3. QED
    BY <2>1, <2>2, Parts DEF TypeOK, Types, WaitersListed, Pending
<1>2. QED
  BY <1>1, InvariantHolds, PTL

\* rpc.hh:69, "Concurrent requests will be limited so that sum(req_mem) <=
\* max_memory": the permits given out stay within the limit through timeouts,
\* refusals, connections that go away and stop().
THEOREM MemoryBoundedHolds == Spec => []MemoryBounded
<1>1. IInv => MemoryBounded
  <2> SUFFICES ASSUME IInv PROVE MemoryBounded
    OBVIOUS
  <2>1. Total(Requests, Permits) \in Nat
    BY Parts, TotalType
  <2>2. Total(Requests, Permits) <= MaxMemory
    BY <2>1, Parts DEF MemoryAccounted, Types
  <2>3. QED
    BY <2>2 DEF MemoryBounded, Permits
<1>2. QED
  BY <1>1, InvariantHolds, PTL

\* get_stream() of a connection in the table finds the streams that have been
\* registered with it and are not gone, and no others (register_stream(),
\* deregister_this_stream()), whatever connections come, name a parent and go.
THEOREM StreamsAreListedHolds == Spec => []StreamsAreListed
<1>1. IInv => StreamsAreListed
  BY DEF IInv
<1>2. QED
  BY <1>1, InvariantHolds, PTL

\* When stop() is ready no handler runs and no reply is under way, and none
\* starts later, whichever connections stop() did not know of.
THEOREM HandlersEndBeforeStopHolds == Spec => []HandlersEndBeforeStop
<1>1. IInv => HandlersEndBeforeStop
  BY DEF IInv
<1>2. QED
  BY <1>1, InvariantHolds, PTL

=============================================================================
