------------------------------ MODULE RpcServer ------------------------------
(***************************************************************************)
(* rpc::server and its connections (rpc/rpc.cc, rpc/rpc.hh,                *)
(* rpc/rpc_impl.hh) on one shard: the accept loop, the negotiation and the *)
(* reader of every connection, the semaphore that bounds the memory of     *)
(* requests, the gate that counts handlers and replies, and stop().        *)
(*                                                                         *)
(* A reader blocks while its request waits for memory; handlers run        *)
(* detached from it.  A connection may turn out to carry a stream of       *)
(* another one, with which it then registers; RpcStream has what goes on   *)
(* on it.  The send loop, which RpcClient has in full, appears here as     *)
(* replies that are written or thrown away.                                *)
(***************************************************************************)
EXTENDS Integers, FiniteSets, SequencesExt, Sums

CONSTANTS
  Conns,            \* the connections clients make, numbered in their order
  Requests,         \* the requests they send, numbered likewise
  Sizes,            \* estimate_request_size() of requests
  VerbErrorSize,    \* what the exception for an unknown verb takes (28)
  MaxMemory,        \* resource_limits::max_memory
  None              \* no connection, no request

ASSUME RpcServerAssumption ==
  /\ Conns \subseteq Nat /\ Requests \subseteq Nat /\ IsFiniteSet(Requests)
  /\ Sizes \subseteq Nat \ {0}
  /\ MaxMemory \in Nat
  /\ VerbErrorSize \in 1..MaxMemory
  /\ None \notin Conns \cup Requests

VARIABLES
  server,    \* "up", "stopping" once stop() is called, "stopped" when it is ready
  acceptor,  \* "accepting"; "accepted" when accept() is ready; "ended"
  accepted,  \* the connection accept() is ready with
  known,     \* the connections in _conns
  stopping,  \* the connections whose stop() server::stop() waits for
  conn,      \* the state of each connection, that of its reader
  errors,    \* the connections with _error
  parent,    \* _parent_id; None unless _is_stream
  streams,   \* _streams of each connection
  avail,     \* _resources_available, the count
  waitq,     \* _resources_available, the waiters
  req,       \* the requests
  domain     \* whether server_options has a streaming_domain

gate == <<server, acceptor, accepted, known, stopping>>
memory == <<avail, waitq>>
registry == <<domain, parent, streams>>
vars == <<gate, conn, errors, registry, memory, req>>

\* "registering", "leaving": a message is on its way to the shard of the parent.
ConnState == {"none", "negotiating", "registering", "reading", "waiting",
              "draining", "leaving", "closed"}

\* "waiting": its reader waits for memory; "granted", "timedout", "broken": so,
\* and the future is ready; "running": in its handler; "replying": the reply
\* is queued; "sent": the future of respond() is ready.
ReqState == {"new", "waiting", "granted", "timedout", "broken", "running", "replying", "sent", "done"}

Request == [state : ReqState, conn : Conns \cup {None}, size : Nat, timed : BOOLEAN, known : BOOLEAN]

Init ==
  /\ server = "up" /\ acceptor = "accepting" /\ accepted = None
  /\ known = {} /\ stopping = {}
  /\ conn = [c \in Conns |-> "none"] /\ errors = {}
  /\ domain \in BOOLEAN
  /\ parent = [c \in Conns |-> None] /\ streams = [c \in Conns |-> {}]
  /\ avail = MaxMemory /\ waitq = <<>>
  /\ req = [r \in Requests |->
             [state |-> "new", conn |-> None, size |-> 0, timed |-> FALSE, known |-> TRUE]]

Requests_(states) == {r \in Requests : req[r].state \in states}

\* What with_gate(_reply_gate, ...) has let in and not out.
InGate == Requests_({"running", "replying", "sent"})

\* Only a server with a streaming domain numbers its connections; the others
\* all have invalid_connection_id.
Id(c) == IF domain THEN c ELSE None

\* _conns.emplace(): it does nothing if the key is there.
Emplaced(c) == IF \E d \in known : Id(d) = Id(c) THEN known ELSE known \cup {c}

Erased(c) == {d \in known : Id(d) # Id(c)}

\* The reader of c ends: process() sets _error and stops the send loop.
Drain(c) ==
  /\ conn' = [conn EXCEPT ![c] = "draining"]
  /\ errors' = errors \cup {c}

\* do_until() of the reader of c: the next frame, unless there was an error.
ReadOn(c) ==
  \/ /\ c \notin errors
     /\ conn' = [conn EXCEPT ![c] = "reading"]
     /\ UNCHANGED errors
  \/ /\ c \in errors
     /\ Drain(c)

-----------------------------------------------------------------------------
(* The accept loop *)

\* A client connects, and the future of accept() is ready.
ClientConnects(c) ==
  /\ acceptor = "accepting"
  /\ conn[c] = "none" /\ \A d \in Conns : d < c => conn[d] # "none"
  /\ acceptor' = "accepted"
  /\ accepted' = c
  /\ UNCHANGED <<server, known, stopping, conn, errors, registry, memory, req>>

\* The continuation of accept(): the connection is entered in _conns and
\* starts to negotiate, and accept() is called again; by then it may be
\* aborted.
Accept ==
  /\ acceptor = "accepted"
  /\ known' = Emplaced(accepted)
  /\ conn' = [conn EXCEPT ![accepted] = "negotiating"]
  /\ acceptor' = IF server = "up" THEN "accepting" ELSE "ended"
  /\ accepted' = None
  /\ UNCHANGED <<server, stopping, errors, registry, memory, req>>

-----------------------------------------------------------------------------
(* Negotiation *)

\* The frame asks for an ordinary connection; it is answered, and process()
\* starts the send loop and to read.
Negotiate(c) ==
  /\ conn[c] = "negotiating"
  /\ ReadOn(c)
  /\ UNCHANGED <<gate, registry, memory, req>>

\* The frame asks for a stream of p.  The connection leaves _conns and asks the
\* shard of p to register it; without a streaming domain that is an error.
NegotiateStream(c, p) ==
  /\ conn[c] = "negotiating"
  /\ p # c /\ parent[p] = None /\ conn[p] \notin {"none", "negotiating"}
  /\ \/ /\ domain
        /\ parent' = [parent EXCEPT ![c] = p]
        /\ known' = Erased(c)
        /\ conn' = [conn EXCEPT ![c] = "registering"]
        /\ UNCHANGED errors
     \/ /\ ~domain
        /\ Drain(c)
        /\ UNCHANGED <<known, parent>>
  /\ UNCHANGED <<server, acceptor, accepted, stopping, domain, streams, memory, req>>

\* The server with the streaming domain of c and the parent there, if both still
\* exist.
ParentFound(c) == server = "up" /\ parent[c] \in known

RegisterStream(c) ==
  /\ conn[c] = "registering"
  /\ \/ /\ ParentFound(c)
        /\ streams' = [streams EXCEPT ![parent[c]] = @ \cup {c}]
        /\ ReadOn(c)
     \/ /\ ~ParentFound(c)
        /\ Drain(c)
        /\ UNCHANGED streams
  /\ UNCHANGED <<gate, domain, parent, memory, req>>

\* Mutant: the parent is not told.
DeregisterStream_Forgotten(c) ==
  /\ conn[c] = "leaving"
  /\ conn' = [conn EXCEPT ![c] = "closed"]
  /\ UNCHANGED <<gate, errors, registry, memory, req>>

\* deregister_this_stream(), and _stopped is set.
DeregisterStream(c) ==
  /\ conn[c] = "leaving"
  /\ conn' = [conn EXCEPT ![c] = "closed"]
  /\ streams' = IF ParentFound(c) THEN [streams EXCEPT ![parent[c]] = @ \ {c}] ELSE streams
  /\ UNCHANGED <<gate, errors, domain, parent, memory, req>>

-----------------------------------------------------------------------------
(* _resources_available *)

\* The memory that request r has a permit for.
Permit(r) == IF req[r].state \in {"granted", "running", "replying", "sent"} THEN req[r].size ELSE 0

\* What the first k waiters ask for.
Asked(k) == Total(1..k, [i \in 1..k |-> req[waitq[i]].size])

\* How many waiters signal() pops when the count is n.
PoppedWaiters(n) ==
  CHOOSE k \in 0..Len(waitq) : Asked(k) <= n /\ (k < Len(waitq) => Asked(k + 1) > n)

\* Request r is done with: its permit is given back, and signal() wakes the
\* waiters in turn.  A broken semaphore ignores signal().
ReleaseUnits(r) ==
  LET n     == avail + Permit(r)
      k     == PoppedWaiters(n)
      woken == ToSet(SubSeq(waitq, 1, k))
  IN  /\ avail' = IF server = "up" THEN n - Asked(k) ELSE avail
      /\ waitq' = SubSeq(waitq, k + 1, Len(waitq))
      /\ req' = [q \in Requests |->
                  IF q = r THEN [req[q] EXCEPT !.state = "done"]
                  ELSE IF q \in woken THEN [req[q] EXCEPT !.state = "granted"]
                  ELSE req[q]]

-----------------------------------------------------------------------------
(* The reader of a connection *)

\* wait_for_resources(): the permit at once, an exception, or the queue.
WaitForResources(r, q) ==
  \/ /\ avail >= q.size /\ waitq = <<>>
     /\ avail' = avail - q.size
     /\ req' = [req EXCEPT ![r] = [q EXCEPT !.state = "granted"]]
     /\ UNCHANGED waitq
  \/ /\ ~(avail >= q.size /\ waitq = <<>>)
     /\ server # "up"
     /\ req' = [req EXCEPT ![r] = [q EXCEPT !.state = "broken"]]
     /\ UNCHANGED memory
  \/ /\ ~(avail >= q.size /\ waitq = <<>>)
     /\ server = "up"
     /\ waitq' = Append(waitq, r)
     /\ req' = [req EXCEPT ![r] = [q EXCEPT !.state = "waiting"]]
     /\ UNCHANGED avail

\* A request too large for the limit is answered with an exception and no
\* permit; with the gate closed that throws, and the connection goes.
RefuseTooLarge(c, r, q) ==
  /\ \/ /\ server = "up"
        /\ req' = [req EXCEPT ![r] = [q EXCEPT !.size = 0, !.state = IF c \in errors THEN "sent" ELSE "replying"]]
        /\ UNCHANGED <<conn, errors>>
     \/ /\ server # "up"
        /\ req' = [req EXCEPT ![r] = [q EXCEPT !.size = 0, !.state = "done"]]
        /\ Drain(c)
  /\ UNCHANGED memory

\* The reader of c gets a request: recv_helper() when the verb is known.
\* Frames may still come in after abort().
ReadRequest(c, r, n, timed, verb) ==
  /\ conn[c] = "reading" /\ parent[c] = None
  /\ ~verb => n = VerbErrorSize
  /\ req[r].state = "new" /\ \A q \in Requests : q < r => req[q].state # "new"
  /\ LET q == [state |-> "new", conn |-> c, size |-> n, timed |-> timed, known |-> verb]
     IN  \/ /\ verb /\ n > MaxMemory
            /\ RefuseTooLarge(c, r, q)
         \/ /\ n <= MaxMemory
            /\ WaitForResources(r, q)
            /\ conn' = [conn EXCEPT ![c] = "waiting"]
            /\ UNCHANGED errors
  /\ UNCHANGED <<gate, registry>>

\* Mutant: the waiter stays in the list.
ResourcesTimeOut_LeftInList(r) ==
  /\ req[r].state = "waiting"
  /\ req[r].timed
  /\ req' = [req EXCEPT ![r].state = "timedout"]
  /\ UNCHANGED <<gate, conn, errors, registry, avail, waitq>>

\* The timer of a waiter of the semaphore.
ResourcesTimeOut(r) ==
  /\ req[r].state = "waiting"
  /\ req[r].timed
  /\ \E i \in 1..Len(waitq) : waitq[i] = r /\ waitq' = RemoveAt(waitq, i)
  /\ req' = [req EXCEPT ![r].state = "timedout"]
  /\ UNCHANGED <<gate, conn, errors, registry, avail>>

\* The reader goes on with a permit: the handler starts, or the exception for
\* an unknown verb is sent, in the gate; a closed gate is ignored.
Start(r) ==
  /\ req[r].state = "granted"
  /\ \/ /\ server = "up"
        /\ req' = [req EXCEPT ![r].state =
                    IF req[r].known THEN "running"
                    ELSE IF req[r].conn \in errors THEN "sent" ELSE "replying"]
        /\ UNCHANGED memory
     \/ /\ server # "up"
        /\ ReleaseUnits(r)
  /\ ReadOn(req[r].conn)
  /\ UNCHANGED <<gate, registry>>

\* It goes on without: recv_helper() ignores a timeout, nothing ignores the
\* other exceptions, and they end the connection.
NotStarted(r) ==
  /\ req[r].state \in {"timedout", "broken"}
  /\ req' = [req EXCEPT ![r].state = "done"]
  /\ \/ /\ req[r].state = "timedout" /\ req[r].known
        /\ ReadOn(req[r].conn)
     \/ /\ req[r].state = "broken" \/ ~req[r].known
        /\ Drain(req[r].conn)
  /\ UNCHANGED <<gate, registry, memory>>

\* The client closes the connection or sends no proper frame, or the stream
\* ends after an abort().
ReaderEnds(c) ==
  /\ conn[c] \in {"negotiating", "reading"}
  /\ Drain(c)
  /\ UNCHANGED <<gate, registry, memory, req>>

-----------------------------------------------------------------------------
(* Handlers and replies *)

\* Mutant: the permit goes with the handler, not with its reply.
HandlerEnds_DropsPermit(r) ==
  /\ req[r].state = "running"
  /\ req' = [req EXCEPT ![r].state = IF req[r].conn \in errors THEN "sent" ELSE "replying"]
  /\ avail' = IF server = "up" THEN avail + req[r].size ELSE avail
  /\ UNCHANGED <<gate, conn, errors, registry, waitq>>

\* The handler of r ends: reply() does nothing for a connection in error.
\* A handler of no_wait_type has no reply.
HandlerEnds(r) ==
  /\ req[r].state = "running"
  /\ \/ /\ req[r].conn \notin errors
        /\ req' = [req EXCEPT ![r].state = "replying"]
     \/ req' = [req EXCEPT ![r].state = "sent"]
  /\ UNCHANGED <<gate, conn, errors, registry, memory>>

\* The reply is written, or its timeout takes it off the queue.
ReplyWritten(r) ==
  /\ req[r].state = "replying"
  /\ conn[req[r].conn] # "closed"
  /\ req' = [req EXCEPT ![r].state = "sent"]
  /\ UNCHANGED <<gate, conn, errors, registry, memory>>

\* The continuations of the reply: the permit, and the gate.
ReplyDone(r) ==
  /\ req[r].state = "sent"
  /\ ReleaseUnits(r)
  /\ UNCHANGED <<gate, conn, errors, registry>>

\* Mutant: the replies of the connection stay in its queue.
Close_QueueKept(c) ==
  /\ conn[c] = "draining"
  /\ conn' = [conn EXCEPT ![c] = IF parent[c] = None THEN "closed" ELSE "leaving"]
  /\ known' = Erased(c)
  /\ UNCHANGED <<server, acceptor, accepted, stopping, errors, registry, memory, req>>

\* The send loop of c is over: its queue is cleared, the connection is erased
\* from _conns and, unless it is a stream, _stopped is set.
Close(c) ==
  /\ conn[c] = "draining"
  /\ conn' = [conn EXCEPT ![c] = IF parent[c] = None THEN "closed" ELSE "leaving"]
  /\ known' = Erased(c)
  /\ req' = [r \in Requests |->
              IF req[r].state = "replying" /\ req[r].conn = c
              THEN [req[r] EXCEPT !.state = "sent"] ELSE req[r]]
  /\ UNCHANGED <<server, acceptor, accepted, stopping, errors, registry, memory>>

-----------------------------------------------------------------------------
(* stop() *)

\* accept() is aborted, the semaphore broken, every connection in _conns
\* aborted, and the gate closed.
Stop ==
  /\ server = "up"
  /\ server' = "stopping"
  /\ acceptor' = IF acceptor = "accepting" THEN "ended" ELSE acceptor
  /\ stopping' = known
  /\ errors' = errors \cup known
  /\ avail' = 0
  /\ waitq' = <<>>
  /\ req' = [r \in Requests |->
              IF r \in ToSet(waitq) THEN [req[r] EXCEPT !.state = "broken"] ELSE req[r]]
  /\ UNCHANGED <<accepted, known, conn, registry>>

\* Mutant: stop() does not wait for the gate.
StopDone_GateIgnored ==
  /\ server = "stopping"
  /\ acceptor = "ended"
  /\ \A c \in stopping : conn[c] = "closed"
  /\ server' = "stopped"
  /\ UNCHANGED <<acceptor, accepted, known, stopping, conn, errors, registry, memory, req>>

\* when_all() of the accept loop, of the connections and of the gate
StopDone ==
  /\ server = "stopping"
  /\ acceptor = "ended"
  /\ \A c \in stopping : conn[c] = "closed"
  /\ InGate = {}
  /\ server' = "stopped"
  /\ UNCHANGED <<acceptor, accepted, known, stopping, conn, errors, registry, memory, req>>

-----------------------------------------------------------------------------

Reader(c) ==
  \/ Negotiate(c) \/ \E p \in Conns : NegotiateStream(c, p)
  \/ RegisterStream(c) \/ DeregisterStream(c)
  \/ ReaderEnds(c)
  \/ Close(c)
  \/ \E r \in Requests, n \in Sizes \cup {VerbErrorSize}, t, v \in BOOLEAN :
       ReadRequest(c, r, n, t, v)

Progress(r) == Start(r) \/ NotStarted(r) \/ HandlerEnds(r) \/ ReplyWritten(r) \/ ReplyDone(r)

\* A server that stopped and has no connection left.
AtRest ==
  /\ server = "stopped"
  /\ \A c \in Conns : conn[c] \in {"none", "closed"}
  /\ UNCHANGED vars

Next ==
  \/ Accept \/ Stop \/ StopDone \/ AtRest
  \/ \E c \in Conns : ClientConnects(c) \/ Reader(c)
  \/ \E r \in Requests : Progress(r) \/ ResourcesTimeOut(r)

Spec == Init /\ [][Next]_vars

\* Tasks run, handlers end, the kernel completes writes or fails them, and
\* reading ends after shutdown_input().  Clients owe nothing.
Fairness ==
  /\ WF_vars(Accept) /\ WF_vars(StopDone)
  /\ \A c \in Conns :
       /\ WF_vars(RegisterStream(c)) /\ WF_vars(DeregisterStream(c))
       /\ WF_vars(Close(c)) /\ WF_vars(c \in errors /\ ReaderEnds(c))
  /\ \A r \in Requests : WF_vars(Progress(r))

FairSpec == Spec /\ Fairness

-----------------------------------------------------------------------------
(* Properties *)

\* The semaphore's list holds the requests that wait, and a reader waits for
\* one request at a time.
TypeOK ==
  /\ server \in {"up", "stopping", "stopped"} /\ acceptor \in {"accepting", "accepted", "ended"}
  /\ accepted \in Conns \cup {None} /\ known \subseteq Conns /\ stopping \subseteq Conns
  /\ conn \in [Conns -> ConnState] /\ errors \subseteq Conns
  /\ domain \in BOOLEAN
  /\ parent \in [Conns -> Conns \cup {None}] /\ streams \in [Conns -> SUBSET Conns]
  /\ avail \in 0..MaxMemory
  /\ req \in [Requests -> Request]
  /\ ToSet(waitq) = Requests_({"waiting"})
  /\ \A c \in Conns :
       conn[c] = "waiting" <=>
         \E r \in Requests_({"waiting", "granted", "timedout", "broken"}) : req[r].conn = c

\* rpc.hh:69, "Concurrent requests will be limited so that sum(req_mem) <=
\* max_memory": whatever times out, is refused or is dropped.
MemoryBounded == Total(Requests, [r \in Requests |-> Permit(r)]) <= MaxMemory

\* What a handler of a connection finds in get_stream() are the streams that are
\* established and not gone, whatever becomes of either connection meanwhile.
StreamsAreListed ==
  server = "up" => \A p \in known :
    streams[p] = {c \in Conns : parent[c] = p /\ conn[c] \in {"reading", "draining", "leaving"}}

\* stop() is ready only when no handler runs and no reply is under way, and
\* none starts later, not even on a connection stop() does not know of:
\* handlers refer to the server.
HandlersEndBeforeStop == server = "stopped" => InGate = {}

\* Every request that is read is answered or dropped, and its memory freed; and
\* stop() ends, with the connections it knows of.
RequestsEnd ==
  /\ \A r \in Requests : req[r].state # "new" ~> req[r].state = "done"
  /\ server = "stopping" ~> server = "stopped" /\ \A c \in stopping : conn[c] = "closed"

=============================================================================
