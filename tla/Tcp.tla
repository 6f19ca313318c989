-------------------------------- MODULE Tcp --------------------------------
(***************************************************************************)
(* The native TCP of Seastar (net/tcp.hh): one connection, from connect()  *)
(* and listen() to the end of both sides, over a network that loses,       *)
(* repeats and reorders segments.                                          *)
(*                                                                         *)
(* A tcb is a record that the handlers transform, as the methods of the    *)
(* class do.  Sequence numbers wrap at SeqSpace; the bytes of a direction  *)
(* are 1, 2, 3... whatever their sequence numbers.  Left out: ports,       *)
(* options, checksums, urgent data, address resolution, the values of      *)
(* timeouts, and the congestion window.  In this code it bounds one packet *)
(* (a segment always fits), and what is in flight only after the first and *)
(* second duplicate acknowledgment, by itself and two segments more; there *)
(* the model may send where the code waits.                                *)
(***************************************************************************)
EXTENDS Integers, SequencesExt, Sums

CONSTANTS
  Client, Server,   \* the end that connects and the end that listens
  Messages,         \* how many bytes each end sends
  Polite,           \* the ends that close only after the end of their input
  SeqSpace,         \* 2^32
  Isn,              \* the initial sequence numbers
  Mss,              \* the largest segment
  Buffer,           \* max_receive_buf_size
  QueueSpace,       \* max_queue_space
  MaxFaults         \* how many segments are lost, repeated or overtaken, and
                    \* how often a timer outruns the network or a reader

Ends == {Client, Server}

\* A segment is sent again up to _max_nr_retransmit (5) times; with no more
\* faults than that the connection is never given up.
ASSUME TcpAssumption ==
  /\ Client # Server
  /\ Messages \in [Ends -> Nat] /\ Polite \subseteq Ends
  /\ SeqSpace \in Nat /\ Isn \in [Ends -> 0..(SeqSpace - 1)]
  /\ Mss \in Nat \ {0} /\ Buffer \in Nat \ {0} /\ QueueSpace \in Nat \ {0}
  /\ \A e \in Ends : 2 * (Messages[e] + Buffer + 4) < SeqSpace
  /\ MaxFaults \in 0..5

VARIABLES
  tcb,      \* the control block of each end
  given,    \* how many bytes its application has passed to send()
  writer,   \* the application's output: "open", "closing" in close_write(),
            \* "acked" when all data is, "closed"
  got,      \* the bytes its application has read
  reader,   \* the application's input: "idle", "waiting", "ready", "eof"
  net,      \* the segments on their way to each end
  faults,   \* how many faults there were
  crashed   \* a reactor has failed

app == <<given, writer, got, reader>>
vars == <<tcb, app, net, faults, crashed>>

Peer(e) == IF e = Client THEN Server ELSE Client

-----------------------------------------------------------------------------
(* Sequence numbers *)

Plus(s, n) == (s + n) % SeqSpace

\* The signed difference.
Minus(s, t) ==
  LET d == (s - t) % SeqSpace IN IF 2 * d >= SeqSpace THEN d - SeqSpace ELSE d

Min2(m, n) == IF m <= n THEN m ELSE n
Max2(m, n) == IF m >= n THEN m ELSE n

Before(s, t) == Minus(s, t) < 0
NotAfter(s, t) == Minus(s, t) <= 0

-----------------------------------------------------------------------------
(* Segments and control blocks *)

\* "LISTEN" is the end that listens and has no tcb yet.
States == {"LISTEN", "SYN_SENT", "SYN_RECEIVED", "ESTABLISHED", "FIN_WAIT_1",
           "FIN_WAIT_2", "CLOSE_WAIT", "CLOSING", "LAST_ACK", "TIME_WAIT", "CLOSED"}

NewTcb(e) ==
  [state |-> IF e = Client THEN "SYN_SENT" ELSE "LISTEN",
   known |-> e = Client,          \* it is in _tcbs
   isn |-> Isn[e], una |-> Isn[e], next |-> Plus(Isn[e], 1), recover |-> Isn[e],
   window |-> 0, wl1 |-> 0, wl2 |-> 0,
   unsent |-> <<>>, data |-> <<>>, \* bytes not sent, and segments not acknowledged
   closed |-> FALSE, dupacks |-> 0, probing |-> 0,
   rnext |-> 0, rwindow |-> Buffer, rdata |-> <<>>,
   ooo |-> {},                    \* the sequence numbers kept out of order
   full |-> 0,                    \* _nr_full_seg_received
   retransmit |-> FALSE, persist |-> FALSE, delayed |-> FALSE,   \* the timers
   queue |-> <<>>,                \* _packetq
   poll |-> e = Client]           \* _poll_active

Init ==
  /\ tcb = [e \in Ends |-> NewTcb(e)]
  /\ given = [e \in Ends |-> 0] /\ writer = [e \in Ends |-> "open"]
  /\ got = [e \in Ends |-> <<>>] /\ reader = [e \in Ends |-> "idle"]
  /\ net = [e \in Ends |-> <<>>]
  /\ faults = 0 /\ crashed = FALSE

SynOn(t) == t.state \in {"SYN_SENT", "SYN_RECEIVED"}
FinOn(t) == t.state \in {"FIN_WAIT_1", "CLOSING", "LAST_ACK"} /\ t.closed /\ t.unsent = <<>>
AckOn(t) == t.state \notin {"CLOSED", "LISTEN", "SYN_SENT"}
ForeignWillNotSend(t) ==
  t.state \in {"CLOSING", "TIME_WAIT", "CLOSE_WAIT", "LAST_ACK", "CLOSED"}

Segment(t, seq, bytes) ==
  [seq |-> seq, bytes |-> bytes, ack |-> IF AckOn(t) THEN t.rnext ELSE 0, window |-> t.rwindow,
   syn |-> SynOn(t), ackOn |-> AckOn(t), fin |-> FinOn(t), rst |-> FALSE]

\* respond_with_reset().
ResetFor(s) ==
  [seq |-> IF s.ackOn THEN s.ack ELSE 0, bytes |-> <<>>,
   ack |-> IF s.syn THEN Plus(s.seq, 1) ELSE 0, window |-> 0,
   syn |-> FALSE, ackOn |-> s.syn, fin |-> FALSE, rst |-> TRUE]

Cleanup(t) ==
  [t EXCEPT !.unsent = <<>>, !.data = <<>>, !.ooo = {}, !.rdata = <<>>,
            !.retransmit = FALSE, !.delayed = FALSE, !.known = FALSE]

-----------------------------------------------------------------------------
(* Output *)

\* The tcb will be polled for a packet.
Output(t) == [t EXCEPT !.poll = TRUE]

CanSend(t) ==
  LET used == Minus(t.next, t.una)
  IN  IF t.window = 0 \/ used > t.window THEN 0
      ELSE Min2(t.window - used, Len(t.unsent))

\* output_one() with new data, up to most bytes: what is sent stays in data
\* until it is acknowledged.
OutputOne(t, most) ==
  LET n == Min2(Min2(most, Mss), Len(t.unsent))
      bytes == SubSeq(t.unsent, 1, n)
      u == [t EXCEPT !.unsent = SubSeq(@, n + 1, Len(@))]
  IN  IF t.state = "CLOSED" THEN t
      ELSE [u EXCEPT
             !.queue = Append(@, Segment(u, IF SynOn(t) THEN t.isn ELSE t.next, bytes)),
             !.next = Plus(@, n),
             !.data = IF n > 0 THEN Append(@, bytes) ELSE @,
             !.retransmit = @ \/ n > 0 \/ SynOn(t) \/ FinOn(u),
             !.delayed = @ /\ ~AckOn(t)]

\* output_one() with the first segment that is not acknowledged.
RetransmitOne(t) ==
  [t EXCEPT !.queue = Append(@, Segment(t, t.una, Head(t.data))), !.delayed = FALSE]

FastRetransmit(t) == IF t.data = <<>> THEN t ELSE Output(RetransmitOne(t))

\* get_packet(), when the device asks for one.
Poll(e) ==
  /\ tcb[e].poll
  /\ \E u \in {IF tcb[e].queue = <<>> THEN OutputOne(tcb[e], CanSend(tcb[e])) ELSE tcb[e]} :
       IF u.state = "CLOSED"
       THEN tcb' = [tcb EXCEPT ![e].poll = FALSE] /\ UNCHANGED net
       ELSE /\ tcb' = [tcb EXCEPT ![e] =
                        [u EXCEPT !.queue = Tail(@),
                                  !.poll = Len(u.queue) > 1 \/ (u.dupacks < 3 /\ CanSend(u) > 0)]]
            /\ net' = [net EXCEPT ![Peer(e)] = Append(@, Head(u.queue))]
  /\ UNCHANGED <<app, faults, crashed>>

-----------------------------------------------------------------------------
(* Input: acknowledgments *)

\* segment_acceptable().
Acceptable(t, s) ==
  LET InWindow(q) == NotAfter(t.rnext, q) /\ Before(q, Plus(t.rnext, t.rwindow))
      n == Len(s.bytes)
  IN  \/ n = 0 /\ t.rwindow = 0 /\ s.seq = t.rnext
      \/ n = 0 /\ InWindow(s.seq)
      \/ n > 0 /\ (InWindow(s.seq) \/ InWindow(Plus(s.seq, n - 1)))

\* The bytes of the first n segments, and of all of them (flight_size()).
BytesIn(segments, n) == Total(1..n, [i \in DOMAIN segments |-> Len(segments[i])])
FlightSize(segments) == BytesIn(segments, Len(segments))

\* Mutant: an acknowledgment takes one segment.
DataSegmentAcked_One(t, ack) ==
  [t EXCEPT !.una = ack, !.data = IF @ = <<>> THEN @ ELSE Tail(@)]

\* The segments that are acknowledged go, and the first bytes of one that is in
\* part.
Unacked(data, acked) ==
  LET last == Len(data)
      gone == CHOOSE n \in 0..last : /\ BytesIn(data, n) <= acked
                                     /\ n < last => BytesIn(data, n + 1) > acked
      rest == SubSeq(data, gone + 1, last)
  IN  IF rest = <<>> THEN rest
      ELSE [rest EXCEPT ![1] = SubSeq(@, acked - BytesIn(data, gone) + 1, Len(@))]

\* data_segment_acked().
DataSegmentAcked(t, ack) ==
  [t EXCEPT !.una = ack, !.data = Unacked(@, Minus(ack, t.una))]

\* Mutant: no timer for a closed window.
UpdateWindow_NoPersist(t, s, seq) ==
  [t EXCEPT !.window = s.window, !.wl1 = seq, !.wl2 = s.ack, !.probing = 0]

\* The lambda update_window.
UpdateWindow(t, s, seq) ==
  [t EXCEPT !.window = s.window, !.wl1 = seq, !.wl2 = s.ack, !.probing = 0,
            !.persist = s.window = 0]

\* SND.UNA < SEG.ACK =< SND.NXT.
Advances(t, s) == Before(t.una, s.ack) /\ NotAfter(s.ack, t.next)

\* The acknowledgment is a duplicate, of a segment whose own bytes are n.
Repeats(t, s, n) ==
  /\ ~Advances(t, s)
  /\ Minus(t.next, t.una) - t.probing > 0
  /\ t.data # <<>>
  /\ n = 0 /\ ~s.fin /\ ~s.syn
  /\ s.ack = t.una /\ s.window = t.window

AcksUnsent(t, s, n) ==
  /\ t.state \in {"ESTABLISHED", "CLOSE_WAIT"}
  /\ ~Advances(t, s) /\ ~Repeats(t, s, n) /\ Before(t.next, s.ack)

Opens(t, s, n) ==
  ~Advances(t, s) /\ ~Repeats(t, s, n) /\ t.window = 0 /\ s.window > 0

Advance(t, s, seq) ==
  LET acked == DataSegmentAcked(t, s.ack)
      u == IF Before(t.wl1, seq) \/ (t.wl1 = seq /\ NotAfter(t.wl2, s.ack))
           THEN UpdateWindow(acked, s, seq) ELSE acked
  IN  IF t.dupacks >= 3 /\ NotAfter(s.ack, t.recover)
      THEN FastRetransmit(u)
      ELSE [u EXCEPT !.dupacks = 0, !.retransmit = u.data # <<>>]

\* dupacks is kept at 4 from there on.
Repeat(t, s) ==
  LET u == [t EXCEPT !.dupacks = Min2(@ + 1, 4)]
  IN  IF u.dupacks = 3 /\ t.dupacks = 2 /\ Before(t.recover, Plus(s.ack, -1))
      THEN FastRetransmit([u EXCEPT !.recover = Plus(t.next, -1)])
      ELSE u

\* ESTABLISHED and CLOSE_WAIT.
AckOfData(t, s, seq, n) ==
  CASE Advances(t, s)   -> Advance(t, s, seq)
    [] Repeats(t, s, n) -> Repeat(t, s)
    [] Opens(t, s, n)   -> UpdateWindow(t, s, seq)
    [] OTHER            -> t

FinAcked(t, s, state) ==
  [t EXCEPT !.state = state, !.una = Plus(@, 1), !.next = Plus(@, 1)]

\* do_established() for the end that listened.
Established(t) == IF t.state = "SYN_RECEIVED" THEN [t EXCEPT !.state = "ESTABLISHED"] ELSE t

\* The fifth check of input_handle_other_state().
AckField(t, s, seq, n) ==
  LET u == IF t.state \in {"ESTABLISHED", "CLOSE_WAIT"} THEN AckOfData(t, s, seq, n) ELSE t
      finAcked == s.ack = Plus(u.next, 1)
  IN  CASE finAcked /\ u.state = "FIN_WAIT_1" -> FinAcked(u, s, "FIN_WAIT_2")
        [] finAcked /\ u.state = "CLOSING" -> Cleanup(FinAcked(u, s, "TIME_WAIT"))
        [] finAcked /\ u.state = "LAST_ACK" -> Cleanup(FinAcked(u, s, "CLOSED"))
        [] OTHER -> u

\* This acknowledgment lets new data go out, if the window does.
OutputsData(t, s, n) ==
  /\ t.state \in {"ESTABLISHED", "CLOSE_WAIT"}
  /\ Advances(t, s) \/ (Repeats(t, s, n) /\ t.dupacks # 2) \/ Opens(t, s, n)

-----------------------------------------------------------------------------
(* Input: text and FIN *)

\* The seventh: the bytes go to the application.  should_send_ack(): every
\* second full segment is acknowledged at once.
Text(t, bytes) ==
  LET n == Len(bytes)
      rdata == t.rdata \o bytes
      second == n = Mss /\ t.full >= 1
  IN  IF n = 0 \/ t.state \notin {"ESTABLISHED", "FIN_WAIT_1", "FIN_WAIT_2"} THEN t
      ELSE [t EXCEPT !.rdata = rdata,
                     !.rnext = Plus(@, n),
                     !.rwindow = Max2(Buffer - Len(rdata), 0),
                     !.ooo = {q \in @ : Before(Plus(t.rnext, n), q)},
                     !.full = IF second THEN 0 ELSE IF n = Mss THEN @ + 1 ELSE @,
                     !.delayed = ~second,
                     !.poll = @ \/ second]

\* The bytes reach those kept out of order: merge_out_of_order() moves a packet
\* and asks it for its length afterwards, through a null pointer.
Merges(t, seq, bytes) ==
  /\ bytes # <<>> /\ t.state \in {"ESTABLISHED", "FIN_WAIT_1", "FIN_WAIT_2"}
  /\ Plus(seq, Len(bytes)) \in t.ooo

\* The eighth.
Fin(t, s, seq, n) ==
  LET u == Output([t EXCEPT !.rnext = Plus(@, 1), !.delayed = FALSE])
  IN  IF ~s.fin \/ Plus(seq, n) # t.rnext THEN t
      ELSE CASE t.state = "ESTABLISHED" -> [u EXCEPT !.state = "CLOSE_WAIT"]
             [] t.state = "FIN_WAIT_1" -> [u EXCEPT !.state = "CLOSING"]
             [] t.state = "FIN_WAIT_2" -> Cleanup([u EXCEPT !.state = "TIME_WAIT"])
             [] OTHER -> u

-----------------------------------------------------------------------------
(* Input: the whole handlers *)

\* signal_data_received() and signal_all_data_acked(), when a segment turned t
\* into u.
Signals(e, t, u) ==
  /\ reader' = [reader EXCEPT ![e] = IF @ = "waiting" /\ u.rnext # t.rnext THEN "ready" ELSE @]
  /\ writer' = [writer EXCEPT ![e] =
                 IF @ = "closing" /\ u.data = <<>> /\ u.unsent = <<>> THEN "acked" ELSE @]

\* do_reset(): whoever waits is told.
Reset(e) ==
  /\ tcb' = [tcb EXCEPT ![e] = Cleanup([@ EXCEPT !.state = "CLOSED"])]
  /\ reader' = [reader EXCEPT ![e] = IF @ = "waiting" THEN "failed" ELSE @]
  /\ writer' = [writer EXCEPT ![e] = IF @ = "closing" THEN "closed" ELSE @]

\* do_closed().
Closed(e) ==
  /\ tcb' = [tcb EXCEPT ![e] = Cleanup([@ EXCEPT !.state = "CLOSED"])]
  /\ UNCHANGED <<reader, writer>>

Ignore == UNCHANGED <<tcb, reader, writer>>

\* received(), where there is no tcb: only a SYN for the listener makes one
\* (input_handle_listen_state()).  The server takes one connection.
InputUnknown(e, s) ==
  /\ ~tcb[e].known
  /\ IF tcb[e].state = "LISTEN" /\ s.syn /\ ~s.ackOn
     THEN /\ tcb' = [tcb EXCEPT ![e] =
                      Output([@ EXCEPT !.state = "SYN_RECEIVED", !.known = TRUE,
                                       !.rnext = Plus(s.seq, 1), !.window = s.window,
                                       !.wl1 = s.seq, !.wl2 = s.ack])]
          /\ UNCHANGED <<reader, writer>>
     ELSE Ignore

AcksSyn(t, s) == s.ackOn /\ s.ack = t.next

\* input_handle_syn_sent_state().
InputSynSent(e, s) ==
  /\ tcb[e].known /\ tcb[e].state = "SYN_SENT"
  /\ IF s.rst /\ AcksSyn(tcb[e], s) THEN Reset(e)
     ELSE IF s.rst \/ ~s.syn \/ (s.ackOn /\ ~AcksSyn(tcb[e], s)) THEN Ignore
     ELSE /\ tcb' = [tcb EXCEPT ![e] =
                      Output([@ EXCEPT !.state = IF s.ackOn THEN "ESTABLISHED" ELSE "SYN_RECEIVED",
                                       !.una = IF s.ackOn THEN s.ack ELSE tcb[e].una,
                                       !.rnext = Plus(s.seq, 1), !.window = s.window,
                                       !.wl1 = s.seq, !.wl2 = s.ack])]
          /\ UNCHANGED <<reader, writer>>

\* The segment starts at or before the next byte that is expected; what is
\* known already is cut off.
Known(t, s) == Min2(Max2(Minus(t.rnext, s.seq), 0), Len(s.bytes))
Cut(t, s) == SubSeq(s.bytes, Known(t, s) + 1, Len(s.bytes))

\* Mutant: whatever is in the window comes next.
InOrder_AnyInWindow(t, s) == Acceptable(t, s)
InOrder(t, s) == Acceptable(t, s) /\ Plus(s.seq, Known(t, s)) = t.rnext

Synchronised(e) == tcb[e].known /\ tcb[e].state # "SYN_SENT"

InputUnacceptable(e, s) ==
  /\ Synchronised(e)
  /\ ~Acceptable(tcb[e], s)
  /\ tcb' = [tcb EXCEPT ![e] = Output(@)]
  /\ UNCHANGED <<reader, writer>>

InputOutOfOrder(e, s) ==
  /\ Synchronised(e)
  /\ Acceptable(tcb[e], s) /\ ~InOrder(tcb[e], s)
  /\ tcb' = [tcb EXCEPT ![e] =
              Output([@ EXCEPT !.ooo = tcb[e].ooo \cup {Plus(s.seq, i - 1) : i \in DOMAIN s.bytes}])]
  /\ UNCHANGED <<reader, writer>>

\* The second and the fourth check.
InputReset(e, s) ==
  /\ Synchronised(e)
  /\ InOrder(tcb[e], s) /\ (s.rst \/ s.syn)
  /\ IF s.rst /\ tcb[e].state \in {"CLOSING", "LAST_ACK", "TIME_WAIT"} THEN Closed(e) ELSE Reset(e)

\* An acknowledgment of something else than our SYN.
Refused(t, s) == t.state = "SYN_RECEIVED" /\ ~(NotAfter(t.una, s.ack) /\ NotAfter(s.ack, t.next))

\* The segment gets to the fifth check.
Taken(e, s) ==
  /\ Synchronised(e)
  /\ InOrder(tcb[e], s) /\ ~s.rst /\ ~s.syn

\* From the fifth check on.  (\E names the states of the tcb on the way.)
InputInOrder(e, s) ==
  /\ Taken(e, s)
  /\ \E t \in {Established(tcb[e])}, bytes \in {Cut(tcb[e], s)} :
     \E a \in {AckField(t, s, t.rnext, Len(bytes))} :
     \E b \in {Text(a, bytes)} :
     \E c \in {Fin(b, s, t.rnext, Len(bytes))} :
     \E u \in {IF ~s.ackOn \/ Refused(tcb[e], s) THEN tcb[e]
               ELSE IF AcksUnsent(t, s, Len(bytes)) THEN Output(t)
               ELSE IF ForeignWillNotSend(a) THEN a
               ELSE IF c.known /\ OutputsData(t, s, Len(bytes)) /\ CanSend(c) > 0
               THEN Output([c EXCEPT !.delayed = FALSE])
               ELSE c} :
       /\ ~Merges(a, t.rnext, bytes)
       /\ tcb' = [tcb EXCEPT ![e] = u]
       /\ Signals(e, tcb[e], u)

InputMerges(e, s) ==
  /\ Taken(e, s) /\ s.ackOn
  /\ \E t \in {Established(tcb[e])}, bytes \in {Cut(tcb[e], s)} :
       Merges(AckField(t, s, t.rnext, Len(bytes)), t.rnext, bytes)

Input(e, s) ==
  \/ InputUnknown(e, s) \/ InputSynSent(e, s)
  \/ InputUnacceptable(e, s) \/ InputOutOfOrder(e, s)
  \/ InputReset(e, s) \/ InputInOrder(e, s)

\* respond_with_reset().
Answers(t, s) ==
  /\ ~s.rst
  /\ \/ ~t.known /\ (t.state # "LISTEN" \/ s.ackOn)
     \/ t.state = "SYN_SENT" /\ s.ackOn /\ ~AcksSyn(t, s)
     \/ t.known /\ t.state # "SYN_SENT" /\ InOrder(t, s) /\ (s.syn \/ (s.ackOn /\ Refused(t, s)))

-----------------------------------------------------------------------------
(* The network *)

\* A segment that overtakes others counts as a fault.
Receive(e) ==
  \E i \in DOMAIN net[e] :
    LET s == net[e][i]
    IN  /\ i = 1 \/ faults < MaxFaults
        /\ faults' = IF i = 1 THEN faults ELSE faults + 1
        /\ net' = [net EXCEPT ![e] = RemoveAt(@, i),
                              ![Peer(e)] = IF Answers(tcb[e], s) THEN Append(@, ResetFor(s)) ELSE @]
        /\ \/ Input(e, s) /\ UNCHANGED crashed
           \/ InputMerges(e, s) /\ Ignore /\ crashed' = TRUE
        /\ UNCHANGED <<given, got>>

Lose(e) ==
  /\ faults < MaxFaults
  /\ faults' = faults + 1
  /\ \E i \in DOMAIN net[e] : net' = [net EXCEPT ![e] = RemoveAt(@, i)]
  /\ UNCHANGED <<tcb, app, crashed>>

Duplicate(e) ==
  /\ faults < MaxFaults
  /\ faults' = faults + 1
  /\ \E i \in DOMAIN net[e] : net' = [net EXCEPT ![e] = Append(@, @[i])]
  /\ UNCHANGED <<tcb, app, crashed>>

-----------------------------------------------------------------------------
(* Timers *)

\* Nothing is under way and the applications have read what there is.
Quiet ==
  \A e \in Ends :
    /\ net[e] = <<>> /\ ~tcb[e].poll /\ ~tcb[e].delayed
    /\ reader[e] # "ready"
    /\ reader[e] = "idle" => tcb[e].rdata = <<>>

\* The peer has not got the acknowledgment of its SYN|ACK: it answers with
\* another to whatever is beyond its window, that is answered in turn, and so on
\* until the timer sends the first segment again.
Stale(e, s) == tcb[e].known /\ tcb[e].state # "SYN_SENT" /\ ~Acceptable(tcb[e], s)
OnlyStale(e) ==
  /\ tcb[Peer(e)].state = "SYN_RECEIVED" /\ ~SynOn(tcb[e]) /\ ~tcb[e].poll
  /\ \A p \in Ends : \A i \in DOMAIN net[p] : Stale(p, net[p][i])

\* A timeout is longer than it takes to get there.  A timer that fires before
\* counts as a fault.
Fires(e) ==
  LET inTime == Quiet \/ OnlyStale(e)
  IN  /\ inTime \/ faults < MaxFaults
      /\ faults' = IF inTime THEN faults ELSE faults + 1

\* retransmit(): a SYN, a FIN or the first segment that is not acknowledged.
RetransmitFires(e) ==
  /\ tcb[e].retransmit
  /\ Fires(e)
  /\ tcb' = [tcb EXCEPT ![e] =
              IF @.data # <<>>
              THEN Output(RetransmitOne([@ EXCEPT !.recover = Plus(tcb[e].next, -1), !.dupacks = 0]))
              ELSE IF SynOn(@) \/ FinOn(@) THEN Output(@)
              ELSE [@ EXCEPT !.retransmit = FALSE]]
  /\ UNCHANGED <<app, net, crashed>>

\* persist(): a byte goes out although the window is closed.  More
\* probes than there can be bytes in flight count as many as these.
PersistFires(e) ==
  /\ tcb[e].persist
  /\ Fires(e)
  /\ tcb' = [tcb EXCEPT ![e] =
              Output(OutputOne([@ EXCEPT !.probing = Min2(tcb[e].probing + 1, QueueSpace)], 1))]
  /\ UNCHANGED <<app, net, crashed>>

DelayedAckFires(e) ==
  /\ tcb[e].delayed
  /\ tcb' = [tcb EXCEPT ![e] = Output([@ EXCEPT !.delayed = FALSE, !.full = 0])]
  /\ UNCHANGED <<app, net, faults, crashed>>

-----------------------------------------------------------------------------
(* The applications *)

Connected(e) == tcb[e].state \notin {"LISTEN", "SYN_SENT", "SYN_RECEIVED"}

\* send(); the next one waits for space in the queue.
Send(e) ==
  /\ Connected(e) /\ writer[e] = "open"
  /\ given[e] < Messages[e]
  /\ ~tcb[e].closed /\ tcb[e].state # "CLOSED"
  /\ Len(tcb[e].unsent) + FlightSize(tcb[e].data) < QueueSpace
  /\ given' = [given EXCEPT ![e] = @ + 1]
  /\ LET t == [tcb[e] EXCEPT !.unsent = Append(@, given[e] + 1)]
     IN  tcb' = [tcb EXCEPT ![e] = IF CanSend(t) > 0 THEN Output(t) ELSE t]
  /\ UNCHANGED <<writer, got, reader, net, faults, crashed>>

\* close(): it waits until all data is acknowledged.
CloseWrite(e) ==
  /\ Connected(e) /\ writer[e] = "open"
  /\ given[e] = Messages[e]
  /\ e \in Polite => reader[e] = "eof"
  /\ writer' = [writer EXCEPT ![e] =
                 IF tcb[e].state = "CLOSED" THEN "closed"
                 ELSE IF tcb[e].data = <<>> /\ tcb[e].unsent = <<>> THEN "acked" ELSE "closing"]
  /\ UNCHANGED <<tcb, given, got, reader, net, faults, crashed>>

\* Then the FIN goes out.
SendFin(e) ==
  LET t == [tcb[e] EXCEPT !.closed = TRUE,
                          !.state = CASE @ = "CLOSE_WAIT" -> "LAST_ACK"
                                      [] @ = "ESTABLISHED" -> "FIN_WAIT_1"
                                      [] OTHER -> @]
  IN  /\ writer[e] = "acked"
      /\ writer' = [writer EXCEPT ![e] = "closed"]
      /\ tcb' = [tcb EXCEPT ![e] = Output(OutputOne(t, CanSend(t)))]
      /\ UNCHANGED <<given, got, reader, net, faults, crashed>>

\* wait_for_data() without data.
Wait(e) ==
  /\ Connected(e) /\ reader[e] = "idle"
  /\ tcb[e].rdata = <<>> /\ ~ForeignWillNotSend(tcb[e])
  /\ reader' = [reader EXCEPT ![e] = "waiting"]
  /\ UNCHANGED <<tcb, given, writer, got, net, faults, crashed>>

\* read(), at once or when the promise is fulfilled: nothing to read is the end
\* of the stream.  The window opens, and the other end is not told.
Read(e) ==
  /\ \/ reader[e] = "ready"
     \/ /\ Connected(e) /\ reader[e] = "idle"
        /\ tcb[e].rdata # <<>> \/ ForeignWillNotSend(tcb[e])
  /\ got' = [got EXCEPT ![e] = @ \o tcb[e].rdata]
  /\ reader' = [reader EXCEPT ![e] = IF tcb[e].rdata = <<>> THEN "eof" ELSE "idle"]
  /\ tcb' = [tcb EXCEPT ![e].rdata = <<>>, ![e].rwindow = Buffer]
  /\ UNCHANGED <<given, writer, net, faults, crashed>>

-----------------------------------------------------------------------------

Ended(e) == writer[e] = "closed" /\ reader[e] = "eof"

\* Nothing is left to do, or nobody to do it.
AtRest ==
  /\ crashed \/ \A e \in Ends : Ended(e) /\ Quiet
  /\ UNCHANGED vars

Application(e) == Send(e) \/ CloseWrite(e) \/ SendFin(e) \/ Wait(e) \/ Read(e)

Device(e) == DelayedAckFires(e) \/ Poll(e) \/ Receive(e)

Tcb(e) ==
  \/ Application(e) \/ Device(e) \/ RetransmitFires(e) \/ PersistFires(e)
  \/ Lose(e) \/ Duplicate(e)

Next == (~crashed /\ \E e \in Ends : Tcb(e)) \/ AtRest

Spec == Init /\ [][Next]_vars

\* The applications go on, and so does the exchange of packets with the delayed
\* acknowledgments.  A retransmission or persist timer that is armed fires
\* whatever else goes on.
Fairness ==
  \A e \in Ends :
    /\ WF_vars(~crashed /\ Application(e)) /\ WF_vars(~crashed /\ Device(e))
    /\ SF_vars(~crashed /\ RetransmitFires(e)) /\ SF_vars(~crashed /\ PersistFires(e))

FairSpec == Spec /\ Fairness

-----------------------------------------------------------------------------
(* Properties *)

Bytes == UNION {1..Messages[e] : e \in Ends}
Seqs == 0..(SeqSpace - 1)

SegmentType ==
  [seq : Seqs, bytes : Seq(Bytes), ack : Seqs, window : 0..Buffer,
   syn : BOOLEAN, ackOn : BOOLEAN, fin : BOOLEAN, rst : BOOLEAN]

TcbType ==
  [state : States, known : BOOLEAN,
   isn : Seqs, una : Seqs, next : Seqs, recover : Seqs,
   window : 0..Buffer, wl1 : Seqs, wl2 : Seqs,
   unsent : Seq(Bytes), data : Seq(Seq(Bytes) \ {<<>>}),
   closed : BOOLEAN, dupacks : 0..4, probing : 0..QueueSpace,
   rnext : Seqs, rwindow : 0..Buffer, rdata : Seq(Bytes), ooo : SUBSET Seqs,
   full : 0..1, retransmit : BOOLEAN, persist : BOOLEAN, delayed : BOOLEAN,
   queue : Seq(SegmentType), poll : BOOLEAN]

TypeOK ==
  /\ tcb \in [Ends -> TcbType]
  /\ \A e \in Ends : Len(tcb[e].rdata) <= Buffer
  /\ given \in [Ends -> Nat] /\ got \in [Ends -> Seq(Bytes)]
  /\ writer \in [Ends -> {"open", "closing", "acked", "closed"}]
  /\ reader \in [Ends -> {"idle", "waiting", "ready", "eof", "failed"}]
  /\ net \in [Ends -> Seq(SegmentType)]
  /\ faults \in 0..MaxFaults /\ crashed \in BOOLEAN

\* The n bytes after the first k.
Stretch(k, n) == [i \in 1..n |-> k + i]

\* Every byte of the application is acknowledged, in a segment or still to be
\* sent, in order and under its own sequence number, and nothing is
\* acknowledged that the other end has not taken (data_segment_acked(),
\* tcp.hh:1004-1033, with get_transmit_packet(), 1551-1597).
SenderKeepsUnacked ==
  /\ TypeOK
  /\ \A e \in Ends :
       LET t == tcb[e]
           p == tcb[Peer(e)]
           acked == Minus(t.una, Plus(t.isn, 1))
           flight == FlightSize(t.data)
       IN  t.known /\ Connected(e) /\ ~t.closed =>
             /\ \A i \in DOMAIN t.data :
                  t.data[i] = Stretch(acked + BytesIn(t.data, i - 1), Len(t.data[i]))
             /\ t.unsent = Stretch(acked + flight, given[e] - acked - flight)
             /\ Minus(t.next, t.una) = flight
             /\ p.known => NotAfter(t.una, p.rnext) /\ NotAfter(p.rnext, t.next)

InSequence(s) == s = [i \in 1..Len(s) |-> i]

ToServer == INSTANCE ByteStream WITH
  Messages <- Messages[Client], given <- given[Client],
  writer <- IF writer[Client] = "open" THEN "open" ELSE "closing",
  got <- IF InSequence(got[Server]) THEN Len(got[Server]) ELSE -1,
  reader <- IF reader[Server] \in {"eof", "failed"} THEN reader[Server] ELSE "open"

ToClient == INSTANCE ByteStream WITH
  Messages <- Messages[Server], given <- given[Server],
  writer <- IF writer[Server] = "open" THEN "open" ELSE "closing",
  got <- IF InSequence(got[Client]) THEN Len(got[Client]) ELSE -1,
  reader <- IF reader[Client] \in {"eof", "failed"} THEN reader[Client] ELSE "open"

\* Both directions are streams of bytes, whatever is lost, repeated or
\* overtaken (input_handle_other_state(), tcp.hh:1192-1548).
ImplementsByteStream == ToServer!Spec /\ ToClient!Spec

\* Both applications get to the end, unless a reactor fails in
\* merge_out_of_order(): lost segments, acknowledgments and window updates are
\* made good by the timers (tcp.hh:1903-1979).
BothEnd == <>(crashed \/ \A e \in Ends : Ended(e))

\* What a tcb has acknowledged its application reads before it is told of the
\* end: "Once the TCP takes responsibility for the data it advances RCV.NXT
\* over the data accepted" (tcp.hh:1476).
AcknowledgedIsRead ==
  \A e \in Ends :
    reader[e] = "eof" =>
      Len(got[e]) = Minus(tcb[e].rnext, Plus(Isn[Peer(e)], 1)) - 1
=============================================================================
