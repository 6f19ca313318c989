--------------------------- MODULE RpcStream_proofs ---------------------------
(***************************************************************************)
(* Proofs about RpcStream, for any number of messages, any memory, any     *)
(* length of the queue and any number of faults: the end of the stream is  *)
(* alone where it is queued, the limits of the reader hold, and each       *)
(* direction implements StreamChannel.                                     *)
(*                                                                         *)
(* What an end still has to be given is looked at as one sequence, its     *)
(* path: what its source holds, the queue, the frame in the hands of the   *)
(* reader, the network.  Most steps move frames along the path and leave   *)
(* it as it is.                                                            *)
(***************************************************************************)
EXTENDS RpcStream, DataFacts

Held(e) == IF reader[e] \in {"memory", "room"} THEN <<held[e]>> ELSE <<>>

\* The frames the source of e has still to see, the next one first.
Path(e) ==
  IF aborted[e] THEN bufs[e] ELSE bufs[e] \o (queue[e] \o (Held(e) \o net[e]))

\* A path on which the messages after g follow each other up to k, and then
\* the end of the stream or of the output.
InOrder(path, g, k) ==
  \A i \in 1..Len(path) :
    /\ i <= k - g => path[i] = g + i
    /\ i > k - g => path[i] \in {Eos, Fin} /\ (path[i] = Eos => i = k - g + 1)

Holds(path, f) == \E i \in 1..Len(path) : path[i] = f

\* The end of the stream was written, or given up.
EosWritten(e) ==
  /\ writer[e] # "open"
  /\ \A i \in 1..Len(sends[e]) : sends[e][i].state \notin {"called", "queued", "writing"}

\* The messages up to k went from e to p.
Delivered(e, p, k) ==
  /\ got[p] <= k /\ k <= given[e]
  /\ InOrder(Path(p), got[p], k)
  /\ ~aborted[p] => Len(Path(p)) >= k - got[p]
  /\ Holds(Path(p), Eos) => EosWritten(e) /\ k = given[e]
  /\ Holds(Path(p), Fin) => "output" \in shut[e]

\* Calls c of a sink that was given n messages, of which k went out: the
\* first h have their answer under way, the others are next, in order.
InTurn(c, k, n, h) ==
  /\ \A i \in 1..h : c[i].state = "sent"
  /\ \A i \in (h + 1)..Len(c) :
       /\ c[i].state # "sent"
       /\ c[i].state = "writing" => i = h + 1
       /\ c[i].state \in {"queued", "writing"} =>
            /\ c[i].msg = k + (i - h) \/ (c[i].msg = Eos /\ k = n)
            /\ \A j \in (h + 1)..i : c[j].state \in {"queued", "writing"}

\* As long as there was no error, none is missing among them.
Complete(c, k, n, h, open) ==
  /\ \A i \in (h + 1)..Len(c) :
       /\ c[i].state # "failed"
       /\ c[i].state # "closing" => c[i].msg = k + (i - h) \/ (c[i].msg = Eos /\ k = n)
  /\ open => k + (Len(c) - h) = n

Sending(e, k) ==
  loop[e] # "ended" =>
    \E h \in 0..Len(sends[e]) :
      /\ InTurn(sends[e], k, given[e], h)
      /\ ~error[e] => ~ex[e] /\ Complete(sends[e], k, given[e], h, writer[e] = "open")

Direction(e, p) == \E k \in Nat : Delivered(e, p, k) /\ Sending(e, k)

\* The calls of a sink, and where its fiber is.
SinkSound(e) ==
  /\ writer[e] = "open" =>
       \A i \in 1..Len(sends[e]) : /\ sends[e][i].msg \in Nat /\ sends[e][i].msg <= given[e]
                                    /\ sends[e][i].state # "closing"
  /\ writer[e] = "closing" => Len(sends[e]) = 1 /\ sends[e][1].msg = Eos
  /\ writer[e] = "closed" => sends[e] = <<>>
  /\ \A i \in 1..Len(sends[e]) : sends[e][i].state = "writing" => loop[e] = "writing"

\* The reader, the queue and the source of an end.
SourceSound(e) ==
  /\ reader[e] = "ended" <=> aborted[e]
  /\ aborted[e] => queue[e] = <<>>
  /\ reader[e] \in {"memory", "room"} => held[e] \in Nat \cup {Eos}
  /\ reader[e] = "room" => held[e] \in Nat
  /\ source[e] = "ready" /\ ~aborted[e] => queue[e] # <<>>
  /\ source[e] # "idle" => bufs[e] = <<>>
  /\ \/ \A i \in 1..Len(queue[e]) : queue[e][i] \in Nat
     \/ queue[e] = <<Eos>> /\ bufs[e] = <<>>
  /\ Len(queue[e]) + Len(bufs[e]) + (IF reader[e] = "room" THEN 1 ELSE 0) <= Memory
  /\ Len(queue[e]) <= MaxQueued

\* The inductive invariant.
IInv ==
  /\ TypeOK
  /\ \A e \in Ends : Direction(e, Peer(e)) /\ SinkSound(e) /\ SourceSound(e)

-----------------------------------------------------------------------------
(* The two ends, and the three frames that are no messages *)

LEMMA EndFacts ==
  /\ \A e \in Ends : Peer(e) \in Ends /\ Peer(e) # e /\ Peer(Peer(e)) = e
  /\ \A e, d \in Ends : d = e \/ d = Peer(e)
BY RpcStreamAssumption DEF Ends, Peer

LEMMA MarkFacts ==
  /\ Eos # EofMark /\ Eos # Fin /\ EofMark # Fin
  /\ Eos \notin Nat /\ EofMark \notin Nat /\ Fin \notin Nat
<1>1. ASSUME NEW a, NEW b PROVE Cardinality({a, b}) <= 2
  <2>1. IsFiniteSet({a}) /\ Cardinality({a}) = 1
    BY FS_Singleton
  <2>2. Cardinality({a} \cup {b}) = IF b \in {a} THEN Cardinality({a}) ELSE Cardinality({a}) + 1
    BY <2>1, FS_AddElement
  <2>3. {a, b} = {a} \cup {b}
    OBVIOUS
  <2>4. Cardinality({a} \cup {b}) = 1 \/ Cardinality({a} \cup {b}) = 2
    BY <2>1, <2>2
  <2>5. QED
    BY <2>3, <2>4
<1>2. ~ Cardinality({Eos, EofMark, Fin}) <= 2
  BY RpcStreamAssumption
<1>3. Eos = EofMark \/ Eos = Fin => {Eos, EofMark, Fin} = {EofMark, Fin}
  OBVIOUS
<1>4. EofMark = Fin => {Eos, EofMark, Fin} = {Eos, Fin}
  OBVIOUS
<1>5. Eos # EofMark /\ Eos # Fin /\ EofMark # Fin
  BY <1>1, <1>2, <1>3, <1>4
<1>6. QED
  BY <1>5, RpcStreamAssumption

-----------------------------------------------------------------------------
(* What becomes of a path *)

\* The source takes the next message.
LEMMA OrderAfterRead ==
  ASSUME NEW path \in Seq(Frames), path # <<>>, NEW g \in Nat, NEW k \in Nat,
         g <= k, InOrder(path, g, k), Head(path) \in Nat
  PROVE  /\ g < k /\ Head(path) = g + 1
         /\ InOrder(Tail(path), g + 1, k)
<1>1. /\ Len(path) \in Nat /\ Len(path) >= 1 /\ Head(path) = path[1]
      /\ Len(Tail(path)) = Len(path) - 1
      /\ \A i \in 1..(Len(path) - 1) : Tail(path)[i] = path[i + 1]
  BY EmptySeq, LenProperties, HeadTailProperties
<1>2. g < k /\ Head(path) = g + 1
  BY <1>1, MarkFacts DEF InOrder
<1>3. QED
  BY <1>1, <1>2 DEF InOrder

\* It takes the end of the stream.
LEMMA OrderAfterEos ==
  ASSUME NEW path \in Seq(Frames), path # <<>>, NEW g \in Nat, NEW k \in Nat,
         g <= k, InOrder(path, g, k), Head(path) = Eos
  PROVE  /\ g = k
         /\ InOrder(Tail(path), g, k) /\ ~Holds(Tail(path), Eos)
<1>1. /\ Len(path) \in Nat /\ Len(path) >= 1 /\ Head(path) = path[1]
      /\ Len(Tail(path)) = Len(path) - 1
      /\ \A i \in 1..(Len(path) - 1) : Tail(path)[i] = path[i + 1]
  BY EmptySeq, LenProperties, HeadTailProperties
<1>2. g = k
  BY <1>1, MarkFacts DEF InOrder
<1>3. \A i \in 1..(Len(path) - 1) : path[i + 1] = Fin
  BY <1>1, <1>2 DEF InOrder
<1>4. QED
  BY <1>1, <1>2, <1>3, MarkFacts DEF InOrder, Holds

\* A frame is written at its end.
LEMMA OrderAfterWrite ==
  ASSUME NEW path \in Seq(Frames), NEW x \in Frames, NEW g \in Nat, NEW k \in Nat,
         g <= k, InOrder(path, g, k)
  PROVE  /\ x = k + 1 /\ Len(path) = k - g => InOrder(Append(path, x), g, k + 1)
         /\ x = Eos /\ Len(path) = k - g => InOrder(Append(path, x), g, k)
         /\ x = Fin /\ Len(path) >= k - g => InOrder(Append(path, x), g, k)
         /\ \A f \in Frames : Holds(Append(path, x), f) => Holds(path, f) \/ x = f
<1>1. /\ Len(path) \in Nat
      /\ Len(Append(path, x)) = Len(path) + 1
      /\ \A i \in 1..Len(path) : Append(path, x)[i] = path[i]
      /\ Append(path, x)[Len(path) + 1] = x
  BY LenProperties, AppendProperties
<1>2. QED
  BY <1>1, MarkFacts DEF InOrder, Holds

\* What follows its messages is cut off.
LEMMA OrderOfFront ==
  ASSUME NEW p \in Seq(Frames), NEW q \in Seq(Frames), NEW g, NEW k, InOrder(p \o q, g, k)
  PROVE  /\ InOrder(p, g, k)
         /\ \A f : Holds(p, f) => Holds(p \o q, f)
<1>1. /\ Len(p) \in Nat /\ Len(q) \in Nat /\ Len(p \o q) = Len(p) + Len(q)
      /\ \A i \in 1..Len(p) : (p \o q)[i] = p[i]
  BY LenProperties, ConcatProperties
<1>2. QED
  BY <1>1 DEF InOrder, Holds

\* Nobody sees what is written after that.
LEMMA OrderOfMessages ==
  ASSUME NEW path \in Seq(Nat), NEW g \in Nat, NEW k \in Nat, g <= k, InOrder(path, g, k)
  PROVE  Len(path) <= k - g /\ InOrder(path, g, k + 1)
<1>1. Len(path) \in Nat /\ \A i \in 1..Len(path) : path[i] \in Nat
  BY LenProperties, ElementOfSeq
<1>2. Len(path) <= k - g
  BY <1>1, MarkFacts DEF InOrder
<1>3. QED
  BY <1>1, <1>2 DEF InOrder

\* The path is kept by what moves a frame along it, and cut or made longer at
\* its ends.
LEMMA FrameMoves ==
  ASSUME NEW b \in Seq(Frames), NEW q \in Seq(Frames), NEW n \in Seq(Frames), NEW x \in Frames
  PROVE  /\ n # <<>> => b \o (q \o (<<Head(n)>> \o Tail(n))) = b \o (q \o (<<>> \o n))
         /\ b \o (Append(q, x) \o (<<>> \o n)) = b \o (q \o (<<x>> \o n))
<1>1. ASSUME n # <<>> PROVE <<Head(n)>> \o Tail(n) = <<>> \o n
  <2>1. Head(n) \in Frames /\ Tail(n) \in Seq(Frames) /\ Head(n) = n[1]
        /\ Len(Tail(n)) = Len(n) - 1 /\ Len(n) \in Nat /\ Len(n) >= 1
        /\ \A i \in 1..Len(Tail(n)) : Tail(n)[i] = n[i + 1]
    BY <1>1, HeadTailProperties, EmptySeq
  <2>2. <<Head(n)>> \in Seq(Frames) /\ Len(<<Head(n)>>) = 1 /\ <<Head(n)>>[1] = Head(n)
    BY <2>1
  <2> DEFINE t == <<Head(n)>> \o Tail(n)
  <2>3. /\ t \in Seq(Frames) /\ Len(t) = 1 + Len(Tail(n))
        /\ \A i \in 1..(1 + Len(Tail(n))) : t[i] = IF i <= 1 THEN <<Head(n)>>[i] ELSE Tail(n)[i - 1]
    BY <2>1, <2>2, ConcatProperties
  <2> HIDE DEF t
  <2>4. Len(t) = Len(n) /\ \A i \in 1..Len(t) : t[i] = n[i]
    BY <2>1, <2>2, <2>3
  <2>5. t = n
    BY <2>3, <2>4, SeqEqual
  <2>6. QED
    BY <2>5, ConcatEmptySeq DEF t
<1>2. Append(q, x) \o (<<>> \o n) = q \o (<<x>> \o n)
  <2>1. Append(q, x) = q \o <<x>> /\ <<x>> \in Seq(Frames)
    BY AppendIsConcat
  <2>2. QED
    BY <2>1, ConcatAssociative, ConcatEmptySeq
<1>3. QED
  BY <1>1, <1>2

LEMMA PathEnds ==
  ASSUME NEW b \in Seq(Frames), NEW r \in Seq(Frames)
  PROVE  /\ <<>> \o (<<>> \o r) = r /\ r \o (<<>> \o b) = <<>> \o (r \o b)
         /\ b # <<>> => b \o r # <<>> /\ Head(b \o r) = Head(b) /\ Tail(b \o r) = Tail(b) \o r
<1>1. <<>> \o (<<>> \o r) = r /\ r \o (<<>> \o b) = <<>> \o (r \o b)
  <2>1. r \o b \in Seq(Frames)
    BY ConcatProperties
  <2>2. QED
    BY <2>1, ConcatEmptySeq
<1>2. ASSUME b # <<>> PROVE b \o r # <<>> /\ Head(b \o r) = Head(b) /\ Tail(b \o r) = Tail(b) \o r
  <2> DEFINE c == b \o r
             t == Tail(b) \o r
  <2>1. /\ Len(b) \in Nat /\ Len(b) >= 1 /\ Len(r) \in Nat /\ Head(b) = b[1]
        /\ Tail(b) \in Seq(Frames) /\ Len(Tail(b)) = Len(b) - 1
        /\ \A i \in 1..Len(Tail(b)) : Tail(b)[i] = b[i + 1]
    BY <1>2, EmptySeq, LenProperties, HeadTailProperties
  <2>2. /\ c \in Seq(Frames) /\ Len(c) = Len(b) + Len(r)
        /\ \A i \in 1..(Len(b) + Len(r)) : c[i] = IF i <= Len(b) THEN b[i] ELSE r[i - Len(b)]
    BY ConcatProperties
  <2>3. /\ t \in Seq(Frames) /\ Len(t) = Len(b) - 1 + Len(r)
        /\ \A i \in 1..(Len(b) - 1 + Len(r)) :
             t[i] = IF i <= Len(b) - 1 THEN Tail(b)[i] ELSE r[i - (Len(b) - 1)]
    BY <2>1, ConcatProperties
  <2> HIDE DEF c, t
  <2>4. c # <<>> /\ Head(c) = c[1] /\ c[1] = b[1]
    BY <2>1, <2>2, EmptySeq
  <2>5. /\ Tail(c) \in Seq(Frames) /\ Len(Tail(c)) = Len(c) - 1
        /\ \A i \in 1..Len(Tail(c)) : Tail(c)[i] = c[i + 1]
    BY <2>2, <2>4, HeadTailProperties
  <2>6. Len(Tail(c)) = Len(t) /\ \A i \in 1..Len(t) : Tail(c)[i] = t[i]
    <3>1. ASSUME NEW i \in 1..Len(t) PROVE Tail(c)[i] = t[i]
      <4>1. i \in 1..(Len(b) - 1 + Len(r)) /\ i + 1 \in 1..(Len(b) + Len(r)) /\ Tail(c)[i] = c[i + 1]
        BY <2>1, <2>2, <2>3, <2>5
      <4>2. CASE i <= Len(b) - 1
        BY <2>1, <2>2, <2>3, <4>1, <4>2
      <4>3. CASE ~(i <= Len(b) - 1)
        BY <2>1, <2>2, <2>3, <4>1, <4>3
      <4>4. QED
        BY <4>2, <4>3
    <3>2. QED
      BY <2>1, <2>2, <2>3, <2>5, <3>1
  <2>7. Tail(c) = t
    BY <2>3, <2>5, <2>6, SeqEqual
  <2>8. QED
    BY <2>1, <2>4, <2>7 DEF c, t
<1>3. QED
  BY <1>1, <1>2

LEMMA FrameWritten ==
  ASSUME NEW a \in Seq(Frames), NEW n \in Seq(Frames), NEW x \in Frames
  PROVE  a \o Append(n, x) = Append(a \o n, x) /\ a \o n \in Seq(Frames)
<1> DEFINE y == <<x>>
           u == a \o n
<1>1. Append(n, x) = n \o y /\ y \in Seq(Frames)
  BY AppendIsConcat
<1>2. u \in Seq(Frames)
  BY ConcatProperties
<1>3. a \o (n \o y) = u \o y
  BY <1>1, ConcatAssociative
<1> HIDE DEF u
<1>4. Append(u, x) = u \o y
  BY <1>2, AppendIsConcat
<1>5. QED
  BY <1>1, <1>2, <1>3, <1>4 DEF u

-----------------------------------------------------------------------------
(* The calls of a sink *)

Call == [msg : Nat \cup {Eos}, state : SendState]

LEMMA CallFields ==
  ASSUME NEW c \in Seq(Call)
  PROVE  /\ Len(c) \in Nat /\ DOMAIN c = 1..Len(c)
         /\ \A i \in 1..Len(c) : c[i] \in Call /\ c[i].msg \in Nat \cup {Eos} /\ c[i].state \in SendState
<1>1. Len(c) \in Nat /\ DOMAIN c = 1..Len(c) /\ \A i \in 1..Len(c) : c[i] \in Call
  BY LenProperties, ElementOfSeq
<1>2. QED
  BY <1>1 DEF Call

LEMMA CallChanged ==
  ASSUME NEW c \in Seq(Call), NEW i \in 1..Len(c), NEW x \in SendState
  PROVE  LET d == [c EXCEPT ![i].state = x]
         IN  /\ d \in Seq(Call) /\ Len(d) = Len(c)
             /\ \A j \in 1..Len(c) : d[j].msg = c[j].msg
             /\ \A j \in 1..Len(c) : d[j].state = IF j = i THEN x ELSE c[j].state
<1> DEFINE r == [c[i] EXCEPT !.state = x]
           d == [c EXCEPT ![i] = r]
<1>1. r \in Call /\ r.msg = c[i].msg /\ r.state = x
  BY CallFields DEF Call
<1>2. [c EXCEPT ![i].state = x] = d
  OBVIOUS
<1> HIDE DEF r
<1>3. /\ d \in Seq(Call) /\ Len(d) = Len(c)
      /\ \A j \in 1..Len(c) : d[j] = IF j = i THEN r ELSE c[j]
  BY <1>1, ExceptSeq
<1> HIDE DEF d
<1>4. QED
  BY <1>1, <1>2, <1>3

LEMMA CallAdded ==
  ASSUME NEW c \in Seq(Call), NEW m \in Nat \cup {Eos}, NEW x \in SendState
  PROVE  LET r == [msg |-> m, state |-> x]
             d == Append(c, r)
         IN  /\ d \in Seq(Call) /\ Len(d) = Len(c) + 1
             /\ \A j \in 1..Len(c) : d[j] = c[j]
             /\ d[Len(c) + 1].msg = m /\ d[Len(c) + 1].state = x
<1> DEFINE r == [msg |-> m, state |-> x]
<1>1. r \in Call /\ r.msg = m /\ r.state = x
  BY DEF Call
<1> HIDE DEF r
<1>2. QED
  BY <1>1, AppendProperties DEF r

LEMMA CallRemoved ==
  ASSUME NEW c \in Seq(Call), NEW i \in 1..Len(c)
  PROVE  LET d == RemoveAt(c, i)
         IN  /\ d \in Seq(Call) /\ Len(d) = Len(c) - 1
             /\ \A j \in 1..Len(d) : d[j] = IF j < i THEN c[j] ELSE c[j + 1]
<1> DEFINE p == SubSeq(c, 1, i - 1)
           r == SubSeq(c, i + 1, Len(c))
<1>1. Len(c) \in Nat /\ i - 1 \in 0..Len(c) /\ i \in 0..Len(c)
  BY CallFields
<1>2. p \in Seq(Call) /\ Len(p) = i - 1 /\ \A j \in 1..(i - 1) : p[j] = c[j]
  BY <1>1, ToSetOfParts
<1>3. r \in Seq(Call) /\ Len(r) = Len(c) - i /\ \A j \in 1..(Len(c) - i) : r[j] = c[i + j]
  BY <1>1, ToSetOfParts
<1> HIDE DEF p, r
<1>4. /\ p \o r \in Seq(Call) /\ Len(p \o r) = Len(p) + Len(r)
      /\ \A j \in 1..(Len(p) + Len(r)) : (p \o r)[j] = IF j <= Len(p) THEN p[j] ELSE r[j - Len(p)]
  BY <1>2, <1>3, ConcatProperties
<1>5. RemoveAt(c, i) = p \o r
  BY DEF RemoveAt, p, r
<1>6. ASSUME NEW j \in 1..(Len(c) - 1)
      PROVE  (p \o r)[j] = IF j < i THEN c[j] ELSE c[j + 1]
  <2>1. CASE j < i
    BY <1>1, <1>2, <1>3, <1>4, <2>1
  <2>2. CASE ~(j < i)
    <3>1. j - (i - 1) \in 1..(Len(c) - i) /\ i + (j - (i - 1)) = j + 1
      BY <1>1, <2>2
    <3>2. (p \o r)[j] = r[j - (i - 1)]
      BY <1>1, <1>2, <1>3, <1>4, <2>2
    <3>3. r[j - (i - 1)] = c[i + (j - (i - 1))]
      BY <1>3, <3>1
    <3>4. QED
      BY <2>2, <3>1, <3>2, <3>3
  <2>3. QED
    BY <2>1, <2>2
<1>7. Len(p \o r) = Len(c) - 1
  BY <1>1, <1>2, <1>3, <1>4
<1>8. QED
  BY <1>4, <1>5, <1>6, <1>7

LEMMA CallAlone ==
  ASSUME NEW m \in Nat \cup {Eos}, NEW x \in SendState
  PROVE  LET d == <<[msg |-> m, state |-> x]>>
         IN  d \in Seq(Call) /\ Len(d) = 1 /\ d[1].msg = m /\ d[1].state = x
BY DEF Call

-----------------------------------------------------------------------------
(* The memory of the reader *)

LEMMA TakenByMessages ==
  ASSUME NEW s \in Seq(Frames), \A i \in 1..Len(s) : s[i] \in Nat
  PROVE  Taken(s) = Len(s)
<1> DEFINE w == [i \in DOMAIN s |-> FrameSize(s[i])]
           n == Len(s)
           U == UnitsOf(1..n, w)
           b == [i \in 1..n |-> <<i, 1>>]
<1>1. n \in Nat /\ DOMAIN s = 1..n
  BY LenProperties
<1>2. \A i \in 1..n : w[i] = 1
  BY <1>1, MarkFacts DEF FrameSize
<1> HIDE DEF w
<1>3. \A i \in 1..n : {i} \X (1..w[i]) = {<<i, 1>>}
  BY <1>2
<1>4. U = {<<i, 1>> : i \in 1..n}
  BY <1>3 DEF UnitsOf
<1> HIDE DEF U
<1>5. b \in Bijection(1..n, U)
  BY <1>4 DEF Bijection, Injection, Surjection, IsInjective
<1>6. IsFiniteSet(1..n) /\ Cardinality(1..n) = n
  BY <1>1, FS_Interval
<1> HIDE DEF b, n
<1>7. Cardinality(U) = n
  BY <1>5, <1>6, FS_Bijection DEF ExistsBijection
<1>8. QED
  BY <1>1, <1>7 DEF Taken, Total, w, U, n

LEMMA TakenByEos == Taken(<<Eos>>) = Memory
<1> DEFINE w == [i \in DOMAIN <<Eos>> |-> FrameSize(<<Eos>>[i])]
<1>1. DOMAIN <<Eos>> = {1} /\ w[1] = Memory
  BY DEF FrameSize
<1>2. Total({1}, w) = w[1]
  BY <1>1, TotalOfOne, RpcStreamAssumption
<1>3. QED
  BY <1>1, <1>2 DEF Taken

\* What the reader has taken of its memory, while all it holds are messages
\* and when the end of the stream is queued.
LEMMA UsedIs ==
  ASSUME TypeOK, NEW e \in Ends, SourceSound(e)
  PROVE  /\ (\A i \in 1..Len(queue[e]) : queue[e][i] \in Nat) =>
              Used(e) = Len(queue[e]) + Len(bufs[e]) + (IF reader[e] = "room" THEN 1 ELSE 0)
         /\ queue[e] = <<Eos>> =>
              bufs[e] = <<>> /\ Used(e) = Memory + (IF reader[e] = "room" THEN 1 ELSE 0)
<1>1. queue[e] \in Seq(Frames) /\ bufs[e] \in Seq(Frames) /\ bufs[e] \in Seq(Nat)
  <2>1. queue[e] \in Seq(Frames \ {Fin}) /\ bufs[e] \in Seq(Nat)
    BY DEF TypeOK
  <2>2. Frames \ {Fin} \subseteq Frames /\ Nat \subseteq Frames
    BY DEF Frames
  <2>3. QED
    BY <2>1, <2>2, SeqMonotonic
<1>2. Taken(bufs[e]) = Len(bufs[e])
  <2>1. \A i \in 1..Len(bufs[e]) : bufs[e][i] \in Nat
    BY <1>1, ElementOfSeq
  <2>2. QED
    BY <1>1, <2>1, TakenByMessages
<1>3. reader[e] = "room" => FrameSize(held[e]) = 1
  BY MarkFacts DEF SourceSound, FrameSize
<1>4. (\A i \in 1..Len(queue[e]) : queue[e][i] \in Nat) => Taken(queue[e]) = Len(queue[e])
  BY <1>1, TakenByMessages
<1>5. queue[e] = <<Eos>> => bufs[e] = <<>> /\ Len(bufs[e]) = 0
  BY MarkFacts, EmptySeq DEF SourceSound
<1>6. Len(queue[e]) \in Nat /\ Len(bufs[e]) \in Nat /\ Memory \in Nat
  BY <1>1, LenProperties, RpcStreamAssumption
<1>7. (\A i \in 1..Len(queue[e]) : queue[e][i] \in Nat) =>
        Used(e) = Len(queue[e]) + Len(bufs[e]) + (IF reader[e] = "room" THEN 1 ELSE 0)
  BY <1>2, <1>3, <1>4, <1>6 DEF Used
<1>8. queue[e] = <<Eos>> => Used(e) = Memory + (IF reader[e] = "room" THEN 1 ELSE 0)
  BY <1>2, <1>3, <1>5, <1>6, TakenByEos DEF Used
<1>9. QED
  BY <1>5, <1>7, <1>8

-----------------------------------------------------------------------------
(* Types *)

LEMMA Types ==
  ASSUME TypeOK, NEW e \in Ends
  PROVE  /\ given[e] \in Nat /\ got[e] \in Nat
         /\ sends[e] \in Seq(Call) /\ Len(sends[e]) \in Nat /\ DOMAIN sends[e] = 1..Len(sends[e])
         /\ bufs[e] \in Seq(Nat) /\ bufs[e] \in Seq(Frames)
         /\ queue[e] \in Seq(Frames \ {Fin}) /\ queue[e] \in Seq(Frames)
         /\ net[e] \in Seq(Frames \ {EofMark}) /\ net[e] \in Seq(Frames)
         /\ held[e] \in Frames /\ Held(e) \in Seq(Frames)
         /\ Path(e) \in Seq(Frames)
<1>1. /\ given[e] \in Nat /\ got[e] \in Nat /\ sends[e] \in Seq(Call) /\ bufs[e] \in Seq(Nat)
      /\ queue[e] \in Seq(Frames \ {Fin}) /\ net[e] \in Seq(Frames \ {EofMark})
      /\ held[e] \in Frames
  BY DEF TypeOK, Call
<1>2. Len(sends[e]) \in Nat /\ DOMAIN sends[e] = 1..Len(sends[e])
  BY <1>1, CallFields
<1>3. bufs[e] \in Seq(Frames) /\ queue[e] \in Seq(Frames) /\ net[e] \in Seq(Frames)
  <2>1. Frames \ {Fin} \subseteq Frames /\ Nat \subseteq Frames /\ Frames \ {EofMark} \subseteq Frames
    BY DEF Frames
  <2>2. QED
    BY <1>1, <2>1, SeqMonotonic
<1>4. Held(e) \in Seq(Frames)
  BY <1>1 DEF Held
<1>5. Held(e) \o net[e] \in Seq(Frames)
  BY <1>3, <1>4, ConcatProperties
<1>6. queue[e] \o (Held(e) \o net[e]) \in Seq(Frames)
  BY <1>3, <1>5, ConcatProperties
<1>7. bufs[e] \o (queue[e] \o (Held(e) \o net[e])) \in Seq(Frames)
  BY <1>3, <1>6, ConcatProperties
<1>8. QED
  BY <1>1, <1>2, <1>3, <1>4, <1>7 DEF Path

\* stop_send_loop() drops what is queued.
LEMMA CallsDropped ==
  ASSUME NEW c \in Seq(Call)
  PROVE  LET d == [i \in DOMAIN c |-> IF c[i].state = "queued" THEN [c[i] EXCEPT !.state = "sent"] ELSE c[i]]
         IN  /\ d \in Seq(Call) /\ Len(d) = Len(c)
             /\ \A i \in 1..Len(c) : d[i].msg = c[i].msg
             /\ \A i \in 1..Len(c) : d[i].state = IF c[i].state = "queued" THEN "sent" ELSE c[i].state
<1> DEFINE n == Len(c)
           e(i) == IF c[i].state = "queued" THEN [c[i] EXCEPT !.state = "sent"] ELSE c[i]
           d == [i \in 1..n |-> e(i)]
<1>1. n \in Nat /\ DOMAIN c = 1..n
  BY CallFields
<1>2. ASSUME NEW i \in 1..n
      PROVE  /\ e(i) \in Call /\ e(i).msg = c[i].msg
             /\ e(i).state = IF c[i].state = "queued" THEN "sent" ELSE c[i].state
  BY CallFields DEF Call, SendState
<1> HIDE DEF e
<1>3. d \in [1..n -> Call] /\ \A i \in 1..n : d[i] = e(i)
  BY <1>2
<1> HIDE DEF d
<1>4. d \in Seq(Call) /\ Len(d) = n
  BY <1>1, <1>3
<1>5. QED
  BY <1>1, <1>2, <1>3, <1>4 DEF d, e

\* What the actions give the variables that hold sequences.
LEMMA NewSequences ==
  ASSUME TypeOK, NEW e \in Ends
  PROVE  /\ \A i \in 1..Len(sends[e]), x \in SendState : [sends[e] EXCEPT ![i].state = x] \in Seq(Call)
         /\ \A i \in 1..Len(sends[e]) : RemoveAt(sends[e], i) \in Seq(Call)
         /\ \A m \in Nat \cup {Eos} : /\ Append(sends[e], [msg |-> m, state |-> "called"]) \in Seq(Call)
                                      /\ <<[msg |-> m, state |-> "called"]>> \in Seq(Call)
         /\ <<>> \in Seq(Call)
         /\ \A f \in Frames \ {EofMark} : Append(net[e], f) \in Seq(Frames \ {EofMark})
         /\ net[e] # <<>> => Head(net[e]) \in Frames \ {EofMark} /\ Tail(net[e]) \in Seq(Frames \ {EofMark})
         /\ bufs[e] # <<>> => Head(bufs[e]) \in Nat /\ Tail(bufs[e]) \in Seq(Nat)
         /\ \A f \in Frames \ {Fin} : Append(queue[e], f) \in Seq(Frames \ {Fin})
         /\ <<>> \in Seq(Frames \ {Fin}) /\ <<EofMark>> \in Seq(Frames \ {Fin})
         /\ Fin \in Frames \ {EofMark} /\ Eos \in Frames \ {EofMark} /\ Nat \subseteq Frames \ {EofMark}
<1>1. \A i \in 1..Len(sends[e]), x \in SendState : [sends[e] EXCEPT ![i].state = x] \in Seq(Call)
  BY Types, CallChanged
<1>2. \A i \in 1..Len(sends[e]) : RemoveAt(sends[e], i) \in Seq(Call)
  BY Types, CallRemoved
<1>3. \A m \in Nat \cup {Eos} : /\ Append(sends[e], [msg |-> m, state |-> "called"]) \in Seq(Call)
                                /\ <<[msg |-> m, state |-> "called"]>> \in Seq(Call)
  <2>1. "called" \in SendState
    BY DEF SendState
  <2>2. QED
    BY <2>1, Types, CallAdded, CallAlone
<1>4. \A f \in Frames \ {EofMark} : Append(net[e], f) \in Seq(Frames \ {EofMark})
  BY Types, AppendProperties
<1>5. net[e] # <<>> => Head(net[e]) \in Frames \ {EofMark} /\ Tail(net[e]) \in Seq(Frames \ {EofMark})
  BY Types, HeadTailProperties
<1>6. bufs[e] # <<>> => Head(bufs[e]) \in Nat /\ Tail(bufs[e]) \in Seq(Nat)
  BY Types, HeadTailProperties
<1>7. \A f \in Frames \ {Fin} : Append(queue[e], f) \in Seq(Frames \ {Fin})
  BY Types, AppendProperties
<1>8. EofMark \in Frames \ {Fin} /\ Fin \in Frames \ {EofMark} /\ Eos \in Frames \ {EofMark}
      /\ Nat \subseteq Frames \ {EofMark}
  BY MarkFacts DEF Frames
<1>9. <<>> \in Seq(Call) /\ <<>> \in Seq(Frames \ {Fin}) /\ <<EofMark>> \in Seq(Frames \ {Fin})
  BY <1>8, EmptySeq
<1>10. QED
  BY <1>1, <1>2, <1>3, <1>4, <1>5, <1>6, <1>7, <1>8, <1>9

\* What ends the messages of the queue when the source takes them.
LEMMA DataFramesAre ==
  ASSUME TypeOK, NEW e \in Ends, SourceSound(e)
  PROVE  /\ DataFrames(queue[e]) \in Seq(Nat)
         /\ \/ /\ DataFrames(queue[e]) = queue[e] /\ ~AtEos(queue[e])
               /\ \A i \in 1..Len(queue[e]) : queue[e][i] \in Nat
            \/ /\ queue[e] = <<Eos>> /\ DataFrames(queue[e]) = <<>>
<1>1. queue[e] \in Seq(Frames) /\ Len(queue[e]) \in Nat
  BY Types, LenProperties
<1>2. CASE \A i \in 1..Len(queue[e]) : queue[e][i] \in Nat
  <2>1. ~AtEos(queue[e])
    <3>1. queue[e] # <<>> => Len(queue[e]) \in 1..Len(queue[e])
      BY <1>1, EmptySeq
    <3>2. QED
      BY <1>2, <3>1, MarkFacts DEF AtEos, Last
  <2>2. queue[e] \in [1..Len(queue[e]) -> Nat]
    BY <1>1, <1>2, LenProperties
  <2>3. queue[e] \in Seq(Nat)
    BY <1>1, <2>2
  <2>4. QED
    BY <1>2, <2>1, <2>3 DEF DataFrames
<1>3. CASE queue[e] = <<Eos>>
  <2>1. Len(<<Eos>>) = 1 /\ <<Eos>>[1] = Eos /\ <<Eos>> # <<>>
    OBVIOUS
  <2>2. AtEos(queue[e])
    BY <1>3, <2>1 DEF AtEos, Last
  <2>3. SubSeq(queue[e], 1, Len(queue[e]) - 1) = <<>>
    BY <1>3, <2>1, SubSeqEmpty
  <2>4. DataFrames(queue[e]) = <<>>
    BY <2>2, <2>3 DEF DataFrames, Front
  <2>5. QED
    BY <1>3, <2>4, EmptySeq
<1>4. QED
  BY <1>2, <1>3 DEF SourceSound

\* Every action leaves the variables in their types; those that change the
\* calls of a sink first.
LEMMA SendsType ==
  ASSUME TypeOK, NEW e \in Ends, NEW c \in Seq(Call), sends' = [sends EXCEPT ![e] = c]
  PROVE  sends' \in [Ends -> Seq([msg : Nat \cup {Eos}, state : SendState])]
BY DEF TypeOK, Call

LEMMA SinkTypeStep ==
  ASSUME TypeOK, NEW e \in Ends,
         Write(e) \/ CloseSink(e) \/ Send(e) \/ Sent(e) \/ EosSent(e) \/ LoopTakes(e)
           \/ Written(e) \/ StopSendLoop(e) \/ CloseDone(e)
  PROVE  TypeOK'
<1> USE DEF app, sink, src, frames, closed, socket
<1> DEFINE SendsOK == sends' \in [Ends -> Seq([msg : Nat \cup {Eos}, state : SendState])]
<1>1. CASE Write(e)
  <2>1. Append(sends[e], [msg |-> given[e] + 1, state |-> "called"]) \in Seq(Call)
    BY Types, NewSequences
  <2>2. SendsOK
    BY <1>1, <2>1, SendsType DEF Write
  <2>3. given' \in [Ends -> Nat]
    BY <1>1 DEF TypeOK, Write
  <2>4. UNCHANGED <<writer, ex, got, source, bufs, loop, reader, held, queue, aborted, error,
                    sinkClosed, sourceClosed, closing, stopped, shut, net, broken, faults>>
    BY <1>1 DEF Write
  <2>5. QED
    BY <2>2, <2>3, <2>4 DEF TypeOK
<1>2. CASE CloseSink(e)
  <2>1. <<[msg |-> Eos, state |-> "called"]>> \in Seq(Call)
    BY NewSequences
  <2>2. SendsOK
    BY <1>2, <2>1, SendsType DEF CloseSink
  <2>3. writer' \in [Ends -> {"open", "closing", "closed"}]
    BY <1>2 DEF TypeOK, CloseSink
  <2>4. UNCHANGED <<given, ex, got, source, bufs, loop, reader, held, queue, aborted, error,
                    sinkClosed, sourceClosed, closing, stopped, shut, net, broken, faults>>
    BY <1>2 DEF CloseSink
  <2>5. QED
    BY <2>2, <2>3, <2>4 DEF TypeOK
<1>3. ASSUME NEW i \in DOMAIN sends[e], NEW x \in SendState,
             sends' = [sends EXCEPT ![e][i].state = x]
      PROVE  SendsOK
  <2>1. sends' = [sends EXCEPT ![e] = [@ EXCEPT ![i].state = x]]
    BY <1>3
  <2>2. [sends[e] EXCEPT ![i].state = x] \in Seq(Call)
    BY Types, NewSequences
  <2>3. QED
    BY <2>1, <2>2, SendsType
<1>4. CASE Send(e)
  <2>1. SendsOK
    BY <1>3, <1>4 DEF Send, SendState
  <2>2. UNCHANGED <<given, writer, ex, got, source, bufs, loop, reader, held, queue, aborted,
                    error, sinkClosed, sourceClosed, closing, stopped, shut, net, broken,
                    faults>>
    BY <1>4 DEF Send
  <2>3. QED
    BY <2>1, <2>2 DEF TypeOK
<1>5. CASE Sent(e)
  <2>1. PICK i \in DOMAIN sends[e] :
          /\ ex' = [ex EXCEPT ![e] = @ \/ sends[e][i].state = "failed"]
          /\ sends' = [sends EXCEPT ![e] = RemoveAt(@, i)]
    BY <1>5 DEF Sent
  <2>2. RemoveAt(sends[e], i) \in Seq(Call)
    BY Types, NewSequences
  <2>3. SendsOK
    BY <2>1, <2>2, SendsType
  <2>4. ex' \in [Ends -> BOOLEAN]
    BY <2>1 DEF TypeOK
  <2>5. UNCHANGED <<given, writer, got, source, bufs, loop, reader, held, queue, aborted,
                    error, sinkClosed, sourceClosed, closing, stopped, shut, net, broken,
                    faults>>
    BY <1>5 DEF Sent
  <2>6. QED
    BY <2>3, <2>4, <2>5 DEF TypeOK
<1>6. CASE EosSent(e)
  <2>1. SendsOK
    <3>1. <<>> \in Seq(Call)
      BY NewSequences
    <3>2. sends' = [sends EXCEPT ![e] = <<>>] => SendsOK
      BY <3>1, SendsType
    <3>3. \/ sends' = [sends EXCEPT ![e] = <<>>]
          \/ \E i \in DOMAIN sends[e] : sends' = [sends EXCEPT ![e][i].state = "closing"]
      BY <1>6 DEF EosSent
    <3>4. QED
      BY <1>3, <3>2, <3>3 DEF SendState
  <2>2. writer' \in [Ends -> {"open", "closing", "closed"}]
    BY <1>6 DEF TypeOK, EosSent, StreamClose
  <2>3. sinkClosed' \in [Ends -> BOOLEAN]
    BY <1>6 DEF TypeOK, EosSent, StreamClose
  <2>4. closing' \in [Ends -> {"no", "flushing", "stopping"}]
    <3>1. closing' = closing \/ \E v \in {"no", "flushing", "stopping"} : closing' = [closing EXCEPT ![e] = v]
      BY <1>6 DEF EosSent, StreamClose
    <3>2. QED
      BY <3>1 DEF TypeOK
  <2>5. UNCHANGED <<given, ex, got, source, bufs, loop, reader, held, queue, aborted, error,
                    sourceClosed, stopped, shut, net, broken, faults>>
    BY <1>6 DEF EosSent, StreamClose
  <2>6. QED
    BY <2>1, <2>2, <2>3, <2>4, <2>5 DEF TypeOK
<1>7. CASE LoopTakes(e)
  <2>1. SendsOK
    BY <1>3, <1>7 DEF LoopTakes, Queued, SendState
  <2>2. loop' \in [Ends -> {"waiting", "writing", "ended"}]
    BY <1>7 DEF TypeOK, LoopTakes
  <2>3. UNCHANGED <<given, writer, ex, got, source, bufs, reader, held, queue, aborted, error,
                    sinkClosed, sourceClosed, closing, stopped, shut, net, broken, faults>>
    BY <1>7 DEF LoopTakes
  <2>4. QED
    BY <2>1, <2>2, <2>3 DEF TypeOK
<1>8. CASE Written(e)
  <2>1. SendsOK
    BY <1>3, <1>8 DEF Written, SendState
  <2>2. net' \in [Ends -> Seq(Frames \ {EofMark})]
    <3>1. PICK i \in DOMAIN sends[e] :
            net' = [net EXCEPT ![Peer(e)] = Append(@, sends[e][i].msg)] \/ net' = net
      BY <1>8 DEF Written
    <3>2. sends[e][i].msg \in Frames \ {EofMark}
      BY Types, CallFields, NewSequences
    <3>3. Append(net[Peer(e)], sends[e][i].msg) \in Seq(Frames \ {EofMark})
      BY <3>2, EndFacts, NewSequences
    <3>4. Peer(e) \in Ends
      BY EndFacts
    <3>5. net \in [Ends -> Seq(Frames \ {EofMark})]
      BY DEF TypeOK
    <3>6. QED
      BY <3>1, <3>3, <3>4, <3>5
  <2>3. loop' \in [Ends -> {"waiting", "writing", "ended"}]
    BY <1>8 DEF TypeOK, Written
  <2>4. error' \in [Ends -> BOOLEAN]
    BY <1>8 DEF TypeOK, Written
  <2>5. UNCHANGED <<given, writer, ex, got, source, bufs, reader, held, queue, aborted,
                    sinkClosed, sourceClosed, closing, stopped, shut, broken, faults>>
    BY <1>8 DEF Written
  <2>6. QED
    BY <2>1, <2>2, <2>3, <2>4, <2>5 DEF TypeOK
<1>9. CASE StopSendLoop(e)
  <2> DEFINE c == [i \in DOMAIN sends[e] |->
                    IF sends[e][i].state = "queued" THEN [sends[e][i] EXCEPT !.state = "sent"]
                                                    ELSE sends[e][i]]
  <2>1. c \in Seq(Call)
    BY Types, CallsDropped
  <2>2. sends' = [sends EXCEPT ![e] = c]
    BY <1>9 DEF StopSendLoop
  <2> HIDE DEF c
  <2>3. SendsOK
    BY <2>1, <2>2, SendsType
  <2>4. stopped' \in [Ends -> BOOLEAN]
    BY <1>9 DEF TypeOK, StopSendLoop
  <2>5. UNCHANGED <<given, writer, ex, got, source, bufs, loop, reader, held, queue, aborted,
                    error, sinkClosed, sourceClosed, closing, shut, net, broken, faults>>
    BY <1>9 DEF StopSendLoop
  <2>6. QED
    BY <2>3, <2>4, <2>5 DEF TypeOK
<1>10. CASE CloseDone(e)
  <2>1. SendsOK
    <3>1. <<>> \in Seq(Call)
      BY NewSequences
    <3>2. sends' = [sends EXCEPT ![e] = <<>>] => SendsOK
      BY <3>1, SendsType
    <3>3. QED
      BY <1>10, <3>2 DEF CloseDone, TypeOK
  <2>2. source' \in [Ends -> {"idle", "waiting", "ready", "refused", "ending", "failing", "eof", "failed"}]
    BY <1>10 DEF TypeOK, CloseDone
  <2>3. writer' \in [Ends -> {"open", "closing", "closed"}]
    BY <1>10 DEF TypeOK, CloseDone
  <2>4. UNCHANGED <<given, ex, got, bufs, loop, reader, held, queue, aborted, error,
                    sinkClosed, sourceClosed, closing, stopped, shut, net, broken, faults>>
    BY <1>10 DEF CloseDone
  <2>5. QED
    BY <2>1, <2>2, <2>3, <2>4 DEF TypeOK
<1>11. QED
  BY <1>1, <1>2, <1>4, <1>5, <1>6, <1>7, <1>8, <1>9, <1>10

\* The other actions of an end.
LEMMA SourceTypeStep ==
  ASSUME TypeOK, NEW e \in Ends, SourceSound(e),
         Read(e) \/ LoopBroken(e) \/ ReadFrame(e) \/ ReadEof(e) \/ ProcessIncoming(e)
           \/ PushEventually(e) \/ StreamReceive(e) \/ Consume(e) \/ ReceiveFails(e)
           \/ WriteBufClosed(e)
  PROVE  TypeOK'
<1> USE DEF app, sink, src, frames, closed, socket
<1>1. CASE Read(e)
  <2>1. bufs[e] # <<>> => Head(bufs[e]) \in Nat /\ Tail(bufs[e]) \in Seq(Nat)
    BY NewSequences
  <2>2. got' \in [Ends -> Nat]
    BY <1>1, <2>1 DEF TypeOK, Read
  <2>3. bufs' \in [Ends -> Seq(Nat)]
    BY <1>1, <2>1 DEF TypeOK, Read
  <2>4. UNCHANGED <<given, writer, ex, sends, source, loop, reader, held, queue, aborted,
                    error, sinkClosed, sourceClosed, closing, stopped, shut, net, broken,
                    faults>>
    BY <1>1 DEF Read
  <2>5. QED
    BY <2>2, <2>3, <2>4 DEF TypeOK
<1>2. CASE LoopBroken(e)
  BY <1>2 DEF TypeOK, LoopBroken
<1>3. CASE ReadFrame(e)
  <2>1. net[e] # <<>> => Head(net[e]) \in Frames \ {EofMark} /\ Tail(net[e]) \in Seq(Frames \ {EofMark})
    BY NewSequences
  <2>2. net' \in [Ends -> Seq(Frames \ {EofMark})]
    BY <1>3, <2>1 DEF TypeOK, ReadFrame
  <2>3. held' \in [Ends -> Frames]
    BY <1>3, <2>1 DEF TypeOK, ReadFrame
  <2>4. reader' \in [Ends -> {"reading", "memory", "room", "leaving", "ended"}]
    BY <1>3, <2>1 DEF TypeOK, ReadFrame
  <2>5. UNCHANGED <<given, writer, ex, sends, got, source, bufs, loop, queue, aborted, error,
                    sinkClosed, sourceClosed, closing, stopped, shut, broken, faults>>
    BY <1>3 DEF ReadFrame
  <2>6. QED
    BY <2>2, <2>3, <2>4, <2>5 DEF TypeOK
<1>4. \A d \in Ends : Append(net[d], Fin) \in Seq(Frames \ {EofMark})
  BY NewSequences
<1>5. <<>> \in Seq(Frames \ {Fin}) /\ <<EofMark>> \in Seq(Frames \ {Fin}) /\ Fin \in Frames
  BY NewSequences, MarkFacts
<1>6. CASE ReadEof(e)
  <2>1. reader' \in [Ends -> {"reading", "memory", "room", "leaving", "ended"}]
    BY <1>6, <1>4, <1>5, EndFacts DEF TypeOK, ReadEof, ReaderEnds
  <2>2. error' \in [Ends -> BOOLEAN]
    BY <1>6, <1>4, <1>5, EndFacts DEF TypeOK, ReadEof, ReaderEnds
  <2>3. queue' \in [Ends -> Seq(Frames \ {Fin})]
    BY <1>6, <1>4, <1>5, EndFacts DEF TypeOK, ReadEof, ReaderEnds
  <2>4. aborted' \in [Ends -> BOOLEAN]
    BY <1>6, <1>4, <1>5, EndFacts DEF TypeOK, ReadEof, ReaderEnds
  <2>5. source' \in [Ends -> {"idle", "waiting", "ready", "refused", "ending", "failing", "eof", "failed"}]
    BY <1>6, <1>4, <1>5, EndFacts DEF TypeOK, ReadEof, ReaderEnds
  <2>6. shut' \in [Ends -> SUBSET {"input", "output"}]
    BY <1>6, <1>4, <1>5, EndFacts DEF TypeOK, ReadEof, ReaderEnds
  <2>7. net' \in [Ends -> Seq(Frames \ {EofMark})]
    BY <1>6, <1>4, <1>5, EndFacts DEF TypeOK, ReadEof, ReaderEnds
  <2>8. UNCHANGED <<given, writer, ex, sends, got, bufs, loop, held, sinkClosed, sourceClosed,
                    closing, stopped, broken, faults>>
    BY <1>6 DEF ReadEof, ReaderEnds
  <2>9. QED
    BY <2>1, <2>2, <2>3, <2>4, <2>5, <2>6, <2>7, <2>8 DEF TypeOK
<1>7. CASE ProcessIncoming(e) \/ PushEventually(e)
  <2>1. held[e] \in Frames \ {Fin}
    BY <1>7, MarkFacts DEF SourceSound, ProcessIncoming, PushEventually, Frames
  <2>2. Append(queue[e], held[e]) \in Seq(Frames \ {Fin})
    BY <2>1, NewSequences
  <2>3. queue' = queue \/ queue' = [queue EXCEPT ![e] = Append(@, held[e])]
    BY <1>7 DEF ProcessIncoming, PushEventually, Push
  <2>4. held' = held \/ held' = [held EXCEPT ![e] = Fin]
    BY <1>7 DEF ProcessIncoming, PushEventually, Push
  <2>5. \E v \in {"reading", "memory", "room", "leaving", "ended"} : reader' = [reader EXCEPT ![e] = v]
    BY <1>7 DEF ProcessIncoming, PushEventually, Push
  <2>6. source' = source \/ source' = [source EXCEPT ![e] = IF @ = "waiting" THEN "ready" ELSE @]
    BY <1>7 DEF ProcessIncoming, PushEventually, Push
  <2>7. UNCHANGED <<given, writer, ex, sends, got, bufs, loop, aborted, error, sinkClosed,
                    sourceClosed, closing, stopped, shut, net, broken, faults>>
    BY <1>7 DEF ProcessIncoming, PushEventually, Push
  <2>8. queue' \in [Ends -> Seq(Frames \ {Fin})]
    BY <2>2, <2>3 DEF TypeOK
  <2>9. held' \in [Ends -> Frames]
    BY <1>5, <2>4 DEF TypeOK
  <2>10. reader' \in [Ends -> {"reading", "memory", "room", "leaving", "ended"}]
    BY <2>5 DEF TypeOK
  <2>11. source' \in [Ends -> {"idle", "waiting", "ready", "refused", "ending", "failing", "eof", "failed"}]
    <3>1. source \in [Ends -> {"idle", "waiting", "ready", "refused", "ending", "failing", "eof", "failed"}]
      BY DEF TypeOK
    <3>2. source' = source \/ source' = [source EXCEPT ![e] = "ready"]
      BY <2>6, <3>1
    <3>3. QED
      BY <3>1, <3>2
  <2>12. QED
    BY <2>7, <2>8, <2>9, <2>10, <2>11 DEF TypeOK
<1>8. CASE StreamReceive(e)
  <2>1. source' \in [Ends -> {"idle", "waiting", "ready", "refused", "ending", "failing", "eof", "failed"}]
    BY <1>8 DEF TypeOK, StreamReceive
  <2>2. UNCHANGED <<given, writer, ex, sends, got, bufs, loop, reader, held, queue, aborted,
                    error, sinkClosed, sourceClosed, closing, stopped, shut, net, broken,
                    faults>>
    BY <1>8 DEF StreamReceive
  <2>3. QED
    BY <2>1, <2>2 DEF TypeOK
<1>9. CASE Consume(e)
  <2>1. DataFrames(queue[e]) \in Seq(Nat)
    BY DataFramesAre
  <2>2. bufs' \in [Ends -> Seq(Nat)]
    BY <1>9, <1>5, <2>1 DEF TypeOK, Consume, CloseSource, StreamClose
  <2>3. queue' \in [Ends -> Seq(Frames \ {Fin})]
    <3>1. queue' = [queue EXCEPT ![e] = <<>>] \/ queue' = [queue EXCEPT ![e] = <<EofMark>>]
      BY <1>9 DEF Consume
    <3>2. \E v \in Seq(Frames \ {Fin}) : queue' = [queue EXCEPT ![e] = v]
      BY <1>5, <3>1
    <3>3. QED
      BY <3>2 DEF TypeOK
  <2>4. source' \in [Ends -> {"idle", "waiting", "ready", "refused", "ending", "failing", "eof", "failed"}]
    <3>1. \E v \in {"idle", "ending", "failing", "eof"} : source' = [source EXCEPT ![e] = v]
      BY <1>9 DEF Consume, CloseSource
    <3>2. QED
      BY <3>1 DEF TypeOK
  <2>5. sourceClosed' \in [Ends -> BOOLEAN]
    BY <1>9, <1>5, <2>1 DEF TypeOK, Consume, CloseSource, StreamClose
  <2>6. closing' \in [Ends -> {"no", "flushing", "stopping"}]
    BY <1>9, <1>5, <2>1 DEF TypeOK, Consume, CloseSource, StreamClose
  <2>7. UNCHANGED <<given, writer, ex, sends, got, loop, reader, held, aborted, error,
                    sinkClosed, stopped, shut, net, broken, faults>>
    BY <1>9 DEF Consume, CloseSource, StreamClose
  <2>8. QED
    BY <2>2, <2>3, <2>4, <2>5, <2>6, <2>7 DEF TypeOK
<1>10. CASE ReceiveFails(e)
  <2>1. source' \in [Ends -> {"idle", "waiting", "ready", "refused", "ending", "failing", "eof", "failed"}]
    <3>1. \E v \in {"failing", "failed"} : source' = [source EXCEPT ![e] = v]
      BY <1>10 DEF ReceiveFails, CloseSource
    <3>2. QED
      BY <3>1 DEF TypeOK
  <2>2. sourceClosed' \in [Ends -> BOOLEAN]
    BY <1>10 DEF TypeOK, ReceiveFails, CloseSource, StreamClose
  <2>3. closing' \in [Ends -> {"no", "flushing", "stopping"}]
    BY <1>10 DEF TypeOK, ReceiveFails, CloseSource, StreamClose
  <2>4. UNCHANGED <<given, writer, ex, sends, got, bufs, loop, reader, held, queue, aborted,
                    error, sinkClosed, stopped, shut, net, broken, faults>>
    BY <1>10 DEF ReceiveFails, CloseSource, StreamClose
  <2>5. QED
    BY <2>1, <2>2, <2>3, <2>4 DEF TypeOK
<1>11. CASE WriteBufClosed(e)
  <2>1. closing' \in [Ends -> {"no", "flushing", "stopping"}]
    BY <1>11, <1>4, EndFacts DEF TypeOK, WriteBufClosed
  <2>2. error' \in [Ends -> BOOLEAN]
    BY <1>11, <1>4, EndFacts DEF TypeOK, WriteBufClosed
  <2>3. shut' \in [Ends -> SUBSET {"input", "output"}]
    BY <1>11, <1>4, EndFacts DEF TypeOK, WriteBufClosed
  <2>4. net' \in [Ends -> Seq(Frames \ {EofMark})]
    BY <1>11, <1>4, EndFacts DEF TypeOK, WriteBufClosed
  <2>5. UNCHANGED <<given, writer, ex, sends, got, source, bufs, loop, reader, held, queue,
                    aborted, sinkClosed, sourceClosed, stopped, broken, faults>>
    BY <1>11 DEF WriteBufClosed
  <2>6. QED
    BY <2>1, <2>2, <2>3, <2>4, <2>5 DEF TypeOK
<1>12. QED
  BY <1>1, <1>2, <1>3, <1>6, <1>7, <1>8, <1>9, <1>10, <1>11

-----------------------------------------------------------------------------
(* What a step leaves alone *)

SinkKept(d) == UNCHANGED <<given[d], writer[d], ex[d], sends[d]>>

\* A send loop may end, an error may be set and the socket shut down at any
\* moment: nothing that was sent changes.
SenderKept(d) ==
  /\ SinkKept(d)
  /\ loop'[d] = loop[d] \/ (loop[d] = "waiting" /\ loop'[d] = "ended")
  /\ error[d] => error'[d]
  /\ shut[d] \subseteq shut'[d]

QueueKept(d) ==
  UNCHANGED <<got[d], source[d], bufs[d], reader[d], held[d], queue[d], aborted[d]>>

LEMMA KeptSink ==
  ASSUME NEW d \in Ends, SinkSound(d), SenderKept(d)
  PROVE  SinkSound(d)' /\ (EosWritten(d) => EosWritten(d)')
BY DEF SinkSound, SenderKept, SinkKept, EosWritten

LEMMA KeptSource ==
  ASSUME NEW d \in Ends, SourceSound(d), QueueKept(d)
  PROVE  SourceSound(d)'
BY DEF SourceSound, QueueKept

LEMMA KeptPath ==
  ASSUME NEW d \in Ends, QueueKept(d), net'[d] = net[d]
  PROVE  Path(d)' = Path(d)
BY DEF Path, Held, QueueKept

LEMMA KeptSending ==
  ASSUME NEW d \in Ends, NEW k \in Nat, Sending(d, k), SenderKept(d)
  PROVE  Sending(d, k)'
BY DEF Sending, SenderKept, SinkKept

\* What was delivered stays so while the path does not change.
LEMMA KeptDelivered ==
  ASSUME NEW e \in Ends, NEW p \in Ends, NEW k \in Nat, Delivered(e, p, k),
         Path(p)' = Path(p), UNCHANGED <<got[p], aborted[p]>>,
         given'[e] \in Nat, given[e] \in Nat, got[p] \in Nat, given[e] <= given'[e],
         EosWritten(e) => EosWritten(e)' /\ given'[e] = given[e],
         shut[e] \subseteq shut'[e]
  PROVE  Delivered(e, p, k)'
BY DEF Delivered, InOrder, Holds

\* The invariant from what a step of end e's sink, connection or send loop does.
LEMMA SinkStep ==
  ASSUME IInv, TypeOK', NEW e \in Ends,
         \A d \in Ends : SourceSound(d)' /\ Path(d)' = Path(d) /\ UNCHANGED <<got[d], aborted[d]>>,
         SenderKept(Peer(e)),
         SinkSound(e)', given[e] <= given'[e], shut[e] \subseteq shut'[e],
         EosWritten(e) => EosWritten(e)' /\ given'[e] = given[e],
         \A k \in Nat : Delivered(e, Peer(e), k) /\ Sending(e, k) => Sending(e, k)'
  PROVE  IInv'
<1> DEFINE p == Peer(e)
<1>1. p \in Ends /\ Peer(p) = e /\ \A d \in Ends : d = e \/ d = p
  BY EndFacts
<1>2. \A d \in Ends : given[d] \in Nat /\ got[d] \in Nat /\ given'[d] \in Nat
  BY DEF IInv, TypeOK
<1> HIDE DEF p
<1>3. Direction(e, p)'
  <2>1. PICK k \in Nat : Delivered(e, p, k) /\ Sending(e, k)
    BY DEF IInv, Direction, p
  <2>2. Delivered(e, p, k)'
    BY <1>1, <1>2, <2>1, KeptDelivered
  <2>3. Sending(e, k)'
    BY <2>1 DEF p
  <2>4. QED
    BY <2>2, <2>3 DEF Direction
<1>4. SenderKept(p)
  BY DEF p
<1>5. Direction(p, e)'
  <2>1. PICK k \in Nat : Delivered(p, e, k) /\ Sending(p, k)
    BY <1>1 DEF IInv, Direction
  <2>2. SinkSound(p) /\ given'[p] = given[p] /\ shut[p] \subseteq shut'[p]
    BY <1>1, <1>4 DEF IInv, SenderKept, SinkKept
  <2>3. EosWritten(p) => EosWritten(p)'
    BY <1>1, <1>4, <2>2, KeptSink
  <2>4. Delivered(p, e, k)'
    BY <1>1, <1>2, <2>1, <2>2, <2>3, KeptDelivered
  <2>5. Sending(p, k)'
    BY <1>1, <1>4, <2>1, KeptSending
  <2>6. QED
    BY <2>4, <2>5 DEF Direction
<1>6. SinkSound(p)'
  BY <1>1, <1>4, KeptSink DEF IInv
<1>7. ASSUME NEW d \in Ends PROVE Direction(d, Peer(d))' /\ SinkSound(d)' /\ SourceSound(d)'
  <2>1. CASE d = e
    BY <1>3, <2>1 DEF p
  <2>2. CASE d = p
    BY <1>1, <1>5, <1>6, <2>2
  <2>3. QED
    BY <1>1, <2>1, <2>2
<1>8. QED
  BY <1>7 DEF IInv

\* The invariant from what a step of end e's reader or source does.
LEMMA SourceStep ==
  ASSUME IInv, TypeOK', NEW e \in Ends,
         \A d \in Ends : SenderKept(d),
         SourceSound(e)', QueueKept(Peer(e)), Path(Peer(e))' = Path(Peer(e)),
         \A k \in Nat : Delivered(Peer(e), e, k) => Delivered(Peer(e), e, k)'
  PROVE  IInv'
<1> DEFINE p == Peer(e)
<1>1. p \in Ends /\ Peer(p) = e /\ \A d \in Ends : d = e \/ d = p
  BY EndFacts
<1>2. \A d \in Ends : given[d] \in Nat /\ got[d] \in Nat /\ given'[d] \in Nat
  BY DEF IInv, TypeOK
<1>3. QueueKept(p) /\ Path(p)' = Path(p)
  BY DEF p
<1> HIDE DEF p
<1>4. \A d \in Ends : SinkSound(d)' /\ (EosWritten(d) => EosWritten(d)')
  BY KeptSink DEF IInv
<1>5. SourceSound(p)'
  BY <1>1, <1>3, KeptSource DEF IInv
<1>6. Direction(e, p)'
  <2>1. PICK k \in Nat : Delivered(e, p, k) /\ Sending(e, k)
    BY DEF IInv, Direction, p
  <2>2. /\ UNCHANGED <<got[p], aborted[p]>> /\ given'[e] = given[e] /\ given[e] <= given'[e]
        /\ shut[e] \subseteq shut'[e]
    BY <1>2, <1>3 DEF QueueKept, SenderKept, SinkKept
  <2>3. Delivered(e, p, k)'
    BY <1>1, <1>2, <1>3, <1>4, <2>1, <2>2, KeptDelivered
  <2>4. Sending(e, k)'
    BY <2>1, KeptSending
  <2>5. QED
    BY <2>3, <2>4 DEF Direction
<1>7. Direction(p, e)'
  <2>1. PICK k \in Nat : Delivered(p, e, k) /\ Sending(p, k)
    BY <1>1 DEF IInv, Direction
  <2>2. Delivered(p, e, k)'
    BY <2>1 DEF p
  <2>3. Sending(p, k)'
    BY <1>1, <2>1, KeptSending
  <2>4. QED
    BY <2>2, <2>3 DEF Direction
<1>8. ASSUME NEW d \in Ends PROVE Direction(d, Peer(d))' /\ SinkSound(d)' /\ SourceSound(d)'
  <2>1. CASE d = e
    BY <1>4, <1>6, <2>1 DEF p
  <2>2. CASE d = p
    BY <1>1, <1>4, <1>5, <1>7, <2>2
  <2>3. QED
    BY <1>1, <2>1, <2>2
<1>9. QED
  BY <1>8 DEF IInv

-----------------------------------------------------------------------------
(* The calls in their turn *)

LEMMA TurnAdded ==
  ASSUME NEW c \in Seq(Call), NEW k \in Nat, NEW n \in Nat, NEW h \in 0..Len(c),
         InTurn(c, k, n, h), \A i \in 1..Len(c) : c[i].msg \in Nat
  PROVE  LET d == Append(c, [msg |-> n + 1, state |-> "called"])
         IN  /\ h \in 0..Len(d) /\ InTurn(d, k, n + 1, h)
             /\ Complete(c, k, n, h, TRUE) => Complete(d, k, n + 1, h, TRUE)
<1> DEFINE d == Append(c, [msg |-> n + 1, state |-> "called"])
<1>1. n + 1 \in Nat \cup {Eos} /\ "called" \in SendState
  BY DEF SendState
<1>2. /\ Len(d) = Len(c) + 1 /\ \A j \in 1..Len(c) : d[j] = c[j]
      /\ d[Len(c) + 1].msg = n + 1 /\ d[Len(c) + 1].state = "called"
  BY <1>1, CallAdded
<1> HIDE DEF d
<1>3. Len(c) \in Nat
  BY CallFields
<1>4. InTurn(d, k, n + 1, h)
  <2>1. \A i \in (h + 1)..Len(c) : c[i].msg # Eos
    BY <1>3, MarkFacts
  <2>2. \A i \in 1..h : d[i].state = "sent"
    BY <1>2, <1>3 DEF InTurn
  <2>3. ASSUME NEW i \in (h + 1)..Len(d)
        PROVE  /\ d[i].state # "sent"
               /\ d[i].state = "writing" => i = h + 1
               /\ d[i].state \in {"queued", "writing"} =>
                    /\ d[i].msg = k + (i - h) \/ (d[i].msg = Eos /\ k = n + 1)
                    /\ \A j \in (h + 1)..i : d[j].state \in {"queued", "writing"}
    <3>1. CASE i = Len(c) + 1
      BY <1>2, <3>1
    <3>2. CASE i # Len(c) + 1
      <4>1. i \in (h + 1)..Len(c) /\ d[i] = c[i] /\ \A j \in (h + 1)..i : d[j] = c[j]
        BY <1>2, <1>3, <3>2
      <4>2. QED
        BY <2>1, <4>1 DEF InTurn
    <3>3. QED
      BY <3>1, <3>2
  <2>4. QED
    BY <2>2, <2>3 DEF InTurn
<1>5. ASSUME Complete(c, k, n, h, TRUE) PROVE Complete(d, k, n + 1, h, TRUE)
  <2>1. \A i \in (h + 1)..Len(c) : /\ c[i].state # "failed"
                                   /\ c[i].state # "closing" => c[i].msg = k + (i - h)
    <3>1. \A i \in (h + 1)..Len(c) : c[i].msg # Eos
      BY <1>3, MarkFacts
    <3>2. QED
      BY <1>5, <3>1 DEF Complete
  <2>2. k + (Len(c) - h) = n
    BY <1>5 DEF Complete
  <2>3. n + 1 = k + ((Len(c) + 1) - h)
    BY <1>3, <2>2
  <2>4. ASSUME NEW i \in (h + 1)..Len(d)
        PROVE  /\ d[i].state # "failed"
               /\ d[i].state # "closing" => d[i].msg = k + (i - h)
    <3>1. CASE i = Len(c) + 1
      BY <1>2, <2>3, <3>1
    <3>2. CASE i # Len(c) + 1
      <4>1. i \in (h + 1)..Len(c) /\ d[i] = c[i]
        BY <1>2, <1>3, <3>2
      <4>2. QED
        BY <2>1, <4>1
    <3>3. QED
      BY <3>1, <3>2
  <2>5. QED
    BY <1>2, <2>3, <2>4 DEF Complete
<1>6. h \in 0..Len(d)
  BY <1>2, <1>3
<1>7. QED
  BY <1>4, <1>5, <1>6 DEF d

LEMMA TurnOfEos ==
  ASSUME NEW k \in Nat, NEW n \in Nat, Complete(<<>>, k, n, 0, TRUE)
  PROVE  LET d == <<[msg |-> Eos, state |-> "called"]>>
         IN  InTurn(d, k, n, 0) /\ Complete(d, k, n, 0, FALSE)
<1> DEFINE d == <<[msg |-> Eos, state |-> "called"]>>
<1>1. Len(d) = 1 /\ d[1].msg = Eos /\ d[1].state = "called"
  OBVIOUS
<1> HIDE DEF d
<1>2. k = n
  <2>1. Len(<<>>) = 0
    OBVIOUS
  <2>2. k + (0 - 0) = n
    BY <2>1 DEF Complete
  <2>3. QED
    BY <2>2
<1>3. QED
  BY <1>1, <1>2 DEF InTurn, Complete, d

LEMMA TurnRefused ==
  ASSUME NEW c \in Seq(Call), NEW k \in Nat, NEW n \in Nat, NEW h \in 0..Len(c),
         InTurn(c, k, n, h), NEW i \in 1..Len(c), c[i].state = "called"
  PROVE  InTurn([c EXCEPT ![i].state = "failed"], k, n, h)
<1> DEFINE d == [c EXCEPT ![i].state = "failed"]
<1>1. /\ Len(d) = Len(c) /\ \A j \in 1..Len(c) : d[j].msg = c[j].msg
      /\ \A j \in 1..Len(c) : d[j].state = IF j = i THEN "failed" ELSE c[j].state
  BY CallChanged DEF SendState
<1> HIDE DEF d
<1>2. Len(c) \in Nat
  BY CallFields
<1>3. \A j \in 1..h : d[j].state = "sent"
  BY <1>1, <1>2 DEF InTurn
<1>4. ASSUME NEW j \in (h + 1)..Len(d)
      PROVE  /\ d[j].state # "sent"
             /\ d[j].state = "writing" => j = h + 1
             /\ d[j].state \in {"queued", "writing"} =>
                  /\ d[j].msg = k + (j - h) \/ (d[j].msg = Eos /\ k = n)
                  /\ \A m \in (h + 1)..j : d[m].state \in {"queued", "writing"}
  <2>1. j \in 1..Len(c) /\ j \in (h + 1)..Len(c)
    BY <1>1, <1>2
  <2>2. ASSUME d[j].state \in {"queued", "writing"}
        PROVE  /\ d[j].msg = k + (j - h) \/ (d[j].msg = Eos /\ k = n)
               /\ \A m \in (h + 1)..j : d[m].state \in {"queued", "writing"}
    <3>1. c[j].state \in {"queued", "writing"} /\ d[j].msg = c[j].msg
      BY <1>1, <2>1, <2>2
    <3>2. /\ c[j].msg = k + (j - h) \/ (c[j].msg = Eos /\ k = n)
          /\ \A m \in (h + 1)..j : c[m].state \in {"queued", "writing"}
      BY <2>1, <3>1 DEF InTurn
    <3>3. \A m \in (h + 1)..j : m \in 1..Len(c) /\ m # i
      BY <1>2, <2>1, <3>2
    <3>4. QED
      BY <1>1, <3>1, <3>2, <3>3
  <2>3. d[j].state # "sent" /\ (d[j].state = "writing" => j = h + 1)
    BY <1>1, <2>1 DEF InTurn
  <2>4. QED
    BY <2>2, <2>3
<1>5. QED
  BY <1>3, <1>4 DEF InTurn, d

LEMMA TurnQueued ==
  ASSUME NEW c \in Seq(Call), NEW k \in Nat, NEW n \in Nat, NEW h \in 0..Len(c), NEW open,
         InTurn(c, k, n, h), Complete(c, k, n, h, open),
         NEW i \in 1..Len(c), c[i].state = "called",
         \A j \in 1..(i - 1) : c[j].state # "called" /\ c[j].state # "closing"
  PROVE  LET d == [c EXCEPT ![i].state = "queued"]
         IN  InTurn(d, k, n, h) /\ Complete(d, k, n, h, open)
<1> DEFINE d == [c EXCEPT ![i].state = "queued"]
<1>1. /\ Len(d) = Len(c) /\ \A j \in 1..Len(c) : d[j].msg = c[j].msg
      /\ \A j \in 1..Len(c) : d[j].state = IF j = i THEN "queued" ELSE c[j].state
  BY CallChanged DEF SendState
<1> HIDE DEF d
<1>2. Len(c) \in Nat
  BY CallFields
<1>3. \A j \in 1..h : d[j].state = "sent"
  BY <1>1, <1>2 DEF InTurn
<1>4. i \in (h + 1)..Len(c)
  BY <1>2 DEF InTurn
<1>5. \A j \in (h + 1)..(i - 1) : c[j].state \in {"queued", "writing"}
  <2> SUFFICES ASSUME NEW j \in (h + 1)..(i - 1) PROVE c[j].state \in {"queued", "writing"}
    OBVIOUS
  <2>1. j \in 1..(i - 1) /\ j \in (h + 1)..Len(c) /\ j \in 1..Len(c)
    BY <1>2, <1>4
  <2>2. c[j].state \notin {"called", "closing"} /\ c[j].state # "sent" /\ c[j].state # "failed"
    BY <2>1 DEF InTurn, Complete
  <2>3. c[j].state \in SendState
    BY <2>1, CallFields
  <2>4. QED
    BY <2>2, <2>3 DEF SendState
<1>6. ASSUME NEW j \in (h + 1)..Len(d)
      PROVE  /\ d[j].state # "sent"
             /\ d[j].state = "writing" => j = h + 1
             /\ d[j].state \in {"queued", "writing"} =>
                  /\ d[j].msg = k + (j - h) \/ (d[j].msg = Eos /\ k = n)
                  /\ \A m \in (h + 1)..j : d[m].state \in {"queued", "writing"}
  <2>1. j \in 1..Len(c) /\ j \in (h + 1)..Len(c)
    BY <1>1, <1>2
  <2>2. CASE j = i
    <3>1. d[j].state = "queued" /\ d[j].msg = c[j].msg
      BY <1>1, <2>1, <2>2
    <3>2. c[j].msg = k + (j - h) \/ (c[j].msg = Eos /\ k = n)
      BY <2>1, <2>2 DEF Complete
    <3>3. \A m \in (h + 1)..j : m \in 1..Len(c) /\ (m = i \/ m \in (h + 1)..(i - 1))
      BY <1>2, <2>1, <2>2
    <3>4. \A m \in (h + 1)..j : d[m].state \in {"queued", "writing"}
      BY <1>1, <1>5, <3>3
    <3>5. QED
      BY <3>1, <3>2, <3>4
  <2>3. CASE j # i
    <3>1. d[j].state = c[j].state /\ d[j].msg = c[j].msg
      BY <1>1, <2>1, <2>3
    <3>2. c[j].state # "sent" /\ (c[j].state = "writing" => j = h + 1)
      BY <2>1 DEF InTurn
    <3>3. c[j].state \in {"queued", "writing"} =>
                  /\ c[j].msg = k + (j - h) \/ (c[j].msg = Eos /\ k = n)
                  /\ \A m \in (h + 1)..j : c[m].state \in {"queued", "writing"}
      BY <2>1 DEF InTurn
    <3>4. \A m \in (h + 1)..j : m \in 1..Len(c)
      BY <1>2, <2>1
    <3>5. \A m \in (h + 1)..j : c[m].state \in {"queued", "writing"} => d[m].state \in {"queued", "writing"}
      BY <1>1, <3>4
    <3>6. QED
      BY <3>1, <3>2, <3>3, <3>5
  <2>4. QED
    BY <2>2, <2>3
<1>7. Complete(d, k, n, h, open)
  <2>1. \A j \in (h + 1)..Len(d) : j \in 1..Len(c) /\ j \in (h + 1)..Len(c)
    BY <1>1, <1>2
  <2>2. QED
    BY <1>1, <2>1 DEF Complete
<1>8. QED
  BY <1>3, <1>6, <1>7 DEF InTurn, d

LEMMA TurnAnswered ==
  ASSUME NEW c \in Seq(Call), NEW k \in Nat, NEW n \in Nat, NEW h \in 0..Len(c), NEW open,
         InTurn(c, k, n, h), NEW i \in 1..Len(c), c[i].state = "sent"
  PROVE  LET d == RemoveAt(c, i)
         IN  /\ h - 1 \in 0..Len(d) /\ InTurn(d, k, n, h - 1)
             /\ Complete(c, k, n, h, open) => Complete(d, k, n, h - 1, open)
<1> DEFINE d == RemoveAt(c, i)
<1>1. Len(d) = Len(c) - 1 /\ \A j \in 1..Len(d) : d[j] = IF j < i THEN c[j] ELSE c[j + 1]
  BY CallRemoved
<1> HIDE DEF d
<1>2. Len(c) \in Nat /\ i \in 1..h
  <2>1. Len(c) \in Nat
    BY CallFields
  <2>2. i \in (h + 1)..Len(c) => FALSE
    BY DEF InTurn
  <2>3. QED
    BY <2>1, <2>2
<1>3. h - 1 \in 0..Len(d)
  BY <1>1, <1>2
<1>4. ASSUME NEW j \in 1..(h - 1) PROVE d[j].state = "sent"
  <2>1. j \in 1..h /\ j + 1 \in 1..h /\ j \in 1..Len(d)
    BY <1>1, <1>2
  <2>2. QED
    BY <1>1, <2>1 DEF InTurn
<1>5. \A j \in ((h - 1) + 1)..Len(d) : /\ d[j] = c[j + 1] /\ j + 1 \in (h + 1)..Len(c)
                                      /\ (j + 1) - h = j - (h - 1)
  BY <1>1, <1>2
<1>6. ASSUME NEW j \in ((h - 1) + 1)..Len(d)
      PROVE  /\ d[j].state # "sent"
             /\ d[j].state = "writing" => j = (h - 1) + 1
             /\ d[j].state \in {"queued", "writing"} =>
                  /\ d[j].msg = k + (j - (h - 1)) \/ (d[j].msg = Eos /\ k = n)
                  /\ \A m \in ((h - 1) + 1)..j : d[m].state \in {"queued", "writing"}
  <2>1. d[j] = c[j + 1] /\ j + 1 \in (h + 1)..Len(c) /\ (j + 1) - h = j - (h - 1)
    BY <1>5
  <2>2. d[j].state # "sent" /\ (d[j].state = "writing" => j + 1 = h + 1)
    BY <2>1 DEF InTurn
  <2>3. ASSUME d[j].state \in {"queued", "writing"}
        PROVE  /\ d[j].msg = k + (j - (h - 1)) \/ (d[j].msg = Eos /\ k = n)
               /\ \A m \in ((h - 1) + 1)..j : d[m].state \in {"queued", "writing"}
    <3>1. /\ c[j + 1].msg = k + ((j + 1) - h) \/ (c[j + 1].msg = Eos /\ k = n)
          /\ \A m \in (h + 1)..(j + 1) : c[m].state \in {"queued", "writing"}
      BY <2>1, <2>3 DEF InTurn
    <3>2. \A m \in ((h - 1) + 1)..j : m \in ((h - 1) + 1)..Len(d) /\ m + 1 \in (h + 1)..(j + 1)
      BY <1>1, <1>2
    <3>3. QED
      BY <1>5, <2>1, <3>1, <3>2
  <2>4. j = (h - 1) + 1 <=> j + 1 = h + 1
    BY <1>2
  <2>5. QED
    BY <2>2, <2>3, <2>4
<1>7. InTurn(d, k, n, h - 1)
  BY <1>4, <1>6 DEF InTurn
<1>8. ASSUME Complete(c, k, n, h, open) PROVE Complete(d, k, n, h - 1, open)
  <2>1. Len(d) - (h - 1) = Len(c) - h
    BY <1>1, <1>2
  <2>2. QED
    BY <1>5, <1>8, <2>1 DEF Complete
<1>9. QED
  BY <1>3, <1>7, <1>8 DEF d

LEMMA TurnForgotten ==
  ASSUME NEW c \in Seq(Call), NEW k \in Nat, NEW n \in Nat, NEW h \in 0..Len(c),
         InTurn(c, k, n, h), NEW i \in 1..Len(c), c[i].state = "failed"
  PROVE  LET d == RemoveAt(c, i)
         IN  h \in 0..Len(d) /\ InTurn(d, k, n, h)
<1> DEFINE d == RemoveAt(c, i)
<1>1. Len(d) = Len(c) - 1 /\ \A j \in 1..Len(d) : d[j] = IF j < i THEN c[j] ELSE c[j + 1]
  BY CallRemoved
<1> HIDE DEF d
<1>2. Len(c) \in Nat /\ i \in (h + 1)..Len(c)
  <2>1. Len(c) \in Nat
    BY CallFields
  <2>2. i \in 1..h => FALSE
    BY DEF InTurn
  <2>3. QED
    BY <2>1, <2>2
<1>3. h \in 0..Len(d)
  BY <1>1, <1>2
<1>4. ASSUME NEW j \in 1..h PROVE d[j].state = "sent"
  <2>1. j < i /\ j \in 1..Len(d)
    BY <1>1, <1>2
  <2>2. QED
    BY <1>1, <2>1 DEF InTurn
<1>5. ASSUME NEW j \in (h + 1)..Len(d)
      PROVE  /\ d[j].state # "sent"
             /\ d[j].state = "writing" => j = h + 1
             /\ d[j].state \in {"queued", "writing"} =>
                  /\ d[j].msg = k + (j - h) \/ (d[j].msg = Eos /\ k = n)
                  /\ \A m \in (h + 1)..j : d[m].state \in {"queued", "writing"}
  <2>1. CASE j < i
    <3>1. j \in (h + 1)..Len(c) /\ \A m \in (h + 1)..j : m \in 1..Len(d) /\ m < i
      BY <1>1, <1>2, <2>1
    <3>2. \A m \in (h + 1)..j : d[m] = c[m]
      BY <1>1, <3>1
    <3>3. d[j] = c[j]
      BY <1>1, <1>2, <2>1
    <3>4. QED
      BY <3>1, <3>2, <3>3 DEF InTurn
  <2>2. CASE ~(j < i)
    <3>1. j + 1 \in (h + 1)..Len(c) /\ d[j] = c[j + 1] /\ i \in (h + 1)..(j + 1) /\ j + 1 # h + 1
      BY <1>1, <1>2, <2>2
    <3>2. c[j + 1].state \notin {"queued", "writing"} /\ c[j + 1].state # "sent"
      BY <3>1 DEF InTurn
    <3>3. QED
      BY <3>1, <3>2
  <2>3. QED
    BY <2>1, <2>2
<1>6. QED
  BY <1>3, <1>4, <1>5 DEF InTurn, d

\* The first that is queued, when none is being written, is the next.
LEMMA TurnTaken ==
  ASSUME NEW c \in Seq(Call), NEW k \in Nat, NEW n \in Nat, NEW h \in 0..Len(c),
         InTurn(c, k, n, h), NEW i \in 1..Len(c), c[i].state = "queued",
         \A j \in 1..Len(c) : c[j].state # "writing",
         \A j \in 1..Len(c) : c[j].state = "queued" => i <= j
  PROVE  LET d == [c EXCEPT ![i].state = "writing"]
         IN  /\ i = h + 1 /\ InTurn(d, k, n, h)
             /\ \A open : Complete(c, k, n, h, open) => Complete(d, k, n, h, open)
<1> DEFINE d == [c EXCEPT ![i].state = "writing"]
<1>1. /\ Len(d) = Len(c) /\ \A j \in 1..Len(c) : d[j].msg = c[j].msg
      /\ \A j \in 1..Len(c) : d[j].state = IF j = i THEN "writing" ELSE c[j].state
  BY CallChanged DEF SendState
<1> HIDE DEF d
<1>2. Len(c) \in Nat
  BY CallFields
<1>3. i = h + 1
  <2>1. i \in 1..h => FALSE
    BY DEF InTurn
  <2>2. i \in (h + 1)..Len(c) /\ h + 1 \in (h + 1)..i /\ h + 1 \in 1..Len(c)
    BY <1>2, <2>1
  <2>3. c[h + 1].state \in {"queued", "writing"}
    BY <2>2 DEF InTurn
  <2>4. QED
    BY <2>2, <2>3
<1>4. \A j \in 1..h : d[j].state = "sent"
  BY <1>1, <1>2, <1>3 DEF InTurn
<1>5. ASSUME NEW j \in (h + 1)..Len(d)
      PROVE  /\ d[j].state # "sent"
             /\ d[j].state = "writing" => j = h + 1
             /\ d[j].state \in {"queued", "writing"} =>
                  /\ d[j].msg = k + (j - h) \/ (d[j].msg = Eos /\ k = n)
                  /\ \A m \in (h + 1)..j : d[m].state \in {"queued", "writing"}
  <2>1. /\ j \in 1..Len(c) /\ j \in (h + 1)..Len(c) /\ d[j].msg = c[j].msg
        /\ \A m \in (h + 1)..j : m \in 1..Len(c)
    BY <1>1, <1>2
  <2>2. \A m \in 1..Len(c) : d[m].state \in {"queued", "writing"} <=> c[m].state \in {"queued", "writing"}
    BY <1>1
  <2>3. d[j].state # "sent" /\ (d[j].state = "writing" => j = h + 1)
    BY <1>1, <1>3, <2>1 DEF InTurn
  <2>4. c[j].state \in {"queued", "writing"} =>
                  /\ c[j].msg = k + (j - h) \/ (c[j].msg = Eos /\ k = n)
                  /\ \A m \in (h + 1)..j : c[m].state \in {"queued", "writing"}
    BY <2>1 DEF InTurn
  <2>5. QED
    BY <2>1, <2>2, <2>3, <2>4
<1>6. ASSUME NEW open, Complete(c, k, n, h, open) PROVE Complete(d, k, n, h, open)
  <2>1. \A j \in (h + 1)..Len(d) : j \in 1..Len(c) /\ j \in (h + 1)..Len(c)
    BY <1>1, <1>2
  <2>2. \A j \in 1..Len(c) : /\ d[j].state = "failed" => c[j].state = "failed"
                             /\ c[j].state = "closing" => d[j].state = "closing"
    BY <1>1
  <2>3. QED
    BY <1>1, <1>6, <2>1, <2>2 DEF Complete
<1>7. QED
  BY <1>3, <1>4, <1>5, <1>6 DEF InTurn, d

\* The one that is being written is the first without an answer, and is done.
LEMMA TurnWriting ==
  ASSUME NEW c \in Seq(Call), NEW k \in Nat, NEW n \in Nat, NEW h \in 0..Len(c),
         InTurn(c, k, n, h), NEW i \in 1..Len(c), c[i].state = "writing"
  PROVE  /\ i = h + 1 /\ h + 1 \in 0..Len(c) /\ i \in (h + 1)..Len(c)
         /\ c[i].msg = k + 1 \/ (c[i].msg = Eos /\ k = n)
<1>1. Len(c) \in Nat
  BY CallFields
<1>2. i \in 1..h => FALSE
  BY DEF InTurn
<1>3. i \in (h + 1)..Len(c)
  BY <1>1, <1>2
<1>4. i = h + 1 /\ (c[i].msg = k + (i - h) \/ (c[i].msg = Eos /\ k = n))
  BY <1>3 DEF InTurn
<1>5. QED
  BY <1>1, <1>3, <1>4

LEMMA TurnWritten ==
  ASSUME NEW c \in Seq(Call), NEW k \in Nat, NEW n \in Nat, NEW h \in 0..Len(c),
         InTurn(c, k, n, h), NEW i \in 1..Len(c), c[i].state = "writing"
  PROVE  LET d == [c EXCEPT ![i].state = "sent"]
         IN  /\ c[i].msg = k + 1 /\ k + 1 <= n =>
                  /\ InTurn(d, k + 1, n, h + 1)
                  /\ \A open : Complete(c, k, n, h, open) => Complete(d, k + 1, n, h + 1, open)
             /\ Len(c) = 1 => InTurn(d, k, n, h + 1) /\ Complete(d, k, n, h + 1, FALSE)
<1> DEFINE d == [c EXCEPT ![i].state = "sent"]
<1>1. /\ Len(d) = Len(c) /\ \A j \in 1..Len(c) : d[j].msg = c[j].msg
      /\ \A j \in 1..Len(c) : d[j].state = IF j = i THEN "sent" ELSE c[j].state
  BY CallChanged DEF SendState
<1> HIDE DEF d
<1>2. Len(c) \in Nat
  BY CallFields
<1>3. i = h + 1 /\ h + 1 \in 0..Len(d) /\ i \in (h + 1)..Len(c)
  <2>1. i \in 1..h => FALSE
    BY DEF InTurn
  <2>2. i \in (h + 1)..Len(c)
    BY <1>2, <2>1
  <2>3. QED
    BY <1>1, <1>2, <2>2 DEF InTurn
<1>4. \A j \in 1..(h + 1) : d[j].state = "sent"
  <2>1. \A j \in 1..(h + 1) : j \in 1..Len(c) /\ (j = i \/ j \in 1..h)
    BY <1>2, <1>3
  <2>2. QED
    BY <1>1, <2>1 DEF InTurn
<1>5. \A j \in ((h + 1) + 1)..Len(d) : /\ j \in 1..Len(c) /\ j \in (h + 1)..Len(c) /\ j # i /\ j # h + 1
                                      /\ d[j].state = c[j].state /\ d[j].msg = c[j].msg
                                      /\ k + (j - h) = (k + 1) + (j - (h + 1))
  <2>1. ASSUME NEW j \in ((h + 1) + 1)..Len(d)
        PROVE  /\ j \in 1..Len(c) /\ j \in (h + 1)..Len(c) /\ j # h + 1
               /\ k + (j - h) = (k + 1) + (j - (h + 1))
    <3>1. h \in Nat /\ j \in Int /\ h + 2 <= j /\ j <= Len(c)
      BY <1>1, <1>2
    <3>2. QED
      BY <1>2, <3>1
  <2>2. QED
    BY <1>1, <1>3, <2>1
<1>6. ASSUME c[i].msg = k + 1, k + 1 <= n
      PROVE  /\ InTurn(d, k + 1, n, h + 1)
             /\ \A open : Complete(c, k, n, h, open) => Complete(d, k + 1, n, h + 1, open)
  <2>1. k # n
    BY <1>6
  <2>2. ASSUME NEW j \in ((h + 1) + 1)..Len(d)
        PROVE  /\ d[j].state # "sent"
               /\ d[j].state = "writing" => j = (h + 1) + 1
               /\ d[j].state \in {"queued", "writing"} =>
                    /\ d[j].msg = (k + 1) + (j - (h + 1)) \/ (d[j].msg = Eos /\ k + 1 = n)
                    /\ \A m \in ((h + 1) + 1)..j : d[m].state \in {"queued", "writing"}
    <3>1. /\ j \in (h + 1)..Len(c) /\ j # h + 1
          /\ d[j].state = c[j].state /\ d[j].msg = c[j].msg
          /\ k + (j - h) = (k + 1) + (j - (h + 1))
      BY <1>5
    <3>2. c[j].state # "sent" /\ c[j].state # "writing"
      BY <3>1 DEF InTurn
    <3>3. c[j].state \in {"queued", "writing"} =>
            /\ c[j].msg = k + (j - h)
            /\ \A m \in (h + 1)..j : c[m].state \in {"queued", "writing"}
      BY <2>1, <3>1 DEF InTurn
    <3>4. \A m \in ((h + 1) + 1)..j : m \in (h + 1)..j /\ m \in ((h + 1) + 1)..Len(d)
      BY <1>1, <1>2
    <3>5. QED
      BY <1>5, <3>1, <3>2, <3>3, <3>4
  <2>3. InTurn(d, k + 1, n, h + 1)
    BY <1>4, <2>2 DEF InTurn
  <2>4. ASSUME NEW open, Complete(c, k, n, h, open) PROVE Complete(d, k + 1, n, h + 1, open)
    <3>1. (k + 1) + (Len(d) - (h + 1)) = k + (Len(c) - h)
      BY <1>1, <1>2
    <3>2. QED
      BY <1>5, <2>1, <2>4, <3>1 DEF Complete
  <2>5. QED
    BY <2>3, <2>4
<1>7. ASSUME Len(c) = 1 PROVE InTurn(d, k, n, h + 1) /\ Complete(d, k, n, h + 1, FALSE)
  <2>1. ((h + 1) + 1)..Len(d) = {}
    BY <1>1, <1>3, <1>7
  <2>2. QED
    BY <1>4, <2>1 DEF InTurn, Complete
<1>8. QED
  BY <1>6, <1>7 DEF d

\* What is behind the states of a sink's fiber.
LEMMA SinkFacts ==
  ASSUME TypeOK, NEW e \in Ends, SinkSound(e)
  PROVE  /\ \A i \in 1..Len(sends[e]) : sends[e][i].msg # Eos => writer[e] = "open"
         /\ \A i \in 1..Len(sends[e]) : sends[e][i].msg = Eos => writer[e] = "closing" /\ Len(sends[e]) = 1 /\ i = 1
         /\ \A i \in 1..Len(sends[e]) : sends[e][i].state = "closing" => writer[e] = "closing" /\ Len(sends[e]) = 1
         /\ \A i \in 1..Len(sends[e]) : sends[e][i].msg # Eos =>
                sends[e][i].msg \in Nat /\ sends[e][i].msg <= given[e]
<1>1. writer[e] \in {"open", "closing", "closed"} /\ Len(sends[e]) \in Nat
  BY Types DEF TypeOK
<1>2. writer[e] = "closed" => Len(sends[e]) = 0
  BY DEF SinkSound
<1>3. \A i \in 1..Len(sends[e]) : sends[e][i].msg # Eos => writer[e] = "open"
  BY <1>1, <1>2 DEF SinkSound
<1>4. \A i \in 1..Len(sends[e]) : sends[e][i].msg = Eos => writer[e] = "closing"
  BY <1>1, <1>2, MarkFacts DEF SinkSound
<1>5. \A i \in 1..Len(sends[e]) : sends[e][i].state = "closing" => writer[e] = "closing"
  BY <1>1, <1>2 DEF SinkSound
<1>6. writer[e] = "closing" => Len(sends[e]) = 1
  BY DEF SinkSound
<1>7. QED
  BY <1>3, <1>4, <1>5, <1>6 DEF SinkSound

-----------------------------------------------------------------------------
(* The steps of a sink, its connection and its send loop *)

LEMMA QueuesKept ==
  ASSUME IInv, UNCHANGED <<got, source, bufs, reader, held, queue, aborted, net>>
  PROVE  \A d \in Ends : /\ QueueKept(d) /\ SourceSound(d)' /\ Path(d)' = Path(d)
                         /\ UNCHANGED <<got[d], aborted[d]>>
<1> SUFFICES ASSUME NEW d \in Ends
             PROVE  /\ QueueKept(d) /\ SourceSound(d)' /\ Path(d)' = Path(d)
                    /\ UNCHANGED <<got[d], aborted[d]>>
  OBVIOUS
<1>1. QueueKept(d) /\ net'[d] = net[d] /\ UNCHANGED <<got[d], aborted[d]>>
  BY DEF QueueKept
<1>2. SourceSound(d)' /\ Path(d)' = Path(d)
  BY <1>1, KeptSource, KeptPath DEF IInv
<1>3. QED
  BY <1>1, <1>2

\* A step that changes the calls of e and nothing of a queue, an error or a
\* socket.
LEMMA CallsStep ==
  ASSUME IInv, TypeOK', NEW e \in Ends,
         UNCHANGED <<got, source, bufs, reader, held, queue, aborted, error, shut, net>>,
         \A d \in Ends \ {e} : UNCHANGED <<given[d], writer[d], ex[d], sends[d], loop[d]>>,
         SinkSound(e)', given[e] <= given'[e],
         EosWritten(e) => EosWritten(e)' /\ given'[e] = given[e],
         \A k \in Nat : Sending(e, k) => Sending(e, k)'
  PROVE  IInv'
<1>1. \A d \in Ends : SourceSound(d)' /\ Path(d)' = Path(d) /\ UNCHANGED <<got[d], aborted[d]>>
  BY QueuesKept
<1>2. SenderKept(Peer(e))
  BY EndFacts DEF SenderKept, SinkKept
<1>3. \A k \in Nat : Delivered(e, Peer(e), k) /\ Sending(e, k) => Sending(e, k)'
  OBVIOUS
<1>4. QED
  BY <1>1, <1>2, <1>3, SinkStep

LEMMA WriteKeeps ==
  ASSUME IInv, NEW e \in Ends, Write(e)
  PROVE  IInv'
<1> USE DEF app, sink, src, frames, closed, socket
<1> DEFINE c == sends[e]
           n == given[e]
           d == Append(c, [msg |-> n + 1, state |-> "called"])
<1>1. /\ c \in Seq(Call) /\ n \in Nat /\ Len(c) \in Nat /\ SinkSound(e)
      /\ \A f \in Ends : Len(sends[f]) \in Nat
  BY Types DEF IInv
<1>2. TypeOK'
  BY SinkTypeStep DEF IInv
<1>3. /\ writer[e] = "open" /\ sends'[e] = d /\ given'[e] = n + 1
      /\ UNCHANGED <<got, source, bufs, reader, held, queue, aborted, error, shut, net>>
      /\ \A f \in Ends \ {e} : UNCHANGED <<given[f], writer[f], ex[f], sends[f], loop[f]>>
      /\ UNCHANGED <<writer, ex, loop>>
  BY DEF Write, IInv, TypeOK
<1>4. /\ Len(d) = Len(c) + 1 /\ \A j \in 1..Len(c) : d[j] = c[j]
      /\ d[Len(c) + 1].msg = n + 1 /\ d[Len(c) + 1].state = "called"
  BY <1>1, CallAdded DEF SendState
<1>5. \A i \in 1..Len(c) : c[i].msg \in Nat /\ c[i].msg <= n /\ c[i].state # "closing"
  BY <1>1, <1>3 DEF SinkSound
<1>6. ASSUME NEW k \in Nat, Sending(e, k) PROVE Sending(e, k)'
  <2>1. SUFFICES ASSUME loop[e] # "ended"
                 PROVE  \E h \in 0..Len(d) :
                          /\ InTurn(d, k, n + 1, h)
                          /\ ~error[e] => ~ex[e] /\ Complete(d, k, n + 1, h, TRUE)
    BY <1>3 DEF Sending
  <2>2. PICK h \in 0..Len(c) : /\ InTurn(c, k, n, h)
                               /\ ~error[e] => ~ex[e] /\ Complete(c, k, n, h, writer[e] = "open")
    BY <1>6, <2>1 DEF Sending
  <2>3. /\ h \in 0..Len(d) /\ InTurn(d, k, n + 1, h)
        /\ Complete(c, k, n, h, TRUE) => Complete(d, k, n + 1, h, TRUE)
    BY <1>1, <1>5, <2>2, TurnAdded
  <2>4. Complete(c, k, n, h, writer[e] = "open") => Complete(c, k, n, h, TRUE)
    BY <1>3 DEF Complete
  <2>5. QED
    BY <2>2, <2>3, <2>4
<1> HIDE DEF d
<1>7. \A i \in 1..Len(d) : /\ d[i].msg \in Nat /\ d[i].msg <= n + 1
                           /\ d[i].state # "closing" /\ (d[i].state = "writing" => loop[e] = "writing")
  <2> SUFFICES ASSUME NEW i \in 1..Len(d)
               PROVE  /\ d[i].msg \in Nat /\ d[i].msg <= n + 1
                      /\ d[i].state # "closing" /\ (d[i].state = "writing" => loop[e] = "writing")
    OBVIOUS
  <2>1. CASE i = Len(c) + 1
    BY <1>1, <1>4, <2>1
  <2>2. CASE i # Len(c) + 1
    <3>1. i \in 1..Len(c) /\ d[i] = c[i]
      BY <1>1, <1>4, <2>2
    <3>2. QED
      BY <1>1, <1>5, <3>1 DEF SinkSound
  <2>3. QED
    BY <2>1, <2>2
<1>8. SinkSound(e)'
  BY <1>3, <1>7 DEF SinkSound
<1>9. ~EosWritten(e) /\ given[e] <= given'[e]
  BY <1>1, <1>3 DEF EosWritten
<1>10. QED
  BY <1>2, <1>3, <1>6, <1>8, <1>9, CallsStep

LEMMA CloseSinkKeeps ==
  ASSUME IInv, NEW e \in Ends, CloseSink(e)
  PROVE  IInv'
<1> USE DEF app, sink, src, frames, closed, socket
<1> DEFINE n == given[e]
           d == <<[msg |-> Eos, state |-> "called"]>>
<1>1. n \in Nat /\ Len(<<>>) = 0 /\ Len(d) = 1 /\ d[1].msg = Eos /\ d[1].state = "called"
  BY Types DEF IInv
<1>2. TypeOK'
  BY SinkTypeStep DEF IInv
<1>3. /\ writer[e] = "open" /\ sends[e] = <<>> /\ sends'[e] = d /\ writer'[e] = "closing"
      /\ UNCHANGED <<got, source, bufs, reader, held, queue, aborted, error, shut, net>>
      /\ \A f \in Ends \ {e} : UNCHANGED <<given[f], writer[f], ex[f], sends[f], loop[f]>>
      /\ UNCHANGED <<given, ex, loop>>
  BY DEF CloseSink, IInv, TypeOK
<1>4. ASSUME NEW k \in Nat, Sending(e, k) PROVE Sending(e, k)'
  <2>1. SUFFICES ASSUME loop[e] # "ended"
                 PROVE  \E h \in 0..Len(d) :
                          /\ InTurn(d, k, n, h)
                          /\ ~error[e] => ~ex[e] /\ Complete(d, k, n, h, FALSE)
    BY <1>3 DEF Sending
  <2>2. PICK h \in 0..Len(<<>>) : /\ InTurn(<<>>, k, n, h)
                                  /\ ~error[e] => ~ex[e] /\ Complete(<<>>, k, n, h, writer[e] = "open")
    BY <1>3, <1>4, <2>1 DEF Sending
  <2>3. h = 0 /\ 0 \in 0..Len(d)
    BY <1>1, <2>2
  <2>4. ~error[e] => ~ex[e] /\ Complete(<<>>, k, n, 0, TRUE)
    BY <1>3, <2>2, <2>3 DEF Complete
  <2> HIDE DEF d
  <2>5. CASE error[e]
    <3>1. InTurn(d, k, n, 0)
      BY <1>1 DEF InTurn
    <3>2. QED
      BY <2>3, <2>5, <3>1
  <2>6. CASE ~error[e]
    <3>1. InTurn(d, k, n, 0) /\ Complete(d, k, n, 0, FALSE)
      BY <1>1, <2>4, <2>6, TurnOfEos DEF d
    <3>2. QED
      BY <2>3, <2>4, <2>6, <3>1
  <2>7. QED
    BY <2>5, <2>6
<1> HIDE DEF d
<1>5. SinkSound(e)'
  <2>1. \A i \in 1..Len(d) : i = 1
    BY <1>1
  <2>2. QED
    BY <1>1, <1>3, <2>1 DEF SinkSound
<1>6. ~EosWritten(e) /\ given[e] <= given'[e]
  BY <1>1, <1>3 DEF EosWritten
<1>7. QED
  BY <1>2, <1>3, <1>4, <1>5, <1>6, CallsStep

LEMMA SendKeeps ==
  ASSUME IInv, NEW e \in Ends, Send(e)
  PROVE  IInv'
<1> USE DEF app, sink, src, frames, closed, socket
<1> DEFINE c == sends[e]
           n == given[e]
<1>1. /\ c \in Seq(Call) /\ n \in Nat /\ Len(c) \in Nat /\ DOMAIN c = 1..Len(c) /\ SinkSound(e)
  BY Types DEF IInv
<1>2. TypeOK'
  BY SinkTypeStep DEF IInv
<1>3. PICK i \in 1..Len(c) :
        /\ c[i].state = "called" /\ \A j \in 1..(i - 1) : c[j].state # "called"
        /\ sends' = [sends EXCEPT ![e][i].state =
                      IF error[e] \/ (c[i].msg = Eos /\ ex[e]) THEN "failed" ELSE "queued"]
        /\ UNCHANGED <<given, writer, got, ex, source, bufs, loop, reader, held, queue, aborted,
                       error, shut, net>>
  BY <1>1 DEF Send
<1> DEFINE x == IF error[e] \/ (c[i].msg = Eos /\ ex[e]) THEN "failed" ELSE "queued"
           d == [c EXCEPT ![i].state = x]
<1>4. /\ x \in {"failed", "queued"} /\ x \in SendState
      /\ x = "queued" => ~error[e]
  BY DEF SendState
<1> HIDE DEF x
<1>5. /\ sends'[e] = d
      /\ UNCHANGED <<got, source, bufs, reader, held, queue, aborted, error, shut, net>>
      /\ \A f \in Ends \ {e} : UNCHANGED <<given[f], writer[f], ex[f], sends[f], loop[f]>>
      /\ UNCHANGED <<given, writer, ex, loop>>
  <2>1. sends' = [sends EXCEPT ![e] = d]
    BY <1>3 DEF x
  <2>2. DOMAIN sends = Ends
    BY DEF IInv, TypeOK
  <2> HIDE DEF d
  <2>3. sends'[e] = d /\ \A f \in Ends \ {e} : sends'[f] = sends[f]
    BY <2>1, <2>2
  <2>4. QED
    BY <1>3, <2>3
<1>6. /\ Len(d) = Len(c) /\ \A j \in 1..Len(c) : d[j].msg = c[j].msg
      /\ \A j \in 1..Len(c) : d[j].state = IF j = i THEN x ELSE c[j].state
  BY <1>1, <1>4, CallChanged
<1>7. \A j \in 1..(i - 1) : c[j].state # "closing"
  <2>1. \A j \in 1..(i - 1) : j \in 1..Len(c) /\ Len(c) # 1
    BY <1>1, <1>3
  <2>2. QED
    BY <1>1, <2>1, SinkFacts DEF IInv
<1>8. ASSUME NEW k \in Nat, Sending(e, k) PROVE Sending(e, k)'
  <2>1. SUFFICES ASSUME loop[e] # "ended"
                 PROVE  \E h \in 0..Len(d) :
                          /\ InTurn(d, k, n, h)
                          /\ ~error[e] => ~ex[e] /\ Complete(d, k, n, h, writer[e] = "open")
    BY <1>5 DEF Sending
  <2>2. PICK h \in 0..Len(c) : /\ InTurn(c, k, n, h)
                               /\ ~error[e] => ~ex[e] /\ Complete(c, k, n, h, writer[e] = "open")
    BY <1>8, <2>1 DEF Sending
  <2>3. h \in 0..Len(d)
    BY <1>6
  <2>4. CASE error[e]
    <3>1. x = "failed"
      BY <1>4, <2>4
    <3>2. InTurn(d, k, n, h)
      BY <1>1, <1>3, <2>2, <3>1, TurnRefused
    <3>3. QED
      BY <2>3, <2>4, <3>2
  <2>5. CASE ~error[e]
    <3>1. ~ex[e] /\ Complete(c, k, n, h, writer[e] = "open")
      BY <2>2, <2>5
    <3>2. x = "queued"
      BY <2>5, <3>1 DEF x
    <3>3. InTurn(d, k, n, h) /\ Complete(d, k, n, h, writer[e] = "open")
      BY <1>1, <1>3, <1>7, <2>2, <3>1, <3>2, TurnQueued
    <3>4. QED
      BY <2>3, <3>1, <3>3
  <2>6. QED
    BY <2>4, <2>5
<1> HIDE DEF d
<1>9. SinkSound(e)'
  <2>1. /\ writer[e] = "closed" => FALSE
        /\ writer[e] = "closing" => Len(d) = 1 /\ d[1].msg = Eos
    BY <1>1, <1>3, <1>6 DEF SinkSound
  <2>2. \A j \in 1..Len(d) : /\ j \in 1..Len(c) /\ d[j].msg = c[j].msg
                             /\ d[j].state = "closing" => c[j].state = "closing"
                             /\ d[j].state = "writing" => c[j].state = "writing"
    BY <1>4, <1>6
  <2>3. QED
    BY <1>1, <1>5, <2>1, <2>2 DEF SinkSound
<1>10. ~EosWritten(e) /\ given[e] <= given'[e]
  BY <1>1, <1>3, <1>5 DEF EosWritten
<1>11. QED
  BY <1>2, <1>5, <1>8, <1>9, <1>10, CallsStep

LEMMA SentKeeps ==
  ASSUME IInv, NEW e \in Ends, Sent(e)
  PROVE  IInv'
<1> USE DEF app, sink, src, frames, closed, socket
<1> DEFINE c == sends[e]
           n == given[e]
<1>1. /\ c \in Seq(Call) /\ n \in Nat /\ Len(c) \in Nat /\ DOMAIN c = 1..Len(c) /\ SinkSound(e)
      /\ ex[e] \in BOOLEAN
  BY Types DEF IInv, TypeOK
<1>2. TypeOK'
  BY SinkTypeStep DEF IInv
<1>3. PICK i \in 1..Len(c) :
        /\ c[i].state \in {"sent", "failed"} /\ c[i].msg # Eos
        /\ ex' = [ex EXCEPT ![e] = @ \/ c[i].state = "failed"]
        /\ sends' = [sends EXCEPT ![e] = RemoveAt(c, i)]
  BY <1>1 DEF Sent
<1> DEFINE d == RemoveAt(c, i)
<1>4. /\ sends'[e] = d /\ (c[i].state = "sent" => ex'[e] = ex[e])
      /\ UNCHANGED <<got, source, bufs, reader, held, queue, aborted, error, shut, net>>
      /\ \A f \in Ends \ {e} : UNCHANGED <<given[f], writer[f], ex[f], sends[f], loop[f]>>
      /\ UNCHANGED <<given, writer, loop>>
  BY <1>1, <1>3 DEF Sent, IInv, TypeOK
<1>5. Len(d) = Len(c) - 1 /\ \A j \in 1..Len(d) : d[j] = IF j < i THEN c[j] ELSE c[j + 1]
  BY <1>1, CallRemoved
<1>6. writer[e] = "open"
  BY <1>1, <1>3, SinkFacts DEF IInv
<1>7. ASSUME NEW k \in Nat, Sending(e, k) PROVE Sending(e, k)'
  <2>1. SUFFICES ASSUME loop[e] # "ended"
                 PROVE  \E h \in 0..Len(d) :
                          /\ InTurn(d, k, n, h)
                          /\ ~error[e] => ~ex'[e] /\ Complete(d, k, n, h, writer[e] = "open")
    BY <1>4 DEF Sending
  <2>2. PICK h \in 0..Len(c) : /\ InTurn(c, k, n, h)
                               /\ ~error[e] => ~ex[e] /\ Complete(c, k, n, h, writer[e] = "open")
    BY <1>7, <2>1 DEF Sending
  <2>3. CASE c[i].state = "sent"
    <3>1. /\ h - 1 \in 0..Len(d) /\ InTurn(d, k, n, h - 1)
          /\ Complete(c, k, n, h, writer[e] = "open") => Complete(d, k, n, h - 1, writer[e] = "open")
      BY <1>1, <2>2, <2>3, TurnAnswered
    <3>2. QED
      BY <1>4, <2>2, <2>3, <3>1
  <2>4. CASE c[i].state = "failed"
    <3>1. h \in 0..Len(d) /\ InTurn(d, k, n, h)
      BY <1>1, <2>2, <2>4, TurnForgotten
    <3>2. i \in (h + 1)..Len(c)
      <4>1. i \in 1..h => FALSE
        BY <2>2, <2>4 DEF InTurn
      <4>2. QED
        BY <1>1, <4>1
    <3>3. error[e]
      BY <2>2, <2>4, <3>2 DEF Complete
    <3>4. QED
      BY <3>1, <3>3
  <2>5. QED
    BY <1>3, <2>3, <2>4
<1> HIDE DEF d
<1>8. SinkSound(e)'
  <2>1. \A j \in 1..Len(d) : \E m \in 1..Len(c) : d[j] = c[m]
    <3> SUFFICES ASSUME NEW j \in 1..Len(d) PROVE \E m \in 1..Len(c) : d[j] = c[m]
      OBVIOUS
    <3>1. j \in 1..Len(c) /\ j + 1 \in 1..Len(c)
      BY <1>1, <1>5
    <3>2. QED
      BY <1>5, <3>1
  <2>2. QED
    BY <1>1, <1>4, <1>6, <2>1 DEF SinkSound
<1>9. ~EosWritten(e) /\ given[e] <= given'[e]
  BY <1>1, <1>4, <1>6 DEF EosWritten
<1>10. QED
  BY <1>2, <1>4, <1>7, <1>8, <1>9, CallsStep

LEMMA EosSentKeeps ==
  ASSUME IInv, NEW e \in Ends, EosSent(e)
  PROVE  IInv'
<1> USE DEF app, sink, src, frames, closed, socket
<1> DEFINE c == sends[e]
           n == given[e]
           t == [c EXCEPT ![1].state = "closing"]
<1>1. /\ c \in Seq(Call) /\ n \in Nat /\ Len(c) \in Nat /\ DOMAIN c = 1..Len(c) /\ SinkSound(e)
      /\ Len(<<>>) = 0
  BY Types DEF IInv
<1>2. TypeOK'
  BY SinkTypeStep DEF IInv
<1>3. PICK i \in 1..Len(c) :
        /\ c[i].msg = Eos /\ c[i].state \in {"sent", "failed"}
        /\ \/ /\ sends' = [sends EXCEPT ![e][i].state = "closing"]
              /\ UNCHANGED writer
           \/ /\ sends' = [sends EXCEPT ![e] = <<>>]
              /\ writer' = [writer EXCEPT ![e] = "closed"]
        /\ UNCHANGED <<given, got, ex, source, bufs, loop, reader, held, queue, aborted,
                       error, shut, net>>
  BY <1>1 DEF EosSent
<1>4. writer[e] = "closing" /\ Len(c) = 1 /\ i = 1
  BY <1>1, <1>3, SinkFacts DEF IInv
<1>5. /\ Len(t) = 1 /\ t[1].msg = Eos /\ t[1].state = "closing"
      /\ \A j \in 1..Len(t) : j = 1
  <2>1. Len(t) = Len(c) /\ t[1].msg = c[1].msg /\ t[1].state = "closing"
    BY <1>1, <1>4, CallChanged DEF SendState
  <2> HIDE DEF t
  <2>2. Len(t) = 1 /\ t[1].msg = Eos
    BY <1>3, <1>4, <2>1
  <2>3. QED
    BY <2>1, <2>2
<1>6. /\ \/ sends'[e] = t /\ writer'[e] = "closing"
         \/ sends'[e] = <<>> /\ writer'[e] = "closed"
      /\ UNCHANGED <<given, ex, loop>>
      /\ UNCHANGED <<got, source, bufs, reader, held, queue, aborted, error, shut, net>>
      /\ \A f \in Ends \ {e} : UNCHANGED <<given[f], writer[f], ex[f], sends[f], loop[f]>>
  <2>1. DOMAIN sends = Ends /\ DOMAIN writer = Ends
    BY DEF IInv, TypeOK
  <2>2. \/ sends' = [sends EXCEPT ![e] = t] /\ UNCHANGED writer
        \/ sends' = [sends EXCEPT ![e] = <<>>] /\ writer' = [writer EXCEPT ![e] = "closed"]
    BY <1>3, <1>4
  <2> HIDE DEF t
  <2>3. QED
    BY <1>3, <1>4, <2>1, <2>2
<1> HIDE DEF t
<1>7. ASSUME NEW d, NEW k \in Nat, d = t \/ d = <<>>
      PROVE  InTurn(d, k, n, 0) /\ Complete(d, k, n, 0, FALSE) /\ 0 \in 0..Len(d)
  <2>1. CASE d = t
    <3>1. Len(d) = 1 /\ d[1].state = "closing"
      BY <1>5, <2>1
    <3>2. (\A j \in (0 + 1)..Len(d) : j = 1) /\ 1..0 = {} /\ 0 \in 0..Len(d)
      BY <3>1
    <3>3. QED
      BY <3>1, <3>2 DEF InTurn, Complete
  <2>2. CASE d = <<>>
    <3>1. (0 + 1)..Len(d) = {} /\ 1..0 = {} /\ 0 \in 0..Len(d)
      BY <1>1, <2>2
    <3>2. QED
      BY <3>1 DEF InTurn, Complete
  <2>3. QED
    BY <1>7, <2>1, <2>2
<1>8. ASSUME NEW k \in Nat, Sending(e, k) PROVE Sending(e, k)'
  <2>1. ~error[e] /\ loop[e] # "ended" => ~ex[e]
    BY <1>8 DEF Sending
  <2>2. writer'[e] # "open" /\ (sends'[e] = t \/ sends'[e] = <<>>)
    BY <1>6
  <2>3. /\ InTurn(sends'[e], k, n, 0) /\ Complete(sends'[e], k, n, 0, writer'[e] = "open")
        /\ 0 \in 0..Len(sends'[e])
    <3>1. Complete(sends'[e], k, n, 0, FALSE) => Complete(sends'[e], k, n, 0, writer'[e] = "open")
      BY <2>2 DEF Complete
    <3>2. QED
      BY <1>7, <2>2, <3>1
  <2>4. QED
    BY <1>6, <2>1, <2>3 DEF Sending
<1>9. SinkSound(e)'
  <2>1. CASE sends'[e] = t /\ writer'[e] = "closing"
    BY <1>5, <2>1 DEF SinkSound
  <2>2. CASE sends'[e] = <<>> /\ writer'[e] = "closed"
    BY <1>1, <2>2 DEF SinkSound
  <2>3. QED
    BY <1>6, <2>1, <2>2
<1>10. EosWritten(e)' /\ given'[e] = given[e] /\ given[e] <= given'[e]
  <2>1. \A j \in 1..Len(sends'[e]) : sends'[e][j].state = "closing"
    BY <1>1, <1>5, <1>6
  <2>2. QED
    BY <1>1, <1>6, <2>1 DEF EosWritten
<1>11. QED
  BY <1>2, <1>6, <1>8, <1>9, <1>10, CallsStep

LEMMA LoopTakesKeeps ==
  ASSUME IInv, NEW e \in Ends, LoopTakes(e)
  PROVE  IInv'
<1> USE DEF app, sink, src, frames, closed, socket
<1> DEFINE c == sends[e]
           n == given[e]
<1>1. /\ c \in Seq(Call) /\ n \in Nat /\ Len(c) \in Nat /\ DOMAIN c = 1..Len(c) /\ SinkSound(e)
  BY Types DEF IInv
<1>2. TypeOK'
  BY SinkTypeStep DEF IInv
<1>3. PICK i \in 1..Len(c) :
        /\ c[i].state = "queued" /\ \A j \in 1..Len(c) : c[j].state = "queued" => i <= j
        /\ sends' = [sends EXCEPT ![e][i].state = "writing"]
        /\ loop[e] = "waiting" /\ loop' = [loop EXCEPT ![e] = "writing"]
        /\ UNCHANGED <<given, writer, got, ex, source, bufs, reader, held, queue, aborted,
                       error, shut, net>>
  BY <1>1 DEF LoopTakes, Queued
<1> DEFINE d == [c EXCEPT ![i].state = "writing"]
<1>4. /\ Len(d) = Len(c) /\ \A j \in 1..Len(c) : d[j].msg = c[j].msg
      /\ \A j \in 1..Len(c) : d[j].state = IF j = i THEN "writing" ELSE c[j].state
  BY <1>1, CallChanged DEF SendState
<1>5. /\ sends'[e] = d /\ loop'[e] = "writing"
      /\ UNCHANGED <<given, writer, ex>>
      /\ UNCHANGED <<got, source, bufs, reader, held, queue, aborted, error, shut, net>>
      /\ \A f \in Ends \ {e} : UNCHANGED <<given[f], writer[f], ex[f], sends[f], loop[f]>>
  <2>1. sends' = [sends EXCEPT ![e] = d] /\ DOMAIN sends = Ends /\ DOMAIN loop = Ends
    BY <1>3 DEF IInv, TypeOK
  <2> HIDE DEF d
  <2>2. QED
    BY <1>3, <2>1
<1>6. \A j \in 1..Len(c) : c[j].state # "writing"
  BY <1>1, <1>3 DEF SinkSound
<1>7. ASSUME NEW k \in Nat, Sending(e, k) PROVE Sending(e, k)'
  <2>1. PICK h \in 0..Len(c) : /\ InTurn(c, k, n, h)
                               /\ ~error[e] => ~ex[e] /\ Complete(c, k, n, h, writer[e] = "open")
    BY <1>3, <1>7 DEF Sending
  <2>2. /\ InTurn(d, k, n, h)
        /\ Complete(c, k, n, h, writer[e] = "open") => Complete(d, k, n, h, writer[e] = "open")
    BY <1>1, <1>3, <1>6, <2>1, TurnTaken
  <2>3. h \in 0..Len(d)
    BY <1>4, <2>1
  <2> HIDE DEF d
  <2>4. QED
    BY <1>5, <2>1, <2>2, <2>3 DEF Sending
<1> HIDE DEF d
<1>8. SinkSound(e)'
  <2>1. /\ writer[e] = "closed" => FALSE
        /\ writer[e] = "closing" => Len(d) = 1 /\ d[1].msg = Eos
    BY <1>1, <1>3, <1>4 DEF SinkSound
  <2>2. \A j \in 1..Len(d) : /\ j \in 1..Len(c) /\ d[j].msg = c[j].msg
                             /\ d[j].state = "closing" => c[j].state = "closing"
    BY <1>3, <1>4
  <2>3. QED
    BY <1>1, <1>5, <2>1, <2>2 DEF SinkSound
<1>9. ~EosWritten(e) /\ given[e] <= given'[e]
  BY <1>1, <1>3, <1>5 DEF EosWritten
<1>10. QED
  BY <1>2, <1>5, <1>7, <1>8, <1>9, CallsStep

LEMMA StopSendLoopKeeps ==
  ASSUME IInv, NEW e \in Ends, StopSendLoop(e)
  PROVE  IInv'
<1> USE DEF app, sink, src, frames, closed, socket
<1> DEFINE c == sends[e]
           d == [i \in DOMAIN c |-> IF c[i].state = "queued" THEN [c[i] EXCEPT !.state = "sent"] ELSE c[i]]
<1>1. /\ c \in Seq(Call) /\ given[e] \in Nat /\ Len(c) \in Nat /\ SinkSound(e)
  BY Types DEF IInv
<1>2. TypeOK'
  BY SinkTypeStep DEF IInv
<1>3. /\ Len(d) = Len(c) /\ \A i \in 1..Len(c) : d[i].msg = c[i].msg
      /\ \A i \in 1..Len(c) : d[i].state = IF c[i].state = "queued" THEN "sent" ELSE c[i].state
  BY <1>1, CallsDropped
<1>4. /\ sends' = [sends EXCEPT ![e] = d] /\ loop[e] = "ended"
      /\ UNCHANGED <<given, writer, got, ex, source, bufs, loop, reader, held, queue, aborted,
                     error, shut, net>>
  BY DEF StopSendLoop
<1> HIDE DEF d
<1>5. sends'[e] = d /\ \A f \in Ends \ {e} : sends'[f] = sends[f]
  <2>1. DOMAIN sends = Ends
    BY DEF IInv, TypeOK
  <2>2. QED
    BY <1>4, <2>1
<1>6. \A k \in Nat : Sending(e, k) => Sending(e, k)'
  BY <1>4 DEF Sending
<1>7. SinkSound(e)'
  <2>1. /\ writer[e] = "closing" => Len(d) = 1 /\ d[1].msg = Eos
        /\ writer[e] = "closed" => Len(d) = 0
    BY <1>1, <1>3 DEF SinkSound
  <2>2. \A j \in 1..Len(d) : /\ j \in 1..Len(c) /\ d[j].msg = c[j].msg
                             /\ d[j].state = "closing" => c[j].state = "closing"
                             /\ d[j].state = "writing" => c[j].state = "writing"
    BY <1>3
  <2>3. writer[e] = "closed" => d = <<>>
    <3>1. sends'[e] \in Seq(Call)
      BY <1>2 DEF TypeOK, Call
    <3>2. QED
      BY <1>5, <2>1, <3>1, EmptySeq
  <2>4. QED
    BY <1>1, <1>4, <1>5, <2>1, <2>2, <2>3 DEF SinkSound
<1>8. EosWritten(e) => EosWritten(e)' /\ given'[e] = given[e]
  BY <1>3, <1>4, <1>5 DEF EosWritten
<1>9. given[e] <= given'[e]
  BY <1>1, <1>4
<1>10. QED
  BY <1>2, <1>4, <1>5, <1>6, <1>7, <1>8, <1>9, CallsStep

LEMMA CloseDoneKeeps ==
  ASSUME IInv, NEW e \in Ends, CloseDone(e)
  PROVE  IInv'
<1> USE DEF app, sink, src, frames, closed, socket
<1>1. /\ sends[e] \in Seq(Call) /\ given[e] \in Nat /\ SinkSound(e) /\ Len(<<>>) = 0
      /\ DOMAIN sends[e] = 1..Len(sends[e])
  BY Types DEF IInv
<1>2. TypeOK'
  BY SinkTypeStep DEF IInv
<1>3. UNCHANGED <<given, got, ex, bufs, loop, reader, held, queue, aborted, error, shut, net>>
  BY DEF CloseDone
<1>4. ASSUME NEW d \in Ends
      PROVE  SourceSound(d)' /\ Path(d)' = Path(d) /\ UNCHANGED <<got[d], aborted[d]>>
  <2>1. \/ source'[d] = source[d]
        \/ source[d] \in {"ending", "failing"} /\ source'[d] \in {"eof", "failed"}
    BY DEF CloseDone, IInv, TypeOK
  <2>2. SourceSound(d)'
    BY <1>3, <2>1 DEF SourceSound, IInv
  <2>3. Path(d)' = Path(d)
    BY <1>3 DEF Path, Held
  <2>4. QED
    BY <1>3, <2>2, <2>3
<1>5. /\ \A f \in Ends \ {e} : UNCHANGED <<writer[f], sends[f]>>
      /\ \/ UNCHANGED <<writer[e], sends[e]>>
         \/ /\ \E i \in 1..Len(sends[e]) : sends[e][i].state = "closing"
            /\ sends'[e] = <<>> /\ writer'[e] = "closed"
  BY <1>1 DEF CloseDone, IInv, TypeOK
<1>6. SenderKept(Peer(e))
  BY <1>3, <1>5, EndFacts DEF SenderKept, SinkKept
<1>7. CASE UNCHANGED <<writer[e], sends[e]>>
  <2>1. SenderKept(e)
    BY <1>3, <1>7 DEF SenderKept, SinkKept
  <2>2. SinkSound(e)' /\ (EosWritten(e) => EosWritten(e)')
    BY <1>1, <2>1, KeptSink
  <2>3. \A k \in Nat : Delivered(e, Peer(e), k) /\ Sending(e, k) => Sending(e, k)'
    BY <2>1, KeptSending
  <2>4. given[e] <= given'[e] /\ given'[e] = given[e] /\ shut[e] \subseteq shut'[e]
    BY <1>1, <1>3
  <2>5. QED
    BY <1>2, <1>4, <1>6, <2>2, <2>3, <2>4, SinkStep
<1>8. CASE /\ \E i \in 1..Len(sends[e]) : sends[e][i].state = "closing"
           /\ sends'[e] = <<>> /\ writer'[e] = "closed"
  <2>1. Len(sends'[e]) = 0
    BY <1>1, <1>8
  <2>2. SinkSound(e)' /\ EosWritten(e)'
    BY <1>8, <2>1 DEF SinkSound, EosWritten
  <2>3. given[e] <= given'[e] /\ given'[e] = given[e] /\ shut[e] \subseteq shut'[e]
    BY <1>1, <1>3
  <2>4. ASSUME NEW k \in Nat, Sending(e, k) PROVE Sending(e, k)'
    <3>1. (0 + 1)..0 = {} /\ 1..0 = {} /\ 0 \in 0..0
      OBVIOUS
    <3>2. /\ InTurn(sends'[e], k, given[e], 0) /\ 0 \in 0..Len(sends'[e])
          /\ Complete(sends'[e], k, given[e], 0, writer'[e] = "open")
      BY <1>8, <2>1, <3>1 DEF InTurn, Complete
    <3>3. ~error[e] /\ loop[e] # "ended" => ~ex[e]
      BY <2>4 DEF Sending
    <3>4. QED
      BY <1>3, <3>2, <3>3 DEF Sending
  <2>5. QED
    BY <1>2, <1>4, <1>6, <2>2, <2>3, <2>4, SinkStep
<1>9. QED
  BY <1>5, <1>7, <1>8

\* A step that changes no call and no queue.
LEMMA OtherStep ==
  ASSUME IInv, TypeOK', UNCHANGED <<got, source, bufs, reader, held, queue, aborted, net>>,
         \A d \in Ends : SenderKept(d)
  PROVE  IInv'
<1>1. Client \in Ends /\ Peer(Client) \in Ends /\ given[Client] \in Nat /\ SinkSound(Client)
  BY EndFacts, Types DEF Ends, IInv
<1>2. \A d \in Ends : SourceSound(d)' /\ Path(d)' = Path(d) /\ UNCHANGED <<got[d], aborted[d]>>
  BY QueuesKept
<1>3. SinkSound(Client)' /\ (EosWritten(Client) => EosWritten(Client)')
  BY <1>1, KeptSink
<1>4. given'[Client] = given[Client] /\ given[Client] <= given'[Client] /\ shut[Client] \subseteq shut'[Client]
  BY <1>1 DEF SenderKept, SinkKept
<1>5. \A k \in Nat : Delivered(Client, Peer(Client), k) /\ Sending(Client, k) => Sending(Client, k)'
  BY <1>1, KeptSending
<1>6. QED
  BY <1>1, <1>2, <1>3, <1>4, <1>5, SinkStep

LEMMA LoopBrokenKeeps ==
  ASSUME IInv, NEW e \in Ends, LoopBroken(e)
  PROVE  IInv'
<1> USE DEF app, sink, src, frames, closed, socket
<1>1. TypeOK'
  BY SourceTypeStep DEF IInv
<1>2. UNCHANGED <<got, source, bufs, reader, held, queue, aborted, net>>
  BY DEF LoopBroken
<1>3. \A d \in Ends : SenderKept(d)
  BY DEF LoopBroken, SenderKept, SinkKept, IInv, TypeOK
<1>4. QED
  BY <1>1, <1>2, <1>3, OtherStep

LEMMA FaultsKeep ==
  ASSUME IInv, ParentStops \/ NetworkBreaks
  PROVE  IInv'
<1> USE DEF app, sink, src, frames, closed, socket
<1>1. /\ error' = error \/ error' = [error EXCEPT ![Client] = TRUE]
      /\ shut' = shut \/ shut' = [shut EXCEPT ![Client] = @ \cup {"input"}]
  BY DEF ParentStops, NetworkBreaks, Abort
<1>2. error \in [Ends -> BOOLEAN] /\ shut \in [Ends -> SUBSET {"input", "output"}]
  BY DEF IInv, TypeOK
<1>3. Client \in Ends
  BY DEF Ends
<1>4. TypeOK'
  <2>1. /\ faults' = faults + 1 /\ faults < MaxFaults /\ faults \in 0..MaxFaults /\ MaxFaults \in Nat
        /\ broken' \in BOOLEAN
    BY RpcStreamAssumption DEF ParentStops, NetworkBreaks, IInv, TypeOK
  <2>2. error' \in [Ends -> BOOLEAN] /\ shut' \in [Ends -> SUBSET {"input", "output"}]
    <3>1. error' \in [Ends -> BOOLEAN]
      BY <1>1, <1>2
    <3>2. shut' \in [Ends -> SUBSET {"input", "output"}]
      BY <1>1, <1>2, <1>3
    <3>3. QED
      BY <3>1, <3>2
  <2>3. UNCHANGED <<given, writer, ex, sends, got, source, bufs, loop, reader, held, queue, aborted,
                    sinkClosed, sourceClosed, closing, stopped, net>>
    BY DEF ParentStops, NetworkBreaks
  <2>4. faults' \in 0..MaxFaults
    BY <2>1
  <2>5. QED
    BY <2>1, <2>2, <2>3, <2>4 DEF IInv, TypeOK
<1>5. UNCHANGED <<got, source, bufs, reader, held, queue, aborted, net>>
  BY DEF ParentStops, NetworkBreaks
<1>6. ASSUME NEW d \in Ends PROVE SenderKept(d)
  <2>1. UNCHANGED <<given, writer, ex, sends, loop>>
    BY DEF ParentStops, NetworkBreaks
  <2>2. (error[d] => error'[d]) /\ shut[d] \subseteq shut'[d]
    BY <1>1, <1>2
  <2>3. QED
    BY <2>1, <2>2 DEF SenderKept, SinkKept
<1>7. QED
  BY <1>4, <1>5, <1>6, OtherStep

-----------------------------------------------------------------------------
(* The steps of a reader and its source *)

\* A step that changes the queue of e and what its source holds, and no call.
LEMMA ReaderStep ==
  ASSUME IInv, TypeOK', NEW e \in Ends,
         UNCHANGED <<given, writer, ex, sends, loop, error, shut>>,
         \A d \in Ends \ {e} : QueueKept(d) /\ net'[d] = net[d],
         SourceSound(e)',
         \A k \in Nat : Delivered(Peer(e), e, k) => Delivered(Peer(e), e, k)'
  PROVE  IInv'
<1>1. \A d \in Ends : SenderKept(d)
  BY DEF SenderKept, SinkKept
<1>2. Peer(e) \in Ends \ {e}
  BY EndFacts
<1>3. QueueKept(Peer(e)) /\ Path(Peer(e))' = Path(Peer(e))
  <2> DEFINE p == Peer(e)
  <2>1. p \in Ends /\ QueueKept(p) /\ net'[p] = net[p]
    BY <1>2
  <2> HIDE DEF p
  <2>2. Path(p)' = Path(p)
    BY <2>1, KeptPath
  <2>3. Path(Peer(e))' = Path(p)'
    BY DEF p, Peer
  <2>4. QED
    BY <2>1, <2>2, <2>3 DEF p
<1>4. QED
  BY <1>1, <1>3, SourceStep

\* A step that moves frames along the path.
LEMMA MoveStep ==
  ASSUME IInv, TypeOK', NEW e \in Ends,
         UNCHANGED <<given, writer, ex, sends, loop, error, shut>>,
         \A d \in Ends \ {e} : QueueKept(d) /\ net'[d] = net[d],
         SourceSound(e)', Path(e)' = Path(e), UNCHANGED <<got[e], aborted[e]>>
  PROVE  IInv'
<1>1. ASSUME NEW k \in Nat, Delivered(Peer(e), e, k) PROVE Delivered(Peer(e), e, k)'
  <2> DEFINE p == Peer(e)
  <2>1. p \in Ends /\ given[p] \in Nat /\ got[e] \in Nat /\ given'[p] = given[p]
    BY EndFacts, Types DEF IInv
  <2>2. p' = p
    BY DEF Peer
  <2>3. Delivered(p, e, k) /\ (EosWritten(p) => EosWritten(p)') /\ shut[p] \subseteq shut'[p]
    BY <1>1 DEF EosWritten, Peer
  <2> HIDE DEF p
  <2>4. Delivered(p, e, k)'
    BY <2>1, <2>3, KeptDelivered
  <2>5. QED
    BY <2>4 DEF p
<1>2. QED
  BY <1>1, ReaderStep

LEMMA ReadKeeps ==
  ASSUME IInv, NEW e \in Ends, Read(e)
  PROVE  IInv'
<1> USE DEF app, sink, src, frames, closed, socket
<1> DEFINE b == bufs[e]
           r == queue[e] \o (Held(e) \o net[e])
           path == Path(e)
<1>1. /\ b \in Seq(Nat) /\ b \in Seq(Frames) /\ path \in Seq(Frames) /\ SourceSound(e)
      /\ got[e] \in Nat
  BY Types DEF IInv
<1>2. r \in Seq(Frames)
  BY Types, ConcatProperties DEF IInv
<1>3. TypeOK'
  BY SourceTypeStep DEF IInv
<1>4. /\ source[e] = "idle" /\ b # <<>> /\ bufs' = [bufs EXCEPT ![e] = Tail(b)]
      /\ got' = [got EXCEPT ![e] = Head(b)]
      /\ UNCHANGED <<given, writer, ex, sends, loop, error, shut, source, reader, held, queue, aborted, net>>
  BY DEF Read
<1>5. /\ bufs'[e] = Tail(b) /\ got'[e] = Head(b)
      /\ \A d \in Ends \ {e} : bufs'[d] = bufs[d] /\ got'[d] = got[d]
  <2>1. DOMAIN bufs = Ends /\ DOMAIN got = Ends
    BY DEF IInv, TypeOK
  <2> HIDE DEF b
  <2>2. QED
    BY <1>4, <2>1
<1>6. \A d \in Ends \ {e} : QueueKept(d) /\ net'[d] = net[d]
  BY <1>4, <1>5 DEF QueueKept
<1>7. /\ Head(b) \in Nat /\ Len(b) \in Nat /\ Len(Tail(b)) = Len(b) - 1
  BY <1>1, <1>4, HeadTailProperties, LenProperties
<1>8. Path(e)' = Tail(path) /\ path # <<>> /\ Head(path) = Head(b)
  <2>1. b \o r # <<>> /\ Head(b \o r) = Head(b) /\ Tail(b \o r) = Tail(b) \o r
    BY <1>1, <1>2, <1>4, PathEnds
  <2>2. Held(e)' = Held(e)
    BY <1>4 DEF Held
  <2>3. CASE aborted[e]
    BY <1>4, <1>5, <2>3 DEF Path
  <2>4. CASE ~aborted[e]
    <3>1. path = b \o r
      BY <2>4 DEF Path
    <3>2. Path(e)' = Tail(b) \o r
      BY <1>4, <1>5, <2>2, <2>4 DEF Path
    <3>3. QED
      BY <2>1, <3>1, <3>2
  <2>5. QED
    BY <2>3, <2>4
<1>9. ASSUME NEW k \in Nat, Delivered(Peer(e), e, k) PROVE Delivered(Peer(e), e, k)'
  <2> DEFINE p == Peer(e)
  <2>1. /\ got[e] <= k /\ k <= given[p] /\ InOrder(path, got[e], k)
        /\ ~aborted[e] => Len(path) >= k - got[e]
        /\ Holds(path, Eos) => EosWritten(p) /\ k = given[p]
        /\ Holds(path, Fin) => "output" \in shut[p]
    BY <1>9 DEF Delivered
  <2>2. Len(path) \in Nat /\ Len(path) >= 1
    BY <1>1, <1>8, LenProperties, EmptySeq
  <2>3. /\ Len(Tail(path)) = Len(path) - 1
        /\ \A i \in 1..Len(Tail(path)) : Tail(path)[i] = path[i + 1]
    BY <1>1, <1>8, HeadTailProperties
  <2>4. \A f : Holds(Tail(path), f) => Holds(path, f)
    BY <2>2, <2>3 DEF Holds
  <2>5. EosWritten(p)' <=> EosWritten(p)
    BY <1>4 DEF EosWritten, Peer
  <2> HIDE DEF p, path
  <2>6. got[e] < k /\ got'[e] = got[e] + 1 /\ InOrder(Tail(path), got[e] + 1, k)
    BY <1>1, <1>5, <1>7, <1>8, <2>1, OrderAfterRead
  <2>7. got'[e] <= k /\ (~aborted[e] => Len(Tail(path)) >= k - got'[e])
    BY <1>1, <2>1, <2>2, <2>3, <2>6
  <2>8. Delivered(p, e, k)'
    BY <1>4, <1>8, <2>1, <2>4, <2>5, <2>6, <2>7 DEF Delivered, p
  <2>9. QED
    BY <2>8 DEF p
<1> HIDE DEF path
<1>10. SourceSound(e)'
  <2>1. \A i \in 1..Len(queue[e]) : queue[e][i] \in Nat
    BY <1>1, <1>4 DEF SourceSound
  <2>2. /\ Len(queue[e]) \in Nat /\ Memory \in Nat
        /\ Len(queue[e]) + Len(b) + (IF reader[e] = "room" THEN 1 ELSE 0) <= Memory
    BY <1>1, Types, LenProperties, RpcStreamAssumption DEF SourceSound, IInv
  <2>3. Len(queue[e]) + Len(Tail(b)) + (IF reader[e] = "room" THEN 1 ELSE 0) <= Memory
    <3> DEFINE l == Len(queue[e])
               m == Len(b)
               t == Len(Tail(b))
    <3>1. l \in Nat /\ m \in Nat /\ t = m - 1
      BY <1>7, <2>2
    <3>2. l + m + (IF reader[e] = "room" THEN 1 ELSE 0) <= Memory
      BY <2>2
    <3> HIDE DEF l, m, t
    <3>3. l + t + (IF reader[e] = "room" THEN 1 ELSE 0) <= Memory
      BY <2>2, <3>1, <3>2
    <3>4. QED
      BY <3>3 DEF l, t
  <2>4. QED
    BY <1>1, <1>4, <1>5, <2>1, <2>3 DEF SourceSound
<1>11. QED
  BY <1>3, <1>4, <1>6, <1>9, <1>10, ReaderStep

LEMMA ReadFrameKeeps ==
  ASSUME IInv, NEW e \in Ends, ReadFrame(e)
  PROVE  IInv'
<1> USE DEF app, sink, src, frames, closed, socket
<1> DEFINE n == net[e]
<1>1. /\ bufs[e] \in Seq(Frames) /\ queue[e] \in Seq(Frames) /\ n \in Seq(Frames)
      /\ n \in Seq(Frames \ {EofMark}) /\ SourceSound(e)
      /\ Len(queue[e]) \in Nat /\ Len(bufs[e]) \in Nat
  BY Types, LenProperties DEF IInv
<1>2. TypeOK'
  BY SourceTypeStep DEF IInv
<1>3. /\ reader[e] = "reading" /\ n # <<>> /\ Head(n) # Fin
      /\ held' = [held EXCEPT ![e] = Head(n)] /\ net' = [net EXCEPT ![e] = Tail(n)]
      /\ reader' = [reader EXCEPT ![e] = "memory"]
      /\ UNCHANGED <<given, writer, ex, sends, loop, error, shut, got, source, bufs, queue, aborted>>
  BY DEF ReadFrame
<1>4. Head(n) \in Nat \cup {Eos}
  <2>1. Head(n) \in Frames \ {EofMark}
    BY <1>1, <1>3, HeadTailProperties
  <2>2. QED
    BY <1>3, <2>1 DEF Frames
<1> HIDE DEF n
<1>5. /\ held'[e] = Head(n) /\ net'[e] = Tail(n) /\ reader'[e] = "memory"
      /\ \A d \in Ends \ {e} : held'[d] = held[d] /\ net'[d] = net[d] /\ reader'[d] = reader[d]
  <2>1. DOMAIN held = Ends /\ DOMAIN net = Ends /\ DOMAIN reader = Ends
    BY DEF IInv, TypeOK
  <2>2. QED
    BY <1>3, <2>1
<1>6. \A d \in Ends \ {e} : QueueKept(d) /\ net'[d] = net[d]
  BY <1>3, <1>5 DEF QueueKept
<1>7. ~aborted[e]
  BY <1>1, <1>3 DEF SourceSound
<1>8. Path(e)' = Path(e)
  <2>1. Eos \in Frames
    BY DEF Frames
  <2>2. bufs[e] \o (queue[e] \o (<<Head(n)>> \o Tail(n))) = bufs[e] \o (queue[e] \o (<<>> \o n))
    BY <1>1, <1>3, <2>1, FrameMoves
  <2>3. Held(e) = <<>> /\ Held(e)' = <<Head(n)>>
    BY <1>3, <1>5 DEF Held
  <2>4. QED
    BY <1>3, <1>5, <1>7, <2>2, <2>3 DEF Path, n
<1>9. SourceSound(e)'
  BY <1>1, <1>3, <1>4, <1>5, <1>7 DEF SourceSound
<1>10. QED
  BY <1>2, <1>3, <1>6, <1>8, <1>9, MoveStep

\* Nothing follows the end of the stream but the end of the output.
LEMMA EosQueued ==
  ASSUME IInv, NEW e \in Ends, queue[e] = <<Eos>>
  PROVE  reader[e] \notin {"memory", "room"}
<1> SUFFICES ASSUME reader[e] \in {"memory", "room"} PROVE FALSE
  OBVIOUS
<1>1. /\ SourceSound(e) /\ bufs[e] = <<>> /\ ~aborted[e] /\ held[e] \in Nat \cup {Eos}
  <2>1. <<Eos>> # <<>> /\ Len(<<Eos>>) = 1 /\ <<Eos>>[1] = Eos
    OBVIOUS
  <2>2. ~ \A i \in 1..Len(queue[e]) : queue[e][i] \in Nat
    BY <2>1, MarkFacts
  <2>3. SourceSound(e)
    BY DEF IInv
  <2>4. QED
    BY <2>1, <2>2, <2>3 DEF SourceSound
<1>2. PICK k \in Nat : InOrder(Path(e), got[e], k) /\ got[e] <= k
  <2>1. Peer(e) \in Ends /\ Peer(Peer(e)) = e
    BY EndFacts
  <2>2. Direction(Peer(e), e)
    BY <2>1 DEF IInv
  <2>3. QED
    BY <2>2 DEF Direction, Delivered
<1> DEFINE t == <<held[e]>> \o net[e]
           path == <<>> \o (<<Eos>> \o t)
<1>3. net[e] \in Seq(Frames) /\ held[e] \in Frames /\ got[e] \in Nat /\ Eos \in Frames
  BY Types DEF IInv, Frames
<1>4. t \in Seq(Frames) /\ Len(t) \in Nat /\ Len(t) >= 1 /\ t[1] = held[e]
  <2>1. <<held[e]>> \in Seq(Frames) /\ Len(<<held[e]>>) = 1 /\ <<held[e]>>[1] = held[e]
    BY <1>3
  <2>2. Len(net[e]) \in Nat
    BY <1>3, LenProperties
  <2>3. QED
    BY <1>3, <2>1, <2>2, ConcatProperties
<1>5. Path(e) = path
  BY <1>1 DEF Path, Held
<1> HIDE DEF t
<1>6. Len(path) >= 2 /\ Len(path) \in Nat /\ path[1] = Eos /\ path[2] = held[e]
  <2>1. <<Eos>> \in Seq(Frames) /\ Len(<<Eos>>) = 1 /\ <<Eos>>[1] = Eos
    BY <1>3
  <2> DEFINE m == <<Eos>> \o t
  <2>2. m \in Seq(Frames) /\ Len(m) = 1 + Len(t) /\ m[1] = Eos /\ m[2] = t[1]
    BY <1>4, <2>1, ConcatProperties
  <2> HIDE DEF m
  <2>3. <<>> \o m = m
    BY <2>2, ConcatEmptySeq
  <2>4. QED
    BY <1>4, <2>2, <2>3 DEF m
<1> HIDE DEF path
<1>7. 1 \in 1..Len(path) /\ 2 \in 1..Len(path)
  BY <1>6
<1>8. k = got[e]
  BY <1>2, <1>3, <1>5, <1>6, <1>7, MarkFacts DEF InOrder
<1>9. held[e] = Fin
  BY <1>2, <1>3, <1>5, <1>6, <1>7, <1>8, MarkFacts DEF InOrder
<1>10. QED
  BY <1>1, <1>9, MarkFacts

\* The reader queues its frame, a message or, into an empty queue, the end of
\* the stream.
LEMMA PushKeeps ==
  ASSUME IInv, TypeOK', NEW e \in Ends, Push(e), reader[e] \in {"memory", "room"},
         UNCHANGED <<given, writer, ex, sends, loop, error, shut, got, bufs, aborted, net>>,
         Len(queue[e]) < MaxQueued,
         held[e] = Eos => queue[e] = <<>> /\ bufs[e] = <<>>,
         Len(queue[e]) + Len(bufs[e]) + 1 <= Memory
  PROVE  IInv'
<1> DEFINE q == queue[e]
           x == held[e]
           a == Append(q, x)
<1>1. /\ bufs[e] \in Seq(Frames) /\ q \in Seq(Frames) /\ net[e] \in Seq(Frames)
      /\ x \in Nat \cup {Eos} /\ SourceSound(e) /\ ~aborted[e] /\ x \in Frames
      /\ Len(q) \in Nat /\ Len(bufs[e]) \in Nat
  BY Types, LenProperties, MarkFacts DEF IInv, SourceSound
<1>2. /\ queue' = [queue EXCEPT ![e] = a] /\ held' = [held EXCEPT ![e] = Fin]
      /\ reader' = [reader EXCEPT ![e] = IF error[e] THEN "leaving" ELSE "reading"]
      /\ source' = [source EXCEPT ![e] = IF @ = "waiting" THEN "ready" ELSE @]
  BY DEF Push
<1>3. Len(a) = Len(q) + 1 /\ a[Len(q) + 1] = x /\ \A i \in 1..Len(q) : a[i] = q[i]
  BY <1>1, AppendProperties
<1>4. /\ queue'[e] = a /\ reader'[e] \in {"leaving", "reading"}
      /\ source'[e] = IF source[e] = "waiting" THEN "ready" ELSE source[e]
      /\ \A d \in Ends \ {e} : UNCHANGED <<queue[d], held[d], reader[d], source[d]>>
  <2>1. DOMAIN queue = Ends /\ DOMAIN held = Ends /\ DOMAIN reader = Ends /\ DOMAIN source = Ends
    BY DEF IInv, TypeOK
  <2> HIDE DEF a
  <2>2. QED
    BY <1>2, <2>1
<1>5. \A d \in Ends \ {e} : QueueKept(d) /\ net'[d] = net[d]
  BY <1>4 DEF QueueKept
<1>6. Path(e)' = Path(e)
  <2>1. bufs[e] \o (a \o (<<>> \o net[e])) = bufs[e] \o (q \o (<<x>> \o net[e]))
    BY <1>1, FrameMoves
  <2>2. Held(e) = <<x>> /\ Held(e)' = <<>>
    BY <1>4 DEF Held
  <2>3. QED
    BY <1>1, <1>4, <2>1, <2>2 DEF Path
<1>7. \/ \A i \in 1..Len(a) : a[i] \in Nat
      \/ a = <<Eos>> /\ bufs[e] = <<>>
  <2>1. CASE x = Eos
    <3>1. q = <<>> /\ bufs[e] = <<>>
      BY <2>1
    <3>2. Append(<<>>, Eos) = <<Eos>>
      OBVIOUS
    <3>3. QED
      BY <2>1, <3>1, <3>2
  <2>2. CASE x \in Nat
    <3>1. q # <<Eos>>
      BY EosQueued
    <3>2. \A i \in 1..Len(q) : q[i] \in Nat
      BY <1>1, <3>1 DEF SourceSound
    <3>3. \A i \in 1..Len(a) : i \in 1..Len(q) \/ i = Len(q) + 1
      BY <1>1, <1>3
    <3>4. QED
      BY <1>3, <2>2, <3>2, <3>3
  <2>3. QED
    BY <1>1, <2>1, <2>2
<1>8. a # <<>>
  <2>1. Len(<<>>) = 0
    OBVIOUS
  <2> HIDE DEF a
  <2>2. QED
    BY <1>1, <1>3, <2>1
<1> HIDE DEF a
<1>9. Len(a) <= MaxQueued /\ Len(a) + Len(bufs[e]) + 0 <= Memory
  <2> DEFINE l == Len(q)
             m == Len(bufs[e])
             n == Len(a)
  <2>1. l \in Nat /\ m \in Nat /\ n = l + 1 /\ l < MaxQueued /\ l + m + 1 <= Memory
    BY <1>1, <1>3
  <2>2. MaxQueued \in Nat /\ Memory \in Nat
    BY RpcStreamAssumption
  <2> HIDE DEF l, m, n
  <2>3. n <= MaxQueued /\ n + m + 0 <= Memory
    BY <2>1, <2>2
  <2>4. QED
    BY <2>3 DEF m, n
<1>10. SourceSound(e)'
  BY <1>1, <1>4, <1>7, <1>8, <1>9 DEF SourceSound
<1>11. QED
  BY <1>5, <1>6, <1>10, MoveStep

LEMMA ProcessIncomingKeeps ==
  ASSUME IInv, NEW e \in Ends, ProcessIncoming(e)
  PROVE  IInv'
<1> USE DEF app, sink, src, frames, closed, socket
<1> DEFINE l == Len(queue[e])
           m == Len(bufs[e])
<1>1. /\ SourceSound(e) /\ l \in Nat /\ m \in Nat /\ Memory \in Nat \ {0} /\ MaxQueued \in Nat \ {0}
      /\ (l = 0 => queue[e] = <<>>) /\ (m = 0 => bufs[e] = <<>>)
  BY Types, LenProperties, EmptySeq, RpcStreamAssumption DEF IInv
<1>2. TypeOK'
  BY SourceTypeStep DEF IInv
<1>3. /\ reader[e] = "memory" /\ Used(e) + FrameSize(held[e]) <= Memory
      /\ UNCHANGED <<given, writer, ex, sends, loop, error, shut, got, bufs, aborted, net>>
  BY DEF ProcessIncoming
<1>4. held[e] \in Nat \cup {Eos} /\ ~aborted[e]
  BY <1>1, <1>3 DEF SourceSound
<1>5. queue[e] # <<Eos>>
  BY <1>3, EosQueued
<1>6. Used(e) = l + m
  <2>1. \A i \in 1..l : queue[e][i] \in Nat
    BY <1>1, <1>5 DEF SourceSound
  <2>2. Used(e) = l + m + (IF reader[e] = "room" THEN 1 ELSE 0)
    BY <1>1, <2>1, UsedIs DEF IInv
  <2> HIDE DEF l, m
  <2>3. QED
    BY <1>1, <1>3, <2>2
<1>7. /\ held[e] = Eos => l = 0 /\ m = 0
      /\ l + m + 1 <= Memory
  <2> HIDE DEF l, m
  <2>1. CASE held[e] = Eos
    <3>1. l + m + Memory <= Memory
      BY <1>3, <1>6, <2>1 DEF FrameSize
    <3>2. QED
      BY <1>1, <3>1
  <2>2. CASE held[e] # Eos
    <3>1. FrameSize(held[e]) = 1
      BY <1>4, <2>2, MarkFacts DEF FrameSize
    <3>2. QED
      BY <1>1, <1>3, <1>6, <2>2, <3>1
  <2>3. QED
    BY <2>1, <2>2
<1>8. CASE Len(queue[e]) < MaxQueued /\ Push(e)
  BY <1>1, <1>2, <1>3, <1>7, <1>8, PushKeeps
<1>9. CASE /\ Len(queue[e]) >= MaxQueued
           /\ reader' = [reader EXCEPT ![e] = "room"]
           /\ UNCHANGED <<queue, held, source>>
  <2>1. reader'[e] = "room" /\ \A d \in Ends \ {e} : reader'[d] = reader[d]
    BY <1>9 DEF IInv, TypeOK
  <2>2. \A d \in Ends \ {e} : QueueKept(d) /\ net'[d] = net[d]
    BY <1>3, <1>9, <2>1 DEF QueueKept
  <2>3. Path(e)' = Path(e)
    BY <1>3, <1>9, <2>1 DEF Path, Held
  <2>4. held[e] \in Nat
    BY <1>1, <1>4, <1>7, <1>9
  <2>5. SourceSound(e)'
    BY <1>1, <1>3, <1>4, <1>7, <1>9, <2>1, <2>4 DEF SourceSound
  <2>6. QED
    BY <1>2, <1>3, <1>9, <2>2, <2>3, <2>5, MoveStep
<1>10. QED
  BY <1>8, <1>9 DEF ProcessIncoming

LEMMA PushEventuallyKeeps ==
  ASSUME IInv, NEW e \in Ends, PushEventually(e)
  PROVE  IInv'
<1> USE DEF app, sink, src, frames, closed, socket
<1>1. TypeOK'
  BY SourceTypeStep DEF IInv
<1>2. /\ reader[e] = "room" /\ Len(queue[e]) < MaxQueued /\ Push(e)
      /\ UNCHANGED <<given, writer, ex, sends, loop, error, shut, got, bufs, aborted, net>>
  BY DEF PushEventually
<1>3. held[e] \in Nat /\ Len(queue[e]) + Len(bufs[e]) + 1 <= Memory
  BY <1>2 DEF IInv, SourceSound
<1>4. held[e] # Eos
  BY <1>3, MarkFacts
<1>5. QED
  BY <1>1, <1>2, <1>3, <1>4, PushKeeps

LEMMA StreamReceiveKeeps ==
  ASSUME IInv, NEW e \in Ends, StreamReceive(e)
  PROVE  IInv'
<1> USE DEF app, sink, src, frames, closed, socket
<1>1. TypeOK'
  BY SourceTypeStep DEF IInv
<1>2. /\ source[e] = "idle" /\ bufs[e] = <<>>
      /\ UNCHANGED <<given, writer, ex, sends, loop, error, shut, got, bufs, reader, held, queue,
                     aborted, net>>
      /\ source'[e] = IF aborted[e] THEN "refused" ELSE IF queue[e] # <<>> THEN "ready" ELSE "waiting"
      /\ \A d \in Ends \ {e} : source'[d] = source[d]
  BY DEF StreamReceive, IInv, TypeOK
<1>3. \A d \in Ends \ {e} : QueueKept(d) /\ net'[d] = net[d]
  BY <1>2 DEF QueueKept
<1>4. Path(e)' = Path(e)
  BY <1>2 DEF Path, Held
<1>5. SourceSound(e)'
  BY <1>2 DEF SourceSound, IInv
<1>6. QED
  BY <1>1, <1>2, <1>3, <1>4, <1>5, MoveStep

LEMMA ReceiveFailsKeeps ==
  ASSUME IInv, NEW e \in Ends, ReceiveFails(e)
  PROVE  IInv'
<1> USE DEF app, sink, src, frames, closed, socket
<1>1. TypeOK'
  BY SourceTypeStep DEF IInv
<1>2. source' = [source EXCEPT ![e] = "failing"] \/ source' = [source EXCEPT ![e] = "failed"]
  BY DEF ReceiveFails, CloseSource
<1>3. /\ source[e] = "refused" \/ (source[e] = "ready" /\ aborted[e])
      /\ UNCHANGED <<given, writer, ex, sends, loop, error, shut, got, bufs, reader, held, queue,
                     aborted, net>>
  BY DEF ReceiveFails
<1>4. /\ source'[e] \in {"failing", "failed"}
      /\ \A d \in Ends \ {e} : source'[d] = source[d]
  BY <1>2 DEF IInv, TypeOK
<1>5. \A d \in Ends \ {e} : QueueKept(d) /\ net'[d] = net[d]
  BY <1>3, <1>4 DEF QueueKept
<1>6. Path(e)' = Path(e)
  BY <1>3 DEF Path, Held
<1>7. SourceSound(e)'
  BY <1>3, <1>4 DEF SourceSound, IInv
<1>8. QED
  BY <1>1, <1>3, <1>5, <1>6, <1>7, MoveStep

LEMMA ConsumeKeeps ==
  ASSUME IInv, NEW e \in Ends, Consume(e)
  PROVE  IInv'
<1> USE DEF app, sink, src, frames, closed, socket
<1> DEFINE r == Held(e) \o net[e]
           q == queue[e]
<1>1. /\ SourceSound(e) /\ q \in Seq(Frames) /\ Eos \in Frames /\ got[e] \in Nat
      /\ Held(e) \in Seq(Frames) /\ net[e] \in Seq(Frames) /\ Path(e) \in Seq(Frames)
  BY Types DEF IInv, Frames
<1>2. r \in Seq(Frames)
  BY <1>1, ConcatProperties
<1>3. TypeOK'
  BY SourceTypeStep DEF IInv
<1>4. /\ source[e] = "ready" /\ ~aborted[e] /\ bufs[e] = <<>> /\ q # <<>>
      /\ UNCHANGED <<given, writer, ex, sends, loop, error, shut, got, reader, held, aborted, net>>
  BY <1>1 DEF Consume, SourceSound
<1>5. /\ \A d \in Ends \ {e} : UNCHANGED <<bufs[d], queue[d], source[d]>>
      /\ bufs'[e] = DataFrames(q)
      /\ \/ /\ DataFrames(q) # <<>> /\ source'[e] = "idle"
            /\ queue'[e] = IF AtEos(q) THEN <<EofMark>> ELSE <<>>
         \/ /\ DataFrames(q) = <<>> /\ source'[e] \in {"ending", "eof"}
            /\ queue'[e] = <<>>
  <2>1. DOMAIN bufs = Ends /\ DOMAIN queue = Ends /\ DOMAIN source = Ends
    BY DEF IInv, TypeOK
  <2>2. /\ bufs' = [bufs EXCEPT ![e] = DataFrames(q)]
        /\ \/ /\ DataFrames(q) # <<>>
              /\ queue' = [queue EXCEPT ![e] = IF AtEos(@) THEN <<EofMark>> ELSE <<>>]
              /\ source' = [source EXCEPT ![e] = "idle"]
           \/ /\ DataFrames(q) = <<>> /\ queue' = [queue EXCEPT ![e] = <<>>]
              /\ \/ source' = [source EXCEPT ![e] = "ending"]
                 \/ source' = [source EXCEPT ![e] = "eof"]
    BY DEF Consume, CloseSource
  <2>3. QED
    BY <2>1, <2>2
<1>6. \A d \in Ends \ {e} : QueueKept(d) /\ net'[d] = net[d]
  BY <1>4, <1>5 DEF QueueKept
<1>7. Held(e)' = Held(e) /\ Path(e) = <<>> \o (q \o r)
  BY <1>4 DEF Held, Path
<1>8. \/ /\ DataFrames(q) = q /\ ~AtEos(q)
         /\ \A i \in 1..Len(q) : q[i] \in Nat
      \/ q = <<Eos>> /\ DataFrames(q) = <<>>
  BY <1>1, DataFramesAre DEF IInv
<1>9. Len(<<>>) = 0 /\ Len(q) \in Nat /\ Memory \in Nat /\ MaxQueued \in Nat
  BY <1>1, LenProperties, RpcStreamAssumption
<1>10. CASE /\ DataFrames(q) = q /\ ~AtEos(q)
            /\ \A i \in 1..Len(q) : q[i] \in Nat
  <2>1. bufs'[e] = q /\ queue'[e] = <<>> /\ source'[e] = "idle"
    BY <1>4, <1>5, <1>10
  <2>2. Path(e)' = q \o (<<>> \o r)
    BY <1>4, <1>7, <2>1 DEF Path
  <2>3. q \o (<<>> \o r) = <<>> \o (q \o r)
    BY <1>1, <1>2, PathEnds
  <2>4. Len(q) + 0 + (IF reader[e] = "room" THEN 1 ELSE 0) <= Memory
    BY <1>1, <1>4, <1>9 DEF SourceSound
  <2>5. Len(<<>>) + Len(q) + (IF reader[e] = "room" THEN 1 ELSE 0) <= Memory /\ Len(<<>>) <= MaxQueued
    <3> DEFINE l == Len(q)
    <3>1. l \in Nat /\ l + 0 + (IF reader[e] = "room" THEN 1 ELSE 0) <= Memory
      BY <1>9, <2>4
    <3> HIDE DEF l
    <3>2. 0 + l + (IF reader[e] = "room" THEN 1 ELSE 0) <= Memory /\ 0 <= MaxQueued
      BY <1>9, <3>1
    <3>3. QED
      BY <1>9, <3>2 DEF l
  <2> HIDE DEF q, r
  <2>6. SourceSound(e)'
    BY <1>1, <1>4, <1>9, <2>1, <2>5 DEF SourceSound
  <2>7. QED
    BY <1>3, <1>4, <1>6, <1>7, <2>2, <2>3, <2>6, MoveStep
<1>11. CASE q = <<Eos>> /\ DataFrames(q) = <<>>
  <2>1. bufs'[e] = <<>> /\ queue'[e] = <<>> /\ source'[e] \in {"ending", "eof"}
    BY <1>5, <1>11
  <2>2. <<Eos>> \in Seq(Frames) /\ <<Eos>> # <<>> /\ Head(<<Eos>>) = Eos /\ Tail(<<Eos>>) = <<>>
    BY <1>1
  <2> DEFINE path == <<Eos>> \o r
  <2>3. path # <<>> /\ Head(path) = Eos /\ Tail(path) = <<>> \o r
    BY <1>2, <2>2, PathEnds
  <2>4. /\ path \in Seq(Frames) /\ <<>> \o path = path
        /\ <<>> \o (<<>> \o r) = Tail(path)
    <3>1. path \in Seq(Frames) /\ <<>> \o r \in Seq(Frames)
      BY <1>2, <2>2, ConcatProperties, EmptySeq
    <3>2. QED
      BY <2>3, <3>1, ConcatEmptySeq
  <2>5. Path(e) = path /\ Path(e)' = Tail(path)
    <3>1. Path(e)' = <<>> \o (<<>> \o r)
      BY <1>4, <1>7, <2>1 DEF Path
    <3>2. QED
      BY <1>7, <1>11, <2>4, <3>1
  <2> HIDE DEF path
  <2>6. ASSUME NEW k \in Nat, Delivered(Peer(e), e, k) PROVE Delivered(Peer(e), e, k)'
    <3> DEFINE p == Peer(e)
    <3>1. /\ got[e] <= k /\ k <= given[p] /\ InOrder(path, got[e], k)
          /\ Holds(path, Eos) => EosWritten(p) /\ k = given[p]
          /\ Holds(path, Fin) => "output" \in shut[p]
      BY <2>5, <2>6 DEF Delivered
    <3>2. /\ Len(path) \in Nat /\ Len(Tail(path)) = Len(path) - 1 /\ Len(path) >= 1
          /\ \A i \in 1..Len(Tail(path)) : Tail(path)[i] = path[i + 1]
      BY <2>3, <2>4, HeadTailProperties, LenProperties, EmptySeq
    <3>3. \A f : Holds(Tail(path), f) => Holds(path, f)
      BY <3>2 DEF Holds
    <3>4. EosWritten(p)' <=> EosWritten(p)
      BY <1>4 DEF EosWritten, Peer
    <3> HIDE DEF p
    <3>5. got[e] = k /\ InOrder(Tail(path), got[e], k)
      BY <1>1, <2>3, <2>4, <3>1, OrderAfterEos
    <3>6. Len(Tail(path)) >= k - got[e]
      BY <3>2, <3>5
    <3>7. Delivered(p, e, k)'
      BY <1>4, <2>5, <3>1, <3>3, <3>4, <3>5, <3>6 DEF Delivered, p
    <3>8. QED
      BY <3>7 DEF p
  <2>7. Len(<<>>) + Len(<<>>) + (IF reader[e] = "room" THEN 1 ELSE 0) <= Memory /\ Len(<<>>) <= MaxQueued
    BY <1>9, RpcStreamAssumption
  <2>8. SourceSound(e)'
    BY <1>1, <1>4, <1>9, <2>1, <2>7 DEF SourceSound
  <2>9. QED
    BY <1>3, <1>4, <1>6, <2>6, <2>8, ReaderStep
<1>12. QED
  BY <1>8, <1>10, <1>11

-----------------------------------------------------------------------------
(* The steps that write to the other end *)

LEMMA PathWritten ==
  ASSUME TypeOK, NEW p \in Ends, QueueKept(p), NEW x \in Frames, net'[p] = Append(net[p], x)
  PROVE  Path(p)' = IF aborted[p] THEN Path(p) ELSE Append(Path(p), x)
<1>1. /\ bufs[p] \in Seq(Frames) /\ queue[p] \in Seq(Frames) /\ Held(p) \in Seq(Frames)
      /\ net[p] \in Seq(Frames)
  BY Types
<1>2. Held(p)' = Held(p)
  BY DEF Held, QueueKept
<1>3. Held(p) \o net'[p] = Held(p) \o Append(net[p], x)
  OBVIOUS
<1>4. bufs[p] \o (queue[p] \o (Held(p) \o Append(net[p], x)))
        = Append(bufs[p] \o (queue[p] \o (Held(p) \o net[p])), x)
  <2> DEFINE b == bufs[p]
             q == queue[p]
             h == Held(p)
             n == net[p]
  <2>1. b \in Seq(Frames) /\ q \in Seq(Frames) /\ h \in Seq(Frames) /\ n \in Seq(Frames)
    BY <1>1
  <2> HIDE DEF b, q, h, n
  <2> DEFINE u == h \o n
             v == q \o u
  <2>2. h \o Append(n, x) = Append(u, x) /\ u \in Seq(Frames)
    BY <2>1, FrameWritten
  <2> HIDE DEF u
  <2>3. q \o Append(u, x) = Append(v, x) /\ v \in Seq(Frames)
    BY <2>1, <2>2, FrameWritten
  <2> HIDE DEF v
  <2>4. b \o Append(v, x) = Append(b \o v, x)
    BY <2>1, <2>3, FrameWritten
  <2>5. QED
    BY <2>2, <2>3, <2>4 DEF b, q, h, n, u, v
<1>5. QED
  BY <1>2, <1>3, <1>4 DEF Path, QueueKept

\* The end of the output may follow anything.
LEMMA FinDelivered ==
  ASSUME TypeOK, NEW e \in Ends, NEW p \in Ends, NEW k \in Nat, Delivered(e, p, k),
         QueueKept(p), net'[p] = net[p] \/ net'[p] = Append(net[p], Fin),
         "output" \in shut'[e], EosWritten(e) => EosWritten(e)', given'[e] = given[e]
  PROVE  Delivered(e, p, k)'
<1> DEFINE path == Path(p)
<1>1. /\ got[p] \in Nat /\ got[p] <= k /\ k <= given[e] /\ InOrder(path, got[p], k)
      /\ ~aborted[p] => Len(path) >= k - got[p]
      /\ Holds(path, Eos) => EosWritten(e) /\ k = given[e]
      /\ path \in Seq(Frames)
  BY Types DEF Delivered
<1>2. /\ UNCHANGED <<got[p], aborted[p]>> /\ Fin \in Frames /\ Eos \in Frames
  BY DEF QueueKept, Frames
<1>3. CASE Path(p)' = path
  BY <1>1, <1>2, <1>3 DEF Delivered
<1>4. CASE ~aborted[p] /\ Path(p)' = Append(path, Fin)
  <2> HIDE DEF path
  <2>1. /\ InOrder(Append(path, Fin), got[p], k)
        /\ \A f \in Frames : Holds(Append(path, Fin), f) => Holds(path, f) \/ Fin = f
    BY <1>1, <1>2, <1>4, OrderAfterWrite
  <2>2. Len(Append(path, Fin)) >= k - got[p]
    <3>1. Len(path) \in Nat /\ Len(Append(path, Fin)) = Len(path) + 1
      BY <1>1, <1>2, LenProperties, AppendProperties
    <3>2. QED
      BY <1>1, <1>4, <3>1
  <2>3. Holds(Append(path, Fin), Eos) => Holds(path, Eos)
    BY <1>2, <2>1, MarkFacts
  <2>4. QED
    BY <1>1, <1>2, <1>4, <2>1, <2>2, <2>3 DEF Delivered
<1>5. Path(p)' = path \/ (~aborted[p] /\ Path(p)' = Append(path, Fin))
  <2>1. CASE net'[p] = net[p]
    BY <2>1, KeptPath
  <2>2. CASE net'[p] = Append(net[p], Fin)
    BY <1>2, <2>2, PathWritten
  <2>3. QED
    BY <2>1, <2>2
<1>6. QED
  BY <1>3, <1>4, <1>5

\* The invariant from a step of end e that the other end may see.
LEMMA BothStep ==
  ASSUME IInv, TypeOK', NEW e \in Ends, NEW p \in Ends, p = Peer(e),
         SinkSound(e)', SourceSound(e)', SenderKept(p), QueueKept(p),
         \A k \in Nat : Delivered(e, p, k) /\ Sending(e, k) => Direction(e, p)',
         \A k \in Nat : Delivered(p, e, k) => Delivered(p, e, k)'
  PROVE  IInv'
<1>1. Peer(p) = e /\ \A d \in Ends : d = e \/ d = p
  BY EndFacts
<1>2. Direction(e, p)'
  BY DEF IInv, Direction
<1>3. Direction(p, e)'
  <2>1. PICK k \in Nat : Delivered(p, e, k) /\ Sending(p, k)
    BY <1>1 DEF IInv, Direction
  <2>2. Sending(p, k)'
    BY <2>1, KeptSending
  <2>3. QED
    BY <2>1, <2>2 DEF Direction
<1>4. SinkSound(p)' /\ SourceSound(p)'
  BY KeptSink, KeptSource DEF IInv
<1>5. ASSUME NEW d \in Ends PROVE Direction(d, Peer(d))' /\ SinkSound(d)' /\ SourceSound(d)'
  <2>1. CASE d = e
    BY <1>2, <2>1
  <2>2. CASE d = p
    BY <1>1, <1>3, <1>4, <2>2
  <2>3. QED
    BY <1>1, <2>1, <2>2
<1>6. QED
  BY <1>5 DEF IInv

LEMMA WriteBufClosedKeeps ==
  ASSUME IInv, NEW e \in Ends, WriteBufClosed(e)
  PROVE  IInv'
<1> USE DEF app, sink, src, frames, closed, socket
<1> DEFINE p == Peer(e)
<1>1. p \in Ends /\ p # e
  BY EndFacts
<1>2. TypeOK'
  BY SourceTypeStep DEF IInv
<1>3. UNCHANGED <<given, writer, ex, sends, loop, got, source, bufs, reader, held, queue, aborted>>
  BY DEF WriteBufClosed
<1>4. /\ error'[e] = TRUE /\ error'[p] = error[p] /\ "output" \in shut'[e]
      /\ shut[e] \subseteq shut'[e] /\ shut'[p] = shut[p]
  BY <1>1 DEF WriteBufClosed, IInv, TypeOK
<1>5. net'[e] = net[e] /\ (net'[p] = net[p] \/ net'[p] = Append(net[p], Fin))
  <2>1. net' = net \/ net' = [net EXCEPT ![p] = Append(@, Fin)]
    BY DEF WriteBufClosed
  <2>2. DOMAIN net = Ends
    BY DEF IInv, TypeOK
  <2> HIDE DEF p
  <2>3. QED
    BY <1>1, <2>1, <2>2
<1>6. p = Peer(e)
  OBVIOUS
<1> HIDE DEF p
<1>7. \A d \in Ends : SenderKept(d) /\ QueueKept(d)
  BY <1>1, <1>3, <1>4, <1>6, EndFacts DEF SenderKept, SinkKept, QueueKept
<1>8. /\ SinkSound(e)' /\ SinkSound(p)' /\ SourceSound(e)'
      /\ (EosWritten(e) => EosWritten(e)') /\ (EosWritten(p) => EosWritten(p)')
  BY <1>1, <1>7, KeptSink, KeptSource DEF IInv
<1>9. ASSUME NEW k \in Nat, Delivered(e, p, k), Sending(e, k) PROVE Direction(e, p)'
  <2>1. Delivered(e, p, k)'
    BY <1>1, <1>3, <1>4, <1>5, <1>7, <1>8, <1>9, FinDelivered DEF IInv
  <2>2. Sending(e, k)'
    BY <1>7, <1>9, KeptSending
  <2>3. QED
    BY <2>1, <2>2 DEF Direction
<1>10. ASSUME NEW k \in Nat, Delivered(p, e, k) PROVE Delivered(p, e, k)'
  <2>1. Path(e)' = Path(e)
    BY <1>5, <1>7, KeptPath
  <2>2. given[p] \in Nat /\ given'[p] = given[p] /\ got[e] \in Nat /\ given[p] <= given'[p]
    BY <1>1, <1>3, Types DEF IInv
  <2>3. QED
    BY <1>1, <1>3, <1>4, <1>8, <1>10, <2>1, <2>2, KeptDelivered
<1>11. QED
  BY <1>1, <1>2, <1>6, <1>7, <1>8, <1>9, <1>10, BothStep

LEMMA ReadEofKeeps ==
  ASSUME IInv, NEW e \in Ends, ReadEof(e)
  PROVE  IInv'
<1> USE DEF app, sink, src, frames, closed, socket
<1> DEFINE p == Peer(e)
<1>1. p \in Ends /\ p # e /\ Peer(p) = e
  BY EndFacts
<1>2. TypeOK'
  BY SourceTypeStep DEF IInv
<1>3. UNCHANGED <<given, writer, ex, sends, loop, got, bufs, held>>
  BY DEF ReadEof
<1>4. /\ reader[e] \in {"leaving", "reading"}
      /\ reader' = [reader EXCEPT ![e] = "ended"] /\ error' = [error EXCEPT ![e] = TRUE]
      /\ queue' = [queue EXCEPT ![e] = <<>>] /\ aborted' = [aborted EXCEPT ![e] = TRUE]
      /\ source' = [source EXCEPT ![e] = IF @ = "waiting" THEN "refused" ELSE @]
  BY DEF ReadEof, ReaderEnds
<1>5. /\ reader'[e] = "ended" /\ error'[e] = TRUE /\ queue'[e] = <<>> /\ aborted'[e] = TRUE
      /\ source'[e] = IF source[e] = "waiting" THEN "refused" ELSE source[e]
      /\ UNCHANGED <<reader[p], error[p], queue[p], aborted[p], source[p]>>
  BY <1>1, <1>4 DEF IInv, TypeOK
<1>6. "output" \in shut'[e] /\ shut[e] \subseteq shut'[e] /\ shut'[p] = shut[p]
  <2>1. shut' = [shut EXCEPT ![e] = @ \cup (IF e = Server THEN {"input", "output"} ELSE {"output"})]
    BY DEF ReadEof, ReaderEnds
  <2>2. DOMAIN shut = Ends
    BY DEF IInv, TypeOK
  <2>3. QED
    BY <1>1, <2>1, <2>2
<1>7. net'[e] = net[e] /\ (net'[p] = net[p] \/ net'[p] = Append(net[p], Fin))
  <2>1. net' = net \/ net' = [net EXCEPT ![p] = Append(@, Fin)]
    BY DEF ReadEof, ReaderEnds
  <2>2. DOMAIN net = Ends
    BY DEF IInv, TypeOK
  <2> HIDE DEF p
  <2>3. QED
    BY <1>1, <2>1, <2>2
<1>8. p = Peer(e)
  OBVIOUS
<1> HIDE DEF p
<1>9. \A d \in Ends : SenderKept(d)
  BY <1>1, <1>3, <1>5, <1>6, <1>8, EndFacts DEF SenderKept, SinkKept
<1>10. QueueKept(p)
  BY <1>3, <1>5 DEF QueueKept
<1>11. /\ SinkSound(e)' /\ (EosWritten(e) => EosWritten(e)') /\ (EosWritten(p) => EosWritten(p)')
  BY <1>1, <1>9, KeptSink DEF IInv
<1>12. SourceSound(e)'
  <2>1. SourceSound(e) /\ Len(<<>>) = 0 /\ Len(bufs[e]) \in Nat /\ Len(queue[e]) \in Nat
        /\ Memory \in Nat /\ MaxQueued \in Nat
    BY Types, LenProperties, RpcStreamAssumption DEF IInv
  <2>2. Len(<<>>) + Len(bufs[e]) + 0 <= Memory /\ Len(<<>>) <= MaxQueued
    <3> DEFINE l == Len(queue[e])
               m == Len(bufs[e])
    <3>1. l + m + (IF reader[e] = "room" THEN 1 ELSE 0) <= Memory /\ l \in Nat /\ m \in Nat
      BY <2>1 DEF SourceSound
    <3> HIDE DEF l, m
    <3>2. 0 + m + 0 <= Memory /\ 0 <= MaxQueued
      BY <1>4, <2>1, <3>1
    <3>3. QED
      BY <2>1, <3>2 DEF m
  <2>3. QED
    BY <1>3, <1>5, <2>1, <2>2 DEF SourceSound
<1>13. ASSUME NEW k \in Nat, Delivered(e, p, k), Sending(e, k) PROVE Direction(e, p)'
  <2>1. Delivered(e, p, k)'
    BY <1>1, <1>3, <1>6, <1>7, <1>10, <1>11, <1>13, FinDelivered DEF IInv
  <2>2. Sending(e, k)'
    BY <1>9, <1>13, KeptSending
  <2>3. QED
    BY <2>1, <2>2 DEF Direction
<1>14. ASSUME NEW k \in Nat, Delivered(p, e, k) PROVE Delivered(p, e, k)'
  <2> DEFINE b == bufs[e]
             r == queue[e] \o (Held(e) \o net[e])
  <2>1. ~aborted[e]
    BY <1>4 DEF IInv, SourceSound
  <2>2. Path(e) = b \o r /\ Path(e)' = b
    BY <1>3, <1>5, <2>1 DEF Path
  <2>3. b \in Seq(Frames) /\ r \in Seq(Frames)
    BY Types, ConcatProperties DEF IInv
  <2>4. /\ got[e] <= k /\ k <= given[p] /\ InOrder(b \o r, got[e], k)
        /\ Holds(b \o r, Eos) => EosWritten(p) /\ k = given[p]
        /\ Holds(b \o r, Fin) => "output" \in shut[p]
    BY <1>14, <2>2 DEF Delivered
  <2> HIDE DEF b, r
  <2>5. InOrder(b, got[e], k) /\ \A f : Holds(b, f) => Holds(b \o r, f)
    BY <2>3, <2>4, OrderOfFront
  <2>6. QED
    BY <1>3, <1>5, <1>6, <1>11, <2>2, <2>4, <2>5 DEF Delivered
<1>15. QED
  BY <1>1, <1>2, <1>8, <1>9, <1>10, <1>11, <1>12, <1>13, <1>14, BothStep

\* Nothing was written behind the messages as long as one is being written.
LEMMA NextFrame ==
  ASSUME TypeOK, NEW e \in Ends, NEW p \in Ends, NEW k \in Nat, Delivered(e, p, k),
         ~EosWritten(e), "output" \notin shut[e], NEW x \in Frames,
         x = k + 1 \/ x = Eos,
         QueueKept(p), net'[p] = Append(net[p], x)
  PROVE  LET m == IF x = Eos THEN k ELSE k + 1
         IN  /\ InOrder(Path(p)', got[p], m)
             /\ ~aborted[p] => Len(Path(p)') >= m - got[p]
             /\ ~Holds(Path(p)', Fin)
             /\ Holds(Path(p)', Eos) => x = Eos
<1> DEFINE path == Path(p)
           m == IF x = Eos THEN k ELSE k + 1
           g == got[p]
<1>1. /\ g \in Nat /\ g <= k /\ InOrder(path, g, k)
      /\ ~aborted[p] => Len(path) >= k - g
      /\ ~Holds(path, Eos) /\ ~Holds(path, Fin)
      /\ path \in Seq(Frames) /\ Len(path) \in Nat
      /\ Fin \in Frames /\ Eos \in Frames /\ x # Fin
  BY Types, LenProperties, MarkFacts DEF Delivered, Frames
<1>2. Path(p)' = IF aborted[p] THEN path ELSE Append(path, x)
  BY PathWritten
<1> HIDE DEF path, g
<1>3. Len(path) <= k - g
  <2> SUFFICES ASSUME ~(Len(path) <= k - g) PROVE FALSE
    OBVIOUS
  <2>1. k - g + 1 \in 1..Len(path) /\ k - g + 1 > k - g
    BY <1>1
  <2>2. path[k - g + 1] \in {Eos, Fin}
    BY <2>1 DEF InOrder, path, g, Delivered
  <2>3. QED
    BY <1>1, <2>1, <2>2 DEF Holds
<1>4. CASE aborted[p]
  <2>1. InOrder(path, g, k + 1)
    <3>1. ASSUME NEW i \in 1..Len(path)
          PROVE  /\ i <= (k + 1) - g => path[i] = g + i
                 /\ i > (k + 1) - g => path[i] \in {Eos, Fin} /\ (path[i] = Eos => i = (k + 1) - g + 1)
      <4>1. i <= k - g /\ ~(i > (k + 1) - g)
        BY <1>1, <1>3
      <4>2. path[i] = g + i
        BY <1>1, <4>1 DEF InOrder
      <4>3. QED
        BY <4>1, <4>2
    <3>2. QED
      BY <3>1 DEF InOrder
  <2>2. InOrder(path, g, m)
    BY <1>1, <2>1
  <2>3. QED
    BY <1>1, <1>2, <1>4, <2>2 DEF g
<1>5. CASE ~aborted[p]
  <2>1. Len(path) = k - g
    BY <1>1, <1>3, <1>5
  <2>2. /\ x = k + 1 => InOrder(Append(path, x), g, k + 1)
        /\ x = Eos => InOrder(Append(path, x), g, k)
        /\ \A f \in Frames : Holds(Append(path, x), f) => Holds(path, f) \/ x = f
    BY <1>1, <2>1, OrderAfterWrite
  <2>3. InOrder(Append(path, x), g, m)
    BY <2>2
  <2>4. Len(Append(path, x)) = Len(path) + 1
    BY <1>1, AppendProperties
  <2>5. Len(Append(path, x)) >= m - g
    BY <1>1, <2>1, <2>4
  <2>6. ~Holds(Append(path, x), Fin) /\ (Holds(Append(path, x), Eos) => x = Eos)
    BY <1>1, <2>2
  <2> HIDE DEF m
  <2>7. QED
    BY <1>2, <1>5, <2>3, <2>5, <2>6 DEF g, m
<1>6. QED
  BY <1>4, <1>5

LEMMA WrittenKeeps ==
  ASSUME IInv, NEW e \in Ends, Written(e)
  PROVE  IInv'
<1> USE DEF app, sink, src, frames, closed, socket
<1> DEFINE p == Peer(e)
           c == sends[e]
           n == given[e]
<1>1. /\ p \in Ends /\ p # e /\ Peer(p) = e
      /\ c \in Seq(Call) /\ n \in Nat /\ Len(c) \in Nat /\ DOMAIN c = 1..Len(c) /\ SinkSound(e)
      /\ Direction(e, p)
  BY EndFacts, Types DEF IInv
<1>2. TypeOK'
  BY SinkTypeStep DEF IInv
<1>3. PICK i \in 1..Len(c) :
        /\ c[i].state = "writing"
        /\ sends' = [sends EXCEPT ![e][i].state = "sent"]
        /\ \/ /\ ~broken /\ "output" \notin shut[e]
              /\ net' = [net EXCEPT ![p] = Append(@, c[i].msg)]
              /\ loop' = [loop EXCEPT ![e] = IF error[e] THEN "ended" ELSE "waiting"]
              /\ UNCHANGED error
           \/ /\ error' = [error EXCEPT ![e] = TRUE]
              /\ loop' = [loop EXCEPT ![e] = "ended"]
              /\ UNCHANGED net
        /\ UNCHANGED <<given, writer, ex, got, source, bufs, reader, held, queue, aborted, shut>>
  BY <1>1 DEF Written
<1> DEFINE d == [c EXCEPT ![i].state = "sent"]
           x == c[i].msg
<1>4. /\ Len(d) = Len(c) /\ \A j \in 1..Len(c) : d[j].msg = c[j].msg
      /\ \A j \in 1..Len(c) : d[j].state = IF j = i THEN "sent" ELSE c[j].state
  BY <1>1, CallChanged DEF SendState
<1>5. /\ sends'[e] = d /\ sends'[p] = sends[p] /\ loop'[p] = loop[p]
      /\ error'[p] = error[p] /\ net'[e] = net[e]
      /\ \/ /\ "output" \notin shut[e] /\ net'[p] = Append(net[p], x)
            /\ error'[e] = error[e] /\ loop'[e] = IF error[e] THEN "ended" ELSE "waiting"
         \/ /\ net'[p] = net[p] /\ error'[e] = TRUE /\ loop'[e] = "ended"
  <2>1. sends' = [sends EXCEPT ![e] = d] /\ DOMAIN sends = Ends /\ DOMAIN loop = Ends
        /\ DOMAIN error = Ends /\ DOMAIN net = Ends
    BY <1>3 DEF IInv, TypeOK
  <2> HIDE DEF d, p, x
  <2>2. sends'[e] = d /\ sends'[p] = sends[p]
    BY <1>1, <2>1
  <2>3. CASE /\ "output" \notin shut[e]
             /\ net' = [net EXCEPT ![p] = Append(@, x)]
             /\ loop' = [loop EXCEPT ![e] = IF error[e] THEN "ended" ELSE "waiting"]
             /\ UNCHANGED error
    BY <1>1, <2>1, <2>2, <2>3
  <2>4. CASE /\ error' = [error EXCEPT ![e] = TRUE]
             /\ loop' = [loop EXCEPT ![e] = "ended"]
             /\ UNCHANGED net
    BY <1>1, <2>1, <2>2, <2>4
  <2>5. QED
    BY <1>3, <2>3, <2>4 DEF x
<1>6. p = Peer(e)
  OBVIOUS
<1> HIDE DEF p
<1>7. ASSUME NEW k \in Nat, NEW h \in 0..Len(c), InTurn(c, k, n, h)
      PROVE  /\ h + 1 \in 0..Len(d)
             /\ x = k + 1 \/ (x = Eos /\ k = n)
             /\ x = k + 1 /\ k + 1 <= n =>
                  /\ InTurn(d, k + 1, n, h + 1)
                  /\ Complete(c, k, n, h, writer[e] = "open") => Complete(d, k + 1, n, h + 1, writer[e] = "open")
             /\ Len(c) = 1 => InTurn(d, k, n, h + 1) /\ Complete(d, k, n, h + 1, FALSE)
  <2>1. c \in Seq(Call) /\ n \in Nat /\ i \in 1..Len(c) /\ c[i].state = "writing"
    BY <1>1, <1>3
  <2> HIDE DEF c, n
  <2>2. h + 1 \in 0..Len(d)
    <3>1. h + 1 \in 0..Len(c)
      BY <1>7, <2>1, TurnWriting
    <3> HIDE DEF d
    <3>2. QED
      BY <1>4, <3>1
  <2>3. x = k + 1 \/ (x = Eos /\ k = n)
    BY <1>7, <2>1, TurnWriting
  <2>4. x = k + 1 /\ k + 1 <= n => InTurn(d, k + 1, n, h + 1)
    BY <1>7, <2>1, TurnWritten
  <2>5. x = k + 1 /\ k + 1 <= n =>
          (Complete(c, k, n, h, writer[e] = "open") => Complete(d, k + 1, n, h + 1, writer[e] = "open"))
    BY <1>7, <2>1, TurnWritten
  <2>6. Len(c) = 1 => InTurn(d, k, n, h + 1) /\ Complete(d, k, n, h + 1, FALSE)
    BY <1>7, <2>1, TurnWritten
  <2>7. QED
    BY <2>2, <2>3, <2>4, <2>5, <2>6
<1> HIDE DEF d
<1>8. loop[e] = "writing" /\ ~EosWritten(e)
  BY <1>1, <1>3 DEF SinkSound, EosWritten
<1>9. QueueKept(p) /\ SenderKept(p) /\ QueueKept(e)
  BY <1>3, <1>5 DEF QueueKept, SenderKept, SinkKept
<1>10. SinkSound(e)'
  <2>1. PICK k \in Nat : Sending(e, k)
    BY <1>1 DEF Direction
  <2>2. PICK h \in 0..Len(c) : InTurn(c, k, n, h)
    BY <1>8, <2>1 DEF Sending
  <2>3. \A j \in 1..Len(c) : c[j].state = "writing" => j = i
    <3>1. \A j \in 1..Len(c) : c[j].state = "writing" => j = h + 1
      <4>1. \A j \in 1..Len(c) : j \in 1..h \/ j \in (h + 1)..Len(c)
        BY <1>1
      <4>2. QED
        BY <2>2, <4>1 DEF InTurn
    <3>2. QED
      BY <1>3, <3>1
  <2>4. /\ writer[e] = "closed" => FALSE
        /\ writer[e] = "closing" => Len(d) = 1 /\ d[1].msg = Eos
    BY <1>1, <1>3, <1>4 DEF SinkSound
  <2>5. \A j \in 1..Len(d) : /\ j \in 1..Len(c) /\ d[j].msg = c[j].msg
                             /\ d[j].state = "closing" => c[j].state = "closing"
                             /\ d[j].state # "writing"
    BY <1>4, <2>3
  <2>6. QED
    BY <1>1, <1>3, <1>5, <2>4, <2>5 DEF SinkSound
<1>11. SourceSound(e)'
  BY <1>9, KeptSource DEF IInv
<1>12. ASSUME NEW k \in Nat, Delivered(p, e, k) PROVE Delivered(p, e, k)'
  <2>1. Path(e)' = Path(e)
    BY <1>5, <1>9, KeptPath
  <2>2. given[p] \in Nat /\ given'[p] = given[p] /\ got[e] \in Nat /\ given[p] <= given'[p]
    BY <1>1, <1>3, Types DEF IInv
  <2>3. EosWritten(p) => EosWritten(p)'
    BY <1>1, <1>9, KeptSink DEF IInv
  <2>4. QED
    BY <1>1, <1>3, <1>12, <2>1, <2>2, <2>3, KeptDelivered
<1>13. ASSUME NEW k \in Nat, Delivered(e, p, k), Sending(e, k) PROVE Direction(e, p)'
  <2>1. PICK h \in 0..Len(c) : /\ InTurn(c, k, n, h)
                               /\ ~error[e] => ~ex[e] /\ Complete(c, k, n, h, writer[e] = "open")
    BY <1>8, <1>13 DEF Sending
  <2>2. /\ h + 1 \in 0..Len(d)
        /\ x = k + 1 \/ (x = Eos /\ k = n)
        /\ x = k + 1 /\ k + 1 <= n =>
             /\ InTurn(d, k + 1, n, h + 1)
             /\ Complete(c, k, n, h, writer[e] = "open") => Complete(d, k + 1, n, h + 1, writer[e] = "open")
        /\ Len(c) = 1 => InTurn(d, k, n, h + 1) /\ Complete(d, k, n, h + 1, FALSE)
    BY <1>7, <2>1
  <2>3. CASE loop'[e] = "ended" /\ net'[p] = net[p]
    <3>1. Path(p)' = Path(p)
      BY <1>1, <1>9, <2>3, KeptPath
    <3>2. UNCHANGED <<got[p], aborted[p], given[e], shut[e]>> /\ got[p] \in Nat /\ n \in Nat
      BY <1>1, <1>3, Types DEF IInv
    <3>3. Delivered(e, p, k)'
      BY <1>1, <1>8, <1>13, <3>1, <3>2, KeptDelivered
    <3>4. Sending(e, k)'
      BY <2>3 DEF Sending
    <3>5. QED
      BY <3>3, <3>4 DEF Direction
  <2>4. CASE /\ "output" \notin shut[e] /\ net'[p] = Append(net[p], x)
             /\ error'[e] = error[e] /\ loop'[e] = IF error[e] THEN "ended" ELSE "waiting"
    <3>1. PICK m \in Nat : m = IF x = Eos THEN k ELSE k + 1
      OBVIOUS
    <3>2. x \in Frames /\ (x = k + 1 \/ x = Eos)
      BY <2>2 DEF Frames
    <3>3. /\ InOrder(Path(p)', got[p], m)
          /\ ~aborted[p] => Len(Path(p)') >= m - got[p]
          /\ ~Holds(Path(p)', Fin)
          /\ Holds(Path(p)', Eos) => x = Eos
      <4> HIDE DEF x
      <4>1. QED
        BY <1>1, <1>8, <1>9, <1>13, <2>4, <3>1, <3>2, NextFrame DEF IInv
    <3>4. /\ x = Eos => Len(c) = 1 /\ writer[e] = "closing" /\ i = 1 /\ k = n
          /\ x # Eos => k + 1 <= n /\ x = k + 1
      <4>1. x = Eos => Len(c) = 1 /\ writer[e] = "closing" /\ i = 1
        BY <1>1, <1>3, SinkFacts DEF IInv
      <4>2. x = Eos => k = n
        BY <2>2, MarkFacts
      <4>3. x # Eos => x <= n
        BY <1>1, <1>3, SinkFacts DEF IInv
      <4>4. QED
        BY <2>2, <4>1, <4>2, <4>3
    <3>5. /\ InTurn(d, m, n, h + 1)
          /\ ~error[e] => ~ex[e] /\ Complete(d, m, n, h + 1, writer[e] = "open")
      <4> HIDE DEF x
      <4>1. CASE x = Eos
        <5>1. m = k /\ InTurn(d, k, n, h + 1) /\ Complete(d, k, n, h + 1, FALSE)
          BY <2>2, <3>1, <3>4, <4>1
        <5>2. writer[e] # "open"
          BY <3>4, <4>1
        <5>3. Complete(d, k, n, h + 1, writer[e] = "open")
          BY <5>1, <5>2 DEF Complete
        <5>4. QED
          BY <2>1, <5>1, <5>3
      <4>2. CASE x # Eos
        <5>1. /\ m = k + 1 /\ InTurn(d, k + 1, n, h + 1)
              /\ Complete(c, k, n, h, writer[e] = "open") => Complete(d, k + 1, n, h + 1, writer[e] = "open")
          BY <2>2, <3>1, <3>4, <4>2
        <5>2. QED
          BY <2>1, <5>1
      <4>3. QED
        BY <4>1, <4>2
    <3>6. x = Eos => EosWritten(e)'
      <4>1. x = Eos => Len(d) = 1 /\ d[1].state = "sent" /\ \A j \in 1..Len(d) : j = 1
        BY <1>4, <3>4
      <4>2. QED
        BY <1>3, <1>5, <3>4, <4>1 DEF EosWritten
    <3>7. got[p] <= m /\ m <= n /\ (x = Eos => m = n)
      <4>1. got[p] \in Nat /\ got[p] <= k /\ k <= n
        BY <1>1, <1>13, Types DEF Delivered, IInv
      <4>2. QED
        BY <1>1, <3>1, <3>4, <4>1
    <3> HIDE DEF x
    <3>8. Delivered(e, p, m)'
      BY <1>3, <3>3, <3>6, <3>7 DEF Delivered
    <3>9. Sending(e, m)'
      <4>1. loop'[e] # "ended" => ~error'[e] /\ ~error[e]
        BY <2>4
      <4>2. sends'[e] = d /\ given'[e] = n /\ writer'[e] = writer[e] /\ ex'[e] = ex[e]
        BY <1>3, <1>5
      <4>3. loop'[e] # "ended" =>
              \E l \in 0..Len(d) : /\ InTurn(d, m, n, l)
                                   /\ ~error'[e] => ~ex[e] /\ Complete(d, m, n, l, writer[e] = "open")
        BY <2>2, <3>5, <4>1
      <4>4. QED
        BY <4>2, <4>3 DEF Sending
    <3>10. QED
      BY <3>8, <3>9 DEF Direction
  <2>5. QED
    BY <1>5, <2>3, <2>4
<1>14. QED
  BY <1>1, <1>2, <1>6, <1>9, <1>10, <1>11, <1>12, <1>13, BothStep

-----------------------------------------------------------------------------
(* The invariant *)

LEMMA InitEstablishes == Init => IInv
<1> SUFFICES ASSUME Init PROVE IInv
  OBVIOUS
<1>1. TypeOK
  <2>1. /\ given \in [Ends -> Nat] /\ got \in [Ends -> Nat]
        /\ writer \in [Ends -> {"open", "closing", "closed"}] /\ ex \in [Ends -> BOOLEAN]
        /\ source \in [Ends -> {"idle", "waiting", "ready", "refused",
                                "ending", "failing", "eof", "failed"}]
        /\ loop \in [Ends -> {"waiting", "writing", "ended"}]
        /\ reader \in [Ends -> {"reading", "memory", "room", "leaving", "ended"}]
    BY DEF Init
  <2>2. /\ aborted \in [Ends -> BOOLEAN] /\ error \in [Ends -> BOOLEAN]
        /\ sinkClosed \in [Ends -> BOOLEAN] /\ sourceClosed \in [Ends -> BOOLEAN]
        /\ closing \in [Ends -> {"no", "flushing", "stopping"}] /\ stopped \in [Ends -> BOOLEAN]
        /\ shut \in [Ends -> SUBSET {"input", "output"}] /\ broken \in BOOLEAN
        /\ held \in [Ends -> Frames]
    BY DEF Init, Frames
  <2>3. /\ sends \in [Ends -> Seq([msg : Nat \cup {Eos}, state : SendState])]
        /\ bufs \in [Ends -> Seq(Nat)] /\ queue \in [Ends -> Seq(Frames \ {Fin})]
        /\ net \in [Ends -> Seq(Frames \ {EofMark})]
    BY DEF Init
  <2>4. faults \in 0..MaxFaults
    BY RpcStreamAssumption DEF Init
  <2>5. QED
    BY <2>1, <2>2, <2>3, <2>4 DEF TypeOK
<1>2. Len(<<>>) = 0 /\ 1..0 = {} /\ (0 + 1)..0 = {} /\ 0 \in 0..0 /\ 0 \in Nat
      /\ Memory \in Nat /\ MaxQueued \in Nat
  BY RpcStreamAssumption
<1>3. ASSUME NEW e \in Ends
      PROVE  /\ given[e] = 0 /\ got[e] = 0 /\ writer[e] = "open" /\ sends[e] = <<>>
             /\ loop[e] = "waiting" /\ ~error[e] /\ ~ex[e]
             /\ source[e] = "idle" /\ bufs[e] = <<>> /\ reader[e] = "reading"
             /\ queue[e] = <<>> /\ ~aborted[e] /\ net[e] = <<>>
  BY DEF Init
<1>4. ASSUME NEW e \in Ends PROVE SinkSound(e) /\ SourceSound(e)
  <2>1. SinkSound(e)
    BY <1>2, <1>3 DEF SinkSound
  <2>2. SourceSound(e)
    <3>1. Len(queue[e]) = 0 /\ Len(bufs[e]) = 0 /\ 0 + 0 + 0 <= Memory /\ 0 <= MaxQueued
      BY <1>2, <1>3
    <3>2. \A i \in 1..Len(queue[e]) : queue[e][i] \in Nat
      BY <1>2, <3>1
    <3>3. QED
      BY <1>3, <3>1, <3>2 DEF SourceSound
  <2>3. QED
    BY <2>1, <2>2
<1>5. ASSUME NEW e \in Ends PROVE Path(e) = <<>>
  <2>1. <<>> \o (<<>> \o (<<>> \o <<>>)) = <<>>
    BY EmptySeq, ConcatEmptySeq
  <2>2. QED
    BY <1>3, <2>1 DEF Path, Held
<1>6. ASSUME NEW e \in Ends, NEW p \in Ends PROVE Direction(e, p)
  <2>1. Delivered(e, p, 0)
    BY <1>2, <1>3, <1>5 DEF Delivered, InOrder, Holds
  <2>2. Sending(e, 0)
    <3>1. InTurn(<<>>, 0, 0, 0) /\ Complete(<<>>, 0, 0, 0, TRUE)
      BY <1>2 DEF InTurn, Complete
    <3>2. Complete(<<>>, 0, 0, 0, writer[e] = "open")
      BY <1>3, <3>1 DEF Complete
    <3>3. QED
      BY <1>2, <1>3, <3>1, <3>2 DEF Sending
  <2>3. QED
    BY <1>2, <2>1, <2>2 DEF Direction
<1>7. QED
  BY <1>1, <1>4, <1>6, EndFacts DEF IInv

LEMMA NextPreserves == IInv /\ [Next]_vars => IInv'
<1> SUFFICES ASSUME IInv, [Next]_vars PROVE IInv'
  OBVIOUS
<1>1. CASE UNCHANGED vars
  <2>1. UNCHANGED <<given, writer, ex, sends, got, source, bufs, loop, reader, held, queue, aborted,
                    error, sinkClosed, sourceClosed, closing, stopped, shut, net, broken, faults>>
    BY <1>1 DEF vars, app, sink, src, frames, closed, socket
  <2>2. TypeOK'
    BY <2>1 DEF IInv, TypeOK
  <2>3. \A d \in Ends : SenderKept(d)
    BY <2>1 DEF SenderKept, SinkKept
  <2>4. QED
    BY <2>1, <2>2, <2>3, OtherStep
<1>2. ASSUME NEW e \in Ends, Write(e) PROVE IInv'
  BY <1>2, WriteKeeps
<1>3. ASSUME NEW e \in Ends, CloseSink(e) PROVE IInv'
  BY <1>3, CloseSinkKeeps
<1>4. ASSUME NEW e \in Ends, Read(e) PROVE IInv'
  BY <1>4, ReadKeeps
<1>5. ASSUME NEW e \in Ends, Connection(e) PROVE IInv'
  BY <1>5, SendKeeps, SentKeeps, EosSentKeeps, LoopTakesKeeps, LoopBrokenKeeps, WrittenKeeps,
     ReadFrameKeeps, ReadEofKeeps, ProcessIncomingKeeps, PushEventuallyKeeps, StreamReceiveKeeps,
     ConsumeKeeps, ReceiveFailsKeeps, WriteBufClosedKeeps, StopSendLoopKeeps, CloseDoneKeeps
     DEF Connection
<1>6. CASE NetworkBreaks \/ ParentStops
  BY <1>6, FaultsKeep
<1>7. CASE AtRest
  BY <1>1, <1>7 DEF AtRest
<1>8. QED
  BY <1>1, <1>2, <1>3, <1>4, <1>5, <1>6, <1>7 DEF Next

LEMMA InvariantHolds == Spec => []IInv
BY InitEstablishes, NextPreserves, PTL DEF Spec

\* What the assertion of stream_receive() and the limits of the reader rest on
\* holds for every memory and every length of the queue: the end of the stream
\* is alone in the queue, with nothing waiting behind it.
THEOREM EosIsLastHolds == Spec => []EosIsLast
<1>1. IInv => EosIsLast
  <2> SUFFICES ASSUME IInv, NEW e \in Ends
               PROVE  /\ \A i \in DOMAIN queue[e] :
                           queue[e][i] \in {Eos, EofMark} => /\ i = Len(queue[e])
                                                             /\ reader[e] \notin {"memory", "room"}
                      /\ Used(e) <= Memory
                      /\ Len(queue[e]) <= MaxQueued
    BY DEF EosIsLast, IInv
  <2>1. TypeOK /\ SourceSound(e) /\ DOMAIN queue[e] = 1..Len(queue[e])
        /\ Len(queue[e]) \in Nat /\ Len(bufs[e]) \in Nat /\ Memory \in Nat
    BY Types, LenProperties, RpcStreamAssumption DEF IInv
  <2>2. CASE \A i \in 1..Len(queue[e]) : queue[e][i] \in Nat
    <3>1. Used(e) <= Memory
      BY <2>1, <2>2, UsedIs DEF SourceSound
    <3>2. \A i \in DOMAIN queue[e] : queue[e][i] \notin {Eos, EofMark}
      BY <2>1, <2>2, MarkFacts
    <3>3. QED
      BY <2>1, <3>1, <3>2 DEF SourceSound
  <2>3. CASE queue[e] = <<Eos>>
    <3>1. reader[e] \notin {"memory", "room"}
      BY <2>3, EosQueued
    <3>2. Used(e) <= Memory
      <4>1. Used(e) = Memory + (IF reader[e] = "room" THEN 1 ELSE 0)
        BY <2>1, <2>3, UsedIs
      <4>2. QED
        BY <2>1, <3>1, <4>1
    <3>3. Len(queue[e]) = 1 /\ \A i \in DOMAIN queue[e] : i = 1
      BY <2>1, <2>3
    <3>4. QED
      BY <2>1, <3>1, <3>2, <3>3 DEF SourceSound
  <2>4. QED
    BY <2>1, <2>2, <2>3 DEF SourceSound
<1>2. QED
  BY <1>1, InvariantHolds, PTL

-----------------------------------------------------------------------------
(* Each direction implements StreamChannel *)

WriterRests(e) == given'[e] = given[e] /\ (writer'[e] = "open" <=> writer[e] = "open")

ReaderRests(e) == got'[e] = got[e] /\ Outcome(source'[e]) = Outcome(source[e])

WriterMoves(e) ==
  /\ writer[e] = "open"
  /\ \/ given[e] < Messages[e] /\ given'[e] = given[e] + 1 /\ writer'[e] = "open"
     \/ given'[e] = given[e] /\ writer'[e] # "open"

ReaderMoves(e) ==
  /\ Outcome(source[e]) = "open"
  /\ \/ /\ got[e] < given[Peer(e)] /\ got'[e] = got[e] + 1
        /\ Outcome(source'[e]) = "open"
     \/ /\ got'[e] = got[e] /\ Outcome(source'[e]) = "eof"
        /\ writer[Peer(e)] # "open" /\ got[e] = given[Peer(e)]
     \/ got'[e] = got[e] /\ Outcome(source'[e]) = "failed"

OneMoves ==
  \/ \A d \in Ends : WriterRests(d) /\ ReaderRests(d)
  \/ \E e \in Ends : /\ WriterMoves(e) /\ \A d \in Ends \ {e} : WriterRests(d)
                     /\ \A d \in Ends : ReaderRests(d)
  \/ \E e \in Ends : /\ ReaderMoves(e) /\ \A d \in Ends \ {e} : ReaderRests(d)
                     /\ \A d \in Ends : WriterRests(d)

\* The message a source has is the next one, and was given.
LEMMA NextMessage ==
  ASSUME IInv, NEW e \in Ends, bufs[e] # <<>>
  PROVE  Head(bufs[e]) = got[e] + 1 /\ got[e] < given[Peer(e)]
<1> DEFINE b == bufs[e]
           r == queue[e] \o (Held(e) \o net[e])
           path == Path(e)
           p == Peer(e)
<1>1. p \in Ends /\ Peer(p) = e
  BY EndFacts
<1>2. /\ b \in Seq(Nat) /\ b \in Seq(Frames) /\ path \in Seq(Frames) /\ r \in Seq(Frames)
      /\ got[e] \in Nat /\ given[p] \in Nat
  BY <1>1, Types, ConcatProperties DEF IInv
<1>3. Head(b) \in Nat
  BY <1>2, HeadTailProperties
<1>4. path # <<>> /\ Head(path) = Head(b)
  BY <1>2, PathEnds DEF Path
<1>5. PICK k \in Nat : got[e] <= k /\ k <= given[p] /\ InOrder(path, got[e], k)
  BY <1>1 DEF IInv, Direction, Delivered
<1> HIDE DEF path
<1>6. got[e] < k /\ Head(path) = got[e] + 1
  BY <1>2, <1>3, <1>4, <1>5, OrderAfterRead
<1>7. QED
  BY <1>2, <1>4, <1>5, <1>6

\* When the end of the stream is next, its writer has closed and everything
\* was given to the reader.
LEMMA EosReached ==
  ASSUME IInv, NEW e \in Ends, queue[e] = <<Eos>>
  PROVE  writer[Peer(e)] # "open" /\ got[e] = given[Peer(e)]
<1> DEFINE r == Held(e) \o net[e]
           path == <<Eos>> \o r
           p == Peer(e)
<1>1. p \in Ends /\ Peer(p) = e
  BY EndFacts
<1>2. /\ Held(e) \in Seq(Frames) /\ net[e] \in Seq(Frames) /\ r \in Seq(Frames) /\ Eos \in Frames
      /\ got[e] \in Nat /\ given[p] \in Nat
  BY <1>1, Types, ConcatProperties DEF IInv, Frames
<1>3. bufs[e] = <<>> /\ ~aborted[e]
  <2>1. <<Eos>> # <<>> /\ Len(<<Eos>>) = 1 /\ <<Eos>>[1] = Eos
    OBVIOUS
  <2>2. ~ \A i \in 1..Len(queue[e]) : queue[e][i] \in Nat
    BY <2>1, MarkFacts
  <2>3. QED
    BY <2>1, <2>2 DEF IInv, SourceSound
<1>4. <<Eos>> \in Seq(Frames) /\ <<Eos>> # <<>> /\ Head(<<Eos>>) = Eos
  BY <1>2
<1>5. path # <<>> /\ Head(path) = Eos /\ path \in Seq(Frames)
  BY <1>2, <1>4, PathEnds, ConcatProperties
<1>6. Path(e) = path
  <2>1. Path(e) = <<>> \o path
    BY <1>3 DEF Path
  <2>2. QED
    BY <1>5, <2>1, ConcatEmptySeq
<1> HIDE DEF path
<1>7. PICK k \in Nat : /\ got[e] <= k /\ InOrder(path, got[e], k)
                       /\ Holds(path, Eos) => EosWritten(p) /\ k = given[p]
  BY <1>1, <1>6 DEF IInv, Direction, Delivered
<1>8. got[e] = k
  BY <1>2, <1>5, <1>7, OrderAfterEos
<1>9. Holds(path, Eos)
  <2>1. Len(path) \in Nat /\ Len(path) >= 1 /\ Head(path) = path[1]
    BY <1>5, LenProperties, EmptySeq, HeadTailProperties
  <2>2. QED
    BY <1>5, <2>1 DEF Holds
<1>10. QED
  BY <1>7, <1>8, <1>9 DEF EosWritten

LEMMA RestStep ==
  ASSUME UNCHANGED <<given, writer, got, source>>
  PROVE  OneMoves
BY DEF OneMoves, WriterRests, ReaderRests

\* What a sink and its connection do.
LEMMA WriterStep ==
  ASSUME IInv, NEW e \in Ends,
         Write(e) \/ CloseSink(e) \/ Send(e) \/ Sent(e) \/ EosSent(e) \/ LoopTakes(e)
           \/ LoopBroken(e) \/ Written(e) \/ StopSendLoop(e) \/ WriteBufClosed(e)
  PROVE  OneMoves
<1> USE DEF app, sink, src, frames, closed, socket
<1>1. DOMAIN given = Ends /\ DOMAIN writer = Ends /\ DOMAIN sends = Ends
      /\ \A d \in Ends : DOMAIN sends[d] = 1..Len(sends[d])
  BY Types DEF IInv, TypeOK
<1>2. CASE Write(e)
  <2>1. /\ writer[e] = "open" /\ given[e] < Messages[e] /\ given'[e] = given[e] + 1
        /\ \A d \in Ends \ {e} : given'[d] = given[d]
        /\ UNCHANGED <<writer, got, source>>
    BY <1>1, <1>2 DEF Write
  <2>2. WriterMoves(e) /\ \A d \in Ends \ {e} : WriterRests(d)
    BY <2>1 DEF WriterMoves, WriterRests
  <2>3. \A d \in Ends : ReaderRests(d)
    BY <2>1 DEF ReaderRests
  <2>4. QED
    BY <2>2, <2>3 DEF OneMoves
<1>3. CASE CloseSink(e)
  <2>1. /\ writer[e] = "open" /\ writer'[e] = "closing"
        /\ \A d \in Ends \ {e} : writer'[d] = writer[d]
        /\ UNCHANGED <<given, got, source>>
    BY <1>1, <1>3 DEF CloseSink
  <2>2. WriterMoves(e) /\ \A d \in Ends \ {e} : WriterRests(d)
    BY <2>1 DEF WriterMoves, WriterRests
  <2>3. \A d \in Ends : ReaderRests(d)
    BY <2>1 DEF ReaderRests
  <2>4. QED
    BY <2>2, <2>3 DEF OneMoves
<1>4. CASE EosSent(e)
  <2>1. \E i \in 1..Len(sends[e]) : sends[e][i].msg = Eos
    BY <1>1, <1>4 DEF EosSent
  <2>2. writer[e] # "open"
    BY <2>1, SinkFacts DEF IInv
  <2>3. writer' = writer \/ writer' = [writer EXCEPT ![e] = "closed"]
    BY <1>4 DEF EosSent
  <2>4. UNCHANGED <<given, got, source>>
    BY <1>4 DEF EosSent
  <2>5. \A d \in Ends : WriterRests(d) /\ ReaderRests(d)
    BY <1>1, <2>2, <2>3, <2>4 DEF WriterRests, ReaderRests
  <2>6. QED
    BY <2>5 DEF OneMoves
<1>5. CASE Send(e) \/ Sent(e) \/ LoopTakes(e) \/ LoopBroken(e) \/ Written(e)
           \/ StopSendLoop(e) \/ WriteBufClosed(e)
  <2>1. UNCHANGED <<given, writer, got, source>>
    BY <1>5 DEF Send, Sent, LoopTakes, LoopBroken, Written, StopSendLoop, WriteBufClosed
  <2>2. QED
    BY <2>1, RestStep
<1>6. QED
  BY <1>2, <1>3, <1>4, <1>5

\* What a reader, its source and the closes do.
LEMMA SourceChanges ==
  ASSUME IInv, NEW e \in Ends,
         Read(e) \/ ReadFrame(e) \/ ReadEof(e) \/ ProcessIncoming(e) \/ PushEventually(e)
           \/ StreamReceive(e) \/ Consume(e) \/ ReceiveFails(e) \/ CloseDone(e)
  PROVE  OneMoves
<1> USE DEF app, sink, src, frames, closed, socket
<1>1. DOMAIN got = Ends /\ DOMAIN writer = Ends /\ DOMAIN source = Ends
      /\ \A d \in Ends : DOMAIN sends[d] = 1..Len(sends[d])
  BY Types DEF IInv, TypeOK
<1>2. ASSUME UNCHANGED <<given, writer, got>>, \A d \in Ends \ {e} : source'[d] = source[d],
             Outcome(source'[e]) = Outcome(source[e])
      PROVE  OneMoves
  BY <1>2 DEF OneMoves, WriterRests, ReaderRests
<1>3. ASSUME UNCHANGED <<given, writer>>, ReaderMoves(e),
             \A d \in Ends \ {e} : source'[d] = source[d] /\ got'[d] = got[d]
      PROVE  OneMoves
  BY <1>3 DEF OneMoves, WriterRests, ReaderRests
<1>4. CASE Read(e)
  <2>1. /\ source[e] = "idle" /\ bufs[e] # <<>> /\ got'[e] = Head(bufs[e])
        /\ \A d \in Ends \ {e} : got'[d] = got[d]
        /\ UNCHANGED <<given, writer, source>>
    BY <1>1, <1>4 DEF Read
  <2>2. ReaderMoves(e)
    BY <2>1, NextMessage DEF ReaderMoves, Outcome
  <2>3. QED
    BY <1>3, <2>1, <2>2
<1>5. CASE ReadFrame(e)
  <2>1. UNCHANGED <<given, writer, got, source>>
    BY <1>5 DEF ReadFrame
  <2>2. QED
    BY <2>1, RestStep
<1>6. CASE ReadEof(e) \/ ProcessIncoming(e) \/ PushEventually(e)
  <2>1. UNCHANGED <<given, writer, got>>
    BY <1>6 DEF ReadEof, ProcessIncoming, PushEventually
  <2>2. \/ source' = source
        \/ source' = [source EXCEPT ![e] = IF @ = "waiting" THEN "refused" ELSE @]
        \/ source' = [source EXCEPT ![e] = IF @ = "waiting" THEN "ready" ELSE @]
    BY <1>6 DEF ReadEof, ReaderEnds, ProcessIncoming, PushEventually, Push
  <2>3. /\ \A d \in Ends \ {e} : source'[d] = source[d]
        /\ source'[e] = source[e] \/ (source[e] = "waiting" /\ source'[e] \in {"refused", "ready"})
    BY <1>1, <2>2
  <2>4. Outcome(source'[e]) = Outcome(source[e])
    BY <2>3 DEF Outcome
  <2>5. QED
    BY <1>2, <2>1, <2>3, <2>4
<1>7. CASE StreamReceive(e)
  <2>1. /\ UNCHANGED <<given, writer, got>> /\ source[e] = "idle"
        /\ source'[e] \in {"refused", "ready", "waiting"}
        /\ \A d \in Ends \ {e} : source'[d] = source[d]
    BY <1>1, <1>7 DEF StreamReceive
  <2>2. Outcome(source'[e]) = Outcome(source[e])
    BY <2>1 DEF Outcome
  <2>3. QED
    BY <1>2, <2>1, <2>2
<1>8. CASE Consume(e)
  <2>1. UNCHANGED <<given, writer, got>> /\ source[e] = "ready" /\ ~aborted[e] /\ queue[e] # <<>>
    BY <1>8 DEF Consume, IInv, SourceSound
  <2>2. CASE /\ DataFrames(queue[e]) # <<>> /\ source' = [source EXCEPT ![e] = "idle"]
    <3>1. source'[e] = "idle" /\ \A d \in Ends \ {e} : source'[d] = source[d]
      BY <1>1, <2>2
    <3>2. Outcome(source'[e]) = Outcome(source[e])
      BY <2>1, <3>1 DEF Outcome
    <3>3. QED
      BY <1>2, <2>1, <3>1, <3>2
  <2>3. CASE /\ DataFrames(queue[e]) = <<>>
             /\ \/ source' = [source EXCEPT ![e] = "ending"]
                \/ source' = [source EXCEPT ![e] = "eof"]
    <3>1. source'[e] \in {"ending", "eof"} /\ \A d \in Ends \ {e} : source'[d] = source[d]
      BY <1>1, <2>3
    <3>2. queue[e] = <<Eos>>
      BY <2>1, <2>3, DataFramesAre DEF IInv
    <3>3. ReaderMoves(e)
      BY <2>1, <3>1, <3>2, EosReached DEF ReaderMoves, Outcome
    <3>4. QED
      BY <1>3, <2>1, <3>1, <3>3
  <2>4. QED
    BY <1>8, <2>2, <2>3 DEF Consume, CloseSource
<1>9. CASE ReceiveFails(e)
  <2>1. /\ UNCHANGED <<given, writer, got>> /\ source[e] \in {"refused", "ready"}
        /\ \/ source' = [source EXCEPT ![e] = "failing"]
           \/ source' = [source EXCEPT ![e] = "failed"]
    BY <1>9 DEF ReceiveFails, CloseSource
  <2>2. source'[e] \in {"failing", "failed"} /\ \A d \in Ends \ {e} : source'[d] = source[d]
    BY <1>1, <2>1
  <2>3. ReaderMoves(e)
    BY <2>1, <2>2 DEF ReaderMoves, Outcome
  <2>4. QED
    BY <1>3, <2>1, <2>2, <2>3
<1>10. CASE CloseDone(e)
  <2>1. UNCHANGED <<given, got>>
    BY <1>10 DEF CloseDone
  <2>2. CASE /\ source[e] \in {"ending", "failing"} /\ writer' = writer
             /\ source' = [source EXCEPT ![e] = IF @ = "ending" THEN "eof" ELSE "failed"]
    <3>1. /\ source'[e] = IF source[e] = "ending" THEN "eof" ELSE "failed"
          /\ \A d \in Ends \ {e} : source'[d] = source[d]
      BY <1>1, <2>2
    <3>2. Outcome(source'[e]) = Outcome(source[e])
      BY <2>2, <3>1 DEF Outcome
    <3>3. QED
      BY <1>2, <2>1, <2>2, <3>1, <3>2
  <2>3. CASE /\ \E i \in DOMAIN sends[e] : sends[e][i].state = "closing"
             /\ writer' = [writer EXCEPT ![e] = "closed"] /\ source' = source
    <3>1. writer[e] # "open"
      BY <1>1, <2>3, SinkFacts DEF IInv
    <3>2. \A d \in Ends : WriterRests(d) /\ ReaderRests(d)
      BY <1>1, <2>1, <2>3, <3>1 DEF WriterRests, ReaderRests
    <3>3. QED
      BY <3>2 DEF OneMoves
  <2>4. QED
    BY <1>10, <2>2, <2>3 DEF CloseDone
<1>11. QED
  BY <1>4, <1>5, <1>6, <1>7, <1>8, <1>9, <1>10

LEMMA EachStepIsOneMove == IInv /\ [Next]_vars => OneMoves
<1> SUFFICES ASSUME IInv, [Next]_vars PROVE OneMoves
  OBVIOUS
<1>1. CASE UNCHANGED vars \/ NetworkBreaks \/ ParentStops \/ AtRest
  <2>1. UNCHANGED <<given, writer, got, source>>
    BY <1>1 DEF vars, NetworkBreaks, ParentStops, AtRest, app, sink, src, frames, closed, socket
  <2>2. QED
    BY <2>1, RestStep
<1>2. ASSUME NEW e \in Ends, Write(e) \/ CloseSink(e) \/ Read(e) \/ Connection(e) PROVE OneMoves
  BY <1>2, WriterStep, SourceChanges DEF Connection
<1>3. QED
  BY <1>1, <1>2 DEF Next

LEMMA InitRefines == Init => ToServer!Init /\ ToClient!Init
BY DEF Init, ToServer!Init, ToClient!Init, Ends, Outcome

LEMMA NextRefines ==
  IInv /\ [Next]_vars => /\ [ToServer!Next]_(ToServer!vars)
                         /\ [ToClient!Next]_(ToClient!vars)
<1> SUFFICES ASSUME IInv, [Next]_vars
             PROVE  [ToServer!Next]_(ToServer!vars) /\ [ToClient!Next]_(ToClient!vars)
  OBVIOUS
<1>1. /\ Client \in Ends /\ Server \in Ends /\ Client # Server
      /\ Peer(Server) = Client /\ Peer(Client) = Server
      /\ \A d \in Ends : d = Client \/ d = Server
  BY RpcStreamAssumption DEF Ends, Peer
<1>2. OneMoves
  BY EachStepIsOneMove
<1>3. CASE \A d \in Ends : WriterRests(d) /\ ReaderRests(d)
  <2>1. UNCHANGED ToServer!vars /\ UNCHANGED ToClient!vars
    BY <1>1, <1>3 DEF WriterRests, ReaderRests, ToServer!vars, ToClient!vars
  <2>2. QED
    BY <2>1
<1>4. ASSUME NEW e \in Ends, WriterMoves(e), \A d \in Ends \ {e} : WriterRests(d),
             \A d \in Ends : ReaderRests(d)
      PROVE  [ToServer!Next]_(ToServer!vars) /\ [ToClient!Next]_(ToClient!vars)
  <2>1. CASE e = Client
    <3>1. ToServer!Write \/ ToServer!Close
      BY <1>1, <1>4, <2>1 DEF WriterMoves, ReaderRests, ToServer!Write, ToServer!Close
    <3>2. UNCHANGED ToClient!vars
      BY <1>1, <1>4, <2>1 DEF WriterRests, ReaderRests, ToClient!vars
    <3>3. QED
      BY <3>1, <3>2 DEF ToServer!Next
  <2>2. CASE e = Server
    <3>1. ToClient!Write \/ ToClient!Close
      BY <1>1, <1>4, <2>2 DEF WriterMoves, ReaderRests, ToClient!Write, ToClient!Close
    <3>2. UNCHANGED ToServer!vars
      BY <1>1, <1>4, <2>2 DEF WriterRests, ReaderRests, ToServer!vars
    <3>3. QED
      BY <3>1, <3>2 DEF ToClient!Next
  <2>3. QED
    BY <1>1, <2>1, <2>2
<1>5. ASSUME NEW e \in Ends, ReaderMoves(e), \A d \in Ends \ {e} : ReaderRests(d),
             \A d \in Ends : WriterRests(d)
      PROVE  [ToServer!Next]_(ToServer!vars) /\ [ToClient!Next]_(ToClient!vars)
  <2>1. CASE e = Server
    <3>1. ToServer!Read \/ ToServer!Eof \/ ToServer!Fail
      BY <1>1, <1>5, <2>1 DEF WriterRests, ReaderMoves, ToServer!Read, ToServer!Eof, ToServer!Fail
    <3>2. UNCHANGED ToClient!vars
      BY <1>1, <1>5, <2>1 DEF WriterRests, ReaderRests, ToClient!vars
    <3>3. QED
      BY <3>1, <3>2 DEF ToServer!Next
  <2>2. CASE e = Client
    <3>1. ToClient!Read \/ ToClient!Eof \/ ToClient!Fail
      BY <1>1, <1>5, <2>2 DEF WriterRests, ReaderMoves, ToClient!Read, ToClient!Eof, ToClient!Fail
    <3>2. UNCHANGED ToServer!vars
      BY <1>1, <1>5, <2>2 DEF WriterRests, ReaderRests, ToServer!vars
    <3>3. QED
      BY <3>1, <3>2 DEF ToClient!Next
  <2>3. QED
    BY <1>1, <2>1, <2>2
<1>6. QED
  BY <1>2, <1>3, <1>4, <1>5 DEF OneMoves

\* Both directions are channels for any number of messages and of faults: what
\* a reader is given comes in order and without a gap, and the end of the
\* stream is reported only when the writer has closed and nothing is missing.
THEOREM ImplementsChannelHolds == Spec => ImplementsChannel
BY InitRefines, NextRefines, InvariantHolds, PTL
   DEF Spec, ImplementsChannel, ToServer!Spec, ToClient!Spec
=============================================================================
