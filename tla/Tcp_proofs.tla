------------------------------ MODULE Tcp_proofs ------------------------------
(***************************************************************************)
(* Proofs about a connection, Tcp, for any numbers of bytes, any windows,  *)
(* any sequence numbers to start with and any number of faults below the   *)
(* limit: a sender keeps what is not acknowledged, each byte under its own *)
(* sequence number, and a receiver never has more than its buffer.         *)
(*                                                                         *)
(* Sequence numbers are looked at as places: the SYN of an end has place   *)
(* 0, its bytes 1, 2, 3...  All places of a connection are below half of   *)
(* SeqSpace, so that the signed differences of the code compare them.      *)
(***************************************************************************)
EXTENDS Tcp, DataFacts

-----------------------------------------------------------------------------
(* Places *)

\* The sequence number of a place of e, and the place of a sequence number.
At(e, k) == Plus(Isn[e], k)
Place(e, s) == (s - Isn[e]) % SeqSpace

\* The difference in the ring.
Apart(s, t) == (s - t) % SeqSpace

\* More than any place, or edge of a window, that occurs.
Far(e) == Messages[e] + Buffer + 4

LEMMA Constants ==
  /\ SeqSpace \in Nat \ {0} /\ Mss \in Nat \ {0} /\ Buffer \in Nat \ {0} /\ QueueSpace \in Nat \ {0}
  /\ MaxFaults \in Nat
  /\ Client # Server /\ Ends = {Client, Server}
  /\ \A e \in Ends : /\ Peer(e) \in Ends /\ Peer(e) # e /\ Peer(Peer(e)) = e
                     /\ \A f \in Ends : f # e => f = Peer(e)
                     /\ Isn[e] \in 0..(SeqSpace - 1) /\ Messages[e] \in Nat
                     /\ Far(e) \in Nat /\ 2 * Far(e) < SeqSpace
<1>1. \A e \in Ends : Isn[e] \in 0..(SeqSpace - 1) /\ Messages[e] \in Nat
  BY TcpAssumption
<1>2. SeqSpace \in Nat /\ Buffer \in Nat \ {0}
  BY TcpAssumption
<1>3. \A e \in Ends : Far(e) \in Nat /\ 2 * Far(e) < SeqSpace
  BY <1>1, <1>2, TcpAssumption DEF Far
<1>4. SeqSpace # 0
  <2>1. Client \in Ends
    BY DEF Ends
  <2>2. QED
    BY <1>2, <1>3, <2>1
<1>5. \A e \in Ends : Peer(e) \in Ends /\ Peer(e) # e /\ Peer(Peer(e)) = e /\ \A f \in Ends : f # e => f = Peer(e)
  BY TcpAssumption DEF Peer, Ends
<1>6. QED
  BY <1>1, <1>2, <1>3, <1>4, <1>5, TcpAssumption DEF Ends

\* A sum kept in a ring, when one of its terms already is.
LEMMA PlusOfPlus ==
  ASSUME NEW s \in Int, NEW m \in Int, NEW n \in Int
  PROVE  /\ Plus(s, m) \in Seqs
         /\ Plus(Plus(s, m), n) = Plus(s, m + n)
         /\ \A t \in Int : /\ Apart(Plus(s, m), t) = Apart(s + m, t)
                          /\ Apart(t, Plus(s, m)) = Apart(t, s + m)
<1> DEFINE M == SeqSpace
           q == (s + m) \div M
           r == (s + m) % M
<1>1. M \in Nat \ {0}
  BY Constants
<1>2. q \in Int /\ r \in 0..(M - 1) /\ s + m = q * M + r
  <2> DEFINE a == s + m
  <2>1. a \in Int
    OBVIOUS
  <2> HIDE DEF a, M
  <2>2. a \div M \in Int /\ a = (a \div M) * M + (a % M) /\ a % M \in 0..(M - 1)
    BY <1>1, <2>1, RemainderOf, RemainderType
  <2>3. QED
    BY <2>2 DEF a
<1>3. Plus(s, m) = r
  BY DEF Plus
<1> HIDE DEF q, r
<1>4. \A x \in Int : (r + x) % M = (s + m + x) % M
  <2> TAKE x \in Int
  <2> HIDE DEF M
  <2>1. s + m + x = (r + x) + q * M
    <3>1. q * M \in Int
      BY <1>1, <1>2
    <3>2. QED
      BY <1>2, <3>1
  <2>2. r + x \in Int /\ s + m + x \in Int
    BY <1>1, <1>2
  <2>3. QED
    BY <1>1, <1>2, <2>1, <2>2, SameRemainder
<1>5. \A x \in Int : (x - r) % M = (x - (s + m)) % M
  <2> TAKE x \in Int
  <2> HIDE DEF M
  <2>1. x - r = (x - (s + m)) + q * M
    <3>1. q * M \in Int
      BY <1>1, <1>2
    <3>2. QED
      BY <1>2, <3>1
  <2>2. x - r \in Int /\ x - (s + m) \in Int
    BY <1>1, <1>2
  <2>3. QED
    BY <1>1, <1>2, <2>1, <2>2, SameRemainder
<1>6. Plus(s, m) \in Seqs
  BY <1>2, <1>3 DEF Seqs
<1>7. Plus(Plus(s, m), n) = Plus(s, m + n)
  <2>1. Plus(r, n) = (r + n) % M /\ Plus(s, m + n) = (s + (m + n)) % M
    BY DEF Plus
  <2>2. s + (m + n) = s + m + n
    OBVIOUS
  <2>3. QED
    BY <1>3, <1>4, <2>1, <2>2
<1>8. \A t \in Int : (r - t) % M = (s + m - t) % M
  <2> TAKE t \in Int
  <2>1. -t \in Int /\ r + (-t) = r - t /\ s + m + (-t) = s + m - t
    BY <1>1, <1>2
  <2>2. QED
    BY <1>4, <2>1
<1>9. QED
  BY <1>3, <1>5, <1>6, <1>7, <1>8 DEF Apart

\* A difference in the ring does not see where a sum was taken into it.
LEMMA ApartOfPlus ==
  ASSUME NEW s \in Int, NEW m \in Int, NEW t \in Int
  PROVE  Apart(Plus(s, m), t) = Apart(s + m, t) /\ Apart(t, Plus(s, m)) = Apart(t, s + m)
<1>1. \A x \in Int : Apart(Plus(s, m), x) = Apart(s + m, x) /\ Apart(x, Plus(s, m)) = Apart(x, s + m)
  BY 0 \in Int, PlusOfPlus
<1>2. QED
  BY <1>1

\* What the code does with sequence numbers does the same with their places.
LEMMA Places ==
  ASSUME NEW e \in Ends
  PROVE  /\ At(e, 0) = Isn[e]
         /\ \A s \in Seqs : Place(e, s) \in 0..(SeqSpace - 1) /\ At(e, Place(e, s)) = s
         /\ \A k \in Int : At(e, k) \in Seqs /\ \A n \in Int : Plus(At(e, k), n) = At(e, k + n)
         /\ \A k \in 0..Far(e) : Place(e, At(e, k)) = k
         /\ \A k, n \in 0..Far(e) :
              /\ Minus(At(e, k), At(e, n)) = k - n
              /\ Before(At(e, k), At(e, n)) <=> k < n
              /\ NotAfter(At(e, k), At(e, n)) <=> k <= n
              /\ At(e, k) = At(e, n) <=> k = n
<1> DEFINE M == SeqSpace
           i == Isn[e]
           F == Far(e)
<1>1. M \in Nat \ {0} /\ i \in 0..(M - 1) /\ F \in Nat /\ 2 * F < M
  BY Constants
<1>2. \A x \in Nat : x < M => x % M = x
  BY <1>1, RemainderType
<1>3. \A x \in Int : x % M \in 0..(M - 1)
  BY <1>1, RemainderType
<1>4. \A k \in Int : \A n \in Int : Plus(At(e, k), n) = At(e, k + n) /\ At(e, k) \in Seqs
  <2> TAKE k \in Int
  <2> TAKE n \in Int
  <2>1. i \in Int
    BY <1>1
  <2>2. Plus(i, k) \in Seqs /\ Plus(Plus(i, k), n) = Plus(i, k + n)
    BY <2>1, PlusOfPlus
  <2>3. QED
    BY <2>2 DEF At
<1>5. \A s \in Seqs : Place(e, s) \in 0..(M - 1) /\ At(e, Place(e, s)) = s
  <2> TAKE s \in Seqs
  <2>1. s \in 0..(M - 1) /\ s - i \in Int
    BY <1>1 DEF Seqs
  <2>2. Place(e, s) \in 0..(M - 1)
    BY <1>3, <2>1 DEF Place
  <2>3. At(e, Place(e, s)) = (i + Place(e, s)) % M
    BY DEF At, Plus
  <2>4. Place(e, s) = Plus(s, -i)
    <3>1. s + (-i) = s - i
      BY <1>1, <2>1
    <3>2. QED
      BY <3>1 DEF Place, Plus
  <2>5. Plus(Plus(s, -i), i) = Plus(s, (-i) + i)
    <3>1. s \in Int /\ -i \in Int /\ i \in Int
      BY <1>1, <2>1
    <3>2. QED
      BY <3>1, PlusOfPlus
  <2>6. Plus(s, (-i) + i) = s % M /\ s % M = s
    <3>1. s + ((-i) + i) = s /\ s \in Nat /\ s < M
      BY <1>1, <2>1
    <3>2. QED
      BY <1>2, <3>1 DEF Plus
  <2>7. Plus(Place(e, s), i) = (i + Place(e, s)) % M
    <3>1. Place(e, s) + i = i + Place(e, s)
      BY <1>1, <2>2
    <3>2. QED
      BY <3>1 DEF Plus
  <2>8. QED
    BY <2>2, <2>3, <2>4, <2>5, <2>6, <2>7
<1>6. At(e, 0) = i
  <2>1. i + 0 = i /\ i \in Nat /\ i < M
    BY <1>1
  <2>2. QED
    BY <1>2, <2>1 DEF At, Plus
<1>7. \A k \in Int : \A n \in Int : Apart(At(e, k), At(e, n)) = Apart(k, n)
  <2> TAKE k \in Int
  <2> TAKE n \in Int
  <2>1. At(e, n) \in Int /\ At(e, k) = Plus(i, k) /\ At(e, n) = Plus(i, n) /\ i \in Int /\ i + k \in Int
    <3>1. At(e, k) = Plus(i, k) /\ At(e, n) = Plus(i, n)
      BY DEF At
    <3>2. At(e, n) \in Seqs
      BY <1>4
    <3>3. i \in Int /\ i + k \in Int
      BY <1>1
    <3>4. \A s \in Seqs : s \in Int
      BY <1>1 DEF Seqs
    <3>5. QED
      BY <3>1, <3>2, <3>3, <3>4
  <2>2. Apart(Plus(i, k), At(e, n)) = Apart(i + k, At(e, n))
    <3>1. i \in Int /\ k \in Int /\ At(e, n) \in Int
      BY <2>1
    <3> HIDE DEF i
    <3>2. QED
      BY ONLY <3>1, ApartOfPlus
  <2>3. Apart(i + k, Plus(i, n)) = Apart(i + k, i + n)
    <3>1. i \in Int /\ n \in Int /\ i + k \in Int
      BY <2>1
    <3> HIDE DEF i
    <3>2. QED
      BY ONLY <3>1, ApartOfPlus
  <2>4. Apart(i + k, i + n) = Apart(k, n)
    <3>1. (i + k) - (i + n) = k - n
      BY <2>1
    <3>2. QED
      BY <3>1 DEF Apart
  <2>5. QED
    BY <2>1, <2>2, <2>3, <2>4
<1>8. \A k \in 0..F : Place(e, At(e, k)) = k
  <2> TAKE k \in 0..F
  <2>1. Apart(At(e, k), At(e, 0)) = Apart(k, 0)
    <3>1. k \in Int /\ 0 \in Int
      BY <1>1
    <3>2. QED
      BY <1>7, <3>1
  <2>2. Apart(k, 0) = k
    <3>1. k - 0 = k /\ k \in Nat /\ k < M
      BY <1>1
    <3>2. QED
      BY <1>2, <3>1 DEF Apart
  <2>3. Place(e, At(e, k)) = Apart(At(e, k), At(e, 0))
    BY <1>6 DEF Place, Apart
  <2>4. QED
    BY <2>1, <2>2, <2>3
<1>9. \A k, n \in 0..F : Minus(At(e, k), At(e, n)) = k - n
  <2> TAKE k, n \in 0..F
  <2> DEFINE d == Apart(k, n)
  <2>1. Minus(At(e, k), At(e, n)) = IF 2 * d >= M THEN d - M ELSE d
    <3>1. Apart(At(e, k), At(e, n)) = d
      <4>1. k \in Int /\ n \in Int
        BY <1>1
      <4>2. QED
        BY <1>7, <4>1
    <3>2. Minus(At(e, k), At(e, n)) =
            LET a == Apart(At(e, k), At(e, n)) IN IF 2 * a >= M THEN a - M ELSE a
      BY DEF Minus, Apart
    <3> HIDE DEF M, d
    <3>3. QED
      BY <3>1, <3>2
  <2>2. CASE k >= n
    <3>1. k - n \in Nat /\ k - n < M /\ 2 * (k - n) < M
      BY <1>1, <2>2
    <3>2. d = k - n
      BY <1>2, <3>1 DEF Apart
    <3> HIDE DEF d, M
    <3>3. QED
      BY <1>1, <2>1, <3>1, <3>2
  <2>3. CASE ~ (k >= n)
    <3>1. /\ k - n + M \in Nat /\ k - n + M < M /\ 2 * (k - n + M) >= M
          /\ k - n \in Int /\ k - n + M = (k - n) + 1 * M
      BY <1>1, <2>3
    <3>2. (k - n + M) % M = d
      <4> HIDE DEF M
      <4>1. k - n + M \in Int /\ 1 \in Int
        BY <3>1
      <4>2. (k - n + M) % M = (k - n) % M
        BY <1>1, <3>1, <4>1, SameRemainder
      <4>3. QED
        BY <4>2 DEF Apart, M
    <3>3. (k - n + M) % M = k - n + M
      BY <1>2, <3>1
    <3>4. d = k - n + M
      BY <3>2, <3>3
    <3> HIDE DEF d, M
    <3>5. 2 * d >= M /\ d - M = k - n
      BY <1>1, <3>1, <3>4
    <3>6. QED
      BY <2>1, <3>5
  <2>4. QED
    BY <2>2, <2>3
<1>10. \A k, n \in 0..F : /\ Before(At(e, k), At(e, n)) <=> k < n
                          /\ NotAfter(At(e, k), At(e, n)) <=> k <= n
  <2> TAKE k, n \in 0..F
  <2>1. Minus(At(e, k), At(e, n)) = k - n
    BY <1>9
  <2>2. QED
    BY <1>1, <2>1 DEF Before, NotAfter
<1>11. \A k, n \in 0..F : At(e, k) = At(e, n) <=> k = n
  BY <1>8
<1>12. QED
  BY <1>4, <1>5, <1>6, <1>8, <1>9, <1>10, <1>11

-----------------------------------------------------------------------------
(* Segments that are not acknowledged. *)

Segments == Seq(Seq(Bytes) \ {<<>>})

\* What the first i segments have, one more than the first i - 1.
LEMMA BytesInType ==
  ASSUME NEW d \in Segments
  PROVE  /\ Len(d) \in Nat /\ DOMAIN d = 1..Len(d)
         /\ \A i \in 1..Len(d) : d[i] \in Seq(Bytes) /\ Len(d[i]) \in Nat \ {0}
         /\ BytesIn(d, 0) = 0
         /\ \A i \in 0..Len(d) : BytesIn(d, i) \in Nat
         /\ \A i \in 1..Len(d) : BytesIn(d, i) = BytesIn(d, i - 1) + Len(d[i])
<1> DEFINE w == [i \in DOMAIN d |-> Len(d[i])]
<1>1. Len(d) \in Nat /\ DOMAIN d = 1..Len(d) /\ \A i \in 1..Len(d) : d[i] \in Seq(Bytes) \ {<<>>}
  BY LenProperties, ElementOfSeq DEF Segments
<1>2. \A i \in 1..Len(d) : d[i] \in Seq(Bytes) /\ Len(d[i]) \in Nat \ {0} /\ w[i] = Len(d[i])
  BY <1>1, EmptySeq
<1>3. \A i : BytesIn(d, i) = Total(1..i, w)
  BY DEF BytesIn
<1> HIDE DEF w
<1>4. BytesIn(d, 0) = 0
  <2>1. 1..0 = {}
    OBVIOUS
  <2>2. QED
    BY <1>3, <2>1, TotalOfEmpty
<1>5. \A i \in 0..Len(d) : BytesIn(d, i) \in Nat
  <2> TAKE i \in 0..Len(d)
  <2>1. \A j \in 1..i : w[j] \in Nat
    BY <1>1, <1>2
  <2>2. IsFiniteSet(1..i)
    BY <1>1, FS_Interval
  <2>3. Total(1..i, w) \in Nat
    BY <2>1, <2>2, TotalType
  <2>4. QED
    BY <1>3, <2>3
<1>6. \A i \in 1..Len(d) : BytesIn(d, i) = BytesIn(d, i - 1) + Len(d[i])
  <2> TAKE i \in 1..Len(d)
  <2> DEFINE S == 1..(i - 1)
  <2>1. 1..i = S \cup {i} /\ i \notin S
    BY <1>1
  <2>2. IsFiniteSet(S)
    BY <1>1, FS_Interval
  <2>3. \A j \in S \cup {i} : w[j] \in Nat
    BY <1>1, <1>2
  <2> HIDE DEF S
  <2>4. Total(S \cup {i}, w) = Total(S, w) + w[i]
    BY <2>1, <2>2, <2>3, TotalOfAdded
  <2>5. QED
    BY <1>2, <1>3, <2>1, <2>4 DEF S
<1>7. QED
  BY <1>1, <1>2, <1>4, <1>5, <1>6

\* More segments, more bytes.
LEMMA BytesInGrows ==
  ASSUME NEW d \in Segments, NEW i \in 0..Len(d), NEW j \in 0..Len(d), i < j
  PROVE  BytesIn(d, i) < BytesIn(d, j) /\ BytesIn(d, i) + Len(d[j]) <= BytesIn(d, j)
<1> DEFINE K == {k \in 0..Len(d) : i < k => BytesIn(d, i) + Len(d[k]) <= BytesIn(d, k)}
<1>1. /\ Len(d) \in Nat
      /\ \A k \in 0..Len(d) : BytesIn(d, k) \in Nat
      /\ \A k \in 1..Len(d) : BytesIn(d, k) = BytesIn(d, k - 1) + Len(d[k]) /\ Len(d[k]) \in Nat \ {0}
  BY BytesInType
<1>2. 0 \in K
  BY <1>1
<1>3. \A k \in 0..Len(d) : k \in K /\ k < Len(d) => k + 1 \in K
  <2> SUFFICES ASSUME NEW k \in 0..Len(d), k \in K, k < Len(d), i < k + 1
               PROVE  BytesIn(d, i) + Len(d[k + 1]) <= BytesIn(d, k + 1)
    BY <1>1
  <2>1. k + 1 \in 1..Len(d) /\ (k + 1) - 1 = k
    BY <1>1
  <2>2. BytesIn(d, k + 1) = BytesIn(d, k) + Len(d[k + 1])
    BY <1>1, <2>1
  <2>3. BytesIn(d, i) <= BytesIn(d, k)
    <3>1. CASE i = k
      BY <1>1, <3>1
    <3>2. CASE i < k
      <4>1. k \in 1..Len(d) /\ BytesIn(d, i) + Len(d[k]) <= BytesIn(d, k)
        BY <1>1, <3>2
      <4>2. Len(d[k]) \in Nat /\ BytesIn(d, i) \in Nat /\ BytesIn(d, k) \in Nat
        BY <1>1, <4>1
      <4>3. QED
        BY <4>1, <4>2
    <3>3. QED
      BY <1>1, <3>1, <3>2
  <2>4. Len(d[k + 1]) \in Nat /\ BytesIn(d, i) \in Nat /\ BytesIn(d, k) \in Nat
    BY <1>1, <2>1
  <2>5. QED
    BY <2>2, <2>3, <2>4
<1> HIDE DEF K
<1>4. \A k \in 0..Len(d) : k \in K
  BY <1>1, <1>2, <1>3, LoopReaches
<1>5. BytesIn(d, i) + Len(d[j]) <= BytesIn(d, j)
  BY <1>4 DEF K
<1>6. j \in 1..Len(d)
  BY <1>1
<1>7. Len(d[j]) \in Nat \ {0} /\ BytesIn(d, i) \in Nat /\ BytesIn(d, j) \in Nat
  BY <1>1, <1>6
<1>8. QED
  BY <1>5, <1>7

\* One more segment.
LEMMA BytesInAppend ==
  ASSUME NEW d \in Segments, NEW b \in Seq(Bytes), b # <<>>
  PROVE  /\ Append(d, b) \in Segments
         /\ \A i \in 0..Len(d) : BytesIn(Append(d, b), i) = BytesIn(d, i)
         /\ FlightSize(Append(d, b)) = FlightSize(d) + Len(b)
<1> DEFINE c == Append(d, b)
           w == [i \in DOMAIN d |-> Len(d[i])]
           v == [i \in DOMAIN c |-> Len(c[i])]
<1>1. /\ c \in Segments /\ Len(c) = Len(d) + 1 /\ c[Len(d) + 1] = b
      /\ \A i \in 1..Len(d) : c[i] = d[i]
  BY AppendProperties DEF Segments
<1>2. DOMAIN d = 1..Len(d) /\ DOMAIN c = 1..(Len(d) + 1) /\ Len(d) \in Nat
  BY <1>1, BytesInType
<1> HIDE DEF c
<1>3. \A i \in 0..Len(d) : BytesIn(c, i) = BytesIn(d, i)
  <2> TAKE i \in 0..Len(d)
  <2>1. \A j \in 1..i : v[j] = w[j]
    BY <1>1, <1>2
  <2>2. BytesIn(c, i) = Total(1..i, v) /\ BytesIn(d, i) = Total(1..i, w)
    BY DEF BytesIn
  <2> HIDE DEF v, w
  <2>3. QED
    BY <2>1, <2>2, TotalOfEqual
<1>4. BytesIn(c, Len(d) + 1) = BytesIn(c, Len(d)) + Len(b)
  <2>1. Len(d) + 1 \in 1..Len(c) /\ (Len(d) + 1) - 1 = Len(d)
    BY <1>1, <1>2
  <2>2. QED
    BY <1>1, <2>1, BytesInType
<1>5. Len(d) \in 0..Len(d)
  BY <1>2
<1>6. QED
  BY <1>1, <1>3, <1>4, <1>5 DEF FlightSize, c

-----------------------------------------------------------------------------
(* Stretches of bytes. *)

\* A stretch, what is left when its first bytes go, and its first bytes.
LEMMA StretchType ==
  ASSUME NEW k \in Int, NEW n \in Nat
  PROVE  /\ Stretch(k, n) \in Seq(Int) /\ Len(Stretch(k, n)) = n
         /\ \A i \in 1..n : Stretch(k, n)[i] = k + i
         /\ Stretch(k, n) = <<>> <=> n = 0
<1>1. Stretch(k, n) \in Seq(Int) /\ Len(Stretch(k, n)) = n /\ \A i \in 1..n : Stretch(k, n)[i] = k + i
  BY DEF Stretch
<1>2. Stretch(k, n) = <<>> <=> n = 0
  <2>1. Stretch(k, n) = <<>> => n = 0
    BY <1>1, EmptySeq
  <2>2. n = 0 => Stretch(k, n) = <<>>
    BY <1>1, EmptySeq
  <2>3. QED
    BY <2>1, <2>2
<1>3. QED
  BY <1>1, <1>2

LEMMA StretchIs ==
  ASSUME NEW k \in Int, NEW n \in Nat, NEW s \in Seq(Int), Len(s) = n, \A i \in 1..n : s[i] = k + i
  PROVE  s = Stretch(k, n)
<1>1. Stretch(k, n) \in Seq(Int) /\ Len(Stretch(k, n)) = n /\ \A i \in 1..n : Stretch(k, n)[i] = k + i
  BY StretchType
<1>2. \A i \in 1..Len(s) : s[i] = Stretch(k, n)[i]
  BY <1>1
<1> DEFINE t == Stretch(k, n)
<1> HIDE DEF t
<1>3. t \in Seq(Int) /\ Len(s) = Len(t) /\ \A i \in 1..Len(s) : s[i] = t[i]
  BY <1>1, <1>2 DEF t
<1>4. s = t
  BY <1>3, SeqEqual
<1>5. QED
  BY <1>4 DEF t

LEMMA StretchParts ==
  ASSUME NEW k \in Int, NEW n \in Nat, NEW m \in 0..n
  PROVE  /\ SubSeq(Stretch(k, n), m + 1, n) = Stretch(k + m, n - m)
         /\ SubSeq(Stretch(k, n), 1, m) = Stretch(k, m)
<1> DEFINE s == Stretch(k, n)
<1>1. s \in Seq(Int) /\ Len(s) = n /\ \A i \in 1..n : s[i] = k + i /\ s[i] \in Int
  <2>1. s \in Seq(Int) /\ Len(s) = n /\ \A i \in 1..n : s[i] = k + i
    BY StretchType
  <2> HIDE DEF s
  <2>2. QED
    BY <2>1
<1> HIDE DEF s
<1>2. SubSeq(s, m + 1, n) = Stretch(k + m, n - m)
  <2> DEFINE a == m + 1
             t == SubSeq(s, a, n)
  <2>1. a \in Int /\ \A i \in a..n : s[i] \in Int
    BY <1>1
  <2>2. n - a + 1 = n - m /\ k + m \in Int /\ n - m \in Nat
    OBVIOUS
  <2> HIDE DEF a
  <2>3. /\ t \in Seq(Int) /\ Len(t) = IF a <= n THEN n - a + 1 ELSE 0
        /\ \A i \in 1..(n - a + 1) : t[i] = s[a + i - 1]
    BY <2>1, SubSeqProperties
  <2> HIDE DEF t
  <2>4. Len(t) = n - m /\ \A i \in 1..(n - m) : t[i] = s[m + i]
    <3>1. \A i \in 1..(n - m) : a + i - 1 = m + i
      BY DEF a
    <3>2. QED
      BY <2>2, <2>3, <3>1 DEF a
  <2>5. \A i \in 1..(n - m) : t[i] = (k + m) + i
    <3> TAKE i \in 1..(n - m)
    <3>1. m + i \in 1..n /\ k + (m + i) = (k + m) + i
      OBVIOUS
    <3>2. QED
      BY <1>1, <2>4, <3>1
  <2>6. t = Stretch(k + m, n - m)
    BY <2>2, <2>3, <2>4, <2>5, StretchIs
  <2>7. QED
    BY <2>6 DEF a, t
<1>3. SubSeq(s, 1, m) = Stretch(k, m)
  <2> DEFINE t == SubSeq(s, 1, m)
  <2>1. \A i \in 1..m : s[i] \in Int
    BY <1>1
  <2>2. m \in Int /\ 1 \in Int
    OBVIOUS
  <2>3. /\ t \in Seq(Int) /\ Len(t) = IF 1 <= m THEN m - 1 + 1 ELSE 0
        /\ \A i \in 1..(m - 1 + 1) : t[i] = s[1 + i - 1]
    BY <2>1, <2>2, SubSeqProperties
  <2> HIDE DEF t
  <2>4. Len(t) = m /\ \A i \in 1..m : t[i] = s[i]
    <3>1. m - 1 + 1 = m /\ \A i \in 1..m : 1 + i - 1 = i
      OBVIOUS
    <3>2. QED
      BY <2>3, <3>1
  <2>5. \A i \in 1..m : t[i] = k + i
    BY <1>1, <2>4
  <2>6. t = Stretch(k, m)
    BY <2>3, <2>4, <2>5, StretchIs
  <2>7. QED
    BY <2>6 DEF t
<1>4. QED
  BY <1>2, <1>3 DEF s

LEMMA StretchAppend ==
  ASSUME NEW k \in Int, NEW n \in Nat
  PROVE  Append(Stretch(k, n), k + n + 1) = Stretch(k, n + 1)
<1> DEFINE s == Stretch(k, n)
           e == k + n + 1
           t == Append(s, e)
<1>1. s \in Seq(Int) /\ Len(s) = n /\ \A i \in 1..n : s[i] = k + i
  BY StretchType
<1>2. e \in Int /\ e = k + (n + 1) /\ n + 1 \in Nat
  OBVIOUS
<1> HIDE DEF s, e
<1>3. t \in Seq(Int) /\ Len(t) = n + 1 /\ t[n + 1] = e /\ \A i \in 1..n : t[i] = s[i]
  BY <1>1, <1>2, AppendProperties
<1> HIDE DEF t
<1>4. \A i \in 1..(n + 1) : t[i] = k + i
  <2> TAKE i \in 1..(n + 1)
  <2>1. i \in 1..n \/ i = n + 1
    OBVIOUS
  <2>2. QED
    BY <1>1, <1>2, <1>3, <2>1
<1>5. t = Stretch(k, n + 1)
  BY <1>2, <1>3, <1>4, StretchIs
<1>6. QED
  BY <1>5 DEF t, s, e

-----------------------------------------------------------------------------
(* What an acknowledgment leaves. *)

\* The segments from gone on, the first without its first part bytes.
LEMMA UnackedIs ==
  ASSUME NEW d \in Segments, NEW a \in 0..FlightSize(d)
  PROVE  \E gone \in 0..Len(d) : \E part \in Nat :
           LET x == Unacked(d, a)
           IN  /\ x \in Segments /\ Len(x) = Len(d) - gone
               /\ BytesIn(d, gone) = a - part
               /\ gone = Len(d) => part = 0
               /\ gone < Len(d) => part < Len(d[gone + 1])
               /\ \A i \in 1..Len(x) :
                    x[i] = IF i = 1 THEN SubSeq(d[gone + 1], part + 1, Len(d[gone + 1])) ELSE d[gone + i]
<1> DEFINE n == Len(d)
           Gone(k) == BytesIn(d, k) <= a /\ (k < n => BytesIn(d, k + 1) > a)
           gone == CHOOSE k \in 0..n : Gone(k)
           part == a - BytesIn(d, gone)
           rest == SubSeq(d, gone + 1, n)
           b == SubSeq(rest[1], part + 1, Len(rest[1]))
           x == IF rest = <<>> THEN rest ELSE [rest EXCEPT ![1] = b]
<1>1. /\ n \in Nat /\ BytesIn(d, 0) = 0
      /\ \A k \in 1..n : d[k] \in Seq(Bytes) /\ Len(d[k]) \in Nat \ {0}
      /\ \A k \in 0..n : BytesIn(d, k) \in Nat
      /\ \A k \in 1..n : BytesIn(d, k) = BytesIn(d, k - 1) + Len(d[k])
  BY BytesInType
<1>2. a \in Nat /\ a <= BytesIn(d, n)
  BY <1>1 DEF FlightSize
<1>3. gone \in 0..n /\ Gone(gone)
  <2> DEFINE K == {k \in 0..n : BytesIn(d, k) <= a}
  <2>1. K \in SUBSET (0..n) /\ 0 \in K
    BY <1>1, <1>2
  <2>2. PICK k \in K : k < n => k + 1 \notin K
    <3> HIDE DEF K
    <3>1. QED
      BY <1>1, <2>1, LoopStops
  <2>3. k \in 0..n /\ Gone(k)
    <3>1. SUFFICES ASSUME k < n PROVE BytesIn(d, k + 1) > a
      OBVIOUS
    <3>2. k + 1 \in 0..n /\ k + 1 \notin K
      BY <1>1, <2>2, <3>1
    <3>3. ~ (BytesIn(d, k + 1) <= a) /\ BytesIn(d, k + 1) \in Nat
      BY <1>1, <3>2
    <3>4. QED
      BY <1>2, <3>3
  <2> HIDE DEF Gone
  <2>4. QED
    BY <2>3
<1>4. Unacked(d, a) = x
  BY DEF Unacked
<1> HIDE DEF gone
<1>5. part \in Nat /\ BytesIn(d, gone) = a - part
  <2>1. BytesIn(d, gone) \in Nat /\ BytesIn(d, gone) <= a
    BY <1>1, <1>3
  <2>2. QED
    BY <1>2, <2>1
<1>6. gone = n => part = 0
  <2>1. BytesIn(d, gone) \in Nat /\ BytesIn(d, gone) <= a /\ BytesIn(d, n) \in Nat
    BY <1>1, <1>3
  <2>2. gone = n => a = BytesIn(d, gone)
    BY <1>2, <2>1
  <2>3. QED
    BY <1>2, <2>2
<1>7. ASSUME gone < n PROVE gone + 1 \in 1..n /\ part < Len(d[gone + 1])
  <2>1. gone + 1 \in 1..n /\ (gone + 1) - 1 = gone
    BY <1>1, <1>3, <1>7
  <2>2. BytesIn(d, gone + 1) = BytesIn(d, gone) + Len(d[gone + 1]) /\ BytesIn(d, gone + 1) > a
    BY <1>1, <1>3, <1>7, <2>1
  <2>3. Len(d[gone + 1]) \in Nat /\ BytesIn(d, gone) \in Nat
    BY <1>1, <1>3, <2>1
  <2>4. QED
    BY <1>2, <2>1, <2>2, <2>3
<1> HIDE DEF part, Gone
<1>8. /\ rest \in Segments /\ Len(rest) = n - gone
      /\ \A i \in 1..(n - gone) : rest[i] = d[gone + i]
  <2>1. \A k \in (gone + 1)..n : d[k] \in Seq(Bytes) \ {<<>>}
    <3>1. \A k \in (gone + 1)..n : k \in 1..n
      BY <1>1, <1>3
    <3>2. \A k \in 1..n : d[k] # <<>>
      BY <1>1, EmptySeq
    <3>3. QED
      BY <1>1, <3>1, <3>2
  <2> DEFINE m == gone + 1
  <2>2. m \in Int /\ n \in Int /\ n - m + 1 = n - gone
    BY <1>1, <1>3
  <2> HIDE DEF m, n
  <2>3. /\ SubSeq(d, m, n) \in Segments
        /\ Len(SubSeq(d, m, n)) = IF m <= n THEN n - m + 1 ELSE 0
        /\ \A i \in 1..(n - m + 1) : SubSeq(d, m, n)[i] = d[m + i - 1]
    <3>1. \A k \in m..n : d[k] \in Seq(Bytes) \ {<<>>}
      BY <2>1 DEF m
    <3>2. QED
      BY <2>2, <3>1, SubSeqProperties DEF Segments
  <2>4. \A i \in 1..(n - gone) : m + i - 1 = gone + i
    BY <1>3 DEF m
  <2>5. m <= n \/ n - gone = 0
    BY <1>1, <1>3 DEF m, n
  <2>6. QED
    BY <1>1, <1>3, <2>2, <2>3, <2>4, <2>5 DEF m
<1>9. CASE gone = n
  <2>1. Len(rest) = 0
    BY <1>1, <1>8, <1>9
  <2>2. rest = <<>>
    BY <1>8, <2>1, EmptySeq DEF Segments
  <2>3. x = rest
    BY <2>2
  <2> HIDE DEF x, rest
  <2>4. QED
    BY <1>1, <1>3, <1>4, <1>5, <1>6, <1>8, <1>9, <2>1, <2>3
<1>10. CASE gone < n
  <2>1. gone + 1 \in 1..n /\ part < Len(d[gone + 1]) /\ 1 \in 1..(n - gone) /\ rest[1] = d[gone + 1]
    <3>1. 1 \in 1..(n - gone)
      BY <1>1, <1>3, <1>10
    <3>2. rest[1] = d[gone + 1]
      BY <1>8, <3>1
    <3>3. QED
      BY <1>7, <1>10, <3>1, <3>2
  <2>2. rest # <<>>
    <3>1. rest \in Segments /\ Len(rest) # 0
      BY <1>3, <1>8, <1>10
    <3> HIDE DEF rest
    <3>2. QED
      BY <3>1, EmptySeq DEF Segments
  <2>3. b \in Seq(Bytes) \ {<<>>} /\ b = SubSeq(d[gone + 1], part + 1, Len(d[gone + 1]))
    <3> DEFINE y == d[gone + 1]
               l == Len(y)
               p == part + 1
    <3>1. y \in Seq(Bytes) /\ l \in Nat /\ p \in Int /\ p <= l /\ l - p + 1 # 0
      <4>1. y \in Seq(Bytes) /\ l \in Nat
        BY <1>1, <2>1
      <4>2. part \in Nat /\ part < l
        BY <1>5, <2>1
      <4> HIDE DEF y, l
      <4>3. QED
        BY <4>1, <4>2
    <3>2. \A i \in p..l : y[i] \in Bytes
      <4>1. \A i \in p..l : i \in 1..l
        BY <1>5, <3>1
      <4>2. \A i \in 1..l : y[i] \in Bytes
        <5> HIDE DEF y
        <5>1. QED
          BY <3>1, ElementOfSeq
      <4> HIDE DEF y, l, p
      <4>3. QED
        BY <4>1, <4>2
    <3>3. b = SubSeq(y, p, l)
      BY <2>1
    <3> HIDE DEF y, p, l
    <3>4. SubSeq(y, p, l) \in Seq(Bytes) /\ Len(SubSeq(y, p, l)) = l - p + 1
      BY <3>1, <3>2, SubSeqProperties
    <3>5. SubSeq(y, p, l) # <<>>
      BY <3>1, <3>4, EmptySeq
    <3>6. QED
      BY <3>3, <3>4, <3>5 DEF y, p, l
  <2>4. x = [rest EXCEPT ![1] = b]
    BY <2>2
  <2> HIDE DEF b, rest, x, n
  <2>5. x \in Segments /\ Len(x) = Len(rest) /\ \A i \in 1..Len(rest) : x[i] = IF i = 1 THEN b ELSE rest[i]
    BY <1>8, <2>1, <2>3, <2>4, ExceptSeq DEF Segments
  <2>6. \A i \in 1..Len(x) : x[i] = IF i = 1 THEN b ELSE d[gone + i]
    BY <1>8, <2>5
  <2>7. gone # n
    BY <1>1, <1>3, <1>10 DEF n
  <2>8. gone \in 0..Len(d) /\ Len(x) = Len(d) - gone
    BY <1>3, <1>8, <2>5 DEF n
  <2>9. /\ x \in Segments /\ Len(x) = Len(d) - gone
        /\ BytesIn(d, gone) = a - part
        /\ gone = Len(d) => part = 0
        /\ gone < Len(d) => part < Len(d[gone + 1])
        /\ \A i \in 1..Len(x) :
             x[i] = IF i = 1 THEN SubSeq(d[gone + 1], part + 1, Len(d[gone + 1])) ELSE d[gone + i]
    BY <1>5, <2>1, <2>3, <2>5, <2>6, <2>7, <2>8 DEF n
  <2>10. QED
    BY <1>4, <1>5, <2>8, <2>9
<1>11. QED
  BY <1>1, <1>3, <1>9, <1>10

\* The segments of d hold the bytes from place u on, one after the other.
InPlace(d, u) ==
  \A i \in DOMAIN d : d[i] = Stretch(u - 1 + BytesIn(d, i - 1), Len(d[i]))

\* They still do, from the first byte on that is not acknowledged, and end
\* where they ended.
LEMMA InPlaceAcked ==
  ASSUME NEW d \in Segments, NEW u \in Nat, NEW a \in 0..FlightSize(d), InPlace(d, u)
  PROVE  LET x == Unacked(d, a)
         IN  /\ x \in Segments /\ FlightSize(x) = FlightSize(d) - a
             /\ InPlace(x, u + a)
             /\ \A i \in 1..Len(x) : \E j \in 1..Len(d) :
                  BytesIn(x, i) = BytesIn(d, j) - a /\ Len(x[i]) <= Len(d[j])
<1> DEFINE x == Unacked(d, a)
           n == Len(d)
<1>1. PICK gone \in 0..n : \E part \in Nat :
        /\ x \in Segments /\ Len(x) = n - gone
        /\ BytesIn(d, gone) = a - part
        /\ gone = n => part = 0
        /\ gone < n => part < Len(d[gone + 1])
        /\ \A i \in 1..Len(x) :
             x[i] = IF i = 1 THEN SubSeq(d[gone + 1], part + 1, Len(d[gone + 1])) ELSE d[gone + i]
  BY UnackedIs
<1>2. PICK part \in Nat :
        /\ x \in Segments /\ Len(x) = n - gone
        /\ BytesIn(d, gone) = a - part
        /\ gone = n => part = 0
        /\ gone < n => part < Len(d[gone + 1])
        /\ \A i \in 1..Len(x) :
             x[i] = IF i = 1 THEN SubSeq(d[gone + 1], part + 1, Len(d[gone + 1])) ELSE d[gone + i]
  BY <1>1
<1>3. /\ n \in Nat /\ BytesIn(d, 0) = 0 /\ DOMAIN d = 1..n
      /\ \A k \in 1..n : d[k] \in Seq(Bytes) /\ Len(d[k]) \in Nat \ {0}
      /\ \A k \in 0..n : BytesIn(d, k) \in Nat
      /\ \A k \in 1..n : BytesIn(d, k) = BytesIn(d, k - 1) + Len(d[k])
  BY BytesInType
<1> HIDE DEF x
<1>4. /\ BytesIn(x, 0) = 0 /\ DOMAIN x = 1..Len(x)
      /\ \A k \in 1..Len(x) : x[k] \in Seq(Bytes) /\ Len(x[k]) \in Nat \ {0}
      /\ \A k \in 0..Len(x) : BytesIn(x, k) \in Nat
      /\ \A k \in 1..Len(x) : BytesIn(x, k) = BytesIn(x, k - 1) + Len(x[k])
  BY <1>2, BytesInType
<1>5. gone \in 0..n /\ a \in Nat /\ Len(x) \in 0..n
  <2>1. FlightSize(d) \in Nat
    BY <1>3 DEF FlightSize
  <2> HIDE DEF n
  <2>2. QED
    BY <1>2, <1>3, <2>1
<1> HIDE DEF n
<1>6. ASSUME gone < n
      PROVE  /\ gone + 1 \in 1..n
             /\ d[gone + 1] = Stretch(u - 1 + a - part, Len(d[gone + 1]))
             /\ x[1] = Stretch(u + a - 1, Len(d[gone + 1]) - part)
             /\ Len(x[1]) = Len(d[gone + 1]) - part
  <2> DEFINE y == d[gone + 1]
             l == Len(y)
             k == u - 1 + a - part
  <2>1. gone + 1 \in 1..n /\ (gone + 1) - 1 = gone
    BY <1>3, <1>5, <1>6
  <2>2. l \in Nat /\ part < l /\ part \in 0..l
    BY <1>2, <1>3, <1>6, <2>1
  <2>3. y = Stretch(k, l)
    <3>1. d[gone + 1] = Stretch(u - 1 + BytesIn(d, (gone + 1) - 1), Len(d[gone + 1]))
      BY <1>3, <2>1 DEF InPlace
    <3>2. u - 1 + BytesIn(d, gone) = k
      BY <1>2, <1>5
    <3>3. QED
      BY <2>1, <3>1, <3>2
  <2>4. x[1] = SubSeq(y, part + 1, l)
    <3>1. 1 \in 1..Len(x)
      BY <1>2, <1>3, <1>5, <1>6
    <3>2. QED
      BY <1>2, <3>1
  <2>5. k \in Int /\ k + part = u + a - 1 /\ l - part \in Nat
    BY <1>5, <2>2
  <2> HIDE DEF k, l, y
  <2>6. SubSeq(Stretch(k, l), part + 1, l) = Stretch(k + part, l - part)
    BY <2>2, <2>5, StretchParts
  <2>7. Len(Stretch(u + a - 1, l - part)) = l - part
    BY <1>5, <2>5, StretchType
  <2>8. QED
    BY <2>1, <2>3, <2>4, <2>5, <2>6, <2>7 DEF k, l, y
<1>7. \A i \in 1..Len(x) : BytesIn(x, i) = BytesIn(d, gone + i) - a
  <2> DEFINE K == {i \in 0..Len(x) : i > 0 => BytesIn(x, i) = BytesIn(d, gone + i) - a}
  <2>1. 0 \in K
    BY <1>5
  <2>2. \A i \in 0..Len(x) : i \in K /\ i < Len(x) => i + 1 \in K
    <3> SUFFICES ASSUME NEW i \in 0..Len(x), i \in K, i < Len(x)
                 PROVE  BytesIn(x, i + 1) = BytesIn(d, gone + (i + 1)) - a
      BY <1>5
    <3>1. i + 1 \in 1..Len(x) /\ gone + (i + 1) \in 1..n /\ gone < n /\ (i + 1) - 1 = i
          /\ (gone + (i + 1)) - 1 = gone + i /\ gone + i \in 0..n
      BY <1>2, <1>3, <1>5
    <3>2. BytesIn(x, i + 1) = BytesIn(x, i) + Len(x[i + 1])
      BY <1>4, <3>1
    <3>3. BytesIn(d, gone + (i + 1)) = BytesIn(d, gone + i) + Len(d[gone + (i + 1)])
      BY <1>3, <3>1
    <3>4. BytesIn(d, gone + i) \in Nat /\ Len(d[gone + (i + 1)]) \in Nat
      BY <1>3, <3>1
    <3>5. CASE i = 0
      <4>1. Len(x[1]) = Len(d[gone + 1]) - part /\ i + 1 = 1 /\ gone + (i + 1) = gone + 1 /\ gone + i = gone
        BY <1>5, <1>6, <3>1, <3>5
      <4>2. BytesIn(x, i) = 0
        BY <1>4, <3>5
      <4>3. QED
        BY <1>2, <1>5, <3>2, <3>3, <3>4, <4>1, <4>2
    <3>6. CASE i > 0
      <4>1. i + 1 # 1
        BY <3>6
      <4>2. x[i + 1] = d[gone + (i + 1)]
        BY <1>2, <3>1, <4>1
      <4>3. BytesIn(x, i) = BytesIn(d, gone + i) - a
        BY <3>6
      <4>4. BytesIn(x, i + 1) = (BytesIn(d, gone + i) - a) + Len(d[gone + (i + 1)])
        BY <3>2, <4>2, <4>3
      <4> DEFINE p == BytesIn(d, gone + i)
                 l == Len(d[gone + (i + 1)])
      <4>5. p \in Nat /\ l \in Nat /\ BytesIn(d, gone + (i + 1)) = p + l /\ BytesIn(x, i + 1) = (p - a) + l
        BY <3>3, <3>4, <4>4
      <4> HIDE DEF p, l
      <4>6. QED
        BY <1>5, <4>5
    <3>7. QED
      BY <1>5, <3>5, <3>6
  <2> HIDE DEF K
  <2>3. \A i \in 0..Len(x) : i \in K
    <3>1. Len(x) \in Nat
      BY <1>3, <1>5
    <3>2. QED
      BY <2>1, <2>2, <3>1, LoopReaches
  <2>4. QED
    BY <1>5, <2>3 DEF K
<1>8. FlightSize(x) = FlightSize(d) - a
  <2>1. CASE gone = n
    <3>1. Len(x) = 0
      BY <1>2, <1>5, <2>1
    <3>2. part = 0 /\ BytesIn(d, n) = a - 0 /\ BytesIn(x, 0) = 0
      BY <1>2, <1>4, <2>1
    <3>3. QED
      BY <1>5, <3>1, <3>2 DEF FlightSize, n
  <2>2. CASE gone < n
    <3>1. Len(x) \in 1..Len(x) /\ gone + Len(x) = n
      BY <1>2, <1>3, <1>5, <2>2
    <3>2. QED
      BY <1>7, <3>1 DEF FlightSize, n
  <2>3. QED
    BY <1>3, <1>5, <2>1, <2>2
<1>9. InPlace(x, u + a)
  <2> SUFFICES ASSUME NEW i \in 1..Len(x)
               PROVE  x[i] = Stretch((u + a) - 1 + BytesIn(x, i - 1), Len(x[i]))
    BY <1>4 DEF InPlace
  <2>1. gone < n /\ gone + i \in 1..n /\ (gone + i) - 1 = gone + (i - 1)
    BY <1>2, <1>3, <1>5
  <2>2. CASE i = 1
    <3>1. x[1] = Stretch(u + a - 1, Len(x[1]))
      BY <1>6, <2>1
    <3>2. (u + a) - 1 + BytesIn(x, i - 1) = u + a - 1
      <4>1. BytesIn(x, i - 1) = 0
        BY <1>4, <2>2
      <4>2. QED
        BY <1>5, <4>1
    <3>3. QED
      BY <2>2, <3>1, <3>2
  <2>3. CASE i # 1
    <3>1. x[i] = d[gone + i]
      BY <1>2, <2>3
    <3>2. d[gone + i] = Stretch(u - 1 + BytesIn(d, (gone + i) - 1), Len(d[gone + i]))
      BY <1>3, <2>1 DEF InPlace
    <3> DEFINE j == i - 1
               p == BytesIn(d, gone + j)
    <3>3. j \in 1..Len(x) /\ gone + j \in 0..n /\ (gone + i) - 1 = gone + j
      BY <1>2, <1>3, <1>5, <2>1, <2>3
    <3>4. BytesIn(x, j) = p - a /\ p \in Nat
      <4> HIDE DEF j
      <4>1. QED
        BY <1>3, <1>7, <3>3
    <3>5. BytesIn(d, (gone + i) - 1) = p
      BY <3>3
    <3> HIDE DEF p
    <3>6. (u + a) - 1 + (p - a) = u - 1 + p
      BY <1>5, <3>4
    <3> HIDE DEF j
    <3>7. (u + a) - 1 + BytesIn(x, j) = u - 1 + BytesIn(d, (gone + i) - 1)
      BY <3>4, <3>5, <3>6
    <3>8. QED
      BY <3>1, <3>2, <3>7 DEF j
  <2>4. QED
    BY <2>2, <2>3
<1>10. \A i \in 1..Len(x) : \E j \in 1..n : BytesIn(x, i) = BytesIn(d, j) - a /\ Len(x[i]) <= Len(d[j])
  <2> TAKE i \in 1..Len(x)
  <2>1. gone < n /\ gone + i \in 1..n
    BY <1>2, <1>3, <1>5
  <2>2. Len(x[i]) <= Len(d[gone + i])
    <3>1. CASE i = 1
      <4>1. Len(x[1]) = Len(d[gone + 1]) - part /\ Len(d[gone + 1]) \in Nat
        BY <1>3, <1>6, <2>1
      <4>2. QED
        BY <3>1, <4>1
    <3>2. CASE i # 1
      <4>1. x[i] = d[gone + i] /\ Len(d[gone + i]) \in Nat
        BY <1>2, <1>3, <2>1, <3>2
      <4>2. QED
        BY <4>1
    <3>3. QED
      BY <3>1, <3>2
  <2>3. QED
    BY <1>7, <2>1, <2>2
<1>11. QED
  BY <1>2, <1>8, <1>9, <1>10 DEF x, n

\* One more segment follows.
LEMMA InPlaceAppended ==
  ASSUME NEW d \in Segments, NEW u \in Nat, InPlace(d, u),
         NEW b \in Seq(Bytes), b # <<>>, b = Stretch(u - 1 + FlightSize(d), Len(b))
  PROVE  InPlace(Append(d, b), u)
<1> DEFINE c == Append(d, b)
<1>1. /\ c \in Segments
      /\ \A i \in 0..Len(d) : BytesIn(c, i) = BytesIn(d, i)
  BY BytesInAppend
<1>2. /\ Len(c) = Len(d) + 1 /\ c[Len(d) + 1] = b
      /\ \A i \in 1..Len(d) : c[i] = d[i]
  BY AppendProperties DEF Segments
<1> HIDE DEF c
<1>3. DOMAIN d = 1..Len(d) /\ Len(d) \in Nat /\ DOMAIN c = 1..(Len(d) + 1)
  BY <1>1, <1>2, BytesInType
<1>4. ASSUME NEW i \in 1..(Len(d) + 1) PROVE c[i] = Stretch(u - 1 + BytesIn(c, i - 1), Len(c[i]))
  <2>1. i - 1 \in 0..Len(d)
    BY <1>3
  <2>2. BytesIn(c, i - 1) = BytesIn(d, i - 1)
    BY <1>1, <2>1
  <2>3. CASE i \in 1..Len(d)
    BY <1>2, <1>3, <2>2, <2>3 DEF InPlace
  <2>4. CASE i = Len(d) + 1
    <3>1. i - 1 = Len(d)
      BY <1>3, <2>4
    <3>2. QED
      BY <1>2, <2>2, <2>4, <3>1 DEF FlightSize
  <2>5. QED
    BY <1>3, <2>3, <2>4
<1>5. QED
  BY <1>3, <1>4 DEF InPlace, c

-----------------------------------------------------------------------------
(* The inductive invariant.  t is the control block of e, p that of its      *)
(* peer, g what the application of e has given it.                           *)

Una(e, t) == Place(e, t.una)
Nxt(e, t) == Place(e, t.next)

\* The place up to which p has taken the bytes of e, and up to which its
\* application has read.
Rcv(e, p) == Place(e, p.rnext)
ReadTo(e, p) == Rcv(e, p) - Len(p.rdata)

\* The SYN of the peer was taken.
Heard(t) == t.state \notin {"LISTEN", "SYN_SENT"}
Joined(t) == t.state \notin {"LISTEN", "SYN_SENT", "SYN_RECEIVED"}

\* The bytes before place k of e are in the window of p, or will be when it
\* opens again.
Fits(e, p, k) ==
  /\ Heard(p)
  /\ \/ k <= ReadTo(e, p) + Buffer
     \/ p.rwindow = 0 /\ k <= Rcv(e, p) + Buffer

\* A segment of e acknowledges what e has taken, and its window was open then.
AckSound(e, s, t) ==
  LET f == Peer(e)
  IN  /\ Heard(t)
      /\ \E k \in 1..Rcv(f, t) :
           /\ s.ack = At(f, k)
           /\ k + s.window <= ReadTo(f, t) + Buffer
           /\ s.window = 0 => k <= ReadTo(f, t) \/ t.rwindow = 0

\* It holds the bytes of its places; a FIN has the place after the last.
TextSound(e, s, t, p, g) ==
  \E q \in 1..Nxt(e, t) :
    LET n == Len(s.bytes)
    IN  /\ s.seq = At(e, q)
        /\ q + n <= Nxt(e, t)
        /\ s.bytes = Stretch(q - 1, n)
        /\ n > 0 => q + n <= g + 1
        /\ n > 1 => Fits(e, p, q + n)
        /\ s.fin => n = 0 /\ t.closed /\ q = g + 1

Sound(e, s, t, p, g) ==
  \/ s.rst /\ s.bytes = <<>> /\ ~s.syn
  \/ /\ ~s.rst
     /\ \/ s.syn /\ s.bytes = <<>> /\ ~s.fin /\ s.seq = Isn[e]
        \/ ~s.syn /\ TextSound(e, s, t, p, g)
     /\ s.ackOn => AckSound(e, s, t)

\* A control block before the connection is established.
Opening(e, t, g, w, d) ==
  /\ t.una = Isn[e] /\ t.next = At(e, 1)
  /\ t.unsent = <<>> /\ t.data = <<>> /\ ~t.closed
  /\ t.rdata = <<>> /\ t.rwindow = Buffer
  /\ w = "open" /\ g = 0 /\ d = "idle"
  /\ t.known = (t.state # "LISTEN")
  /\ t.state = "SYN_SENT" => t.window = 0
  /\ t.state = "LISTEN" => t = NewTcb(e)

\* What is given and not acknowledged is in segments or still to be sent.
Layout(e, t, g) ==
  /\ InPlace(t.data, Una(e, t))
  /\ Nxt(e, t) = Una(e, t) + FlightSize(t.data)
  /\ t.unsent = Stretch(Nxt(e, t) - 1, g + 1 - Nxt(e, t))

\* One after that.
Sender(e, t, g, w) ==
  /\ Una(e, t) <= Nxt(e, t)
  /\ Nxt(e, t) <= IF t.closed THEN g + 2 ELSE g + 1
  /\ t.known => Una(e, t) >= 1
  /\ t.state = "CLOSED" => ~t.known
  /\ ~t.known => t.data = <<>> /\ t.unsent = <<>> /\ t.state \in {"CLOSED", "TIME_WAIT"}
  /\ ~t.closed => t.state \in {"ESTABLISHED", "CLOSE_WAIT", "CLOSED"}
  /\ t.closed => t.state \notin {"ESTABLISHED", "CLOSE_WAIT"}
  /\ t.known /\ ~t.closed => Layout(e, t, g)
  /\ w = "acked" \/ t.closed =>
       t.data = <<>> /\ t.unsent = <<>> /\ Una(e, t) = Nxt(e, t) /\ Nxt(e, t) >= g + 1
  /\ t.closed => w = "closed"
  /\ t.state \in {"FIN_WAIT_1", "CLOSING", "LAST_ACK"} => Nxt(e, t) = g + 1

\* The window was last updated by a segment before the next that is expected,
\* or by one that acknowledged no more than is acknowledged now.
WindowUpdates(e, t) ==
  LET r == Rcv(Peer(e), t)
  IN  \E w \in 0..r :
        /\ t.wl1 = At(Peer(e), w)
        /\ w < r \/ \E v \in 0..Una(e, t) : t.wl2 = At(e, v)

\* The two ends of a direction: what is acknowledged was taken, what was taken was
\* sent, and the window that the sender knows is one that the receiver has.
Link(e, t, p, g) ==
  LET u == Una(e, t)
      r == Rcv(e, p)
  IN  /\ 1 <= r /\ u <= r /\ r <= IF t.closed THEN g + 2 ELSE Nxt(e, t)
      /\ t.closed \/ t.window = 0 \/ Fits(e, p, u + t.window)
      /\ t.closed \/ (t.window = 0 => u <= ReadTo(e, p) \/ p.rwindow = 0)
      /\ \A i \in DOMAIN t.data :
           Len(t.data[i]) > 1 => Fits(e, p, u + BytesIn(t.data, i))

Own(e, t, g, w, d) ==
  /\ t.isn = Isn[e]
  /\ g <= Messages[e]
  /\ t.rwindow + Len(t.rdata) <= Buffer
  /\ ~Joined(t) => Opening(e, t, g, w, d)
  /\ Joined(t) => Sender(e, t, g, w)
  /\ Heard(t) => WindowUpdates(e, t)

\* The segments of e that are under way or in its queue.
From(T, N, e) == ToSet(N[Peer(e)]) \cup ToSet(T[e].queue)

\* Until the client has heard the server there is nothing but SYNs.
Handshake(T, N) ==
  LET c == T[Client]
      s == T[Server]
  IN  /\ s.state # "SYN_SENT"
      /\ c.state # "SYN_SENT" => c.state \notin {"LISTEN", "SYN_RECEIVED"} /\ s.state # "LISTEN"
      /\ c.state = "SYN_SENT" =>
           /\ s.state \in {"LISTEN", "SYN_RECEIVED"}
           /\ s.state = "SYN_RECEIVED" => s.rnext = At(Client, 1)
           /\ s.state = "LISTEN" => From(T, N, Server) = {}
           /\ \A x \in From(T, N, Client) : x.syn /\ ~x.ackOn /\ ~x.rst
           /\ \A x \in From(T, N, Server) : x.syn /\ x.ackOn /\ ~x.rst /\ x.ack = At(Client, 1)

Typed(T, G, W, D, N) ==
  /\ T \in [Ends -> TcbType] /\ G \in [Ends -> Nat]
  /\ W \in [Ends -> {"open", "closing", "acked", "closed"}]
  /\ D \in [Ends -> {"idle", "waiting", "ready", "eof", "failed"}]
  /\ N \in [Ends -> Seq(SegmentType)]

Sane(T, G, W, D, N) ==
  /\ Typed(T, G, W, D, N)
  /\ \A e \in Ends : Own(e, T[e], G[e], W[e], D[e])
  /\ \A e \in Ends : Heard(T[Peer(e)]) => Link(e, T[e], T[Peer(e)], G[e])
  /\ \A e \in Ends : \A s \in From(T, N, e) : Sound(e, s, T[e], T[Peer(e)], G[e])
  /\ Handshake(T, N)

IInv ==
  /\ Sane(tcb, given, writer, reader, net)
  /\ got \in [Ends -> Seq(Bytes)] /\ faults \in 0..MaxFaults /\ crashed \in BOOLEAN

-----------------------------------------------------------------------------
(* What goes on only makes more true of a segment under way. *)

LEMMA TcbFields ==
  ASSUME NEW t \in TcbType
  PROVE  /\ t.una \in Seqs /\ t.next \in Seqs /\ t.rnext \in Seqs /\ t.wl1 \in Seqs /\ t.wl2 \in Seqs
         /\ t.window \in 0..Buffer /\ t.rwindow \in 0..Buffer
         /\ t.unsent \in Seq(Bytes) /\ t.data \in Segments /\ t.rdata \in Seq(Bytes)
         /\ t.queue \in Seq(SegmentType) /\ t.state \in States
         /\ t.closed \in BOOLEAN /\ t.known \in BOOLEAN
         /\ t.dupacks \in 0..4 /\ t.full \in 0..1 /\ t.probing \in 0..QueueSpace
         /\ \A e \in Ends : /\ Una(e, t) \in Nat /\ Nxt(e, t) \in Nat /\ Rcv(e, t) \in Nat
                            /\ ReadTo(e, t) \in Int /\ ReadTo(e, t) <= Rcv(e, t)
                            /\ t.una = At(e, Una(e, t)) /\ t.next = At(e, Nxt(e, t)) /\ t.rnext = At(e, Rcv(e, t))
<1>1. /\ t.una \in Seqs /\ t.next \in Seqs /\ t.rnext \in Seqs /\ t.wl1 \in Seqs /\ t.wl2 \in Seqs
      /\ t.window \in 0..Buffer /\ t.rwindow \in 0..Buffer
      /\ t.unsent \in Seq(Bytes) /\ t.data \in Segments /\ t.rdata \in Seq(Bytes)
      /\ t.queue \in Seq(SegmentType) /\ t.state \in States
      /\ t.closed \in BOOLEAN /\ t.known \in BOOLEAN
      /\ t.dupacks \in 0..4 /\ t.full \in 0..1 /\ t.probing \in 0..QueueSpace
  BY DEF TcbType, Segments
<1>2. ASSUME NEW e \in Ends
      PROVE  /\ Una(e, t) \in Nat /\ Nxt(e, t) \in Nat /\ Rcv(e, t) \in Nat
             /\ ReadTo(e, t) \in Int /\ ReadTo(e, t) <= Rcv(e, t)
             /\ t.una = At(e, Una(e, t)) /\ t.next = At(e, Nxt(e, t)) /\ t.rnext = At(e, Rcv(e, t))
  <2>1. SeqSpace - 1 \in Nat
    BY Constants
  <2>2. \A s \in Seqs : Place(e, s) \in 0..(SeqSpace - 1) /\ At(e, Place(e, s)) = s
    BY Places
  <2>3. Len(t.rdata) \in Nat
    BY <1>1, LenProperties
  <2>4. QED
    BY <1>1, <2>1, <2>2, <2>3 DEF Una, Nxt, Rcv, ReadTo
<1>3. QED
  BY <1>1, <1>2

\* The sender goes from t to u, its application from g bytes to h.
SenderGoesOn(e, t, u, g, h) ==
  Nxt(e, t) <= Nxt(e, u) /\ g <= h /\ (t.closed => u.closed /\ h = g)

\* The receiver of what e sends goes from p to v.
ReceiverGoesOn(e, p, v) ==
  Heard(p) =>
    /\ Heard(v) /\ Rcv(e, p) <= Rcv(e, v) /\ ReadTo(e, p) <= ReadTo(e, v)
    /\ p.rwindow = 0 => v.rwindow = 0 \/ Rcv(e, p) <= ReadTo(e, v)

LEMMA FitsKept ==
  ASSUME NEW e \in Ends, NEW p \in TcbType, NEW v \in TcbType, NEW k \in Int,
         Fits(e, p, k), ReceiverGoesOn(e, p, v)
  PROVE  Fits(e, v, k)
<1>1. Rcv(e, p) \in Nat /\ Rcv(e, v) \in Nat /\ ReadTo(e, p) \in Int /\ ReadTo(e, v) \in Int /\ Buffer \in Nat
  BY Constants, TcbFields
<1>2. QED
  BY <1>1 DEF Fits, ReceiverGoesOn

LEMMA SoundKept ==
  ASSUME NEW e \in Ends, NEW t \in TcbType, NEW u \in TcbType, NEW p \in TcbType, NEW v \in TcbType,
         NEW g \in Nat, NEW h \in Nat, NEW s \in SegmentType,
         Sound(e, s, t, p, g),
         SenderGoesOn(e, t, u, g, h), ReceiverGoesOn(Peer(e), t, u), ReceiverGoesOn(e, p, v)
  PROVE  Sound(e, s, u, v, h)
<1> DEFINE f == Peer(e)
<1>1. f \in Ends /\ Buffer \in Nat
  BY Constants
<1>2. s.window \in 0..Buffer /\ s.bytes \in Seq(Bytes) /\ Len(s.bytes) \in Nat
  BY LenProperties DEF SegmentType
<1>3. AckSound(e, s, t) => AckSound(e, s, u)
  <2> SUFFICES ASSUME AckSound(e, s, t) PROVE AckSound(e, s, u)
    OBVIOUS
  <2>1. PICK k \in 1..Rcv(f, t) :
          /\ s.ack = At(f, k)
          /\ k + s.window <= ReadTo(f, t) + Buffer
          /\ s.window = 0 => k <= ReadTo(f, t) \/ t.rwindow = 0
    BY DEF AckSound
  <2>2. /\ Rcv(f, t) \in Nat /\ Rcv(f, u) \in Nat /\ ReadTo(f, t) \in Int /\ ReadTo(f, u) \in Int
        /\ Heard(t)
    BY <1>1, TcbFields DEF AckSound
  <2>3. /\ Heard(u) /\ Rcv(f, t) <= Rcv(f, u) /\ ReadTo(f, t) <= ReadTo(f, u)
        /\ t.rwindow = 0 => u.rwindow = 0 \/ Rcv(f, t) <= ReadTo(f, u)
    BY <2>2 DEF ReceiverGoesOn
  <2>4. k \in 1..Rcv(f, u) /\ k + s.window <= ReadTo(f, u) + Buffer
    <3> DEFINE w == s.window
               a == ReadTo(f, t)
               b == ReadTo(f, u)
    <3>1. w \in Nat /\ a \in Int /\ b \in Int /\ k \in Nat /\ k + w <= a + Buffer /\ a <= b
      BY <1>1, <1>2, <2>1, <2>2, <2>3
    <3> HIDE DEF w, a, b
    <3>2. k + w <= b + Buffer
      BY <1>1, <3>1
    <3>3. QED
      BY <2>2, <2>3, <3>2 DEF w, b
  <2>5. s.window = 0 => k <= ReadTo(f, u) \/ u.rwindow = 0
    BY <2>1, <2>2, <2>3
  <2>6. QED
    BY <2>1, <2>3, <2>4, <2>5 DEF AckSound
<1>4. TextSound(e, s, t, p, g) => TextSound(e, s, u, v, h)
  <2> SUFFICES ASSUME TextSound(e, s, t, p, g) PROVE TextSound(e, s, u, v, h)
    OBVIOUS
  <2> DEFINE n == Len(s.bytes)
  <2>1. PICK q \in 1..Nxt(e, t) :
          /\ s.seq = At(e, q)
          /\ q + n <= Nxt(e, t)
          /\ s.bytes = Stretch(q - 1, n)
          /\ n > 0 => q + n <= g + 1
          /\ n > 1 => Fits(e, p, q + n)
          /\ s.fin => n = 0 /\ t.closed /\ q = g + 1
    BY DEF TextSound
  <2>2. Nxt(e, t) \in Nat /\ Nxt(e, u) \in Nat /\ Nxt(e, t) <= Nxt(e, u) /\ g <= h /\ (t.closed => u.closed /\ h = g)
    BY TcbFields DEF SenderGoesOn
  <2> HIDE DEF n
  <2>3. q \in 1..Nxt(e, u) /\ q + n <= Nxt(e, u) /\ (n > 0 => q + n <= h + 1) /\ q + n \in Int
    <3>1. n \in Nat /\ q \in Nat
      BY <1>2, <2>2 DEF n
    <3>2. QED
      BY <2>1, <2>2, <3>1
  <2>4. n > 1 => Fits(e, v, q + n)
    BY <2>1, <2>3, FitsKept
  <2>5. s.fin => n = 0 /\ u.closed /\ q = h + 1
    BY <2>1, <2>2
  <2>6. QED
    BY <2>1, <2>3, <2>4, <2>5 DEF TextSound, n
<1>5. QED
  BY <1>3, <1>4 DEF Sound

-----------------------------------------------------------------------------
(* A step changes the control block of one end. *)

\* What the invariant says of the control block t of e, when its peer has p.
Local(e, t, p, g, h, w, d) ==
  /\ t \in TcbType
  /\ Joined(t) => Heard(p)
  /\ Own(e, t, g, w, d)
  /\ Heard(p) => Link(e, t, p, g)
  /\ Heard(t) => Link(Peer(e), p, t, h)
  /\ \A s \in ToSet(t.queue) : Sound(e, s, t, p, g)

GoesOn(e, t, u, g, h) ==
  /\ SenderGoesOn(e, t, u, g, h) /\ ReceiverGoesOn(Peer(e), t, u)
  /\ Joined(t) => Joined(u)

LEMMA GoesOnAndOn ==
  ASSUME NEW e \in Ends, NEW t \in TcbType, NEW u \in TcbType, NEW v \in TcbType,
         NEW g \in Nat, NEW h \in Nat, NEW k \in Nat
  PROVE  /\ GoesOn(e, t, t, g, g)
         /\ ReceiverGoesOn(e, t, t)
         /\ GoesOn(e, t, u, g, h) /\ GoesOn(e, u, v, h, k) => GoesOn(e, t, v, g, k)
<1>1. \A f \in Ends : \A x \in TcbType : Nxt(f, x) \in Nat /\ Rcv(f, x) \in Nat /\ ReadTo(f, x) \in Int
  BY TcbFields
<1>2. Peer(e) \in Ends
  BY Constants
<1>3. \A f \in Ends : ReceiverGoesOn(f, t, t)
  BY <1>1 DEF ReceiverGoesOn
<1>4. GoesOn(e, t, t, g, g)
  BY <1>1, <1>2, <1>3 DEF GoesOn, SenderGoesOn
<1>5. ASSUME GoesOn(e, t, u, g, h), GoesOn(e, u, v, h, k) PROVE GoesOn(e, t, v, g, k)
  <2>1. SenderGoesOn(e, t, v, g, k)
    BY <1>1, <1>5 DEF GoesOn, SenderGoesOn
  <2>2. ReceiverGoesOn(Peer(e), t, v)
    BY <1>1, <1>2, <1>5 DEF GoesOn, ReceiverGoesOn
  <2>3. QED
    BY <1>5, <2>1, <2>2 DEF GoesOn
<1>6. QED
  BY <1>3, <1>4, <1>5

Writing == {"open", "closing", "acked", "closed"}
Reading == {"idle", "waiting", "ready", "eof", "failed"}

Becomes(F, F2, e, x) == F2 = [F EXCEPT ![e] = x]

\* What e adds to the network, and what it takes from it.
Sends(e, u, p, g, N, M) ==
  /\ \A s \in ToSet(M[Peer(e)]) : s \in ToSet(N[Peer(e)]) \/ Sound(e, s, u, p, g)
  /\ ToSet(M[e]) \subseteq ToSet(N[e])

LEMMA StepKeepsSane ==
  ASSUME NEW T, NEW G, NEW W, NEW D, NEW N, Sane(T, G, W, D, N),
         NEW e \in Ends, NEW u, NEW g \in Nat,
         NEW w \in Writing, NEW d \in Reading,
         Local(e, u, T[Peer(e)], g, G[Peer(e)], w, d),
         GoesOn(e, T[e], u, G[e], g),
         NEW M \in [Ends -> Seq(SegmentType)],
         Sends(e, u, T[Peer(e)], g, N, M),
         NEW T2, NEW G2, NEW W2, NEW D2,
         Becomes(T, T2, e, u), Becomes(G, G2, e, g), Becomes(W, W2, e, w), Becomes(D, D2, e, d),
         Handshake(T2, M)
  PROVE  Sane(T2, G2, W2, D2, M)
<1> DEFINE f == Peer(e)
<1>1. /\ f \in Ends /\ f # e /\ Peer(f) = e /\ \A a \in Ends : a = e \/ a = f
  BY Constants
<1>2. /\ T \in [Ends -> TcbType] /\ G \in [Ends -> Nat]
      /\ W \in [Ends -> {"open", "closing", "acked", "closed"}]
      /\ D \in [Ends -> {"idle", "waiting", "ready", "eof", "failed"}]
      /\ N \in [Ends -> Seq(SegmentType)]
  BY DEF Sane, Typed
<1>3. u \in TcbType
  BY DEF Local
<1>4. /\ Typed(T2, G2, W2, D2, M)
      /\ ToSet(M[e]) \subseteq ToSet(N[e])
      /\ \A s \in ToSet(M[f]) : s \in ToSet(N[f]) \/ Sound(e, s, u, T[f], g)
  BY <1>2, <1>3 DEF Typed, Sends, Becomes, Writing, Reading
<1>5. /\ T2[e] = u /\ T2[f] = T[f] /\ G2[e] = g /\ G2[f] = G[f]
      /\ W2[e] = w /\ W2[f] = W[f] /\ D2[e] = d /\ D2[f] = D[f]
  BY <1>1, <1>2 DEF Becomes
<1> HIDE DEF f
<1>6. \A a \in Ends : Own(a, T2[a], G2[a], W2[a], D2[a])
  BY <1>1, <1>5 DEF Local, Sane, f
<1>7. \A a \in Ends : Heard(T2[Peer(a)]) => Link(a, T2[a], T2[Peer(a)], G2[a])
  <2>1. Heard(T[f]) => Link(e, u, T[f], g)
    BY DEF Local, f
  <2>2. Heard(u) => Link(f, T[f], u, G[f])
    BY DEF Local, f
  <2>3. QED
    BY <1>1, <1>5, <2>1, <2>2 DEF f
<1>8. \A a \in Ends : \A s \in From(T2, M, a) : Sound(a, s, T2[a], T2[Peer(a)], G2[a])
  <2>1. T[e] \in TcbType /\ T[f] \in TcbType /\ G[e] \in Nat /\ G[f] \in Nat
    BY <1>1, <1>2
  <2>2. GoesOn(f, T[f], T[f], G[f], G[f]) /\ ReceiverGoesOn(e, T[f], T[f])
    BY <1>1, <2>1, GoesOnAndOn
  <2>3. /\ SenderGoesOn(e, T[e], u, G[e], g) /\ ReceiverGoesOn(f, T[e], u)
    BY DEF GoesOn, f
  <2>4. /\ SenderGoesOn(f, T[f], T[f], G[f], G[f]) /\ ReceiverGoesOn(e, T[f], T[f])
    BY <2>2 DEF GoesOn
  <2>5. ASSUME NEW s \in From(T2, M, e) PROVE Sound(e, s, u, T[f], g)
    <3>1. s \in ToSet(M[f]) \cup ToSet(u.queue)
      BY <1>5, <2>5 DEF From, f
    <3>2. CASE s \in ToSet(N[f])
      <4>1. s \in SegmentType
        BY <1>1, <1>2, <3>2, ToSetIsImage
      <4>2. Sound(e, s, T[e], T[f], G[e])
        BY <1>1, <3>2 DEF Sane, From, f
      <4>3. QED
        BY <1>3, <2>1, <2>3, <2>4, <4>1, <4>2, SoundKept DEF f
    <3>3. CASE s \in ToSet(u.queue)
      BY <3>3 DEF Local, f
    <3>4. QED
      BY <1>4, <3>1, <3>2, <3>3
  <2>6. ASSUME NEW s \in From(T2, M, f) PROVE Sound(f, s, T[f], u, G[f])
    <3>1. s \in ToSet(M[e]) \cup ToSet(T[f].queue)
      BY <1>1, <1>5, <2>6 DEF From
    <3>2. s \in From(T, N, f)
      BY <1>1, <1>4, <3>1 DEF From
    <3>3. s \in SegmentType
      <4>1. T[f].queue \in Seq(SegmentType) /\ N[e] \in Seq(SegmentType)
        BY <1>2, <2>1, TcbFields
      <4>2. QED
        BY <1>1, <3>2, <4>1, ToSetIsImage DEF From
    <3>4. Sound(f, s, T[f], T[e], G[f])
      BY <1>1, <3>2 DEF Sane
    <3>5. QED
      BY <1>1, <1>3, <2>1, <2>3, <2>4, <3>3, <3>4, SoundKept
  <2>7. QED
    BY <1>1, <1>5, <2>5, <2>6 DEF f
<1>9. QED
  BY <1>4, <1>6, <1>7, <1>8 DEF Sane

-----------------------------------------------------------------------------
(* Output. *)

LEMMA LocalFacts ==
  ASSUME NEW e \in Ends, NEW t, NEW p \in TcbType, NEW g \in Nat, NEW h \in Nat, NEW w, NEW d,
         Local(e, t, p, g, h, w, d)
  PROVE  /\ Una(e, t) \in 0..Far(e) /\ Nxt(e, t) \in 0..Far(e) /\ Una(e, t) <= Nxt(e, t)
         /\ Nxt(e, t) <= g + 2 /\ (~t.closed => Nxt(e, t) <= g + 1)
         /\ t.state # "CLOSED" => Nxt(e, t) >= 1
         /\ t.closed \/ ~t.known \/ ~Joined(t) => t.data = <<>> /\ t.unsent = <<>>
         /\ Minus(t.next, t.una) = Nxt(e, t) - Una(e, t)
         /\ Heard(p) => Rcv(e, p) \in 1..Far(e) /\ Rcv(e, p) <= g + 2
         /\ g + 2 + Buffer < Far(e)
<1>1. /\ Buffer \in Nat /\ Messages[e] \in Nat /\ Far(e) \in Nat /\ 1 \in 0..Far(e) /\ Far(e) = Messages[e] + Buffer + 4
      /\ 0 \in 0..Far(e)
  BY Constants DEF Far
<1>2. /\ t \in TcbType /\ g <= Messages[e]
      /\ ~Joined(t) => Opening(e, t, g, w, d)
      /\ Joined(t) => Sender(e, t, g, w)
      /\ Heard(p) => Link(e, t, p, g)
  BY DEF Local, Own
<1>3. /\ Una(e, t) \in Nat /\ Nxt(e, t) \in Nat /\ t.una = At(e, Una(e, t)) /\ t.next = At(e, Nxt(e, t))
      /\ Rcv(e, p) \in Nat /\ t.closed \in BOOLEAN /\ t.known \in BOOLEAN
  BY <1>2, TcbFields
<1>4. ~Joined(t) => /\ Una(e, t) = 0 /\ Nxt(e, t) = 1 /\ ~t.closed /\ t.data = <<>> /\ t.unsent = <<>>
  <2>1. Place(e, At(e, 1)) = 1 /\ Place(e, At(e, 0)) = 0 /\ At(e, 0) = Isn[e]
    BY <1>1, Places
  <2>2. QED
    BY <1>2, <2>1 DEF Opening, Una, Nxt
<1>5. /\ Una(e, t) <= Nxt(e, t) /\ Nxt(e, t) <= g + 2 /\ (~t.closed => Nxt(e, t) <= g + 1)
  BY <1>2, <1>3, <1>4 DEF Sender
<1>6. t.state # "CLOSED" => Nxt(e, t) >= 1
  BY <1>2, <1>3, <1>4 DEF Sender
<1>7. t.closed \/ ~t.known \/ ~Joined(t) => t.data = <<>> /\ t.unsent = <<>>
  BY <1>2, <1>4 DEF Sender
<1>8. Una(e, t) \in 0..Far(e) /\ Nxt(e, t) \in 0..Far(e)
  BY <1>1, <1>2, <1>3, <1>5
<1>9. Minus(t.next, t.una) = Nxt(e, t) - Una(e, t)
  <2>1. \A k, n \in 0..Far(e) : Minus(At(e, k), At(e, n)) = k - n
    BY Places
  <2>2. Minus(At(e, Nxt(e, t)), At(e, Una(e, t))) = Nxt(e, t) - Una(e, t)
    BY <1>8, <2>1
  <2>3. QED
    BY <1>3, <2>2
<1>10. Heard(p) => Rcv(e, p) \in 1..Far(e) /\ Rcv(e, p) <= g + 2
  <2>1. Heard(p) => 1 <= Rcv(e, p) /\ Rcv(e, p) <= IF t.closed THEN g + 2 ELSE Nxt(e, t)
    BY <1>2 DEF Link
  <2>2. QED
    BY <1>1, <1>2, <1>3, <1>5, <2>1
<1>11. g + 2 + Buffer < Far(e)
  BY <1>1, <1>2
<1>12. QED
  BY <1>5, <1>6, <1>7, <1>8, <1>9, <1>10, <1>11

\* The same as far as the invariant goes, but for the queue.
Alike(t, u) ==
  /\ u.state = t.state /\ u.known = t.known /\ u.isn = t.isn /\ u.una = t.una /\ u.next = t.next
  /\ u.window = t.window /\ u.wl1 = t.wl1 /\ u.wl2 = t.wl2
  /\ u.unsent = t.unsent /\ u.data = t.data /\ u.closed = t.closed
  /\ u.rnext = t.rnext /\ u.rwindow = t.rwindow /\ u.rdata = t.rdata

LEMMA AlikeKept ==
  ASSUME NEW e \in Ends, NEW t, NEW u \in TcbType, NEW p \in TcbType,
         NEW g \in Nat, NEW h \in Nat, NEW w, NEW d,
         Local(e, t, p, g, h, w, d), Alike(t, u), t.state = "LISTEN" => u = t,
         \A s \in ToSet(u.queue) : s \in ToSet(t.queue) \/ Sound(e, s, t, p, g)
  PROVE  Local(e, u, p, g, h, w, d) /\ GoesOn(e, t, u, g, g)
<1>1. t \in TcbType /\ Peer(e) \in Ends
  BY Constants DEF Local
<1>2. /\ \A f \in Ends : Una(f, u) = Una(f, t) /\ Nxt(f, u) = Nxt(f, t)
      /\ \A f \in Ends : Rcv(f, u) = Rcv(f, t) /\ ReadTo(f, u) = ReadTo(f, t)
      /\ Heard(u) = Heard(t) /\ Joined(u) = Joined(t)
  BY DEF Alike, Una, Nxt, Rcv, ReadTo, Heard, Joined
<1>3. \A f \in Ends : Rcv(f, t) \in Nat /\ ReadTo(f, t) \in Int /\ Nxt(f, t) \in Nat
  BY <1>1, TcbFields
<1>4. GoesOn(e, t, u, g, g)
  BY <1>1, <1>2, <1>3 DEF GoesOn, SenderGoesOn, ReceiverGoesOn, Alike
<1>5. Own(e, u, g, w, d)
  <2>1. Opening(e, t, g, w, d) => Opening(e, u, g, w, d)
    BY DEF Opening, Alike
  <2>2. Sender(e, t, g, w) => Sender(e, u, g, w)
    <3>1. Layout(e, t, g) => Layout(e, u, g)
      BY <1>2 DEF Layout, Alike
    <3>2. QED
      BY <1>2, <3>1 DEF Sender, Alike
  <2>3. WindowUpdates(e, t) => WindowUpdates(e, u)
    BY <1>1, <1>2 DEF WindowUpdates, Alike
  <2>4. QED
    BY <1>2, <2>1, <2>2, <2>3 DEF Local, Own, Alike
<1>6. Link(e, t, p, g) => Link(e, u, p, g)
  BY <1>2 DEF Link, Alike
<1>7. Link(Peer(e), p, t, h) => Link(Peer(e), p, u, h)
  <2>1. \A k : Fits(Peer(e), t, k) => Fits(Peer(e), u, k)
    BY <1>1, <1>2 DEF Fits, Alike
  <2>2. QED
    BY <1>1, <1>2, <2>1 DEF Link, Alike
<1>8. ASSUME NEW s \in ToSet(u.queue) PROVE Sound(e, s, u, p, g)
  <2>1. s \in SegmentType
    BY TcbFields, ToSetIsImage
  <2>2. Sound(e, s, t, p, g)
    BY <1>8 DEF Local
  <2>3. QED
    BY <1>1, <1>4, <2>1, <2>2, SoundKept, GoesOnAndOn DEF GoesOn
<1>9. QED
  BY <1>2, <1>4, <1>5, <1>6, <1>7, <1>8 DEF Local

\* What get_transmit_packet() and output_one() put into a segment.
LEMMA NewSegment ==
  ASSUME NEW e \in Ends, NEW t \in TcbType, NEW p, NEW g \in Nat, NEW h \in Nat, NEW w, NEW d,
         Own(e, t, g, w, d), Heard(t) => Link(Peer(e), p, t, h),
         t.state \notin {"CLOSED", "LISTEN"},
         NEW bytes \in Seq(Bytes), NEW seq \in Seqs,
         SynOn(t) => bytes = <<>> /\ seq = Isn[e],
         ~SynOn(t) => \E q \in 1..Nxt(e, t) :
                        /\ seq = At(e, q)
                        /\ q + Len(bytes) <= Nxt(e, t)
                        /\ bytes = Stretch(q - 1, Len(bytes))
                        /\ Len(bytes) > 0 => q + Len(bytes) <= g + 1
                        /\ Len(bytes) > 1 => Fits(e, p, q + Len(bytes))
                        /\ FinOn(t) => Len(bytes) = 0 /\ q = Nxt(e, t)
  PROVE  Segment(t, seq, bytes) \in SegmentType /\ Sound(e, Segment(t, seq, bytes), t, p, g)
<1> DEFINE s == Segment(t, seq, bytes)
           f == Peer(e)
<1>1. f \in Ends /\ Buffer \in Nat /\ Peer(f) = e /\ SeqSpace \in Nat \ {0}
  BY Constants
<1>2. /\ t.rnext \in Seqs /\ t.rwindow \in 0..Buffer /\ t.rdata \in Seq(Bytes) /\ t.closed \in BOOLEAN
      /\ Rcv(f, t) \in Nat /\ t.rnext = At(f, Rcv(f, t)) /\ Len(t.rdata) \in Nat /\ 0 \in Seqs
  BY <1>1, TcbFields, LenProperties DEF Seqs
<1>3. /\ s.seq = seq /\ s.bytes = bytes /\ s.ack = (IF AckOn(t) THEN t.rnext ELSE 0) /\ s.window = t.rwindow
      /\ s.syn = SynOn(t) /\ s.ackOn = AckOn(t) /\ s.fin = FinOn(t) /\ s.rst = FALSE
      /\ s \in SegmentType
  BY <1>2 DEF Segment, SegmentType, SynOn, AckOn, FinOn
<1> HIDE DEF s, f
<1>4. s.ackOn => AckSound(e, s, t)
  <2> SUFFICES ASSUME AckOn(t) PROVE AckSound(e, s, t)
    BY <1>3
  <2>1. Heard(t)
    BY DEF AckOn, Heard
  <2>2. 1 <= Rcv(f, t)
    BY <1>1, <2>1 DEF Link, f
  <2>3. t.rwindow + Len(t.rdata) <= Buffer
    BY DEF Own
  <2>4. /\ Rcv(f, t) \in 1..Rcv(f, t) /\ s.ack = At(f, Rcv(f, t))
        /\ Rcv(f, t) + s.window <= ReadTo(f, t) + Buffer
        /\ s.window = 0 => t.rwindow = 0
    <3> DEFINE r == Rcv(f, t)
               l == Len(t.rdata)
               m == t.rwindow
    <3>1. r \in Nat /\ l \in Nat /\ m \in Nat /\ 1 <= r /\ m + l <= Buffer
      BY <1>1, <1>2, <2>2, <2>3
    <3>2. ReadTo(f, t) = r - l /\ s.window = m /\ s.ack = At(f, r)
      BY <1>2, <1>3 DEF ReadTo
    <3> HIDE DEF r, l, m
    <3>3. r \in 1..r /\ r + m <= (r - l) + Buffer
      BY <1>1, <3>1
    <3>4. QED
      BY <3>2, <3>3 DEF r, m
  <2>5. QED
    BY <1>1, <2>1, <2>4 DEF AckSound, f
<1>5. CASE SynOn(t)
  <2>1. ~FinOn(t)
    BY <1>5 DEF SynOn, FinOn
  <2>2. QED
    BY <1>3, <1>4, <1>5, <2>1 DEF Sound, s
<1>6. CASE ~SynOn(t)
  <2>1. PICK q \in 1..Nxt(e, t) :
          /\ seq = At(e, q)
          /\ q + Len(bytes) <= Nxt(e, t)
          /\ bytes = Stretch(q - 1, Len(bytes))
          /\ Len(bytes) > 0 => q + Len(bytes) <= g + 1
          /\ Len(bytes) > 1 => Fits(e, p, q + Len(bytes))
          /\ FinOn(t) => Len(bytes) = 0 /\ q = Nxt(e, t)
    BY <1>6
  <2>2. FinOn(t) => t.closed /\ Nxt(e, t) = g + 1
    <3>1. FinOn(t) => Joined(t) /\ t.closed /\ t.state \in {"FIN_WAIT_1", "CLOSING", "LAST_ACK"}
      BY DEF FinOn, Joined
    <3>2. QED
      BY <3>1 DEF Own, Sender
  <2>3. TextSound(e, s, t, p, g)
    BY <1>3, <2>1, <2>2 DEF TextSound
  <2>4. QED
    BY <1>3, <1>4, <1>6, <2>3 DEF Sound, s
<1>7. QED
  BY <1>5, <1>6

Sent(u, s, m, bytes, b, c) ==
  [u EXCEPT !.queue = Append(@, s), !.next = Plus(@, m),
            !.data = IF m > 0 THEN Append(@, bytes) ELSE @,
            !.retransmit = b, !.delayed = c]

SentFrom(v, u, s, m, bytes) ==
  /\ s \in SegmentType => v \in TcbType
  /\ v.queue = Append(u.queue, s)
  /\ v.state = u.state /\ v.known = u.known /\ v.isn = u.isn /\ v.una = u.una
  /\ v.window = u.window /\ v.wl1 = u.wl1 /\ v.wl2 = u.wl2
  /\ v.closed = u.closed /\ v.rnext = u.rnext /\ v.rwindow = u.rwindow /\ v.rdata = u.rdata
  /\ v.unsent = u.unsent /\ v.next = Plus(u.next, m)
  /\ v.data = IF m > 0 THEN Append(u.data, bytes) ELSE u.data

LEMMA SentFields ==
  ASSUME NEW u \in TcbType, NEW s, NEW m \in Nat, NEW bytes,
         m > 0 => Append(u.data, bytes) \in Segments,
         NEW b \in BOOLEAN, NEW c \in BOOLEAN
  PROVE  SentFrom(Sent(u, s, m, bytes, b, c), u, s, m, bytes)
<1> DEFINE q == Append(u.queue, s)
           x == Plus(u.next, m)
           data == IF m > 0 THEN Append(u.data, bytes) ELSE u.data
           v == [u EXCEPT !.queue = q, !.next = x, !.data = data, !.retransmit = b, !.delayed = c]
<1>1. u.next \in Seqs /\ u.next \in Int /\ m \in Int /\ u.queue \in Seq(SegmentType) /\ u.data \in Segments
  <2>1. SeqSpace \in Nat \ {0}
    BY Constants
  <2>2. QED
    BY <2>1, TcbFields DEF Seqs
<1>2. x \in Seqs
  BY <1>1, PlusOfPlus
<1>3. data \in Segments
  BY <1>1
<1>4. s \in SegmentType => q \in Seq(SegmentType)
  BY <1>1, AppendProperties
<1>5. v = Sent(u, s, m, bytes, b, c)
  BY DEF Sent, TcbType
<1> HIDE DEF q, x, data
<1>6. /\ v.queue = q /\ v.next = x /\ v.data = data
      /\ v.state = u.state /\ v.known = u.known /\ v.isn = u.isn /\ v.una = u.una
      /\ v.window = u.window /\ v.wl1 = u.wl1 /\ v.wl2 = u.wl2
      /\ v.closed = u.closed /\ v.rnext = u.rnext /\ v.rwindow = u.rwindow /\ v.rdata = u.rdata
      /\ v.unsent = u.unsent
  BY DEF TcbType
<1>7. q \in Seq(SegmentType) => v \in TcbType
  BY <1>2, <1>3 DEF TcbType, Segments
<1> HIDE DEF v
<1>8. QED
  BY <1>4, <1>5, <1>6, <1>7 DEF q, x, data, SentFrom

\* What output_one() does to a control block, with n new bytes.
OutputFrom(v, t, n) ==
  LET bytes == SubSeq(t.unsent, 1, n)
      rest == SubSeq(t.unsent, n + 1, Len(t.unsent))
      u == [t EXCEPT !.unsent = rest]
      s == Segment(u, IF SynOn(t) THEN t.isn ELSE t.next, bytes)
  IN  /\ bytes \in Seq(Bytes) /\ Len(bytes) = n
      /\ u \in TcbType /\ u.unsent = rest
      /\ u.state = t.state /\ u.closed = t.closed /\ u.rnext = t.rnext /\ u.rwindow = t.rwindow
      /\ s \in SegmentType => v \in TcbType
      /\ v.queue = Append(t.queue, s)
      /\ v.state = t.state /\ v.known = t.known /\ v.isn = t.isn /\ v.una = t.una
      /\ v.window = t.window /\ v.wl1 = t.wl1 /\ v.wl2 = t.wl2
      /\ v.closed = t.closed /\ v.rnext = t.rnext /\ v.rwindow = t.rwindow /\ v.rdata = t.rdata
      /\ v.unsent = rest /\ v.next = Plus(t.next, n)
      /\ v.data = IF n > 0 THEN Append(t.data, bytes) ELSE t.data

LEMMA OutputOneFields ==
  ASSUME NEW t \in TcbType, t.state # "CLOSED", NEW most \in Nat
  PROVE  \E n \in 0..Len(t.unsent) : n <= most /\ OutputFrom(OutputOne(t, most), t, n)
<1> DEFINE n == Min2(Min2(most, Mss), Len(t.unsent))
           bytes == SubSeq(t.unsent, 1, n)
           rest == SubSeq(t.unsent, n + 1, Len(t.unsent))
           u == [t EXCEPT !.unsent = rest]
           s == Segment(u, IF SynOn(t) THEN t.isn ELSE t.next, bytes)
           v == OutputOne(t, most)
<1>1. Mss \in Nat /\ SeqSpace \in Nat \ {0}
  BY Constants
<1>2. /\ t.unsent \in Seq(Bytes) /\ Len(t.unsent) \in Nat /\ t.data \in Segments /\ t.queue \in Seq(SegmentType)
      /\ t.next \in Seqs /\ t.next \in Int
  BY <1>1, TcbFields, LenProperties DEF Seqs
<1>3. n \in 0..Len(t.unsent) /\ n <= most
  BY <1>1, <1>2 DEF Min2
<1> HIDE DEF n
<1>4. bytes \in Seq(Bytes) /\ Len(bytes) = n /\ rest \in Seq(Bytes)
  BY <1>2, <1>3, ToSetOfParts
<1>5. n > 0 => Append(t.data, bytes) \in Segments
  <2> HIDE DEF bytes
  <2>1. n > 0 => bytes # <<>>
    BY <1>3, <1>4, EmptySeq
  <2>2. QED
    BY <1>2, <1>4, <2>1, BytesInAppend
<1>6. Plus(t.next, n) \in Seqs
  <2>1. n \in Int
    BY <1>2, <1>3
  <2>2. QED
    BY <1>2, <2>1, PlusOfPlus
<1> DEFINE b == u.retransmit \/ n > 0 \/ SynOn(t) \/ FinOn(u)
           c == u.delayed /\ ~AckOn(t)
<1>7. v = Sent(u, s, n, bytes, b, c)
  BY DEF OutputOne, Sent, n
<1> HIDE DEF bytes, rest, v
<1>8. u \in TcbType /\ u.unsent = rest
  BY <1>4 DEF TcbType
<1> HIDE DEF s
<1>9. /\ u.queue = t.queue /\ u.next = t.next /\ u.data = t.data
      /\ u.state = t.state /\ u.known = t.known /\ u.isn = t.isn /\ u.una = t.una
      /\ u.window = t.window /\ u.wl1 = t.wl1 /\ u.wl2 = t.wl2
      /\ u.closed = t.closed /\ u.rnext = t.rnext /\ u.rwindow = t.rwindow /\ u.rdata = t.rdata
  BY DEF TcbType
<1>10. b \in BOOLEAN /\ c \in BOOLEAN /\ n \in Nat
  BY <1>2, <1>3
<1> HIDE DEF u, b, c
<1>11. n > 0 => Append(u.data, bytes) \in Segments
  BY <1>5, <1>9
<1>12. SentFrom(v, u, s, n, bytes)
  BY <1>7, <1>8, <1>10, <1>11, SentFields
<1>13. QED
  BY <1>2, <1>3, <1>4, <1>8, <1>9, <1>12 DEF SentFrom, OutputFrom, bytes, rest, u, s, v

\* A step that leaves the input alone, and one that leaves the output alone.
LEMMA InputAlone ==
  ASSUME NEW e \in Ends, NEW t \in TcbType, NEW v \in TcbType, NEW p, NEW h,
         v.rnext = t.rnext, v.rwindow = t.rwindow, v.rdata = t.rdata, Heard(v) = Heard(t)
  PROVE  ReceiverGoesOn(e, t, v) /\ (Link(e, p, t, h) => Link(e, p, v, h))
<1>1. Rcv(e, v) = Rcv(e, t) /\ ReadTo(e, v) = ReadTo(e, t)
  BY DEF Rcv, ReadTo
<1>2. Rcv(e, t) \in Nat /\ ReadTo(e, t) \in Int
  BY TcbFields
<1>3. \A k : Fits(e, t, k) <=> Fits(e, v, k)
  BY <1>1 DEF Fits
<1>4. ReceiverGoesOn(e, t, v)
  BY <1>1, <1>2 DEF ReceiverGoesOn
<1>5. Link(e, p, t, h) => Link(e, p, v, h)
  BY <1>1, <1>3 DEF Link
<1>6. QED
  BY <1>4, <1>5

LEMMA OutputAlone ==
  ASSUME NEW e \in Ends, NEW t \in TcbType, NEW v \in TcbType, NEW p, NEW g \in Nat,
         v.una = t.una, v.next = t.next, v.window = t.window, v.data = t.data, v.closed = t.closed
  PROVE  SenderGoesOn(e, t, v, g, g) /\ (Link(e, t, p, g) => Link(e, v, p, g))
<1>1. Una(e, v) = Una(e, t) /\ Nxt(e, v) = Nxt(e, t)
  BY DEF Una, Nxt
<1>2. Nxt(e, t) \in Nat
  BY TcbFields
<1>3. QED
  BY <1>1, <1>2 DEF SenderGoesOn, Link

LEMMA SegmentTyped ==
  ASSUME NEW t \in TcbType, NEW seq \in Seqs, NEW bytes \in Seq(Bytes)
  PROVE  Segment(t, seq, bytes) \in SegmentType
<1>1. t.rnext \in Seqs /\ t.rwindow \in 0..Buffer /\ t.closed \in BOOLEAN /\ 0 \in Seqs
  <2>1. SeqSpace \in Nat \ {0}
    BY Constants
  <2>2. QED
    BY <2>1, TcbFields DEF Seqs
<1>2. QED
  BY <1>1 DEF Segment, SegmentType, SynOn, AckOn, FinOn

LEMMA FitsBelow ==
  ASSUME NEW e \in Ends, NEW p \in TcbType, NEW k \in Int, NEW n \in Int, n <= k, Fits(e, p, k)
  PROVE  Fits(e, p, n)
<1>1. Rcv(e, p) \in Nat /\ ReadTo(e, p) \in Int /\ Buffer \in Nat
  BY Constants, TcbFields
<1>2. QED
  BY <1>1 DEF Fits

\* The part of the window that is left is for new data.
LEMMA CanSendFits ==
  ASSUME NEW e \in Ends, NEW t, NEW p \in TcbType, NEW g \in Nat, NEW h \in Nat, NEW w, NEW d,
         Local(e, t, p, g, h, w, d)
  PROVE  /\ CanSend(t) \in Nat
         /\ Heard(p) => \A n \in 1..CanSend(t) : Fits(e, p, Nxt(e, t) + n)
<1> DEFINE used == Nxt(e, t) - Una(e, t)
           win == t.window
           len == Len(t.unsent)
           N == Nxt(e, t)
           U == Una(e, t)
<1>1. t \in TcbType
  BY DEF Local
<1>2. /\ win \in 0..Buffer /\ len \in Nat /\ Buffer \in Nat
      /\ N \in Nat /\ U \in Nat /\ U <= N
      /\ Minus(t.next, t.una) = used
      /\ Rcv(e, p) \in Nat /\ ReadTo(e, p) \in Int
  BY <1>1, Constants, TcbFields, LocalFacts, LenProperties
<1>3. CanSend(t) = IF win = 0 \/ used > win THEN 0 ELSE Min2(win - used, len)
  BY <1>2 DEF CanSend
<1> HIDE DEF win, len, N, U
<1>4. used \in Nat /\ win \in Nat /\ N = U + used
  BY <1>2 DEF N, U
<1> HIDE DEF used
<1>5. CanSend(t) \in Nat /\ (CanSend(t) > 0 => len > 0 /\ win # 0 /\ used + CanSend(t) <= win)
  BY <1>2, <1>3, <1>4 DEF Min2
<1>6. ASSUME Heard(p), NEW n \in 1..CanSend(t) PROVE Fits(e, p, Nxt(e, t) + n)
  <2>1. len > 0 /\ win # 0 /\ n \in Nat /\ used + n <= win
    BY <1>4, <1>5, <1>6
  <2>2. Fits(e, p, U + win)
    <3>1. t.unsent # <<>>
      BY <2>1, EmptySeq DEF len
    <3>2. ~t.closed
      BY <3>1, LocalFacts
    <3>3. QED
      BY <1>6, <2>1, <3>2 DEF Local, Link, U, win
  <2>3. N + n <= U + win /\ N + n \in Int /\ U + win \in Int
    BY <1>2, <1>4, <2>1
  <2>4. Fits(e, p, N + n)
    BY <1>2, <2>2, <2>3, FitsBelow
  <2>5. QED
    BY <2>4 DEF N
<1>7. QED
  BY <1>5, <1>6

\* output_one() with new data keeps what holds of a control block.
LEMMA OutputOneKept ==
  ASSUME NEW e \in Ends, NEW t, NEW p \in TcbType, NEW g \in Nat, NEW h \in Nat, NEW w, NEW d,
         Local(e, t, p, g, h, w, d), t.state # "LISTEN",
         NEW most \in Nat, most <= 1 \/ most = CanSend(t)
  PROVE  LET v == OutputOne(t, most)
         IN  /\ Local(e, v, p, g, h, w, d) /\ GoesOn(e, t, v, g, g)
             /\ v.state = t.state /\ v.rnext = t.rnext
             /\ t.state # "CLOSED" => v.queue # <<>>
             /\ \A x \in ToSet(v.queue) :
                  \/ x \in ToSet(t.queue)
                  \/ /\ x.syn = SynOn(t) /\ x.ackOn = AckOn(t) /\ ~x.rst
                     /\ x.ack = IF AckOn(t) THEN t.rnext ELSE 0
<1> DEFINE v == OutputOne(t, most)
           f == Peer(e)
<1>1. t \in TcbType
  BY DEF Local
<1>2. CASE t.state = "CLOSED"
  <2>1. v = t
    BY <1>2 DEF OutputOne
  <2>2. GoesOn(e, t, t, g, g)
    BY <1>1, GoesOnAndOn
  <2> HIDE DEF v
  <2>3. QED
    BY <1>2, <2>1, <2>2 DEF v
<1>3. CASE t.state # "CLOSED"
  <2> DEFINE L == Len(t.unsent)
  <2> HIDE DEF L
  <2>1. PICK n \in 0..L : n <= most /\ OutputFrom(v, t, n)
    BY <1>1, <1>3, OutputOneFields DEF L
  <2> HIDE DEF v
  <2> DEFINE bytes == SubSeq(t.unsent, 1, n)
             rest == SubSeq(t.unsent, n + 1, L)
             u == [t EXCEPT !.unsent = rest]
             seq == IF SynOn(t) THEN t.isn ELSE t.next
             s == Segment(u, seq, bytes)
  <2>2. /\ bytes \in Seq(Bytes) /\ Len(bytes) = n
        /\ u \in TcbType /\ u.unsent = rest
        /\ u.state = t.state /\ u.closed = t.closed /\ u.rnext = t.rnext /\ u.rwindow = t.rwindow
        /\ s \in SegmentType => v \in TcbType
        /\ v.queue = Append(t.queue, s)
        /\ v.state = t.state /\ v.known = t.known /\ v.isn = t.isn /\ v.una = t.una
        /\ v.window = t.window /\ v.wl1 = t.wl1 /\ v.wl2 = t.wl2
        /\ v.closed = t.closed /\ v.rnext = t.rnext /\ v.rwindow = t.rwindow /\ v.rdata = t.rdata
        /\ v.unsent = rest /\ v.next = Plus(t.next, n)
        /\ v.data = IF n > 0 THEN Append(t.data, bytes) ELSE t.data
    BY <2>1 DEF OutputFrom, L
  <2> HIDE DEF u
  <2>3. f \in Ends /\ Peer(f) = e
    BY Constants
  <2>4. /\ L \in Nat /\ n \in Nat /\ t.unsent \in Seq(Bytes) /\ t.data \in Segments
        /\ t.next = At(e, Nxt(e, t)) /\ Nxt(e, t) \in 0..Far(e) /\ Nxt(e, t) \in Nat /\ Nxt(e, t) >= 1
        /\ Una(e, t) \in Nat /\ Una(e, t) <= Nxt(e, t)
        /\ t.next \in Seqs /\ t.isn = Isn[e] /\ t.isn \in Seqs /\ t.queue \in Seq(SegmentType)
    <3>1. L \in Nat /\ n \in Nat /\ t.unsent \in Seq(Bytes) /\ t.data \in Segments
      <4>1. L \in Nat /\ t.unsent \in Seq(Bytes) /\ t.data \in Segments
        BY <1>1, TcbFields, LenProperties DEF L
      <4>2. QED
        BY <4>1
    <3>2. /\ t.next = At(e, Nxt(e, t)) /\ Nxt(e, t) \in 0..Far(e) /\ Nxt(e, t) \in Nat /\ Nxt(e, t) >= 1
          /\ Una(e, t) \in Nat /\ Una(e, t) <= Nxt(e, t)
          /\ t.next \in Seqs /\ t.queue \in Seq(SegmentType)
      BY <1>1, <1>3, TcbFields, LocalFacts
    <3>3. t.isn = Isn[e]
      BY DEF Local, Own
    <3>4. Isn[e] \in Seqs
      BY Constants DEF Seqs
    <3>5. QED
      BY <3>1, <3>2, <3>3, <3>4
  <2>5. seq \in Seqs
    BY <2>4
  <2>6. s \in SegmentType
    BY <2>2, <2>5, SegmentTyped
  <2>7. v \in TcbType
    BY <2>2, <2>6
  <2>8. s = Segment(v, seq, bytes)
    BY <2>2 DEF Segment, SynOn, AckOn, FinOn
  <2> HIDE DEF s, seq
  <2>9. \A x \in ToSet(v.queue) : x \in ToSet(t.queue) \/ x = s
    BY <2>2, <2>4, <2>6, ToSetOfAppend
  <2>10. v.queue # <<>>
    <3>1. Append(t.queue, s) # <<>>
      BY <2>4, <2>6, AppendProperties
    <3>2. QED
      BY <2>2, <3>1
  <2>11. s.syn = SynOn(t) /\ s.ackOn = AckOn(t) /\ ~s.rst /\ s.ack = IF AckOn(t) THEN t.rnext ELSE 0
    BY <2>2, <2>8 DEF Segment, SynOn, AckOn
  <2>12. SynOn(v) = SynOn(t) /\ seq = IF SynOn(v) THEN Isn[e] ELSE t.next
    BY <2>2, <2>4 DEF SynOn, seq
  <2>13. CASE n = 0
    <3>1. bytes = <<>> /\ v.unsent = t.unsent /\ v.next = t.next /\ v.data = t.data
      <4>1. SubSeq(t.unsent, 1, L) = t.unsent
        BY <2>4, SubSeqFull DEF L
      <4>2. Plus(At(e, Nxt(e, t)), 0) = At(e, Nxt(e, t) + 0)
        BY <2>4, Places
      <4>3. rest = t.unsent
        BY <2>13, <4>1
      <4>4. bytes = <<>>
        BY <2>2, <2>13, EmptySeq
      <4>5. v.next = t.next
        BY <2>2, <2>4, <2>13, <4>2
      <4>6. QED
        BY <2>2, <2>13, <4>3, <4>4, <4>5
    <3>2. Alike(t, v)
      BY <2>2, <3>1 DEF Alike
    <3>3. s = Segment(t, seq, bytes)
      BY <2>8, <3>1, <3>2 DEF Segment, SynOn, AckOn, FinOn, Alike
    <3>4. ~SynOn(t) => \E q \in 1..Nxt(e, t) :
                        /\ seq = At(e, q)
                        /\ q + Len(bytes) <= Nxt(e, t)
                        /\ bytes = Stretch(q - 1, Len(bytes))
                        /\ Len(bytes) > 0 => q + Len(bytes) <= g + 1
                        /\ Len(bytes) > 1 => Fits(e, p, q + Len(bytes))
                        /\ FinOn(t) => Len(bytes) = 0 /\ q = Nxt(e, t)
      <4>1. bytes = Stretch(Nxt(e, t) - 1, 0)
        <5>1. Nxt(e, t) - 1 \in Int /\ 0 \in Nat
          BY <2>4
        <5>2. Stretch(Nxt(e, t) - 1, 0) = <<>>
          BY <5>1, StretchType
        <5>3. QED
          BY <3>1, <5>2
      <4>2. Len(bytes) = 0 /\ Nxt(e, t) \in 1..Nxt(e, t) /\ Nxt(e, t) + 0 = Nxt(e, t)
        BY <2>2, <2>4, <2>13
      <4>3. ~SynOn(t) => seq = At(e, Nxt(e, t))
        BY <2>4, <2>12
      <4> HIDE DEF bytes
      <4>4. QED
        BY <4>1, <4>2, <4>3
    <3>5. Own(e, t, g, w, d) /\ (Heard(t) => Link(Peer(e), p, t, h))
      BY DEF Local
    <3>6. SynOn(t) => bytes = <<>> /\ seq = Isn[e]
      BY <2>12, <3>1
    <3> HIDE DEF bytes
    <3>7. Sound(e, Segment(t, seq, bytes), t, p, g)
      BY <1>1, <1>3, <2>2, <2>5, <3>4, <3>5, <3>6, NewSegment
    <3>8. \A x \in ToSet(v.queue) : x \in ToSet(t.queue) \/ Sound(e, x, t, p, g)
      BY <2>9, <3>3, <3>7
    <3>9. Local(e, v, p, g, h, w, d) /\ GoesOn(e, t, v, g, g)
      BY <2>7, <3>2, <3>8, AlikeKept
    <3>10. QED
      BY <2>2, <2>9, <2>10, <2>11, <3>9 DEF v
  <2>14. CASE n > 0
    <3> DEFINE m == Nxt(e, t)
               U == Una(e, t)
    <3>1. t.known /\ Joined(t) /\ ~t.closed /\ L > 0
      <4>1. L # 0
        BY <2>4, <2>14
      <4>2. t.unsent # <<>>
        BY <2>4, <4>1, EmptySeq DEF L
      <4>3. t.known /\ Joined(t) /\ ~t.closed
        BY <4>2, LocalFacts
      <4>4. QED
        BY <2>4, <4>1, <4>3
    <3>2. Sender(e, t, g, w) /\ Layout(e, t, g) /\ Own(e, t, g, w, d) /\ g <= Messages[e]
      BY <3>1 DEF Local, Own, Sender
    <3>3. /\ InPlace(t.data, U) /\ m = U + FlightSize(t.data)
          /\ t.unsent = Stretch(m - 1, g + 1 - m) /\ FlightSize(t.data) \in Nat
      <4>1. FlightSize(t.data) \in Nat
        <5>1. Len(t.data) \in Nat /\ \A i \in 0..Len(t.data) : BytesIn(t.data, i) \in Nat
          BY <2>4, BytesInType
        <5>2. QED
          BY <5>1 DEF FlightSize
      <4>2. QED
        BY <3>2, <4>1 DEF Layout
    <3> HIDE DEF m, U
    <3>4. m \in Nat /\ U \in Nat /\ m <= g + 1 /\ m \in 0..Far(e) /\ m >= 1
      BY <2>4, <3>1, LocalFacts DEF m, U
    <3>5. /\ L = g + 1 - m /\ n <= g + 1 - m
          /\ bytes = Stretch(m - 1, n) /\ rest = Stretch(m + n - 1, g + 1 - (m + n))
      <4>1. m - 1 \in Int /\ g + 1 - m \in Nat
        BY <3>4
      <4>2. L = g + 1 - m
        BY <3>3, <4>1, StretchType DEF L
      <4>3. n \in 0..(g + 1 - m)
        BY <4>2
      <4>4. /\ SubSeq(t.unsent, n + 1, g + 1 - m) = Stretch((m - 1) + n, (g + 1 - m) - n)
            /\ SubSeq(t.unsent, 1, n) = Stretch(m - 1, n)
        <5> DEFINE k == m - 1
                   l == g + 1 - m
        <5>1. k \in Int /\ l \in Nat /\ n \in 0..l /\ t.unsent = Stretch(k, l)
          BY <3>3, <4>1, <4>3
        <5> HIDE DEF k, l
        <5>2. SubSeq(Stretch(k, l), n + 1, l) = Stretch(k + n, l - n) /\ SubSeq(Stretch(k, l), 1, n) = Stretch(k, n)
          BY <5>1, StretchParts
        <5>3. SubSeq(t.unsent, n + 1, l) = Stretch(k + n, l - n) /\ SubSeq(t.unsent, 1, n) = Stretch(k, n)
          BY <5>1, <5>2
        <5>4. QED
          BY <5>3 DEF k, l
      <4>5. (m - 1) + n = m + n - 1 /\ (g + 1 - m) - n = g + 1 - (m + n)
        BY <2>4, <3>4
      <4>6. QED
        <5>1. rest = Stretch(m + n - 1, g + 1 - (m + n))
          BY <4>2, <4>4, <4>5
        <5>2. n <= g + 1 - m
          BY <2>4, <4>2, <4>3
        <5>3. QED
          BY <4>2, <4>4, <5>1, <5>2
    <3>6. v.next = At(e, m + n) /\ Nxt(e, v) = m + n /\ Una(e, v) = U /\ v.data = Append(t.data, bytes)
      <4>1. Plus(At(e, m), n) = At(e, m + n)
        BY <2>4, <3>4, Places
      <4>2. v.next = At(e, m + n)
        BY <2>2, <2>4, <4>1 DEF m
      <4>3. m + n \in 0..Far(e)
        <5>1. g + 2 + Buffer < Far(e) /\ Buffer \in Nat /\ Far(e) \in Nat
          BY Constants, LocalFacts
        <5> DEFINE F == Far(e)
        <5>2. n \in Nat /\ m \in Nat /\ n <= g + 1 - m /\ F \in Nat /\ g + 2 + Buffer < F
          BY <2>4, <3>4, <3>5, <5>1
        <5> HIDE DEF F
        <5>3. m + n \in 0..F
          BY <5>1, <5>2
        <5>4. QED
          BY <5>3 DEF F
      <4>4. Nxt(e, v) = m + n
        BY <4>2, <4>3, Places DEF Nxt
      <4>5. QED
        BY <2>2, <2>14, <4>2, <4>4 DEF Una, U
    <3>7. /\ Append(t.data, bytes) \in Segments
          /\ \A i \in 0..Len(t.data) : BytesIn(v.data, i) = BytesIn(t.data, i)
          /\ FlightSize(v.data) = FlightSize(t.data) + n
          /\ InPlace(v.data, U)
      <4>1. bytes # <<>>
        <5>1. Len(bytes) = n
          BY <2>2
        <5> HIDE DEF bytes
        <5>2. QED
          BY <2>14, <5>1, EmptySeq
      <4> HIDE DEF bytes
      <4>2. /\ Append(t.data, bytes) \in Segments
            /\ \A i \in 0..Len(t.data) : BytesIn(v.data, i) = BytesIn(t.data, i)
            /\ FlightSize(v.data) = FlightSize(t.data) + n
        BY <2>2, <2>4, <3>6, <4>1, BytesInAppend
      <4>3. U - 1 + FlightSize(t.data) = m - 1
        <5> DEFINE F == FlightSize(t.data)
        <5>1. F \in Nat /\ m = U + F /\ U \in Nat
          BY <3>3, <3>4
        <5> HIDE DEF F
        <5>2. U - 1 + F = m - 1
          BY <5>1
        <5>3. QED
          BY <5>2 DEF F
      <4>4. bytes = Stretch(U - 1 + FlightSize(t.data), Len(bytes))
        BY <2>2, <3>5, <4>3
      <4>5. InPlace(v.data, U)
        BY <2>2, <2>4, <3>3, <3>4, <3>6, <4>1, <4>4, InPlaceAppended
      <4>6. QED
        BY <4>2, <4>5
    <3>8. Joined(v) /\ Heard(v) /\ Heard(t) /\ Heard(p)
      BY <2>2, <3>1 DEF Local, Joined, Heard
    <3>9. Own(e, v, g, w, d)
      <4>1. w # "acked"
        <5>1. w = "acked" => t.unsent = <<>>
          BY <3>2 DEF Sender
        <5>2. t.unsent # <<>>
          BY <2>4, <3>1, EmptySeq DEF L
        <5>3. QED
          BY <5>1, <5>2
      <4>2. t.state \in {"ESTABLISHED", "CLOSE_WAIT"}
        BY <1>3, <3>1, <3>2 DEF Sender
      <4>3. Layout(e, v, g)
        <5>1. m + n = U + FlightSize(v.data)
          <6> DEFINE F == FlightSize(t.data)
                     G == FlightSize(v.data)
          <6>1. F \in Nat /\ m = U + F /\ G = F + n
            BY <3>3, <3>7
          <6> HIDE DEF F, G
          <6>2. m + n = U + G
            BY <2>4, <3>4, <6>1
          <6>3. QED
            BY <6>2 DEF G
        <5>2. v.unsent = Stretch((m + n) - 1, g + 1 - (m + n))
          <6>1. v.unsent = rest /\ rest = Stretch(m + n - 1, g + 1 - (m + n))
            BY <2>2, <3>5
          <6>2. m + n - 1 = (m + n) - 1
            BY <2>4, <3>4
          <6> HIDE DEF rest
          <6>3. QED
            BY <6>1, <6>2
        <5>3. QED
          BY <3>6, <3>7, <5>1, <5>2 DEF Layout
      <4>4. U >= 1 /\ U <= m + n /\ m + n <= g + 1
        <5>1. U >= 1
          BY <3>1, <3>2 DEF Sender, U
        <5>2. U <= m
          BY <2>4 DEF U, m
        <5>3. n <= g + 1 - m
          BY <3>5
        <5>4. QED
          BY <2>4, <3>4, <5>1, <5>2, <5>3
      <4>5. Sender(e, v, g, w)
        BY <2>2, <3>1, <3>6, <4>1, <4>2, <4>3, <4>4 DEF Sender
      <4>6. WindowUpdates(e, v)
        <5>1. Rcv(f, v) = Rcv(f, t) /\ Una(e, v) = Una(e, t)
          BY <2>2 DEF Rcv, Una
        <5>2. WindowUpdates(e, t)
          BY <3>2, <3>8 DEF Own
        <5>3. QED
          BY <2>2, <5>1, <5>2 DEF WindowUpdates
      <4>7. QED
        BY <2>2, <3>2, <3>8, <4>5, <4>6 DEF Own
    <3>10. Link(e, v, p, g)
      <4>1. Link(e, t, p, g)
        BY <3>8 DEF Local
      <4>2. \A i \in DOMAIN v.data : Len(v.data[i]) > 1 => Fits(e, p, U + BytesIn(v.data, i))
        <5> TAKE i \in DOMAIN v.data
        <5> DEFINE l == Len(t.data)
        <5>1. l \in Nat /\ DOMAIN t.data = 1..l /\ DOMAIN v.data = 1..(l + 1)
              /\ v.data[l + 1] = bytes /\ \A j \in 1..l : v.data[j] = t.data[j]
          <6>1. bytes # <<>> /\ bytes \in Seq(Bytes)
            <7>1. Len(bytes) = n /\ bytes \in Seq(Bytes)
              BY <2>2
            <7> HIDE DEF bytes
            <7>2. QED
              BY <2>14, <7>1, EmptySeq
          <6> HIDE DEF bytes
          <6>2. Len(v.data) = l + 1 /\ v.data[l + 1] = bytes /\ \A j \in 1..l : v.data[j] = t.data[j]
            BY <2>4, <3>6, <6>1, AppendProperties DEF Segments
          <6>3. DOMAIN v.data = 1..Len(v.data) /\ DOMAIN t.data = 1..l /\ l \in Nat
            BY <2>4, <3>6, <3>7, BytesInType
          <6>4. QED
            BY <6>2, <6>3
        <5> HIDE DEF l
        <5>2. CASE i \in 1..l
          <6>1. BytesIn(v.data, i) = BytesIn(t.data, i)
            BY <3>7, <5>1, <5>2 DEF l
          <6>2. v.data[i] = t.data[i] /\ i \in DOMAIN t.data
            BY <5>1, <5>2
          <6>3. QED
            BY <4>1, <6>1, <6>2 DEF Link, U
        <5>3. CASE i = l + 1
          <6>1. Len(v.data[i]) = n
            BY <2>2, <5>1, <5>3
          <6>2. U + BytesIn(v.data, i) = m + n
            <7>1. Len(v.data) = l + 1
              BY <3>6, <3>7, <5>1, BytesInType
            <7> DEFINE F == FlightSize(t.data)
                       B == BytesIn(v.data, i)
            <7>2. B = F + n /\ F \in Nat /\ m = U + F
              BY <3>3, <3>7, <5>3, <7>1 DEF FlightSize
            <7> HIDE DEF F, B
            <7>3. U + B = m + n
              BY <2>4, <3>4, <7>2
            <7>4. QED
              BY <7>3 DEF B
          <6>3. ASSUME n > 1 PROVE Fits(e, p, m + n)
            <7>1. CanSend(t) \in Nat /\ \A k \in 1..CanSend(t) : Fits(e, p, m + k)
              BY <3>8, CanSendFits DEF m
            <7>2. n \in 1..CanSend(t)
              BY <2>1, <2>4, <6>3, <7>1
            <7>3. QED
              BY <7>1, <7>2
          <6>4. QED
            BY <6>1, <6>2, <6>3
        <5>4. QED
          BY <5>1, <5>2, <5>3
      <4>3. Rcv(e, p) \in Nat
        BY TcbFields
      <4>4. U = Una(e, t) /\ m = Nxt(e, t)
        BY DEF U, m
      <4>5. Rcv(e, p) <= m + n
        <5>1. Rcv(e, p) <= m
          BY <3>1, <4>1 DEF Link, m
        <5>2. QED
          BY <2>4, <3>4, <4>3, <5>1
      <4>6. QED
        BY <2>2, <3>1, <3>6, <4>1, <4>2, <4>4, <4>5 DEF Link
    <3>11. ReceiverGoesOn(f, t, v) /\ Link(f, p, v, h)
      <4>1. Link(f, p, t, h)
        BY <3>8 DEF Local
      <4>2. QED
        BY <1>1, <2>2, <2>3, <2>7, <3>8, <4>1, InputAlone
    <3>12. GoesOn(e, t, v, g, g)
      <4>1. m <= m + n
        BY <2>4, <3>4
      <4>2. SenderGoesOn(e, t, v, g, g)
        BY <3>1, <3>6, <4>1 DEF SenderGoesOn, m
      <4>3. QED
        BY <3>8, <3>11, <4>2 DEF GoesOn
    <3>13. Sound(e, s, v, p, g)
      <4>1. ~SynOn(v) /\ ~FinOn(v) /\ v.state \notin {"CLOSED", "LISTEN"}
        BY <1>3, <2>2, <3>1 DEF SynOn, FinOn, Joined
      <4>2. /\ m \in 1..Nxt(e, v) /\ seq = At(e, m) /\ Len(bytes) = n
            /\ m + n <= Nxt(e, v) /\ bytes = Stretch(m - 1, n) /\ m + n <= g + 1
        <5>1. seq = t.next
          BY <2>12, <4>1
        <5>2. m \in 1..(m + n) /\ m + n <= m + n /\ m + n <= g + 1
          BY <2>4, <3>4, <3>5
        <5>3. QED
          BY <2>2, <2>4, <3>5, <3>6, <5>1, <5>2 DEF m
      <4>3. n > 1 => Fits(e, p, m + n)
        <5>1. CanSend(t) \in Nat /\ \A k \in 1..CanSend(t) : Fits(e, p, m + k)
          BY <3>8, CanSendFits DEF m
        <5>2. n > 1 => n \in 1..CanSend(t)
          BY <2>1, <2>4, <5>1
        <5>3. QED
          BY <5>1, <5>2
      <4>4. bytes \in Seq(Bytes)
        BY <2>2
      <4> HIDE DEF bytes
      <4>5. \E q \in 1..Nxt(e, v) :
                        /\ seq = At(e, q)
                        /\ q + Len(bytes) <= Nxt(e, v)
                        /\ bytes = Stretch(q - 1, Len(bytes))
                        /\ Len(bytes) > 0 => q + Len(bytes) <= g + 1
                        /\ Len(bytes) > 1 => Fits(e, p, q + Len(bytes))
                        /\ FinOn(v) => Len(bytes) = 0 /\ q = Nxt(e, v)
        BY <4>1, <4>2, <4>3
      <4>6. Sound(e, Segment(v, seq, bytes), v, p, g)
        BY <2>5, <2>7, <3>9, <3>11, <4>1, <4>4, <4>5, NewSegment DEF f
      <4>7. QED
        BY <2>8, <4>6
    <3>14. \A x \in ToSet(v.queue) : Sound(e, x, v, p, g)
      <4> TAKE x \in ToSet(v.queue)
      <4>1. CASE x = s
        BY <3>13, <4>1
      <4>2. CASE x \in ToSet(t.queue)
        <5>1. x \in SegmentType
          BY <2>4, <4>2, ToSetIsImage
        <5>2. Sound(e, x, t, p, g)
          BY <4>2 DEF Local
        <5>3. SenderGoesOn(e, t, v, g, g) /\ ReceiverGoesOn(Peer(e), t, v) /\ ReceiverGoesOn(e, p, p)
          BY <3>12, GoesOnAndOn DEF GoesOn
        <5>4. QED
          BY <1>1, <2>7, <5>1, <5>2, <5>3, SoundKept
      <4>3. QED
        BY <2>9, <4>1, <4>2
    <3>15. Local(e, v, p, g, h, w, d)
      BY <2>7, <3>8, <3>9, <3>10, <3>11, <3>14 DEF Local
    <3>16. QED
      BY <2>2, <2>9, <2>10, <2>11, <3>12, <3>15 DEF v
  <2>15. QED
    BY <2>4, <2>13, <2>14
<1>4. QED
  BY <1>2, <1>3

\* output_one() with the first segment that is not acknowledged.
LEMMA RetransmitOneKept ==
  ASSUME NEW e \in Ends, NEW t, NEW p \in TcbType, NEW g \in Nat, NEW h \in Nat, NEW w, NEW d,
         Local(e, t, p, g, h, w, d), t.data # <<>>
  PROVE  LET v == RetransmitOne(t)
         IN  /\ Local(e, v, p, g, h, w, d) /\ GoesOn(e, t, v, g, g)
             /\ Alike(t, v) /\ Joined(v)
<1> DEFINE v == RetransmitOne(t)
           bytes == Head(t.data)
           s == Segment(t, t.una, bytes)
           U == Una(e, t)
           m == Nxt(e, t)
<1>1. /\ t \in TcbType /\ t.data \in Segments /\ t.queue \in Seq(SegmentType) /\ t.una \in Seqs
      /\ t.una = At(e, U) /\ U \in Nat /\ m \in Nat
  BY TcbFields DEF Local
<1>2. t.known /\ Joined(t) /\ ~t.closed
  BY LocalFacts
<1>3. Sender(e, t, g, w) /\ Layout(e, t, g) /\ Own(e, t, g, w, d)
  BY <1>2 DEF Local, Own, Sender
<1>4. Heard(p) /\ Heard(t) /\ Link(e, t, p, g) /\ Link(Peer(e), p, t, h)
  BY <1>2 DEF Local, Joined, Heard
<1>5. t.state \in {"ESTABLISHED", "CLOSE_WAIT"}
  BY <1>2, <1>3 DEF Sender
<1> DEFINE n == Len(bytes)
           B == BytesIn(t.data, 1)
           F == FlightSize(t.data)
<1>6. /\ bytes \in Seq(Bytes) /\ bytes # <<>> /\ n \in Nat \ {0}
      /\ bytes = Stretch(U - 1, n) /\ B = n /\ B <= F /\ F \in Nat
      /\ n > 1 => Fits(e, p, U + n)
  <2> DEFINE l == Len(t.data)
  <2>1. l \in Nat /\ l # 0 /\ DOMAIN t.data = 1..l /\ bytes = t.data[1]
    <3>1. l \in Nat \ {0}
      BY <1>1, EmptySeq DEF Segments
    <3>2. DOMAIN t.data = 1..l
      BY <1>1, BytesInType
    <3>3. bytes = t.data[1]
      BY <1>1, <3>1, EmptySeq, HeadTailProperties DEF Segments
    <3>4. QED
      BY <3>1, <3>2, <3>3
  <2>2. 1 \in 1..l /\ 1 \in 0..l /\ 1 - 1 = 0 /\ l \in 0..l /\ (1 < l \/ 1 = l)
    <3> HIDE DEF l
    <3>1. QED
      BY <2>1
  <2>3. /\ bytes \in Seq(Bytes) /\ n \in Nat \ {0} /\ BytesIn(t.data, 0) = 0
        /\ B = BytesIn(t.data, 1 - 1) + n /\ B \in Nat /\ F \in Nat
    <3>1. /\ \A i \in 1..l : t.data[i] \in Seq(Bytes) /\ Len(t.data[i]) \in Nat \ {0}
          /\ BytesIn(t.data, 0) = 0
          /\ \A i \in 0..l : BytesIn(t.data, i) \in Nat
          /\ \A i \in 1..l : BytesIn(t.data, i) = BytesIn(t.data, i - 1) + Len(t.data[i])
      BY <1>1, BytesInType
    <3> HIDE DEF l, bytes
    <3>2. QED
      BY <2>1, <2>2, <3>1 DEF FlightSize, l
  <2>4. B = n
    <3> HIDE DEF B, n, bytes
    <3>1. BytesIn(t.data, 1 - 1) = 0
      BY <2>2, <2>3
    <3>2. QED
      BY <2>3, <3>1
  <2>5. B <= F
    <3>1. CASE 1 = l
      <4>1. F = B
        BY <3>1 DEF FlightSize
      <4> HIDE DEF B, F
      <4>2. QED
        BY <2>3, <4>1
    <3>2. CASE 1 < l
      <4>1. BytesIn(t.data, 1) < BytesIn(t.data, l)
        BY <1>1, <2>2, <3>2, BytesInGrows
      <4>2. B < F
        BY <4>1 DEF FlightSize
      <4> HIDE DEF B, F
      <4>3. QED
        BY <2>3, <4>2
    <3>3. QED
      BY <2>2, <3>1, <3>2
  <2>6. bytes = Stretch(U - 1, n)
    <3>1. t.data[1] = Stretch(U - 1 + BytesIn(t.data, 1 - 1), Len(t.data[1]))
      BY <1>3, <2>1, <2>2 DEF Layout, InPlace
    <3>2. BytesIn(t.data, 1 - 1) = 0
      BY <2>2, <2>3
    <3>3. U - 1 + 0 = U - 1
      BY <1>1
    <3> HIDE DEF bytes, U
    <3>4. QED
      BY <2>1, <3>1, <3>2, <3>3 DEF U
  <2>7. n > 1 => Fits(e, p, U + n)
    <3>1. Len(t.data[1]) > 1 => Fits(e, p, U + BytesIn(t.data, 1))
      BY <1>4, <2>1, <2>2 DEF Link
    <3> HIDE DEF bytes
    <3>2. QED
      BY <2>1, <2>4, <3>1
  <2>8. bytes # <<>>
    <3> HIDE DEF bytes
    <3>1. QED
      BY <2>3, EmptySeq
  <2>9. QED
    BY <2>3, <2>4, <2>5, <2>6, <2>7, <2>8
<1>7. U \in 1..m /\ U + n <= m /\ U + n <= g + 1
  <2>1. U >= 1 /\ m = U + F /\ m <= g + 1
    BY <1>2, <1>3 DEF Sender, Layout
  <2> HIDE DEF n, B, F, bytes, U, m
  <2>2. QED
    BY <1>1, <1>6, <2>1
<1>8. Sound(e, s, t, p, g) /\ s \in SegmentType
  <2>1. ~SynOn(t) /\ ~FinOn(t) /\ t.state \notin {"CLOSED", "LISTEN"}
    BY <1>2, <1>5 DEF SynOn, FinOn
  <2> HIDE DEF bytes
  <2>2. \E q \in 1..Nxt(e, t) :
                        /\ t.una = At(e, q)
                        /\ q + Len(bytes) <= Nxt(e, t)
                        /\ bytes = Stretch(q - 1, Len(bytes))
                        /\ Len(bytes) > 0 => q + Len(bytes) <= g + 1
                        /\ Len(bytes) > 1 => Fits(e, p, q + Len(bytes))
                        /\ FinOn(t) => Len(bytes) = 0 /\ q = Nxt(e, t)
    BY <1>1, <1>6, <1>7, <2>1
  <2>3. QED
    BY <1>1, <1>3, <1>4, <1>6, <2>1, <2>2, NewSegment
<1>9. v.queue = Append(t.queue, s) /\ Alike(t, v) /\ v \in TcbType
  <2> DEFINE q == Append(t.queue, s)
  <2>1. q \in Seq(SegmentType)
    BY <1>1, <1>8, AppendProperties
  <2>2. v = [t EXCEPT !.queue = q, !.delayed = FALSE]
    BY <1>1 DEF RetransmitOne, TcbType
  <2> HIDE DEF q, v
  <2>3. v \in TcbType /\ v.queue = q
    BY <1>1, <2>1, <2>2 DEF TcbType
  <2>4. Alike(t, v)
    BY <1>1, <2>2 DEF TcbType, Alike
  <2>5. QED
    BY <2>3, <2>4 DEF q
<1> HIDE DEF v, s
<1>10. \A x \in ToSet(v.queue) : x \in ToSet(t.queue) \/ Sound(e, x, t, p, g)
  BY <1>1, <1>8, <1>9, ToSetOfAppend
<1>11. t.state # "LISTEN"
  BY <1>5
<1>12. Local(e, v, p, g, h, w, d) /\ GoesOn(e, t, v, g, g)
  BY <1>9, <1>10, <1>11, AlikeKept
<1>13. Joined(v)
  BY <1>2, <1>9 DEF Alike, Joined
<1>14. QED
  BY <1>9, <1>12, <1>13 DEF v

-----------------------------------------------------------------------------
(* Input: acknowledgments. *)

\* t after an acknowledgment of what it has sent, with what is left of it.
AckedFrom(u, t, s, seq, left) ==
  /\ u.state = t.state /\ u.known = t.known /\ u.isn = t.isn /\ u.next = t.next
  /\ u.una = s.ack /\ u.data = left
  /\ u.window = s.window /\ u.wl1 = seq /\ u.wl2 = s.ack
  /\ u.unsent = t.unsent /\ u.closed = t.closed
  /\ u.rnext = t.rnext /\ u.rwindow = t.rwindow /\ u.rdata = t.rdata
  /\ u.queue = t.queue

\* When this keeps what holds of a control block that is established.
LEMMA AckedKept ==
  ASSUME NEW e \in Ends, NEW t \in TcbType, NEW u \in TcbType, NEW p \in TcbType,
         NEW g \in Nat, NEW h \in Nat, NEW w, NEW d, NEW s \in SegmentType, NEW left \in Segments,
         t.state \in {"ESTABLISHED", "CLOSE_WAIT"}, t.known, ~t.closed, t.isn = Isn[e],
         g <= Messages[e], t.rwindow + Len(t.rdata) <= Buffer, w # "acked",
         Heard(p), Link(e, t, p, g), Link(Peer(e), p, t, h),
         Una(e, t) <= Nxt(e, t), Nxt(e, t) <= g + 1,
         \A x \in ToSet(t.queue) : Sound(e, x, t, p, g),
         AckSound(Peer(e), s, p),
         AckedFrom(u, t, s, t.rnext, left),
         NEW k \in Nat, k >= 1, k <= Nxt(e, t), s.ack = At(e, k),
         InPlace(left, k), Nxt(e, t) = k + FlightSize(left),
         t.unsent = Stretch(Nxt(e, t) - 1, g + 1 - Nxt(e, t)),
         \A i \in DOMAIN left : Len(left[i]) > 1 => Fits(e, p, k + BytesIn(left, i))
  PROVE  Local(e, u, p, g, h, w, d) /\ GoesOn(e, t, u, g, g)
<1> DEFINE f == Peer(e)
           m == Nxt(e, t)
           r == Rcv(e, p)
           R == ReadTo(e, p)
           win == s.window
<1>1. /\ f \in Ends /\ Peer(f) = e /\ Buffer \in Nat
      /\ m \in Nat /\ r \in Nat /\ R \in Int /\ win \in 0..Buffer
      /\ Rcv(f, t) \in Nat /\ t.rnext = At(f, Rcv(f, t))
      /\ k \in 0..Far(e)
  <2>1. f \in Ends /\ Peer(f) = e /\ Buffer \in Nat /\ Far(e) = Messages[e] + Buffer + 4 /\ Messages[e] \in Nat
    BY Constants DEF Far
  <2>2. m \in Nat /\ r \in Nat /\ R \in Int /\ Rcv(f, t) \in Nat /\ t.rnext = At(f, Rcv(f, t))
    BY <2>1, TcbFields
  <2>3. win \in 0..Buffer
    BY DEF SegmentType
  <2> DEFINE F == Far(e)
             M == Messages[e]
  <2>4. F = M + Buffer + 4 /\ M \in Nat /\ k <= m /\ m <= g + 1 /\ g <= M
    BY <2>1
  <2> HIDE DEF F, M, m
  <2>5. k \in 0..F
    BY <2>1, <2>2, <2>4
  <2>6. QED
    BY <2>1, <2>2, <2>3, <2>5 DEF F
<1>2. /\ Una(e, u) = k /\ Nxt(e, u) = m /\ Rcv(f, u) = Rcv(f, t)
      /\ Joined(u) /\ Joined(t) /\ Heard(u) /\ Heard(t)
  <2>1. Place(e, At(e, k)) = k
    BY <1>1, Places
  <2>2. QED
    BY <2>1 DEF AckedFrom, Una, Nxt, Rcv, Joined, Heard
<1>3. k \in 1..r /\ k + win <= R + Buffer /\ (win = 0 => k <= R \/ p.rwindow = 0)
  <2>1. PICK j \in 1..Rcv(Peer(f), p) :
          /\ s.ack = At(Peer(f), j)
          /\ j + s.window <= ReadTo(Peer(f), p) + Buffer
          /\ s.window = 0 => j <= ReadTo(Peer(f), p) \/ p.rwindow = 0
    BY DEF AckSound
  <2>2. r <= m
    BY DEF Link
  <2>3. j \in 0..Far(e)
    <3>1. j \in 1..r
      BY <1>1, <2>1
    <3> DEFINE F == Far(e)
               M == Messages[e]
    <3>2. F = M + Buffer + 4 /\ M \in Nat /\ m <= g + 1 /\ g <= M
      BY Constants DEF Far
    <3>3. j \in Nat /\ j <= r /\ r \in Nat /\ m \in Nat /\ Buffer \in Nat /\ r <= m
      BY <1>1, <2>2, <3>1
    <3> HIDE DEF F, M, m, r
    <3>4. j \in 0..F
      BY <3>2, <3>3
    <3>5. QED
      BY <3>4 DEF F
  <2>4. At(e, j) = At(e, k) => j = k
    BY <1>1, <2>3, Places
  <2>5. j = k
    BY <1>1, <2>1, <2>4
  <2>6. QED
    BY <1>1, <2>1, <2>5
<1>4. Own(e, u, g, w, d)
  <2>1. Layout(e, u, g)
    BY <1>2 DEF Layout, AckedFrom
  <2>2. Sender(e, u, g, w)
    BY <1>2, <2>1 DEF Sender, AckedFrom
  <2>3. WindowUpdates(e, u)
    <3>1. Rcv(f, t) \in 0..Rcv(f, t) /\ k \in 0..k
      BY <1>1
    <3>2. u.wl1 = At(f, Rcv(f, u)) /\ u.wl2 = At(e, k)
      BY <1>1, <1>2 DEF AckedFrom
    <3>3. QED
      BY <1>2, <3>1, <3>2 DEF WindowUpdates
  <2>4. QED
    BY <1>2, <2>2, <2>3 DEF Own, AckedFrom
<1>5. Link(e, u, p, g)
  <2>1. Fits(e, p, k + win)
    BY <1>3 DEF Fits
  <2>2. 1 <= r /\ k <= r /\ r <= m
    <3>1. 1 <= r /\ r <= m
      BY DEF Link
    <3>2. QED
      BY <1>1, <1>3, <3>1
  <2>3. u.data = left /\ u.window = win /\ ~u.closed
    BY DEF AckedFrom
  <2>4. QED
    BY <1>2, <1>3, <2>1, <2>2, <2>3 DEF Link
<1>6. ReceiverGoesOn(f, t, u) /\ Link(f, p, u, h)
  BY <1>1, <1>2, InputAlone DEF AckedFrom
<1>7. GoesOn(e, t, u, g, g)
  BY <1>1, <1>2, <1>6 DEF GoesOn, SenderGoesOn, AckedFrom
<1>8. \A x \in ToSet(u.queue) : Sound(e, x, u, p, g)
  <2> TAKE x \in ToSet(u.queue)
  <2>1. x \in ToSet(t.queue)
    BY DEF AckedFrom
  <2>2. x \in SegmentType
    BY <2>1, TcbFields, ToSetIsImage
  <2>3. SenderGoesOn(e, t, u, g, g) /\ ReceiverGoesOn(Peer(e), t, u) /\ ReceiverGoesOn(e, p, p)
    BY <1>7, GoesOnAndOn DEF GoesOn
  <2>4. QED
    BY <2>1, <2>2, <2>3, SoundKept
<1>9. QED
  BY <1>2, <1>4, <1>5, <1>6, <1>7, <1>8 DEF Local

-----------------------------------------------------------------------------
(* Small changes, that the invariant does not see. *)

\* A step of the control block that keeps what holds of it.
Kept(e, t, u, p, g, h, w, d) == Local(e, u, p, g, h, w, d) /\ GoesOn(e, t, u, g, g)

LEMMA KeptOn ==
  ASSUME NEW e \in Ends, NEW t \in TcbType, NEW u, NEW v, NEW p, NEW g \in Nat, NEW h \in Nat, NEW w, NEW d,
         GoesOn(e, t, u, g, g), u \in TcbType, Kept(e, u, v, p, g, h, w, d)
  PROVE  Kept(e, t, v, p, g, h, w, d)
<1>1. v \in TcbType
  BY DEF Kept, Local
<1>2. GoesOn(e, t, v, g, g)
  BY <1>1, GoesOnAndOn DEF Kept
<1>3. QED
  BY <1>2 DEF Kept

Resembles(t, u) == u \in TcbType /\ Alike(t, u) /\ u.queue = t.queue

LEMMA ResemblesOn ==
  ASSUME NEW t, NEW u, NEW v, Resembles(t, u), Resembles(u, v)
  PROVE  Resembles(t, v)
BY DEF Resembles, Alike

LEMMA OutputResembles ==
  ASSUME NEW t \in TcbType
  PROVE  Resembles(t, Output(t))
BY DEF Resembles, Alike, Output, TcbType

\* The counters and timers.
AckNow(t) == [t EXCEPT !.delayed = FALSE, !.full = 0]
Undelayed(t) == [t EXCEPT !.delayed = FALSE]
Recovering(t, r, n) == [t EXCEPT !.recover = r, !.dupacks = n]
Recovered(t, r) == [t EXCEPT !.recover = r]
Repeated(t, n) == [t EXCEPT !.dupacks = n]
Progressed(t, b) == [t EXCEPT !.dupacks = 0, !.retransmit = b]
Probed(t, m) == [t EXCEPT !.probing = m]
Disarmed(t) == [t EXCEPT !.retransmit = FALSE]
Unpolled(t) == [t EXCEPT !.poll = FALSE]
Later(t, Q) == [t EXCEPT !.ooo = Q]

LEMMA CountsResemble ==
  ASSUME NEW t \in TcbType
  PROVE  /\ Resembles(t, AckNow(t))
         /\ Resembles(t, Undelayed(t))
         /\ \A r \in Seqs : \A n \in 0..4 : Resembles(t, Recovering(t, r, n))
         /\ \A r \in Seqs : Resembles(t, Recovered(t, r))
         /\ \A n \in 0..4 : Resembles(t, Repeated(t, n))
         /\ \A b \in BOOLEAN : Resembles(t, Progressed(t, b))
         /\ \A m \in 0..QueueSpace : Resembles(t, Probed(t, m))
         /\ Resembles(t, Disarmed(t))
         /\ Resembles(t, Unpolled(t))
         /\ \A Q \in SUBSET Seqs : Resembles(t, Later(t, Q))
<1>1. Resembles(t, AckNow(t))
  <2>1. AckNow(t) \in TcbType
    <3> DEFINE u == [t EXCEPT !.delayed = FALSE]
    <3>1. u \in TcbType
      BY DEF TcbType
    <3>2. AckNow(t) = [u EXCEPT !.full = 0]
      BY DEF AckNow, TcbType
    <3> HIDE DEF u
    <3>3. AckNow(t) \in TcbType
      <4> DEFINE v == [u EXCEPT !.full = 0]
      <4>1. 0 \in 0..1
        OBVIOUS
      <4>2. v \in TcbType
        BY <3>1, <4>1 DEF TcbType
      <4>3. QED
        BY <3>2, <4>2
    <3>4. QED
      BY <3>3
  <2>2. Alike(t, AckNow(t)) /\ AckNow(t).queue = t.queue
    BY DEF AckNow, TcbType, Alike
  <2>3. QED
    BY <2>1, <2>2 DEF Resembles
<1>2. Resembles(t, Undelayed(t))
  <2>1. Undelayed(t) \in TcbType
    BY DEF Undelayed, TcbType
  <2>2. Alike(t, Undelayed(t)) /\ Undelayed(t).queue = t.queue
    BY DEF Undelayed, TcbType, Alike
  <2>3. QED
    BY <2>1, <2>2 DEF Resembles
<1>3. ASSUME NEW r \in Seqs, NEW n \in 0..4 PROVE Resembles(t, Recovering(t, r, n))
  <2>1. Recovering(t, r, n) \in TcbType
    BY DEF Recovering, TcbType
  <2>2. Alike(t, Recovering(t, r, n)) /\ Recovering(t, r, n).queue = t.queue
    BY DEF Recovering, TcbType, Alike
  <2>3. QED
    BY <2>1, <2>2 DEF Resembles
<1>4. ASSUME NEW r \in Seqs PROVE Resembles(t, Recovered(t, r))
  <2>1. Recovered(t, r) \in TcbType
    BY DEF Recovered, TcbType
  <2>2. Alike(t, Recovered(t, r)) /\ Recovered(t, r).queue = t.queue
    BY DEF Recovered, TcbType, Alike
  <2>3. QED
    BY <2>1, <2>2 DEF Resembles
<1>5. ASSUME NEW n \in 0..4 PROVE Resembles(t, Repeated(t, n))
  <2>1. Repeated(t, n) \in TcbType
    BY DEF Repeated, TcbType
  <2>2. Alike(t, Repeated(t, n)) /\ Repeated(t, n).queue = t.queue
    BY DEF Repeated, TcbType, Alike
  <2>3. QED
    BY <2>1, <2>2 DEF Resembles
<1>6. ASSUME NEW b \in BOOLEAN PROVE Resembles(t, Progressed(t, b))
  <2>1. Progressed(t, b) \in TcbType
    <3> DEFINE u == Repeated(t, 0)
               v == [u EXCEPT !.retransmit = b]
    <3>1. u \in TcbType
      BY <1>5 DEF Resembles
    <3>2. Progressed(t, b) = v
      BY DEF Progressed, Repeated, TcbType
    <3> HIDE DEF u
    <3>3. v \in TcbType
      BY <3>1 DEF TcbType
    <3>4. QED
      BY <3>2, <3>3
  <2>2. Alike(t, Progressed(t, b)) /\ Progressed(t, b).queue = t.queue
    BY DEF Progressed, TcbType, Alike
  <2>3. QED
    BY <2>1, <2>2 DEF Resembles
<1>7. ASSUME NEW m \in 0..QueueSpace PROVE Resembles(t, Probed(t, m))
  <2>1. Probed(t, m) \in TcbType
    BY DEF Probed, TcbType
  <2>2. Alike(t, Probed(t, m)) /\ Probed(t, m).queue = t.queue
    BY DEF Probed, TcbType, Alike
  <2>3. QED
    BY <2>1, <2>2 DEF Resembles
<1>8. Resembles(t, Disarmed(t))
  <2>1. Disarmed(t) \in TcbType
    BY DEF Disarmed, TcbType
  <2>2. Alike(t, Disarmed(t)) /\ Disarmed(t).queue = t.queue
    BY DEF Disarmed, TcbType, Alike
  <2>3. QED
    BY <2>1, <2>2 DEF Resembles
<1>9. Resembles(t, Unpolled(t))
  <2>1. Unpolled(t) \in TcbType
    BY DEF Unpolled, TcbType
  <2>2. Alike(t, Unpolled(t)) /\ Unpolled(t).queue = t.queue
    BY DEF Unpolled, TcbType, Alike
  <2>3. QED
    BY <2>1, <2>2 DEF Resembles
<1>10. ASSUME NEW Q \in SUBSET Seqs PROVE Resembles(t, Later(t, Q))
  <2>1. Later(t, Q) \in TcbType
    BY DEF Later, TcbType
  <2>2. Alike(t, Later(t, Q)) /\ Later(t, Q).queue = t.queue
    BY DEF Later, TcbType, Alike
  <2>3. QED
    BY <2>1, <2>2 DEF Resembles
<1> QED
  BY <1>1, <1>2, <1>3, <1>4, <1>5, <1>6, <1>7, <1>8, <1>9, <1>10

LEMMA ResemblingKept ==
  ASSUME NEW e \in Ends, NEW t, NEW u, NEW p \in TcbType,
         NEW g \in Nat, NEW h \in Nat, NEW w, NEW d,
         Local(e, t, p, g, h, w, d), Resembles(t, u), t.state # "LISTEN"
  PROVE  Kept(e, t, u, p, g, h, w, d)
<1>1. u \in TcbType /\ Alike(t, u) /\ u.queue = t.queue
  BY DEF Resembles
<1>2. \A s \in ToSet(u.queue) : s \in ToSet(t.queue)
  BY <1>1
<1>3. QED
  BY <1>1, <1>2, AlikeKept DEF Kept

-----------------------------------------------------------------------------
(* From both ends to one and back. *)

LEMMA SaneLocal ==
  ASSUME NEW T, NEW G, NEW W, NEW D, NEW N, Sane(T, G, W, D, N), NEW e \in Ends
  PROVE  /\ T[e] \in TcbType /\ T[Peer(e)] \in TcbType /\ G[e] \in Nat /\ G[Peer(e)] \in Nat
         /\ Local(e, T[e], T[Peer(e)], G[e], G[Peer(e)], W[e], D[e])
         /\ \A s \in ToSet(N[e]) : s \in SegmentType /\ Sound(Peer(e), s, T[Peer(e)], T[e], G[Peer(e)])
         /\ \A s \in ToSet(N[Peer(e)]) : s \in SegmentType /\ Sound(e, s, T[e], T[Peer(e)], G[e])
         /\ T[Client].state # "SYN_SENT" => Joined(T[Client]) /\ Heard(T[Server])
         /\ T[Client].state = "SYN_SENT" => ~Joined(T[Server])
         /\ T[Server].state # "SYN_SENT"
         /\ T[e].state = "LISTEN" => e = Server /\ T[e] = NewTcb(e)
<1> DEFINE f == Peer(e)
<1>1. f \in Ends /\ Peer(f) = e /\ Client \in Ends /\ Server \in Ends /\ (e = Client \/ e = Server)
      /\ Peer(Client) = Server /\ Peer(Server) = Client
  BY Constants DEF Peer
<1>2. /\ T \in [Ends -> TcbType] /\ G \in [Ends -> Nat] /\ N \in [Ends -> Seq(SegmentType)]
  BY DEF Sane, Typed
<1>3. T[e] \in TcbType /\ T[f] \in TcbType /\ G[e] \in Nat /\ G[f] \in Nat
  BY <1>1, <1>2
<1>4. /\ T[Client].state # "SYN_SENT" => Joined(T[Client]) /\ Heard(T[Server])
      /\ T[Client].state = "SYN_SENT" => ~Joined(T[Server])
      /\ T[Server].state # "SYN_SENT" /\ T[Client].state # "LISTEN"
  BY DEF Sane, Handshake, Joined, Heard
<1>5. Joined(T[e]) => Heard(T[f])
  BY <1>1, <1>4 DEF Joined, Heard
<1>6. /\ Own(e, T[e], G[e], W[e], D[e])
      /\ Heard(T[f]) => Link(e, T[e], T[f], G[e])
      /\ Heard(T[e]) => Link(f, T[f], T[e], G[f])
      /\ \A s \in From(T, N, e) : Sound(e, s, T[e], T[f], G[e])
      /\ \A s \in From(T, N, f) : Sound(f, s, T[f], T[e], G[f])
  BY <1>1 DEF Sane
<1>7. \A s \in ToSet(N[e]) : s \in SegmentType /\ Sound(f, s, T[f], T[e], G[f])
  BY <1>1, <1>2, <1>6, ToSetIsImage DEF From
<1>8. \A s \in ToSet(N[f]) : s \in SegmentType /\ Sound(e, s, T[e], T[f], G[e])
  BY <1>1, <1>2, <1>6, ToSetIsImage DEF From
<1>9. T[e].state = "LISTEN" => e = Server /\ T[e] = NewTcb(e)
  BY <1>1, <1>4, <1>6 DEF Own, Opening, Joined
<1>10. \A s \in ToSet(T[e].queue) : Sound(e, s, T[e], T[f], G[e])
  BY <1>6 DEF From
<1>11. QED
  BY <1>3, <1>4, <1>5, <1>6, <1>7, <1>8, <1>9, <1>10 DEF Local

\* What an end sends before it is established.
Opener(t, x) ==
  /\ t.state # "LISTEN"
  /\ x.syn = SynOn(t) /\ x.ackOn = AckOn(t) /\ ~x.rst
  /\ x.ack = IF AckOn(t) THEN t.rnext ELSE 0

LEMMA HandshakeKept ==
  ASSUME NEW T, NEW G, NEW W, NEW D, NEW N, Sane(T, G, W, D, N),
         NEW e \in Ends, NEW u \in TcbType, NEW g \in Nat, NEW M,
         GoesOn(e, T[e], u, G[e], g),
         T[Client].state = "SYN_SENT" =>
           /\ u.state = T[e].state /\ u.rnext = T[e].rnext
           /\ \A x \in ToSet(u.queue) \cup ToSet(M[Peer(e)]) : x \in From(T, N, e) \/ Opener(T[e], x)
           /\ ToSet(M[e]) \subseteq ToSet(N[e])
  PROVE  Handshake([T EXCEPT ![e] = u], M)
<1> DEFINE T2 == [T EXCEPT ![e] = u]
           f == Peer(e)
<1>1. f \in Ends /\ Peer(f) = e /\ f # e /\ Client \in Ends /\ Server \in Ends /\ (e = Client \/ e = Server)
      /\ Peer(Client) = Server /\ Peer(Server) = Client
  BY Constants DEF Peer
<1>2. T \in [Ends -> TcbType]
  BY DEF Sane, Typed
<1>3. T2[e] = u /\ T2[f] = T[f]
  BY <1>1, <1>2
<1> HIDE DEF T2, f
<1>4. Handshake(T, N)
  BY DEF Sane
<1>5. /\ T[Client].state # "SYN_SENT" => Joined(T[Client]) /\ Heard(T[Server])
      /\ T[Server].state # "SYN_SENT"
      /\ T[e].state = "LISTEN" => e = Server
  BY SaneLocal
<1>6. CASE T[Client].state # "SYN_SENT"
  <2>1. (Joined(T[e]) => Joined(u)) /\ (Heard(T[e]) => Heard(u))
    BY DEF GoesOn, ReceiverGoesOn
  <2>2. Joined(T2[Client]) /\ Heard(T2[Server])
    BY <1>1, <1>3, <1>5, <1>6, <2>1 DEF f
  <2>3. Handshake(T2, M)
    BY <2>2 DEF Handshake, Joined, Heard
  <2>4. QED
    BY <2>3 DEF T2
<1>7. CASE T[Client].state = "SYN_SENT"
  <2>1. /\ u.state = T[e].state /\ u.rnext = T[e].rnext
        /\ \A x \in ToSet(u.queue) \cup ToSet(M[f]) : x \in From(T, N, e) \/ Opener(T[e], x)
        /\ ToSet(M[e]) \subseteq ToSet(N[e])
    BY <1>7 DEF f
  <2>2. /\ T2[Client].state = T[Client].state /\ T2[Server].state = T[Server].state
        /\ T2[Server].rnext = T[Server].rnext
    BY <1>1, <1>3, <2>1 DEF f
  <2>3. \A x \in From(T2, M, e) : x \in From(T, N, e) \/ Opener(T[e], x)
    BY <1>3, <2>1 DEF From, f
  <2>4. \A x \in From(T2, M, f) : x \in From(T, N, f)
    BY <1>1, <1>3, <2>1 DEF From
  <2>5. \A x : Opener(T[Client], x) => x.syn /\ ~x.ackOn /\ ~x.rst
    BY <1>7 DEF Opener, SynOn, AckOn
  <2>6. \A x : Opener(T[Server], x) => x.syn /\ x.ackOn /\ ~x.rst /\ x.ack = At(Client, 1)
    BY <1>4, <1>7 DEF Opener, SynOn, AckOn, Handshake
  <2>7. \A x \in From(T2, M, Client) : x.syn /\ ~x.ackOn /\ ~x.rst
    BY <1>1, <1>4, <1>7, <2>3, <2>4, <2>5 DEF Handshake, f
  <2>8. \A x \in From(T2, M, Server) : x.syn /\ x.ackOn /\ ~x.rst /\ x.ack = At(Client, 1)
    BY <1>1, <1>4, <1>7, <2>3, <2>4, <2>6 DEF Handshake, f
  <2>9. T[Server].state = "LISTEN" => From(T2, M, Server) = {}
    <3>1. T[Server].state = "LISTEN" => From(T, N, Server) = {}
      BY <1>4, <1>7 DEF Handshake
    <3>2. \A x : T[Server].state = "LISTEN" => ~Opener(T[Server], x)
      BY DEF Opener
    <3>3. QED
      BY <1>1, <2>3, <2>4, <3>1, <3>2 DEF f
  <2>10. Handshake(T2, M)
    BY <1>4, <1>7, <2>2, <2>7, <2>8, <2>9 DEF Handshake
  <2>11. QED
    BY <2>10 DEF T2
<1>8. QED
  BY <1>6, <1>7

\* A step of one end.
KeepsOpening(T, N, e, u, M) ==
  T[Client].state = "SYN_SENT" =>
    /\ u.state = T[e].state /\ u.rnext = T[e].rnext
    /\ \A x \in ToSet(u.queue) \cup ToSet(M[Peer(e)]) : x \in From(T, N, e) \/ Opener(T[e], x)

LEMMA EndStep ==
  ASSUME NEW T, NEW G, NEW W, NEW D, NEW N, Sane(T, G, W, D, N),
         NEW e \in Ends, NEW u, NEW g \in Nat,
         NEW w \in Writing, NEW d \in Reading,
         Local(e, u, T[Peer(e)], g, G[Peer(e)], w, d),
         GoesOn(e, T[e], u, G[e], g),
         NEW M \in [Ends -> Seq(SegmentType)],
         Sends(e, u, T[Peer(e)], g, N, M),
         KeepsOpening(T, N, e, u, M),
         NEW T2, NEW G2, NEW W2, NEW D2,
         Becomes(T, T2, e, u), Becomes(G, G2, e, g), Becomes(W, W2, e, w), Becomes(D, D2, e, d)
  PROVE  Sane(T2, G2, W2, D2, M)
<1>1. u \in TcbType
  BY DEF Local
<1>2. T[Client].state = "SYN_SENT" =>
           /\ u.state = T[e].state /\ u.rnext = T[e].rnext
           /\ \A x \in ToSet(u.queue) \cup ToSet(M[Peer(e)]) : x \in From(T, N, e) \/ Opener(T[e], x)
           /\ ToSet(M[e]) \subseteq ToSet(N[e])
  BY DEF KeepsOpening, Sends
<1>3. Handshake([T EXCEPT ![e] = u], M)
  BY <1>1, <1>2, HandshakeKept
<1>4. Handshake(T2, M)
  BY <1>3 DEF Becomes
<1>5. QED
  BY <1>4, StepKeepsSane

\* One that changes nothing but the control block, as far as the invariant goes.
LEMMA TcbStep ==
  ASSUME NEW T, NEW G, NEW W, NEW D, NEW N, Sane(T, G, W, D, N),
         NEW e \in Ends, NEW u,
         Kept(e, T[e], u, T[Peer(e)], G[e], G[Peer(e)], W[e], D[e]),
         T[Client].state = "SYN_SENT" =>
           /\ u.state = T[e].state /\ u.rnext = T[e].rnext
           /\ \A x \in ToSet(u.queue) : x \in ToSet(T[e].queue) \/ Opener(T[e], x),
         NEW T2, T2 = [T EXCEPT ![e] = u]
  PROVE  Sane(T2, G, W, D, N)
<1>1. /\ T \in [Ends -> TcbType] /\ G \in [Ends -> Nat]
      /\ W \in [Ends -> Writing] /\ D \in [Ends -> Reading] /\ N \in [Ends -> Seq(SegmentType)]
  BY DEF Sane, Typed, Writing, Reading
<1>2. Becomes(G, G, e, G[e]) /\ Becomes(W, W, e, W[e]) /\ Becomes(D, D, e, D[e]) /\ Becomes(T, T2, e, u)
  BY <1>1 DEF Becomes
<1>3. G[e] \in Nat /\ W[e] \in Writing /\ D[e] \in Reading
  BY <1>1
<1>4. Local(e, u, T[Peer(e)], G[e], G[Peer(e)], W[e], D[e]) /\ GoesOn(e, T[e], u, G[e], G[e])
  BY DEF Kept
<1>5. KeepsOpening(T, N, e, u, N)
  BY DEF From, KeepsOpening
<1>6. Sends(e, u, T[Peer(e)], G[e], N, N)
  BY DEF Sends
<1>7. QED
  BY <1>1, <1>2, <1>3, <1>4, <1>5, <1>6, EndStep

\* Where the applications are is of no importance to an open connection, but for
\* the end of the output: all of it is acknowledged.
LEMMA AppKept ==
  ASSUME NEW e \in Ends, NEW t, NEW p \in TcbType, NEW g \in Nat, NEW h \in Nat,
         NEW w, NEW d, NEW x, NEW y,
         Local(e, t, p, g, h, w, d), Joined(t),
         \/ x = w
         \/ x = "acked" /\ t.data = <<>> /\ t.unsent = <<>> /\ t.known /\ ~t.closed
         \/ x = "closing" /\ ~t.closed
         \/ x = "closed"
  PROVE  Local(e, t, p, g, h, x, y)
<1>1. t \in TcbType /\ Sender(e, t, g, w)
  BY DEF Local, Own
<1>2. Una(e, t) \in Nat /\ Nxt(e, t) \in Nat
  BY <1>1, TcbFields
<1>3. ASSUME t.data = <<>>, t.unsent = <<>>, t.known, ~t.closed
      PROVE  Una(e, t) = Nxt(e, t) /\ Nxt(e, t) >= g + 1
  <2>1. Layout(e, t, g) /\ Nxt(e, t) <= g + 1
    BY <1>1, <1>3 DEF Sender
  <2> DEFINE F == FlightSize(t.data)
             n == Nxt(e, t)
  <2>2. F = 0
    <3>1. <<>> \in Segments /\ Len(<<>>) = 0
      BY EmptySeq DEF Segments
    <3>2. QED
      BY <1>3, <3>1, BytesInType DEF FlightSize
  <2>3. n = Una(e, t) + F /\ t.unsent = Stretch(n - 1, g + 1 - n)
    BY <2>1 DEF Layout
  <2>4. Una(e, t) = n
    <3> HIDE DEF n, F
    <3>1. QED
      BY <1>2, <2>2, <2>3
  <2>5. n - 1 \in Int /\ g + 1 - n \in Nat /\ n \in Nat
    BY <1>2, <2>1
  <2> HIDE DEF n
  <2>6. g + 1 - n = 0
    <3> DEFINE k == n - 1
               l == g + 1 - n
    <3>1. k \in Int /\ l \in Nat /\ Stretch(k, l) = <<>>
      BY <1>3, <2>3, <2>5
    <3> HIDE DEF k, l
    <3>2. l = 0
      BY <3>1, StretchType
    <3>3. QED
      BY <3>2 DEF l
  <2>7. n >= g + 1
    BY <2>5, <2>6
  <2>8. QED
    BY <2>4, <2>7 DEF n
<1>4. Sender(e, t, g, x)
  BY <1>1, <1>3 DEF Sender
<1>5. QED
  BY <1>4 DEF Local, Own

-----------------------------------------------------------------------------
(* The applications. *)

\* Another byte to send.
LEMMA GivenKept ==
  ASSUME NEW e \in Ends, NEW t, NEW u, NEW p \in TcbType, NEW g \in Nat, NEW h \in Nat, NEW d,
         Local(e, t, p, g, h, "open", d), Joined(t), ~t.closed, t.state # "CLOSED", g < Messages[e],
         u = [t EXCEPT !.unsent = Append(@, g + 1)]
  PROVE  /\ Local(e, u, p, g + 1, h, "open", d) /\ GoesOn(e, t, u, g, g + 1)
         /\ u.state = t.state /\ u.queue = t.queue
<1> DEFINE f == Peer(e)
           n == Nxt(e, t)
           b == g + 1
           x == Append(t.unsent, b)
<1>1. /\ t \in TcbType /\ t.unsent \in Seq(Bytes) /\ n \in Nat /\ f \in Ends
      /\ Sender(e, t, g, "open") /\ Own(e, t, g, "open", d) /\ Heard(t) /\ Heard(p)
  BY Constants, TcbFields DEF Local, Own, Joined, Heard
<1>2. b \in Bytes /\ b \in Nat /\ b <= Messages[e] /\ g <= b
  <2> DEFINE M == Messages[e]
  <2>1. M \in Nat /\ g < M
    BY Constants
  <2> HIDE DEF M
  <2>2. b \in 1..M /\ b \in Nat /\ b <= M /\ g <= b
    BY <2>1
  <2>3. b \in Bytes
    BY <2>2 DEF Bytes, M
  <2>4. QED
    BY <2>2, <2>3 DEF M
<1>3. x \in Seq(Bytes)
  BY <1>1, <1>2, AppendProperties
<1> HIDE DEF b
<1>4. x = Stretch(n - 1, b + 1 - n) /\ n <= g + 1 /\ Layout(e, t, g) /\ t.known
  <2>1. t.known /\ Layout(e, t, g) /\ n <= g + 1
    BY <1>1 DEF Sender
  <2>2. t.unsent = Stretch(n - 1, g + 1 - n)
    BY <2>1 DEF Layout
  <2> DEFINE k == n - 1
             l == g + 1 - n
  <2>3. k \in Int /\ l \in Nat /\ b = k + l + 1 /\ b + 1 - n = l + 1
    <3>1. n \in Nat /\ n <= g + 1 /\ b = g + 1
      BY <1>1, <2>1 DEF b
    <3> HIDE DEF n
    <3>2. k \in Int /\ l \in Nat
      BY <3>1
    <3>3. b = k + l + 1
      BY <3>1
    <3>4. b + 1 - n = l + 1
      BY <3>1
    <3>5. QED
      BY <3>2, <3>3, <3>4
  <2> HIDE DEF k, l
  <2>4. Append(Stretch(k, l), k + l + 1) = Stretch(k, l + 1)
    BY <2>3, StretchAppend
  <2>5. x = Stretch(k, l + 1)
    BY <2>2, <2>3, <2>4 DEF k, l
  <2>6. QED
    BY <2>1, <2>3, <2>5 DEF k
<1>5. /\ u \in TcbType /\ u.unsent = x /\ u.state = t.state /\ u.known = t.known /\ u.isn = t.isn
      /\ u.una = t.una /\ u.next = t.next /\ u.window = t.window /\ u.wl1 = t.wl1 /\ u.wl2 = t.wl2
      /\ u.data = t.data /\ u.closed = t.closed /\ u.queue = t.queue
      /\ u.rnext = t.rnext /\ u.rwindow = t.rwindow /\ u.rdata = t.rdata
  <2>1. u = [t EXCEPT !.unsent = x]
    BY <1>1 DEF TcbType, b
  <2> HIDE DEF x
  <2>2. t \in TcbType
    BY <1>1
  <2>3. u \in TcbType
    BY <1>3, <2>1, <2>2 DEF TcbType
  <2>4. /\ u.unsent = x /\ u.state = t.state /\ u.known = t.known /\ u.isn = t.isn
        /\ u.una = t.una /\ u.next = t.next /\ u.window = t.window /\ u.wl1 = t.wl1 /\ u.wl2 = t.wl2
        /\ u.data = t.data /\ u.closed = t.closed /\ u.queue = t.queue
        /\ u.rnext = t.rnext /\ u.rwindow = t.rwindow /\ u.rdata = t.rdata
    BY <2>1, <2>2 DEF TcbType
  <2>5. QED
    BY <2>3, <2>4
<1> HIDE DEF x
<1>6. /\ Una(e, u) = Una(e, t) /\ Nxt(e, u) = n /\ Rcv(f, u) = Rcv(f, t) /\ Joined(u) /\ Heard(u)
  BY <1>1, <1>5 DEF Una, Nxt, Rcv, Joined, Heard
<1>7. Own(e, u, b, "open", d)
  <2>1. Layout(e, u, b)
    BY <1>4, <1>5, <1>6 DEF Layout
  <2>2. n <= b + 1
    <3> HIDE DEF n
    <3>1. QED
      BY <1>1, <1>2, <1>4
  <2>3. Sender(e, u, b, "open")
    BY <1>1, <1>5, <1>6, <2>1, <2>2 DEF Sender
  <2>4. WindowUpdates(e, u)
    BY <1>1, <1>5, <1>6 DEF Own, WindowUpdates
  <2>5. QED
    BY <1>1, <1>2, <1>5, <1>6, <2>3, <2>4 DEF Own
<1>8. Link(e, u, p, b)
  BY <1>1, <1>5, <1>6 DEF Local, Link
<1>9. ReceiverGoesOn(f, t, u) /\ Link(f, p, u, h)
  BY <1>1, <1>5, <1>6, InputAlone DEF Local
<1>10. GoesOn(e, t, u, g, b)
  BY <1>1, <1>2, <1>6, <1>9 DEF GoesOn, SenderGoesOn
<1>11. \A s \in ToSet(u.queue) : Sound(e, s, u, p, b)
  <2> TAKE s \in ToSet(u.queue)
  <2>1. s \in SegmentType /\ Sound(e, s, t, p, g)
    BY <1>5, TcbFields, ToSetIsImage DEF Local
  <2>2. SenderGoesOn(e, t, u, g, b) /\ ReceiverGoesOn(f, t, u) /\ ReceiverGoesOn(e, p, p)
    BY <1>10, GoesOnAndOn DEF GoesOn
  <2>3. QED
    BY <1>1, <1>2, <1>5, <2>1, <2>2, SoundKept
<1>12. Local(e, u, p, b, h, "open", d)
  BY <1>1, <1>5, <1>6, <1>7, <1>8, <1>9, <1>11 DEF Local
<1>13. QED
  BY <1>5, <1>10, <1>12 DEF b

\* The output ends.
CloseOutput(t) ==
  [t EXCEPT !.closed = TRUE,
            !.state = CASE @ = "CLOSE_WAIT" -> "LAST_ACK"
                        [] @ = "ESTABLISHED" -> "FIN_WAIT_1"
                        [] OTHER -> @]

LEMMA ClosedKept ==
  ASSUME NEW e \in Ends, NEW t, NEW u, NEW p \in TcbType, NEW g \in Nat, NEW h \in Nat, NEW d,
         Local(e, t, p, g, h, "acked", d),
         u = CloseOutput(t)
  PROVE  /\ Kept(e, t, u, p, g, h, "closed", d)
         /\ Joined(t) /\ u.state # "LISTEN" /\ u.queue = t.queue
<1> DEFINE f == Peer(e)
           n == Nxt(e, t)
<1>1. /\ t \in TcbType /\ n \in Nat /\ f \in Ends /\ Una(e, t) \in Nat
      /\ Joined(t) /\ Sender(e, t, g, "acked") /\ Heard(t) /\ Heard(p)
  <2>1. t \in TcbType
    BY DEF Local
  <2>2. Joined(t)
    BY DEF Local, Own, Opening
  <2>3. QED
    BY <2>1, <2>2, Constants, TcbFields DEF Local, Own, Joined, Heard
<1>2. /\ ~t.closed /\ t.data = <<>> /\ t.unsent = <<>> /\ Una(e, t) = n /\ n = g + 1
      /\ t.state \in {"ESTABLISHED", "CLOSE_WAIT", "CLOSED"}
  <2>1. /\ ~t.closed /\ t.data = <<>> /\ t.unsent = <<>> /\ Una(e, t) = n /\ n >= g + 1 /\ n <= g + 1
        /\ t.state \in {"ESTABLISHED", "CLOSE_WAIT", "CLOSED"}
    BY <1>1 DEF Sender
  <2> HIDE DEF n
  <2>2. QED
    BY <1>1, <2>1
<1>3. /\ u \in TcbType /\ u.unsent = t.unsent /\ u.known = t.known /\ u.isn = t.isn
      /\ u.una = t.una /\ u.next = t.next /\ u.window = t.window /\ u.wl1 = t.wl1 /\ u.wl2 = t.wl2
      /\ u.data = t.data /\ u.closed = TRUE /\ u.queue = t.queue
      /\ u.rnext = t.rnext /\ u.rwindow = t.rwindow /\ u.rdata = t.rdata
      /\ u.state = CASE t.state = "CLOSE_WAIT" -> "LAST_ACK"
                     [] t.state = "ESTABLISHED" -> "FIN_WAIT_1"
                     [] OTHER -> t.state
  <2> DEFINE s == CASE t.state = "CLOSE_WAIT" -> "LAST_ACK"
                     [] t.state = "ESTABLISHED" -> "FIN_WAIT_1"
                     [] OTHER -> t.state
  <2>1. s \in States
    BY <1>1, TcbFields DEF States
  <2>2. u = [t EXCEPT !.closed = TRUE, !.state = s]
    BY <1>1 DEF TcbType, CloseOutput
  <2> HIDE DEF s
  <2>3. t \in TcbType
    BY <1>1
  <2>4. u \in TcbType
    BY <2>1, <2>2, <2>3 DEF TcbType
  <2>5. /\ u.unsent = t.unsent /\ u.known = t.known /\ u.isn = t.isn
        /\ u.una = t.una /\ u.next = t.next /\ u.window = t.window /\ u.wl1 = t.wl1 /\ u.wl2 = t.wl2
        /\ u.data = t.data /\ u.closed = TRUE /\ u.queue = t.queue
        /\ u.rnext = t.rnext /\ u.rwindow = t.rwindow /\ u.rdata = t.rdata /\ u.state = s
    BY <2>2, <2>3 DEF TcbType
  <2>6. QED
    BY <2>4, <2>5 DEF s
<1>4. u.state \in {"LAST_ACK", "FIN_WAIT_1", "CLOSED"} /\ (u.state = "CLOSED" => t.state = "CLOSED")
  BY <1>2, <1>3
<1>5. /\ Una(e, u) = n /\ Nxt(e, u) = n /\ Rcv(f, u) = Rcv(f, t) /\ Joined(u) /\ Heard(u)
  BY <1>1, <1>2, <1>3, <1>4 DEF Una, Nxt, Rcv, Joined, Heard
<1>6. Own(e, u, g, "closed", d)
  <2>1. n <= g + 2 /\ n <= n /\ n >= g + 1
    <3> HIDE DEF n
    <3>1. QED
      BY <1>1, <1>2
  <2>2. Sender(e, u, g, "closed")
    BY <1>1, <1>2, <1>3, <1>4, <1>5, <2>1 DEF Sender
  <2>3. WindowUpdates(e, u)
    BY <1>1, <1>2, <1>3, <1>5 DEF Local, Own, WindowUpdates
  <2>4. QED
    BY <1>3, <1>5, <2>2, <2>3 DEF Local, Own
<1>7. Link(e, u, p, g)
  <2>1. Link(e, t, p, g) /\ Rcv(e, p) \in Nat
    BY <1>1, TcbFields DEF Local
  <2>2. Rcv(e, p) <= g + 2
    <3>1. Rcv(e, p) <= n
      BY <1>2, <2>1 DEF Link
    <3> HIDE DEF n
    <3>2. QED
      BY <1>1, <1>2, <2>1, <3>1
  <2>3. 1 <= Rcv(e, p) /\ n <= Rcv(e, p)
    BY <1>2, <2>1 DEF Link
  <2>4. DOMAIN u.data = {}
    BY <1>2, <1>3
  <2>5. QED
    BY <1>3, <1>5, <2>2, <2>3, <2>4 DEF Link
<1>8. ReceiverGoesOn(f, t, u) /\ Link(f, p, u, h)
  BY <1>1, <1>3, <1>5, InputAlone DEF Local
<1>9. GoesOn(e, t, u, g, g)
  BY <1>1, <1>2, <1>5, <1>8 DEF GoesOn, SenderGoesOn
<1>10. \A s \in ToSet(u.queue) : Sound(e, s, u, p, g)
  <2> TAKE s \in ToSet(u.queue)
  <2>1. s \in SegmentType /\ Sound(e, s, t, p, g)
    BY <1>3, TcbFields, ToSetIsImage DEF Local
  <2>2. SenderGoesOn(e, t, u, g, g) /\ ReceiverGoesOn(f, t, u) /\ ReceiverGoesOn(e, p, p)
    BY <1>9, GoesOnAndOn DEF GoesOn
  <2>3. QED
    BY <1>1, <1>3, <2>1, <2>2, SoundKept
<1>11. Local(e, u, p, g, h, "closed", d)
  BY <1>1, <1>3, <1>5, <1>6, <1>7, <1>8, <1>10 DEF Local
<1>12. QED
  BY <1>1, <1>3, <1>4, <1>9, <1>11 DEF Kept

LEMMA InvFacts ==
  ASSUME IInv, NEW e \in Ends
  PROVE  /\ Sane(tcb, given, writer, reader, net)
         /\ tcb \in [Ends -> TcbType] /\ given \in [Ends -> Nat] /\ got \in [Ends -> Seq(Bytes)]
         /\ writer \in [Ends -> Writing] /\ reader \in [Ends -> Reading] /\ net \in [Ends -> Seq(SegmentType)]
         /\ tcb[e] \in TcbType /\ tcb[Peer(e)] \in TcbType /\ given[e] \in Nat /\ given[Peer(e)] \in Nat
         /\ Local(e, tcb[e], tcb[Peer(e)], given[e], given[Peer(e)], writer[e], reader[e])
         /\ Sender(e, tcb[e], given[e], writer[e]) \/ ~Joined(tcb[e])
         /\ ~Joined(tcb[e]) => Opening(e, tcb[e], given[e], writer[e], reader[e])
         /\ Joined(tcb[e]) => tcb[Client].state # "SYN_SENT"
         /\ tcb[e].state = "LISTEN" => tcb[e] = NewTcb(e) /\ e = Server
         /\ Connected(e) <=> Joined(tcb[e])
<1>1. Sane(tcb, given, writer, reader, net) /\ got \in [Ends -> Seq(Bytes)]
  BY DEF IInv
<1>2. /\ tcb \in [Ends -> TcbType] /\ given \in [Ends -> Nat]
      /\ writer \in [Ends -> Writing] /\ reader \in [Ends -> Reading] /\ net \in [Ends -> Seq(SegmentType)]
  BY <1>1 DEF Sane, Typed, Writing, Reading
<1>3. /\ tcb[e] \in TcbType /\ tcb[Peer(e)] \in TcbType /\ given[e] \in Nat /\ given[Peer(e)] \in Nat
      /\ Local(e, tcb[e], tcb[Peer(e)], given[e], given[Peer(e)], writer[e], reader[e])
      /\ tcb[Client].state = "SYN_SENT" => ~Joined(tcb[Server])
      /\ tcb[e].state = "LISTEN" => e = Server /\ tcb[e] = NewTcb(e)
  BY <1>1, SaneLocal
<1>4. Joined(tcb[e]) => tcb[Client].state # "SYN_SENT"
  BY <1>3 DEF Joined, Ends
<1>5. Sender(e, tcb[e], given[e], writer[e]) \/ ~Joined(tcb[e])
  BY <1>3 DEF Local, Own
<1>6. ~Joined(tcb[e]) => Opening(e, tcb[e], given[e], writer[e], reader[e])
  BY <1>3 DEF Local, Own
<1>7. Connected(e) <=> Joined(tcb[e])
  BY DEF Connected, Joined
<1>8. QED
  BY <1>1, <1>2, <1>3, <1>4, <1>5, <1>6, <1>7

LEMMA SendKeeps ==
  ASSUME IInv, NEW e \in Ends, Send(e)
  PROVE  IInv'
<1> DEFINE t == [tcb[e] EXCEPT !.unsent = Append(@, given[e] + 1)]
           u == IF CanSend(t) > 0 THEN Output(t) ELSE t
           p == tcb[Peer(e)]
           g == given[e]
           h == given[Peer(e)]
<1>1. /\ Joined(tcb[e]) /\ writer[e] = "open" /\ g < Messages[e] /\ ~tcb[e].closed /\ tcb[e].state # "CLOSED"
      /\ given' = [given EXCEPT ![e] = g + 1] /\ tcb' = [tcb EXCEPT ![e] = u]
      /\ writer' = writer /\ got' = got /\ reader' = reader /\ net' = net /\ faults' = faults /\ crashed' = crashed
  BY InvFacts DEF Send
<1>2. Local(e, tcb[e], p, g, h, "open", reader[e])
  BY <1>1, InvFacts
<1>3. p \in TcbType /\ g \in Nat /\ h \in Nat /\ tcb[e] \in TcbType /\ g + 1 \in Nat
  BY InvFacts
<1>4. /\ Local(e, t, p, g + 1, h, "open", reader[e]) /\ GoesOn(e, tcb[e], t, g, g + 1)
      /\ t.state = tcb[e].state
  <2> HIDE DEF p, g, h
  <2>1. t = [tcb[e] EXCEPT !.unsent = Append(@, g + 1)]
    BY DEF g
  <2> HIDE DEF t
  <2>2. g < Messages[e]
    BY <1>1
  <2>3. QED
    BY <1>1, <1>2, <1>3, <2>1, <2>2, GivenKept
<1> HIDE DEF t, p, g, h
<1>5. Local(e, u, p, g + 1, h, "open", reader[e]) /\ GoesOn(e, tcb[e], u, g, g + 1)
  <2>1. t \in TcbType /\ t.state # "LISTEN" /\ Output(t) \in TcbType
    BY <1>1, <1>4, OutputResembles DEF Local, Joined, Resembles
  <2>2. Kept(e, t, Output(t), p, g + 1, h, "open", reader[e])
    BY <1>3, <1>4, <2>1, OutputResembles, ResemblingKept
  <2>3. GoesOn(e, tcb[e], Output(t), g, g + 1)
    BY <1>3, <1>4, <2>1, <2>2, GoesOnAndOn DEF Kept
  <2>4. QED
    BY <1>4, <2>2, <2>3 DEF Kept
<1> HIDE DEF u
<1>6. Sane(tcb', given', writer', reader', net')
  <2>1. Becomes(tcb, tcb', e, u) /\ Becomes(given, given', e, g + 1) /\ Becomes(writer, writer', e, "open")
        /\ Becomes(reader, reader', e, reader[e])
    BY <1>1, InvFacts DEF Becomes
  <2>2. Sends(e, u, p, g + 1, net, net')
    BY <1>1 DEF Sends
  <2>3. KeepsOpening(tcb, net, e, u, net')
    BY <1>1, InvFacts DEF KeepsOpening
  <2>4. "open" \in Writing /\ reader[e] \in Reading /\ net' \in [Ends -> Seq(SegmentType)]
    BY <1>1, InvFacts DEF Writing
  <2>5. QED
    BY <1>3, <1>5, <2>1, <2>2, <2>3, <2>4, InvFacts, EndStep DEF p, g, h
<1>7. QED
  BY <1>1, <1>6 DEF IInv

\* An application that only goes on with its own state.
LEMMA AppStep ==
  ASSUME IInv, NEW e \in Ends, Joined(tcb[e]), NEW x \in Writing, NEW y \in Reading,
         \/ x = writer[e]
         \/ x = "acked" /\ tcb[e].data = <<>> /\ tcb[e].unsent = <<>> /\ tcb[e].known /\ ~tcb[e].closed
         \/ x = "closing" /\ ~tcb[e].closed
         \/ x = "closed",
         writer' = [writer EXCEPT ![e] = x], reader' = [reader EXCEPT ![e] = y],
         tcb' = tcb, given' = given, got' = got, net' = net, faults' = faults, crashed' = crashed
  PROVE  IInv'
<1> DEFINE t == tcb[e]
           p == tcb[Peer(e)]
           g == given[e]
           h == given[Peer(e)]
<1>1. p \in TcbType /\ g \in Nat /\ h \in Nat /\ t \in TcbType /\ Local(e, t, p, g, h, writer[e], reader[e])
  BY InvFacts
<1> HIDE DEF t, p, g, h
<1>2. Local(e, t, p, g, h, x, y)
  BY <1>1, AppKept DEF t
<1>3. GoesOn(e, t, t, g, g)
  BY <1>1, GoesOnAndOn
<1>4. Becomes(tcb, tcb', e, t) /\ Becomes(given, given', e, g) /\ Becomes(writer, writer', e, x)
      /\ Becomes(reader, reader', e, y)
  BY InvFacts DEF Becomes, t, g
<1>5. Sends(e, t, p, g, net, net')
  BY DEF Sends
<1>6. KeepsOpening(tcb, net, e, t, net')
  BY InvFacts DEF KeepsOpening
<1>7. net' \in [Ends -> Seq(SegmentType)]
  BY InvFacts
<1>8. Sane(tcb', given', writer', reader', net')
  BY <1>1, <1>2, <1>3, <1>4, <1>5, <1>6, <1>7, InvFacts, EndStep DEF t, p, g, h
<1>9. QED
  BY <1>8 DEF IInv

LEMMA CloseWriteKeeps ==
  ASSUME IInv, NEW e \in Ends, CloseWrite(e)
  PROVE  IInv'
<1> DEFINE x == IF tcb[e].state = "CLOSED" THEN "closed"
                ELSE IF tcb[e].data = <<>> /\ tcb[e].unsent = <<>> THEN "acked" ELSE "closing"
<1>1. /\ Joined(tcb[e]) /\ writer[e] = "open" /\ writer' = [writer EXCEPT ![e] = x]
      /\ tcb' = tcb /\ given' = given /\ got' = got /\ reader' = reader /\ net' = net
      /\ faults' = faults /\ crashed' = crashed
  BY InvFacts DEF CloseWrite
<1>2. Sender(e, tcb[e], given[e], writer[e])
  BY <1>1, InvFacts
<1>3. ~tcb[e].closed /\ (tcb[e].state # "CLOSED" => tcb[e].known)
  BY <1>1, <1>2 DEF Sender
<1>4. reader' = [reader EXCEPT ![e] = reader[e]] /\ reader[e] \in Reading
  BY <1>1, InvFacts
<1>5. x \in Writing
  BY DEF Writing
<1>6. \/ x = "acked" /\ tcb[e].data = <<>> /\ tcb[e].unsent = <<>> /\ tcb[e].known /\ ~tcb[e].closed
      \/ x = "closing" /\ ~tcb[e].closed
      \/ x = "closed"
  BY <1>3
<1> HIDE DEF x
<1> DEFINE y == reader[e]
<1> HIDE DEF y
<1>7. y \in Reading /\ reader' = [reader EXCEPT ![e] = y]
  BY <1>4 DEF y
<1>8. QED
  BY <1>1, <1>5, <1>6, <1>7, AppStep

LEMMA WaitKeeps ==
  ASSUME IInv, NEW e \in Ends, Wait(e)
  PROVE  IInv'
<1> DEFINE x == writer[e]
           y == "waiting"
<1>1. /\ Joined(tcb[e]) /\ reader' = [reader EXCEPT ![e] = y]
      /\ tcb' = tcb /\ given' = given /\ got' = got /\ writer' = writer /\ net' = net
      /\ faults' = faults /\ crashed' = crashed
  BY InvFacts DEF Wait
<1>2. x \in Writing /\ y \in Reading /\ writer' = [writer EXCEPT ![e] = x]
  BY <1>1, InvFacts DEF Reading
<1>3. x = writer[e]
  OBVIOUS
<1> HIDE DEF x, y
<1>4. QED
  BY <1>1, <1>2, <1>3, AppStep

\* The application has read, or will not read, what there is.
LEMMA Drained ==
  ASSUME NEW e \in Ends, NEW t \in TcbType, NEW u \in TcbType, NEW p \in TcbType, NEW h \in Nat,
         u.rnext = t.rnext, u.rdata = <<>>, u.rwindow = t.rwindow \/ u.rwindow = Buffer,
         Heard(t), Heard(u), Link(e, p, t, h)
  PROVE  ReceiverGoesOn(e, t, u) /\ Link(e, p, u, h)
<1>1. /\ Rcv(e, t) \in Nat /\ Una(e, p) \in Nat /\ p.window \in 0..Buffer
      /\ p.data \in Segments /\ Buffer \in Nat \ {0} /\ ReadTo(e, t) \in Int /\ ReadTo(e, t) <= Rcv(e, t)
  BY TcbFields, Constants
<1>2. Rcv(e, u) = Rcv(e, t) /\ ReadTo(e, u) = Rcv(e, t)
  <2>1. Len(<<>>) = 0
    OBVIOUS
  <2>2. Rcv(e, u) = Rcv(e, t) /\ ReadTo(e, u) = Rcv(e, t) - 0
    BY <2>1 DEF Rcv, ReadTo
  <2>3. QED
    BY <1>1, <2>2
<1>3. ReceiverGoesOn(e, t, u)
  <2>1. ReadTo(e, t) <= ReadTo(e, u) /\ Rcv(e, t) <= ReadTo(e, u) /\ Rcv(e, t) <= Rcv(e, u)
    BY <1>1, <1>2
  <2>2. QED
    BY <2>1 DEF ReceiverGoesOn
<1>4. \A k \in Int : Fits(e, t, k) => Fits(e, u, k)
  BY <1>3, FitsKept
<1>5. Una(e, p) + p.window \in Int /\ \A i \in DOMAIN p.data : Una(e, p) + BytesIn(p.data, i) \in Int
  <2>1. \A i \in DOMAIN p.data : BytesIn(p.data, i) \in Nat
    <3>1. DOMAIN p.data = 1..Len(p.data) /\ Len(p.data) \in Nat /\ \A i \in 0..Len(p.data) : BytesIn(p.data, i) \in Nat
      BY <1>1, BytesInType
    <3>2. QED
      BY <3>1
  <2>2. QED
    BY <1>1, <2>1
<1>6. Una(e, p) <= ReadTo(e, u)
  BY <1>2 DEF Link
<1>7. QED
  BY <1>2, <1>3, <1>4, <1>5, <1>6 DEF Link

ReadAll(t) == [t EXCEPT !.rdata = <<>>, !.rwindow = Buffer]

LEMMA ReadKept ==
  ASSUME NEW e \in Ends, NEW t, NEW u, NEW p \in TcbType, NEW g \in Nat, NEW h \in Nat, NEW w, NEW d,
         Local(e, t, p, g, h, w, d), Joined(t),
         u = ReadAll(t)
  PROVE  Kept(e, t, u, p, g, h, w, d) /\ u.queue = t.queue
<1> DEFINE f == Peer(e)
<1>1. t \in TcbType /\ f \in Ends /\ Buffer \in Nat /\ Heard(t) /\ Heard(p) /\ Own(e, t, g, w, d)
      /\ Link(e, t, p, g) /\ Link(f, p, t, h)
  BY Constants DEF Local, Joined, Heard
<1>2. t \in TcbType /\ <<>> \in Seq(Bytes) /\ Buffer \in 0..Buffer
  BY <1>1, EmptySeq
<1>3. u \in TcbType
  BY <1>2 DEF TcbType, ReadAll
<1>4. /\ u.unsent = t.unsent /\ u.state = t.state /\ u.known = t.known /\ u.isn = t.isn
      /\ u.una = t.una /\ u.next = t.next /\ u.window = t.window /\ u.wl1 = t.wl1 /\ u.wl2 = t.wl2
      /\ u.data = t.data /\ u.closed = t.closed /\ u.queue = t.queue
      /\ u.rnext = t.rnext /\ u.rwindow = Buffer /\ u.rdata = <<>>
  BY <1>2 DEF TcbType, ReadAll
<1>5. /\ Una(e, u) = Una(e, t) /\ Nxt(e, u) = Nxt(e, t) /\ Rcv(f, u) = Rcv(f, t) /\ Joined(u) /\ Heard(u)
  BY <1>1, <1>4 DEF Una, Nxt, Rcv, Joined, Heard
<1>6. Own(e, u, g, w, d)
  <2>1. Sender(e, t, g, w) => Sender(e, u, g, w)
    <3>1. Layout(e, t, g) => Layout(e, u, g)
      BY <1>4, <1>5 DEF Layout
    <3>2. QED
      BY <1>4, <1>5, <3>1 DEF Sender
  <2>2. WindowUpdates(e, t) => WindowUpdates(e, u)
    BY <1>4, <1>5 DEF WindowUpdates
  <2>3. u.rwindow + Len(u.rdata) <= Buffer
    <3>1. Len(<<>>) = 0
      OBVIOUS
    <3>2. QED
      BY <1>1, <1>4, <3>1
  <2>4. QED
    BY <1>1, <1>4, <1>5, <2>1, <2>2, <2>3 DEF Own
<1>7. SenderGoesOn(e, t, u, g, g) /\ Link(e, u, p, g)
  BY <1>1, <1>3, <1>4, OutputAlone
<1>8. ReceiverGoesOn(f, t, u) /\ Link(f, p, u, h)
  BY <1>1, <1>3, <1>4, <1>5, Drained
<1>9. GoesOn(e, t, u, g, g)
  BY <1>5, <1>7, <1>8 DEF GoesOn
<1>10. \A s \in ToSet(u.queue) : Sound(e, s, u, p, g)
  <2> TAKE s \in ToSet(u.queue)
  <2>1. s \in SegmentType /\ Sound(e, s, t, p, g)
    BY <1>4, TcbFields, ToSetIsImage DEF Local
  <2>2. ReceiverGoesOn(e, p, p)
    BY GoesOnAndOn
  <2>3. QED
    BY <1>1, <1>3, <1>7, <1>8, <2>1, <2>2, SoundKept
<1>11. Local(e, u, p, g, h, w, d)
  BY <1>1, <1>3, <1>5, <1>6, <1>7, <1>8, <1>10 DEF Local
<1>12. QED
  BY <1>4, <1>9, <1>11 DEF Kept

LEMMA ReadKeeps ==
  ASSUME IInv, NEW e \in Ends, Read(e)
  PROVE  IInv'
<1> DEFINE t == tcb[e]
           u == [t EXCEPT !.rdata = <<>>, !.rwindow = Buffer]
           p == tcb[Peer(e)]
           g == given[e]
           h == given[Peer(e)]
           w == writer[e]
           y == IF t.rdata = <<>> THEN "eof" ELSE "idle"
<1>1. /\ p \in TcbType /\ g \in Nat /\ h \in Nat /\ t \in TcbType /\ w \in Writing
      /\ Local(e, t, p, g, h, w, reader[e]) /\ tcb \in [Ends -> TcbType]
  BY InvFacts
<1>2. /\ got' = [got EXCEPT ![e] = got[e] \o t.rdata]
      /\ reader' = [reader EXCEPT ![e] = y]
      /\ tcb' = [tcb EXCEPT ![e].rdata = <<>>, ![e].rwindow = Buffer]
      /\ given' = given /\ writer' = writer /\ net' = net /\ faults' = faults /\ crashed' = crashed
  BY DEF Read
<1>3. Joined(t)
  <2>1. ~Joined(t) => reader[e] = "idle" /\ ~Connected(e)
    BY InvFacts DEF Opening
  <2>2. QED
    BY <2>1 DEF Read
<1>4. tcb' = [tcb EXCEPT ![e] = u]
  BY <1>1, <1>2
<1>5. got' \in [Ends -> Seq(Bytes)]
  <2>1. got \in [Ends -> Seq(Bytes)] /\ got[e] \in Seq(Bytes)
    BY InvFacts
  <2>2. got[e] \o t.rdata \in Seq(Bytes)
    BY <1>1, <2>1, TcbFields, ConcatProperties
  <2>3. QED
    BY <1>2, <2>1, <2>2
<1>6. y \in Reading /\ reader[e] \in Reading
  BY InvFacts DEF Reading
<1>7. u = ReadAll(t)
  BY DEF ReadAll
<1> HIDE DEF u, y, t, p, g, h, w
<1>8. Kept(e, t, u, p, g, h, w, reader[e])
  BY <1>1, <1>3, <1>7, ReadKept
<1>9. Joined(u) /\ Local(e, u, p, g, h, w, y) /\ GoesOn(e, t, u, g, g)
  <2>1. Joined(u)
    BY <1>3, <1>8 DEF Kept, GoesOn
  <2>2. Local(e, u, p, g, h, w, y)
    BY <1>1, <1>8, <2>1, AppKept DEF Kept
  <2>3. QED
    BY <1>8, <2>1, <2>2 DEF Kept
<1>10. Becomes(tcb, tcb', e, u) /\ Becomes(given, given', e, g) /\ Becomes(writer, writer', e, w)
       /\ Becomes(reader, reader', e, y)
  BY <1>2, <1>4, InvFacts DEF Becomes, g, w
<1>11. Sends(e, u, p, g, net, net')
  BY <1>2 DEF Sends
<1>12. KeepsOpening(tcb, net, e, u, net')
  BY <1>3, InvFacts DEF KeepsOpening, t
<1>13. net' \in [Ends -> Seq(SegmentType)]
  BY <1>2, InvFacts
<1>14. Sane(tcb', given', writer', reader', net')
  BY <1>1, <1>6, <1>9, <1>10, <1>11, <1>12, <1>13, InvFacts, EndStep DEF t, p, g, h
<1>15. QED
  BY <1>2, <1>5, <1>14 DEF IInv

LEMMA SendFinKeeps ==
  ASSUME IInv, NEW e \in Ends, SendFin(e)
  PROVE  IInv'
<1> DEFINE t == tcb[e]
           u == [t EXCEPT !.closed = TRUE,
                          !.state = CASE @ = "CLOSE_WAIT" -> "LAST_ACK"
                                      [] @ = "ESTABLISHED" -> "FIN_WAIT_1"
                                      [] OTHER -> @]
           n == CanSend(u)
           v == OutputOne(u, n)
           x == Output(v)
           p == tcb[Peer(e)]
           g == given[e]
           h == given[Peer(e)]
           d == reader[e]
<1>1. /\ writer[e] = "acked" /\ writer' = [writer EXCEPT ![e] = "closed"]
      /\ tcb' = [tcb EXCEPT ![e] = x]
      /\ given' = given /\ got' = got /\ reader' = reader /\ net' = net /\ faults' = faults /\ crashed' = crashed
  BY DEF SendFin
<1>2. /\ p \in TcbType /\ g \in Nat /\ h \in Nat /\ t \in TcbType /\ d \in Reading
      /\ Local(e, t, p, g, h, "acked", d)
  BY <1>1, InvFacts
<1>3. u = CloseOutput(t)
  BY DEF CloseOutput
<1> HIDE DEF u, t, p, g, h, d
<1>4. Kept(e, t, u, p, g, h, "closed", d) /\ Joined(t) /\ u.state # "LISTEN"
  BY <1>2, <1>3, ClosedKept
<1>5. u \in TcbType /\ GoesOn(e, t, u, g, g)
  BY <1>4 DEF Kept, Local
<1>6. Kept(e, u, v, p, g, h, "closed", d) /\ v.state = u.state
  <2>1. n \in Nat
    BY <1>2, <1>4, CanSendFits DEF Kept
  <2> DEFINE m == n
  <2>2. m \in Nat /\ m = CanSend(u) /\ v = OutputOne(u, m)
    BY <2>1
  <2> HIDE DEF m, n, v
  <2>3. QED
    BY <1>2, <1>4, <2>2, OutputOneKept DEF Kept
<1> HIDE DEF v
<1>7. Kept(e, v, x, p, g, h, "closed", d)
  BY <1>2, <1>4, <1>6, OutputResembles, ResemblingKept DEF Kept, Local
<1> HIDE DEF x
<1>8. Kept(e, t, x, p, g, h, "closed", d)
  <2>1. v \in TcbType /\ GoesOn(e, u, v, g, g)
    BY <1>6 DEF Kept, Local
  <2>2. Kept(e, u, x, p, g, h, "closed", d)
    BY <1>2, <1>5, <1>7, <2>1, KeptOn
  <2>3. QED
    BY <1>2, <1>5, <2>2, KeptOn
<1>9. Becomes(tcb, tcb', e, x) /\ Becomes(given, given', e, g) /\ Becomes(writer, writer', e, "closed")
       /\ Becomes(reader, reader', e, d)
  BY <1>1, InvFacts DEF Becomes, g, d
<1>10. Sends(e, x, p, g, net, net')
  BY <1>1 DEF Sends
<1>11. KeepsOpening(tcb, net, e, x, net')
  BY <1>4, InvFacts DEF KeepsOpening, t
<1>12. net' \in [Ends -> Seq(SegmentType)] /\ "closed" \in Writing
  BY <1>1, InvFacts DEF Writing
<1>13. Sane(tcb', given', writer', reader', net')
  BY <1>2, <1>8, <1>9, <1>10, <1>11, <1>12, InvFacts, EndStep DEF t, p, g, h, Kept
<1>14. QED
  BY <1>1, <1>13 DEF IInv

-----------------------------------------------------------------------------
(* Timers and packets. *)

\* A control block that only looks different.
LEMMA ResemblingKeeps ==
  ASSUME IInv, NEW e \in Ends, NEW u, Resembles(tcb[e], u), tcb[e].state # "LISTEN",
         NEW T2, T2 = [tcb EXCEPT ![e] = u]
  PROVE  Sane(T2, given, writer, reader, net)
<1> DEFINE t == tcb[e]
           p == tcb[Peer(e)]
           g == given[e]
           h == given[Peer(e)]
           w == writer[e]
           d == reader[e]
<1>1. /\ p \in TcbType /\ g \in Nat /\ h \in Nat /\ Local(e, t, p, g, h, w, d)
      /\ Sane(tcb, given, writer, reader, net)
  BY InvFacts
<1>2. Resembles(t, u) /\ t.state # "LISTEN"
  OBVIOUS
<1> HIDE DEF t, p, g, h, w, d
<1>3. Kept(e, t, u, p, g, h, w, d)
  BY <1>1, <1>2, ResemblingKept
<1>4. u.state = t.state /\ u.rnext = t.rnext /\ u.queue = t.queue
  BY <1>2 DEF Resembles, Alike
<1>5. QED
  BY <1>1, <1>3, <1>4, TcbStep DEF t, p, g, h, w, d

LEMMA Armed ==
  ASSUME IInv, NEW e \in Ends, tcb[e].delayed \/ tcb[e].retransmit \/ tcb[e].persist \/ tcb[e].poll
  PROVE  tcb[e] \in TcbType /\ tcb[e].state # "LISTEN"
<1>1. /\ tcb[e] \in TcbType
      /\ tcb[e].state = "LISTEN" => tcb[e] = NewTcb(e) /\ e = Server
  BY InvFacts
<1>2. LET n == NewTcb(e) IN ~n.delayed /\ ~n.retransmit /\ ~n.persist /\ (n.poll => e = Client)
  BY DEF NewTcb
<1>3. Client # Server
  BY Constants
<1>4. QED
  BY <1>1, <1>2, <1>3

LEMMA FaultsCounted ==
  ASSUME IInv, faults' = faults \/ (faults < MaxFaults /\ faults' = faults + 1)
  PROVE  faults' \in 0..MaxFaults
<1>1. faults \in 0..MaxFaults /\ MaxFaults \in Nat
  BY Constants DEF IInv
<1>2. QED
  BY <1>1

LEMMA DelayedAckFiresKeeps ==
  ASSUME IInv, NEW e \in Ends, DelayedAckFires(e)
  PROVE  IInv'
<1> DEFINE t == tcb[e]
           v == [t EXCEPT !.delayed = FALSE, !.full = 0]
           u == Output(v)
<1>1. /\ t.delayed /\ tcb' = [tcb EXCEPT ![e] = u]
      /\ given' = given /\ writer' = writer /\ got' = got /\ reader' = reader
      /\ net' = net /\ faults' = faults /\ crashed' = crashed
  BY DEF DelayedAckFires, app
<1>2. t \in TcbType /\ t.state # "LISTEN"
  BY <1>1, Armed
<1>3. Resembles(t, u)
  <2>1. v = AckNow(t)
    BY DEF AckNow
  <2> HIDE DEF t, v
  <2>2. Resembles(t, v)
    BY <1>2, <2>1, CountsResemble
  <2>3. Resembles(v, u)
    BY <2>2, OutputResembles DEF Resembles
  <2>4. QED
    BY <2>2, <2>3, ResemblesOn
<1> HIDE DEF u
<1>4. Sane(tcb', given', writer', reader', net')
  BY <1>1, <1>2, <1>3, ResemblingKeeps
<1>5. QED
  BY <1>1, <1>4 DEF IInv

LEMMA RetransmitFiresKeeps ==
  ASSUME IInv, NEW e \in Ends, RetransmitFires(e)
  PROVE  IInv'
<1> DEFINE t == tcb[e]
           r == Plus(t.next, -1)
           a == [t EXCEPT !.recover = r, !.dupacks = 0]
           b == RetransmitOne(a)
           c == [t EXCEPT !.retransmit = FALSE]
           u == IF t.data # <<>> THEN Output(b) ELSE IF SynOn(t) \/ FinOn(t) THEN Output(t) ELSE c
           p == tcb[Peer(e)]
           g == given[e]
           h == given[Peer(e)]
           w == writer[e]
           d == reader[e]
<1>1. /\ t.retransmit /\ tcb' = [tcb EXCEPT ![e] = u]
      /\ given' = given /\ writer' = writer /\ got' = got /\ reader' = reader
      /\ net' = net /\ crashed' = crashed /\ faults' \in 0..MaxFaults
  <2>1. faults' = faults \/ (faults < MaxFaults /\ faults' = faults + 1)
    BY DEF RetransmitFires, Fires
  <2>2. faults' \in 0..MaxFaults
    BY <2>1, FaultsCounted
  <2>3. QED
    BY <2>2 DEF RetransmitFires, app
<1>2. t \in TcbType /\ t.state # "LISTEN"
  BY <1>1, Armed
<1>3. /\ p \in TcbType /\ g \in Nat /\ h \in Nat /\ Local(e, t, p, g, h, w, d)
      /\ Sane(tcb, given, writer, reader, net)
  BY InvFacts
<1>4. r \in Seqs
  <2>1. t.next \in Seqs /\ t.next \in Int
    BY <1>2, TcbFields, Constants DEF Seqs
  <2>2. -1 \in Int
    OBVIOUS
  <2>3. QED
    BY <2>1, <2>2, PlusOfPlus
<1>5. CASE t.data # <<>>
  <2> HIDE DEF p, g, h, w, d
  <2>1. Resembles(t, a)
    <3>1. a = Recovering(t, r, 0) /\ 0 \in 0..4
      BY DEF Recovering
    <3> HIDE DEF t, r, a
    <3>2. QED
      BY <1>2, <1>4, <3>1, CountsResemble
  <2>2. Kept(e, t, a, p, g, h, w, d) /\ a.data # <<>> /\ a \in TcbType /\ a.state = t.state
    <3> HIDE DEF t, a
    <3>1. Kept(e, t, a, p, g, h, w, d)
      BY <1>2, <1>3, <2>1, ResemblingKept
    <3>2. QED
      BY <1>5, <2>1, <3>1 DEF Resembles, Alike
  <2> HIDE DEF a
  <2>3. Kept(e, a, b, p, g, h, w, d) /\ b \in TcbType /\ Joined(b) /\ b.state = a.state
    BY <1>3, <2>2, RetransmitOneKept DEF Kept, Local, Alike
  <2> HIDE DEF b
  <2>4. Kept(e, b, Output(b), p, g, h, w, d)
    BY <1>2, <1>3, <2>2, <2>3, OutputResembles, ResemblingKept DEF Kept
  <2>5. Kept(e, t, Output(b), p, g, h, w, d)
    <3> HIDE DEF t
    <3>1. GoesOn(e, t, a, g, g) /\ GoesOn(e, a, b, g, g)
      BY <2>2, <2>3 DEF Kept
    <3>2. GoesOn(e, t, b, g, g)
      BY <1>2, <1>3, <2>2, <2>3, <3>1, GoesOnAndOn
    <3>3. QED
      BY <1>2, <1>3, <2>3, <2>4, <3>2, KeptOn
  <2>6. u = Output(b)
    BY <1>5
  <2>7. tcb[Client].state # "SYN_SENT"
    <3>1. Joined(a)
      BY <2>3 DEF Joined
    <3>2. Joined(t)
      BY <2>2, <3>1 DEF Joined
    <3>3. QED
      BY <3>2, InvFacts
  <2> HIDE DEF u
  <2>8. Sane(tcb', given, writer, reader, net)
    BY <1>1, <1>3, <2>5, <2>6, <2>7, TcbStep DEF t, p, g, h, w, d
  <2>9. QED
    BY <1>1, <2>8 DEF IInv
<1>6. CASE t.data = <<>>
  <2>1. Resembles(t, c)
    <3>1. c = Disarmed(t)
      BY DEF Disarmed
    <3> HIDE DEF t, c
    <3>2. QED
      BY <1>2, <3>1, CountsResemble
  <2>2. Resembles(t, Output(t))
    <3> HIDE DEF t
    <3>1. QED
      BY <1>2, OutputResembles
  <2>3. Resembles(t, u)
    BY <1>6, <2>1, <2>2
  <2> HIDE DEF u
  <2>4. Sane(tcb', given, writer, reader, net)
    BY <1>1, <1>2, <2>3, ResemblingKeeps
  <2>5. QED
    BY <1>1, <2>4 DEF IInv
<1>7. QED
  BY <1>5, <1>6

LEMMA PersistFiresKeeps ==
  ASSUME IInv, NEW e \in Ends, PersistFires(e)
  PROVE  IInv'
<1> DEFINE t == tcb[e]
           m == Min2(t.probing + 1, QueueSpace)
           a == [t EXCEPT !.probing = m]
           b == OutputOne(a, 1)
           u == Output(b)
           p == tcb[Peer(e)]
           g == given[e]
           h == given[Peer(e)]
           w == writer[e]
           d == reader[e]
<1>1. /\ t.persist /\ tcb' = [tcb EXCEPT ![e] = u]
      /\ given' = given /\ writer' = writer /\ got' = got /\ reader' = reader
      /\ net' = net /\ crashed' = crashed /\ faults' \in 0..MaxFaults
  <2>1. faults' = faults \/ (faults < MaxFaults /\ faults' = faults + 1)
    BY DEF PersistFires, Fires
  <2>2. faults' \in 0..MaxFaults
    BY <2>1, FaultsCounted
  <2>3. QED
    BY <2>2 DEF PersistFires, app
<1>2. t \in TcbType /\ t.state # "LISTEN"
  BY <1>1, Armed
<1>3. /\ p \in TcbType /\ g \in Nat /\ h \in Nat /\ Local(e, t, p, g, h, w, d)
      /\ Sane(tcb, given, writer, reader, net)
  BY InvFacts
<1>4. m \in 0..QueueSpace
  <2>1. t.probing \in 0..QueueSpace /\ QueueSpace \in Nat
    BY <1>2, TcbFields, Constants
  <2>2. QED
    BY <2>1 DEF Min2
<1>5. Resembles(t, a)
  <2>1. a = Probed(t, m)
    BY DEF Probed
  <2> HIDE DEF t, m, a
  <2>2. QED
    BY <1>2, <1>4, <2>1, CountsResemble
<1> HIDE DEF a, p, g, h, w, d
<1>6. Kept(e, t, a, p, g, h, w, d) /\ a \in TcbType /\ Alike(t, a) /\ a.queue = t.queue /\ a.state # "LISTEN"
  <2>1. Kept(e, t, a, p, g, h, w, d)
    <3> HIDE DEF t
    <3>1. QED
      BY <1>2, <1>3, <1>5, ResemblingKept
  <2>2. QED
    BY <1>2, <1>5, <2>1 DEF Resembles, Alike
<1>7. /\ Kept(e, a, b, p, g, h, w, d) /\ b.state = a.state /\ b.rnext = a.rnext /\ b \in TcbType
      /\ \A x \in ToSet(b.queue) : x \in ToSet(a.queue) \/ Opener(a, x)
  <2> DEFINE most == 1
  <2>1. most \in Nat /\ (most <= 1 \/ most = CanSend(a)) /\ b = OutputOne(a, most)
    OBVIOUS
  <2> HIDE DEF most, b
  <2>2. /\ Local(e, b, p, g, h, w, d) /\ GoesOn(e, a, b, g, g)
        /\ b.state = a.state /\ b.rnext = a.rnext
        /\ \A x \in ToSet(b.queue) :
                  \/ x \in ToSet(a.queue)
                  \/ /\ x.syn = SynOn(a) /\ x.ackOn = AckOn(a) /\ ~x.rst
                     /\ x.ack = IF AckOn(a) THEN a.rnext ELSE 0
    BY <1>3, <1>6, <2>1, OutputOneKept DEF Kept
  <2>3. QED
    BY <1>6, <2>2 DEF Kept, Opener, Local
<1> HIDE DEF b
<1>8. /\ Kept(e, b, u, p, g, h, w, d) /\ u.state = b.state /\ u.rnext = b.rnext /\ u.queue = b.queue
  <2>1. Resembles(b, u)
    BY <1>7, OutputResembles
  <2>2. QED
    BY <1>3, <1>6, <1>7, <2>1, ResemblingKept DEF Kept, Resembles, Alike
<1> HIDE DEF u
<1>9. Kept(e, t, u, p, g, h, w, d)
  <2> HIDE DEF t
  <2>1. GoesOn(e, t, a, g, g) /\ GoesOn(e, a, b, g, g)
    BY <1>6, <1>7 DEF Kept
  <2>2. GoesOn(e, t, b, g, g)
    BY <1>2, <1>3, <1>6, <1>7, <2>1, GoesOnAndOn
  <2>3. QED
    BY <1>2, <1>3, <1>7, <1>8, <2>2, KeptOn
<1>10. /\ u.state = t.state /\ u.rnext = t.rnext
       /\ \A x \in ToSet(u.queue) : x \in ToSet(t.queue) \/ Opener(t, x)
  BY <1>6, <1>7, <1>8 DEF Alike, Opener, SynOn, AckOn
<1>11. Sane(tcb', given, writer, reader, net)
  BY <1>1, <1>3, <1>9, <1>10, TcbStep DEF t, p, g, h, w, d
<1>12. QED
  BY <1>1, <1>11 DEF IInv

\* The packet at the head of the queue is for the device.
Polled(t, b) == [t EXCEPT !.queue = Tail(@), !.poll = b]

LEMMA PolledKept ==
  ASSUME NEW e \in Ends, NEW t, NEW p \in TcbType, NEW g \in Nat, NEW h \in Nat, NEW w, NEW d,
         Local(e, t, p, g, h, w, d), t.state # "LISTEN", t.queue # <<>>, NEW b \in BOOLEAN
  PROVE  LET u == Polled(t, b)
         IN  /\ Kept(e, t, u, p, g, h, w, d)
             /\ u.state = t.state /\ u.rnext = t.rnext
             /\ Head(t.queue) \in SegmentType /\ Sound(e, Head(t.queue), u, p, g)
             /\ Head(t.queue) \in ToSet(t.queue) /\ ToSet(u.queue) \subseteq ToSet(t.queue)
<1> DEFINE q == Tail(t.queue)
           x == Head(t.queue)
           u == [t EXCEPT !.queue = q, !.poll = b]
<1>1. t \in TcbType /\ t.queue \in Seq(SegmentType)
  BY TcbFields DEF Local
<1>2. q \in Seq(SegmentType) /\ x \in SegmentType /\ ToSet(t.queue) = {x} \cup ToSet(q)
  BY <1>1, ToSetOfTail
<1>3. u = Polled(t, b)
  BY DEF Polled
<1> HIDE DEF q, x
<1>4. u \in TcbType
  <2> DEFINE v == [t EXCEPT !.queue = q]
  <2>1. t \in TcbType
    BY <1>1
  <2>2. v \in TcbType
    BY <1>2, <2>1 DEF TcbType
  <2>3. u = [v EXCEPT !.poll = b]
    BY <2>1 DEF TcbType
  <2> HIDE DEF v, u
  <2>4. QED
    BY <2>2, <2>3 DEF TcbType
<1>5. Alike(t, u) /\ u.queue = q
  BY <1>1 DEF TcbType, Alike
<1> HIDE DEF u
<1>6. \A s \in ToSet(u.queue) : s \in ToSet(t.queue)
  BY <1>2, <1>5
<1>7. Kept(e, t, u, p, g, h, w, d)
  BY <1>4, <1>5, <1>6, AlikeKept DEF Kept
<1>8. Sound(e, x, u, p, g)
  <2>1. Sound(e, x, t, p, g)
    BY <1>2 DEF Local
  <2>2. SenderGoesOn(e, t, u, g, g) /\ ReceiverGoesOn(Peer(e), t, u) /\ ReceiverGoesOn(e, p, p)
    BY <1>7, GoesOnAndOn DEF Kept, GoesOn
  <2>3. QED
    BY <1>1, <1>2, <1>4, <2>1, <2>2, SoundKept
<1>9. QED
  BY <1>2, <1>3, <1>5, <1>6, <1>7, <1>8 DEF x, Alike

\* What the device gets: a packet that waits, or one that is made for it.
LEMMA PacketReady ==
  ASSUME NEW e \in Ends, NEW t, NEW p \in TcbType, NEW g \in Nat, NEW h \in Nat, NEW w, NEW d,
         Local(e, t, p, g, h, w, d), t.state # "LISTEN"
  PROVE  LET u == IF t.queue = <<>> THEN OutputOne(t, CanSend(t)) ELSE t
         IN  /\ Kept(e, t, u, p, g, h, w, d)
             /\ u.state = t.state /\ u.rnext = t.rnext
             /\ u.state # "CLOSED" => u.queue # <<>>
             /\ \A x \in ToSet(u.queue) : x \in ToSet(t.queue) \/ Opener(t, x)
<1>1. t \in TcbType
  BY DEF Local
<1>2. CASE t.queue = <<>>
  <2> DEFINE m == CanSend(t)
  <2>1. m \in Nat /\ m = CanSend(t)
    BY CanSendFits
  <2> HIDE DEF m
  <2> DEFINE v == OutputOne(t, m)
  <2>2. /\ Local(e, v, p, g, h, w, d) /\ GoesOn(e, t, v, g, g)
        /\ v.state = t.state /\ v.rnext = t.rnext
        /\ t.state # "CLOSED" => v.queue # <<>>
        /\ \A x \in ToSet(v.queue) :
             \/ x \in ToSet(t.queue)
             \/ /\ x.syn = SynOn(t) /\ x.ackOn = AckOn(t) /\ ~x.rst
                /\ x.ack = IF AckOn(t) THEN t.rnext ELSE 0
    BY <2>1, OutputOneKept
  <2>3. v = OutputOne(t, CanSend(t))
    BY <2>1
  <2> HIDE DEF v
  <2>4. QED
    BY <1>2, <2>2, <2>3 DEF Kept, Opener
<1>3. CASE t.queue # <<>>
  <2>1. GoesOn(e, t, t, g, g)
    BY <1>1, GoesOnAndOn
  <2>2. QED
    BY <1>3, <2>1 DEF Kept
<1>4. QED
  BY <1>2, <1>3

LEMMA PollKeeps ==
  ASSUME IInv, NEW e \in Ends, Poll(e)
  PROVE  IInv'
<1> DEFINE t == tcb[e]
           f == Peer(e)
           u == IF t.queue = <<>> THEN OutputOne(t, CanSend(t)) ELSE t
           b == Len(u.queue) > 1 \/ (u.dupacks < 3 /\ CanSend(u) > 0)
           v == [u EXCEPT !.queue = Tail(@), !.poll = b]
           x == Head(u.queue)
           p == tcb[f]
           g == given[e]
           h == given[f]
           w == writer[e]
           d == reader[e]
<1>1. /\ t.poll
      /\ \/ u.state = "CLOSED" /\ tcb' = [tcb EXCEPT ![e].poll = FALSE] /\ net' = net
         \/ /\ u.state # "CLOSED" /\ tcb' = [tcb EXCEPT ![e] = v]
            /\ net' = [net EXCEPT ![f] = Append(net[f], x)]
      /\ given' = given /\ writer' = writer /\ got' = got /\ reader' = reader
      /\ crashed' = crashed /\ faults' = faults
  <2>1. net \in [Ends -> Seq(SegmentType)] /\ f \in Ends
    BY InvFacts, Constants
  <2>2. QED
    BY <2>1 DEF Poll, app
<1>2. t \in TcbType /\ t.state # "LISTEN" /\ tcb \in [Ends -> TcbType]
  BY <1>1, Armed, InvFacts
<1>3. /\ p \in TcbType /\ g \in Nat /\ h \in Nat /\ Local(e, t, p, g, h, w, d)
      /\ Sane(tcb, given, writer, reader, net) /\ net \in [Ends -> Seq(SegmentType)] /\ net[f] \in Seq(SegmentType)
      /\ w \in Writing /\ d \in Reading
      /\ f \in Ends /\ f # e
  BY InvFacts, Constants
<1>4. /\ Kept(e, t, u, p, g, h, w, d)
      /\ u.state = t.state /\ u.rnext = t.rnext
      /\ u.state # "CLOSED" => u.queue # <<>>
      /\ \A y \in ToSet(u.queue) : y \in ToSet(t.queue) \/ Opener(t, y)
  <2> HIDE DEF t, p, g, h, w, d
  <2>1. QED
    BY <1>2, <1>3, PacketReady
<1>5. v = Polled(u, b) /\ b \in BOOLEAN
  BY DEF Polled
<1> HIDE DEF u, b, v
<1>6. CASE u.state = "CLOSED" /\ tcb' = [tcb EXCEPT ![e].poll = FALSE] /\ net' = net
  <2> DEFINE c == Unpolled(t)
  <2>1. tcb' = [tcb EXCEPT ![e] = c]
    BY <1>2, <1>6 DEF Unpolled
  <2>2. Resembles(t, c)
    <3> HIDE DEF t
    <3>1. QED
      BY <1>2, CountsResemble
  <2> HIDE DEF c
  <2>3. Sane(tcb', given, writer, reader, net)
    BY <1>2, <2>1, <2>2, ResemblingKeeps
  <2>4. QED
    BY <1>1, <1>6, <2>3 DEF IInv
<1>7. CASE /\ u.state # "CLOSED" /\ tcb' = [tcb EXCEPT ![e] = v]
           /\ net' = [net EXCEPT ![f] = Append(net[f], x)]
  <2> HIDE DEF t, p, g, h, w, d
  <2>1. /\ Kept(e, u, v, p, g, h, w, d)
        /\ v.state = u.state /\ v.rnext = u.rnext
        /\ x \in SegmentType /\ Sound(e, x, v, p, g)
        /\ x \in ToSet(u.queue) /\ ToSet(v.queue) \subseteq ToSet(u.queue)
    <3>1. Local(e, u, p, g, h, w, d) /\ u.state # "LISTEN" /\ u.queue # <<>>
      BY <1>2, <1>4, <1>7 DEF Kept
    <3>2. QED
      BY <1>3, <1>5, <3>1, PolledKept
  <2> HIDE DEF x
  <2>2. Kept(e, t, v, p, g, h, w, d)
    BY <1>2, <1>3, <1>4, <2>1, KeptOn DEF Kept, Local
  <2>3. net' \in [Ends -> Seq(SegmentType)] /\ ToSet(net'[f]) = ToSet(net[f]) \cup {x} /\ net'[e] = net[e]
    <3>1. Append(net[f], x) \in Seq(SegmentType) /\ ToSet(Append(net[f], x)) = ToSet(net[f]) \cup {x}
      BY <1>3, <2>1, ToSetOfAppend
    <3>2. QED
      BY <1>3, <1>7, <3>1
  <2>4. Sends(e, v, p, g, net, net')
    BY <2>1, <2>3 DEF Sends, f
  <2>5. KeepsOpening(tcb, net, e, v, net')
    <3>1. v.state = t.state /\ v.rnext = t.rnext
      BY <1>4, <2>1
    <3>2. \A y \in ToSet(v.queue) \cup ToSet(net'[f]) : y \in ToSet(net[f]) \cup ToSet(t.queue) \/ Opener(t, y)
      BY <1>4, <2>1, <2>3
    <3>3. QED
      BY <3>1, <3>2 DEF KeepsOpening, From, t, f
  <2>6. Becomes(tcb, tcb', e, v) /\ Becomes(given, given', e, g) /\ Becomes(writer, writer', e, w)
         /\ Becomes(reader, reader', e, d)
    BY <1>1, <1>7, InvFacts DEF Becomes, g, w, d
  <2>7. Sane(tcb', given', writer', reader', net')
    BY <1>3, <2>2, <2>3, <2>4, <2>5, <2>6, EndStep DEF t, p, g, h, w, d, f, Kept
  <2>8. QED
    BY <1>1, <2>7 DEF IInv
<1>8. QED
  BY <1>1, <1>6, <1>7

\* A segment is taken out.
LEMMA RemovedFrom ==
  ASSUME NEW S, NEW s \in Seq(S), NEW i \in DOMAIN s
  PROVE  RemoveAt(s, i) \in Seq(S) /\ ToSet(RemoveAt(s, i)) \subseteq ToSet(s) /\ s[i] \in ToSet(s) /\ s[i] \in S
<1> DEFINE p == SubSeq(s, 1, i - 1)
           r == SubSeq(s, i + 1, Len(s))
<1>1. Len(s) \in Nat /\ i \in 1..Len(s) /\ i - 1 \in 0..Len(s) /\ i \in 0..Len(s)
  <2>1. Len(s) \in Nat /\ i \in 1..Len(s)
    BY ToSetIsImage
  <2>2. QED
    BY <2>1
<1>2. p \in Seq(S) /\ ToSet(p) \subseteq ToSet(s)
  BY <1>1, ToSetOfParts
<1>3. r \in Seq(S) /\ ToSet(r) \subseteq ToSet(s)
  BY <1>1, ToSetOfParts
<1>4. RemoveAt(s, i) = p \o r
  BY DEF RemoveAt
<1> HIDE DEF p, r
<1>5. s[i] \in ToSet(s) /\ s[i] \in S
  BY <1>1, ToSetIsImage
<1>6. QED
  BY <1>2, <1>3, <1>4, <1>5, ToSetOfConcat

\* What is on its way to e is only lost or repeated.
LEMMA NetStep ==
  ASSUME IInv, NEW e \in Ends, NEW q \in Seq(SegmentType), ToSet(q) \subseteq ToSet(net[e]),
         net' = [net EXCEPT ![e] = q], faults < MaxFaults, faults' = faults + 1,
         UNCHANGED <<tcb, app, crashed>>
  PROVE  IInv'
<1> DEFINE t == tcb[e]
           p == tcb[Peer(e)]
           g == given[e]
           h == given[Peer(e)]
           w == writer[e]
           d == reader[e]
<1>1. tcb' = tcb /\ given' = given /\ writer' = writer /\ got' = got /\ reader' = reader /\ crashed' = crashed
  BY DEF app
<1>2. /\ p \in TcbType /\ g \in Nat /\ h \in Nat /\ t \in TcbType /\ Local(e, t, p, g, h, w, d)
      /\ w \in Writing /\ d \in Reading /\ net \in [Ends -> Seq(SegmentType)]
      /\ Peer(e) \in Ends /\ Peer(e) # e
  BY InvFacts, Constants
<1> HIDE DEF t, p, g, h, w, d
<1>3. GoesOn(e, t, t, g, g)
  BY <1>2, GoesOnAndOn
<1>4. /\ net' \in [Ends -> Seq(SegmentType)] /\ net'[Peer(e)] = net[Peer(e)]
      /\ ToSet(net'[e]) \subseteq ToSet(net[e])
  BY <1>2
<1>5. Sends(e, t, p, g, net, net')
  BY <1>4 DEF Sends
<1>6. KeepsOpening(tcb, net, e, t, net')
  BY <1>4 DEF KeepsOpening, From, t
<1>7. Becomes(tcb, tcb', e, t) /\ Becomes(given, given', e, g) /\ Becomes(writer, writer', e, w)
      /\ Becomes(reader, reader', e, d)
  BY <1>1, InvFacts DEF Becomes, t, g, w, d
<1>8. Sane(tcb', given', writer', reader', net')
  BY <1>2, <1>3, <1>4, <1>5, <1>6, <1>7, InvFacts, EndStep DEF t, p, g, h, w, d
<1>9. faults' \in 0..MaxFaults
  BY FaultsCounted
<1>10. QED
  BY <1>1, <1>8, <1>9 DEF IInv

LEMMA LoseKeeps ==
  ASSUME IInv, NEW e \in Ends, Lose(e)
  PROVE  IInv'
<1>1. PICK i \in DOMAIN net[e] : net' = [net EXCEPT ![e] = RemoveAt(net[e], i)]
  <2>1. PICK i \in DOMAIN net[e] : net' = [net EXCEPT ![e] = RemoveAt(@, i)]
    BY DEF Lose
  <2>2. net \in [Ends -> Seq(SegmentType)]
    BY InvFacts
  <2>3. QED
    BY <2>1, <2>2
<1> DEFINE q == RemoveAt(net[e], i)
<1>2. q \in Seq(SegmentType) /\ ToSet(q) \subseteq ToSet(net[e])
  <2>1. net[e] \in Seq(SegmentType)
    BY InvFacts
  <2>2. QED
    BY <2>1, RemovedFrom
<1>3. faults < MaxFaults /\ faults' = faults + 1 /\ UNCHANGED <<tcb, app, crashed>>
  BY DEF Lose
<1>4. net' = [net EXCEPT ![e] = q]
  BY <1>1
<1> HIDE DEF q
<1>5. QED
  BY <1>2, <1>3, <1>4, NetStep

LEMMA DuplicateKeeps ==
  ASSUME IInv, NEW e \in Ends, Duplicate(e)
  PROVE  IInv'
<1>1. PICK i \in DOMAIN net[e] : net' = [net EXCEPT ![e] = Append(net[e], net[e][i])]
  <2>1. PICK i \in DOMAIN net[e] : net' = [net EXCEPT ![e] = Append(@, @[i])]
    BY DEF Duplicate
  <2>2. net \in [Ends -> Seq(SegmentType)]
    BY InvFacts
  <2>3. QED
    BY <2>1, <2>2
<1> DEFINE q == Append(net[e], net[e][i])
<1>2. q \in Seq(SegmentType) /\ ToSet(q) \subseteq ToSet(net[e])
  <2>1. net[e] \in Seq(SegmentType)
    BY InvFacts
  <2>2. net[e][i] \in SegmentType /\ net[e][i] \in ToSet(net[e])
    BY <2>1, RemovedFrom
  <2>3. QED
    BY <2>1, <2>2, ToSetOfAppend
<1>3. faults < MaxFaults /\ faults' = faults + 1 /\ UNCHANGED <<tcb, app, crashed>>
  BY DEF Duplicate
<1>4. net' = [net EXCEPT ![e] = q]
  BY <1>1
<1> HIDE DEF q
<1>5. QED
  BY <1>2, <1>3, <1>4, NetStep

-----------------------------------------------------------------------------
(* Input: what an acknowledgment does to an established connection. *)

\* The input side is as it was.
SameInput(t, u) ==
  /\ u.state = t.state /\ u.known = t.known /\ u.closed = t.closed
  /\ u.rnext = t.rnext /\ u.rwindow = t.rwindow /\ u.rdata = t.rdata

LEMMA AckedFields ==
  ASSUME NEW t \in TcbType, NEW s \in SegmentType, NEW seq \in Seqs,
         NEW left, left = Unacked(t.data, Minus(s.ack, t.una)), left \in Segments
  PROVE  LET u == UpdateWindow(DataSegmentAcked(t, s.ack), s, seq)
         IN  u \in TcbType /\ AckedFrom(u, t, s, seq, left)
<1> DEFINE ack == s.ack
           win == s.window
           x == win = 0
           zero == 0
           a == [t EXCEPT !.una = ack, !.data = left]
           b == [a EXCEPT !.window = win]
           c == [b EXCEPT !.wl1 = seq, !.wl2 = ack]
           u == [c EXCEPT !.probing = zero, !.persist = x]
<1>1. ack \in Seqs /\ win \in 0..Buffer /\ x \in BOOLEAN
  BY DEF SegmentType
<1>2. zero \in 0..QueueSpace
  BY Constants
<1>3. UpdateWindow(DataSegmentAcked(t, s.ack), s, seq) = u
  BY DEF UpdateWindow, DataSegmentAcked, TcbType
<1> HIDE DEF ack, win, x, zero
<1>4. a \in TcbType
  <2> DEFINE v == [t EXCEPT !.una = ack]
  <2>1. v \in TcbType
    BY <1>1 DEF TcbType
  <2>2. a = [v EXCEPT !.data = left]
    BY DEF TcbType
  <2> HIDE DEF v, a
  <2>3. QED
    BY <2>1, <2>2 DEF TcbType, Segments
<1>5. /\ a.state = t.state /\ a.known = t.known /\ a.isn = t.isn /\ a.next = t.next
      /\ a.una = ack /\ a.data = left
      /\ a.unsent = t.unsent /\ a.closed = t.closed
      /\ a.rnext = t.rnext /\ a.rwindow = t.rwindow /\ a.rdata = t.rdata /\ a.queue = t.queue
  BY DEF TcbType
<1> HIDE DEF a
<1>6. b \in TcbType
  BY <1>1, <1>4 DEF TcbType
<1>7. /\ b.state = a.state /\ b.known = a.known /\ b.isn = a.isn /\ b.next = a.next
      /\ b.una = a.una /\ b.data = a.data /\ b.window = win
      /\ b.unsent = a.unsent /\ b.closed = a.closed
      /\ b.rnext = a.rnext /\ b.rwindow = a.rwindow /\ b.rdata = a.rdata /\ b.queue = a.queue
  BY <1>4 DEF TcbType
<1> HIDE DEF b
<1>8. c \in TcbType
  <2> DEFINE v == [b EXCEPT !.wl1 = seq]
  <2>1. v \in TcbType
    BY <1>6 DEF TcbType
  <2>2. c = [v EXCEPT !.wl2 = ack]
    BY <1>6 DEF TcbType
  <2> HIDE DEF v, c
  <2>3. QED
    BY <1>1, <2>1, <2>2 DEF TcbType
<1>9. /\ c.state = b.state /\ c.known = b.known /\ c.isn = b.isn /\ c.next = b.next
      /\ c.una = b.una /\ c.data = b.data /\ c.window = b.window /\ c.wl1 = seq /\ c.wl2 = ack
      /\ c.unsent = b.unsent /\ c.closed = b.closed
      /\ c.rnext = b.rnext /\ c.rwindow = b.rwindow /\ c.rdata = b.rdata /\ c.queue = b.queue
  BY <1>6 DEF TcbType
<1> HIDE DEF c
<1>10. u \in TcbType
  <2> DEFINE v == [c EXCEPT !.probing = zero]
  <2>1. v \in TcbType
    BY <1>2, <1>8 DEF TcbType
  <2>2. u = [v EXCEPT !.persist = x]
    BY <1>8 DEF TcbType
  <2> HIDE DEF v, u
  <2>3. QED
    BY <1>1, <2>1, <2>2 DEF TcbType
<1>11. /\ u.state = c.state /\ u.known = c.known /\ u.isn = c.isn /\ u.next = c.next
       /\ u.una = c.una /\ u.data = c.data /\ u.window = c.window /\ u.wl1 = c.wl1 /\ u.wl2 = c.wl2
       /\ u.unsent = c.unsent /\ u.closed = c.closed
       /\ u.rnext = c.rnext /\ u.rwindow = c.rwindow /\ u.rdata = c.rdata /\ u.queue = c.queue
  BY <1>8 DEF TcbType
<1> HIDE DEF u
<1>12. QED
  BY <1>3, <1>5, <1>7, <1>9, <1>10, <1>11 DEF AckedFrom, ack, win

\* A control block that takes acknowledgments of data, or of its SYN.
Ackable(e, t, p, g, h, w) ==
  /\ t.state \in {"ESTABLISHED", "CLOSE_WAIT"} /\ t.known /\ ~t.closed /\ t.isn = Isn[e]
  /\ g <= Messages[e] /\ t.rwindow + Len(t.rdata) <= Buffer /\ w # "acked"
  /\ Heard(p) /\ Link(e, t, p, g) /\ Link(Peer(e), p, t, h)
  /\ Una(e, t) <= Nxt(e, t) /\ Nxt(e, t) <= g + 1
  /\ t.unsent = Stretch(Nxt(e, t) - 1, g + 1 - Nxt(e, t))
  /\ WindowUpdates(e, t)
  /\ \A x \in ToSet(t.queue) : Sound(e, x, t, p, g)

\* left is what remains in segments when all before place k is acknowledged.
Leaves(e, t, p, k, left) ==
  /\ left \in Segments /\ InPlace(left, k) /\ Nxt(e, t) = k + FlightSize(left)
  /\ \A i \in DOMAIN left : Len(left[i]) > 1 => Fits(e, p, k + BytesIn(left, i))

\* What an acknowledgment that advances is preceded by updates the window.
LEMMA WindowIsUpdated ==
  ASSUME NEW e \in Ends, NEW t \in TcbType, NEW p, NEW g \in Nat, NEW h \in Nat, NEW w,
         Ackable(e, t, p, g, h, w), h \in Nat, Rcv(Peer(e), t) \in 0..Far(Peer(e)),
         NEW k \in 0..Far(e), Una(e, t) < k
  PROVE  Before(t.wl1, t.rnext) \/ (t.wl1 = t.rnext /\ NotAfter(t.wl2, At(e, k)))
<1> DEFINE f == Peer(e)
           r == Rcv(f, t)
<1>1. f \in Ends /\ t.rnext = At(f, r) /\ Una(e, t) \in Nat /\ Far(e) \in Nat
  BY Constants, TcbFields
<1>2. PICK v \in 0..r :
        /\ t.wl1 = At(f, v)
        /\ v < r \/ \E x \in 0..Una(e, t) : t.wl2 = At(e, x)
  BY DEF Ackable, WindowUpdates
<1>3. v \in 0..Far(f) /\ r \in 0..Far(f) /\ v <= r
  <2> DEFINE F == Far(f)
  <2>1. F \in Nat /\ r \in 0..F
    BY <1>1, Constants
  <2> HIDE DEF F, r
  <2>2. v \in 0..F /\ r \in 0..F /\ v <= r
    BY <2>1
  <2>3. QED
    BY <2>2 DEF F
<1>4. CASE v < r
  <2>1. Before(At(f, v), At(f, r))
    BY <1>1, <1>3, <1>4, Places
  <2>2. QED
    BY <1>1, <1>2, <2>1
<1>5. CASE ~(v < r)
  <2>1. v = r
    <3> HIDE DEF r
    <3>1. r \in Int /\ v \in Int
      BY <1>3
    <3>2. QED
      BY <1>3, <1>5, <3>1
  <2>2. PICK x \in 0..Una(e, t) : t.wl2 = At(e, x)
    BY <1>2, <1>5
  <2>3. x \in 0..Far(e) /\ x <= k
    <3> DEFINE U == Una(e, t)
               F == Far(e)
    <3>1. U \in Nat /\ F \in Nat /\ U < k /\ k \in 0..F /\ x \in 0..U
      BY <1>1, <2>2
    <3> HIDE DEF U, F
    <3>2. x \in 0..F /\ x <= k
      BY <3>1
    <3>3. QED
      BY <3>2 DEF F
  <2>4. NotAfter(At(e, x), At(e, k))
    BY <2>3, Places
  <2>5. QED
    BY <1>1, <1>2, <2>1, <2>2, <2>4
<1>6. QED
  BY <1>4, <1>5

LEMMA FastRetransmitKept ==
  ASSUME NEW e \in Ends, NEW t, NEW p \in TcbType, NEW g \in Nat, NEW h \in Nat, NEW w, NEW d,
         Local(e, t, p, g, h, w, d), t.state # "LISTEN"
  PROVE  LET u == FastRetransmit(t)
         IN  Kept(e, t, u, p, g, h, w, d) /\ SameInput(t, u)
<1>1. t \in TcbType
  BY DEF Local
<1>2. CASE t.data = <<>>
  <2>1. FastRetransmit(t) = t
    BY <1>2 DEF FastRetransmit
  <2>2. GoesOn(e, t, t, g, g)
    BY <1>1, GoesOnAndOn
  <2>3. QED
    BY <2>1, <2>2 DEF Kept, SameInput
<1>3. CASE t.data # <<>>
  <2> DEFINE a == RetransmitOne(t)
             u == Output(a)
  <2>1. FastRetransmit(t) = u
    BY <1>3 DEF FastRetransmit
  <2>2. Local(e, a, p, g, h, w, d) /\ GoesOn(e, t, a, g, g) /\ Alike(t, a) /\ Joined(a)
    BY <1>3, RetransmitOneKept
  <2> HIDE DEF a
  <2>3. a \in TcbType /\ a.state # "LISTEN"
    BY <2>2 DEF Local, Joined
  <2>4. Resembles(a, u)
    BY <2>3, OutputResembles
  <2> HIDE DEF u
  <2>5. Kept(e, a, u, p, g, h, w, d)
    BY <2>2, <2>3, <2>4, ResemblingKept
  <2>6. Kept(e, t, u, p, g, h, w, d)
    BY <1>1, <2>2, <2>3, <2>5, KeptOn
  <2>7. SameInput(t, u)
    BY <2>2, <2>4 DEF SameInput, Resembles, Alike
  <2>8. QED
    BY <2>1, <2>6, <2>7
<1>4. QED
  BY <1>2, <1>3

LEMMA AdvanceKept ==
  ASSUME NEW e \in Ends, NEW t \in TcbType, NEW p \in TcbType,
         NEW g \in Nat, NEW h \in Nat, NEW w, NEW d, NEW s \in SegmentType,
         Ackable(e, t, p, g, h, w), Rcv(Peer(e), t) \in 0..Far(Peer(e)),
         AckSound(Peer(e), s, p),
         NEW k \in 0..Far(e), k >= 1, Una(e, t) < k, k <= Nxt(e, t), s.ack = At(e, k),
         Leaves(e, t, p, k, Unacked(t.data, Minus(s.ack, t.una)))
  PROVE  LET u == Advance(t, s, t.rnext)
         IN  Kept(e, t, u, p, g, h, w, d) /\ SameInput(t, u)
<1> DEFINE left == Unacked(t.data, Minus(s.ack, t.una))
           seq == t.rnext
           a == UpdateWindow(DataSegmentAcked(t, s.ack), s, seq)
           b == a.data # <<>>
           c == [a EXCEPT !.dupacks = 0, !.retransmit = b]
<1>1. Advance(t, s, seq) = IF t.dupacks >= 3 /\ NotAfter(s.ack, t.recover) THEN FastRetransmit(a) ELSE c
  <2>1. Before(t.wl1, t.rnext) \/ (t.wl1 = t.rnext /\ NotAfter(t.wl2, s.ack))
    BY WindowIsUpdated
  <2>2. QED
    BY <2>1 DEF Advance
<1>2. left \in Segments /\ seq \in Seqs
  BY TcbFields DEF Leaves
<1>3. left = Unacked(t.data, Minus(s.ack, t.una))
  OBVIOUS
<1>4. Leaves(e, t, p, k, left)
  OBVIOUS
<1> HIDE DEF left
<1>5. a \in TcbType /\ AckedFrom(a, t, s, seq, left)
  BY <1>2, <1>3, AckedFields
<1>6. k \in Nat
  BY Constants
<1> HIDE DEF a
<1>7. Local(e, a, p, g, h, w, d) /\ GoesOn(e, t, a, g, g)
  <2>1. /\ t.state \in {"ESTABLISHED", "CLOSE_WAIT"} /\ t.known /\ ~t.closed /\ t.isn = Isn[e]
        /\ g <= Messages[e] /\ t.rwindow + Len(t.rdata) <= Buffer /\ w # "acked"
        /\ Heard(p) /\ Link(e, t, p, g) /\ Link(Peer(e), p, t, h)
        /\ Una(e, t) <= Nxt(e, t) /\ Nxt(e, t) <= g + 1
        /\ t.unsent = Stretch(Nxt(e, t) - 1, g + 1 - Nxt(e, t))
        /\ \A x \in ToSet(t.queue) : Sound(e, x, t, p, g)
    BY DEF Ackable
  <2>2. /\ InPlace(left, k) /\ Nxt(e, t) = k + FlightSize(left)
        /\ \A i \in DOMAIN left : Len(left[i]) > 1 => Fits(e, p, k + BytesIn(left, i))
    BY <1>4 DEF Leaves
  <2>3. AckedFrom(a, t, s, t.rnext, left)
    BY <1>5
  <2>4. QED
    BY <1>2, <1>5, <1>6, <2>1, <2>2, <2>3, AckedKept
<1>8. SameInput(t, a) /\ a.state # "LISTEN"
  <2>1. t.state # "LISTEN"
    BY DEF Ackable
  <2>2. QED
    BY <1>5, <2>1 DEF AckedFrom, SameInput
<1>9. /\ Kept(e, t, FastRetransmit(a), p, g, h, w, d) /\ SameInput(t, FastRetransmit(a))
  <2> DEFINE v == FastRetransmit(a)
  <2>1. Kept(e, a, v, p, g, h, w, d) /\ SameInput(a, v)
    BY <1>7, <1>8, FastRetransmitKept
  <2> HIDE DEF v
  <2>2. Kept(e, t, v, p, g, h, w, d)
    BY <1>5, <1>7, <2>1, KeptOn
  <2>3. SameInput(t, v)
    BY <1>8, <2>1 DEF SameInput
  <2>4. QED
    BY <2>2, <2>3 DEF v
<1>10. Kept(e, t, c, p, g, h, w, d) /\ SameInput(t, c)
  <2>1. c = Progressed(a, b) /\ b \in BOOLEAN
    BY DEF Progressed
  <2> HIDE DEF c, b
  <2>2. Resembles(a, c)
    BY <1>5, <2>1, CountsResemble
  <2>3. Kept(e, a, c, p, g, h, w, d)
    BY <1>7, <1>8, <2>2, ResemblingKept
  <2>4. Kept(e, t, c, p, g, h, w, d)
    BY <1>5, <1>7, <2>3, KeptOn
  <2>5. SameInput(t, c)
    BY <1>8, <2>2 DEF SameInput, Resembles, Alike
  <2>6. QED
    BY <2>4, <2>5
<1> HIDE DEF c
<1>11. QED
  BY <1>1, <1>9, <1>10

LEMMA RepeatKept ==
  ASSUME NEW e \in Ends, NEW t, NEW p \in TcbType, NEW g \in Nat, NEW h \in Nat, NEW w, NEW d,
         Local(e, t, p, g, h, w, d), t.state # "LISTEN", NEW s
  PROVE  LET u == Repeat(t, s)
         IN  Kept(e, t, u, p, g, h, w, d) /\ SameInput(t, u)
<1> DEFINE n == Min2(t.dupacks + 1, 4)
           r == Plus(t.next, -1)
           a == [t EXCEPT !.dupacks = n]
           b == [a EXCEPT !.recover = r]
           c == FastRetransmit(b)
<1>1. t \in TcbType /\ t.dupacks \in 0..4 /\ t.next \in Seqs
  BY TcbFields DEF Local
<1>2. n \in 0..4
  BY <1>1 DEF Min2
<1>3. r \in Seqs
  <2>1. t.next \in Int /\ -1 \in Int
    BY <1>1, Constants DEF Seqs
  <2>2. QED
    BY <2>1, PlusOfPlus
<1>4. Repeat(t, s) = IF a.dupacks = 3 /\ t.dupacks = 2 /\ Before(t.recover, Plus(s.ack, -1)) THEN c ELSE a
  BY DEF Repeat
<1>5. a = Repeated(t, n) /\ b = Recovered(a, r)
  BY DEF Repeated, Recovered
<1> HIDE DEF n, r, a, b
<1>6. Resembles(t, a)
  BY <1>1, <1>2, <1>5, CountsResemble
<1>7. Kept(e, t, a, p, g, h, w, d) /\ SameInput(t, a)
  BY <1>6, ResemblingKept DEF Resembles, Alike, SameInput
<1>8. Resembles(a, b)
  <2>1. a \in TcbType
    BY <1>6 DEF Resembles
  <2>2. QED
    BY <1>3, <1>5, <2>1, CountsResemble
<1>9. Resembles(t, b)
  BY <1>6, <1>8, ResemblesOn
<1>10. Kept(e, t, b, p, g, h, w, d) /\ SameInput(t, b)
  BY <1>9, ResemblingKept DEF Resembles, Alike, SameInput
<1>11. Local(e, b, p, g, h, w, d) /\ GoesOn(e, t, b, g, g) /\ b \in TcbType /\ b.state # "LISTEN"
  BY <1>10 DEF Kept, Local, SameInput
<1>12. Kept(e, b, c, p, g, h, w, d) /\ SameInput(b, c)
  BY <1>11, FastRetransmitKept
<1> HIDE DEF c
<1>13. Kept(e, t, c, p, g, h, w, d)
  BY <1>1, <1>11, <1>12, KeptOn
<1>14. SameInput(t, c)
  BY <1>10, <1>12 DEF SameInput
<1>15. QED
  BY <1>4, <1>7, <1>13, <1>14

\* t with the window of a segment.
WindowFrom(u, t, s, seq) ==
  /\ u.state = t.state /\ u.known = t.known /\ u.isn = t.isn /\ u.next = t.next
  /\ u.una = t.una /\ u.data = t.data
  /\ u.window = s.window /\ u.wl1 = seq /\ u.wl2 = s.ack
  /\ u.unsent = t.unsent /\ u.closed = t.closed
  /\ u.rnext = t.rnext /\ u.rwindow = t.rwindow /\ u.rdata = t.rdata
  /\ u.queue = t.queue

LEMMA WindowFields ==
  ASSUME NEW t \in TcbType, NEW s \in SegmentType, NEW seq \in Seqs
  PROVE  LET u == UpdateWindow(t, s, seq)
         IN  u \in TcbType /\ WindowFrom(u, t, s, seq)
<1> DEFINE ack == s.ack
           win == s.window
           x == win = 0
           zero == 0
           b == [t EXCEPT !.window = win]
           c == [b EXCEPT !.wl1 = seq, !.wl2 = ack]
           u == [c EXCEPT !.probing = zero, !.persist = x]
<1>1. ack \in Seqs /\ win \in 0..Buffer /\ x \in BOOLEAN
  BY DEF SegmentType
<1>2. zero \in 0..QueueSpace
  BY Constants
<1>3. UpdateWindow(t, s, seq) = u
  BY DEF UpdateWindow, TcbType
<1> HIDE DEF ack, win, x, zero
<1>6. b \in TcbType
  BY <1>1 DEF TcbType
<1>7. /\ b.state = t.state /\ b.known = t.known /\ b.isn = t.isn /\ b.next = t.next
      /\ b.una = t.una /\ b.data = t.data /\ b.window = win
      /\ b.unsent = t.unsent /\ b.closed = t.closed
      /\ b.rnext = t.rnext /\ b.rwindow = t.rwindow /\ b.rdata = t.rdata /\ b.queue = t.queue
  BY DEF TcbType
<1> HIDE DEF b
<1>8. c \in TcbType
  <2> DEFINE v == [b EXCEPT !.wl1 = seq]
  <2>1. v \in TcbType
    BY <1>6 DEF TcbType
  <2>2. c = [v EXCEPT !.wl2 = ack]
    BY <1>6 DEF TcbType
  <2> HIDE DEF v, c
  <2>3. QED
    BY <1>1, <2>1, <2>2 DEF TcbType
<1>9. /\ c.state = b.state /\ c.known = b.known /\ c.isn = b.isn /\ c.next = b.next
      /\ c.una = b.una /\ c.data = b.data /\ c.window = b.window /\ c.wl1 = seq /\ c.wl2 = ack
      /\ c.unsent = b.unsent /\ c.closed = b.closed
      /\ c.rnext = b.rnext /\ c.rwindow = b.rwindow /\ c.rdata = b.rdata /\ c.queue = b.queue
  BY <1>6 DEF TcbType
<1> HIDE DEF c
<1>10. u \in TcbType
  <2> DEFINE v == [c EXCEPT !.probing = zero]
  <2>1. v \in TcbType
    BY <1>2, <1>8 DEF TcbType
  <2>2. u = [v EXCEPT !.persist = x]
    BY <1>8 DEF TcbType
  <2> HIDE DEF v, u
  <2>3. QED
    BY <1>1, <2>1, <2>2 DEF TcbType
<1>11. /\ u.state = c.state /\ u.known = c.known /\ u.isn = c.isn /\ u.next = c.next
       /\ u.una = c.una /\ u.data = c.data /\ u.window = c.window /\ u.wl1 = c.wl1 /\ u.wl2 = c.wl2
       /\ u.unsent = c.unsent /\ u.closed = c.closed
       /\ u.rnext = c.rnext /\ u.rwindow = c.rwindow /\ u.rdata = c.rdata /\ u.queue = c.queue
  BY <1>8 DEF TcbType
<1> HIDE DEF u
<1>12. QED
  BY <1>3, <1>7, <1>9, <1>10, <1>11 DEF WindowFrom, ack, win

\* The window opens again: it is one that the peer has, though the segment may be old.
LEMMA OpensKept ==
  ASSUME NEW e \in Ends, NEW t, NEW p \in TcbType,
         NEW g \in Nat, NEW h \in Nat, NEW w, NEW d, NEW s \in SegmentType,
         Local(e, t, p, g, h, w, d), Joined(t), ~t.closed, t.window = 0, s.window > 0,
         NEW k \in Nat, k <= Una(e, t), s.ack = At(e, k)
  PROVE  LET u == UpdateWindow(t, s, t.rnext)
         IN  Kept(e, t, u, p, g, h, w, d) /\ SameInput(t, u)
<1> DEFINE f == Peer(e)
           seq == t.rnext
           u == UpdateWindow(t, s, seq)
           U == Una(e, t)
           r == Rcv(e, p)
           R == ReadTo(e, p)
           win == s.window
<1>1. /\ t \in TcbType /\ f \in Ends /\ Peer(f) = e /\ Heard(t) /\ Heard(p) /\ Own(e, t, g, w, d)
      /\ Sender(e, t, g, w) /\ Link(e, t, p, g) /\ Link(f, p, t, h) /\ WindowUpdates(e, t)
  BY Constants DEF Local, Own, Joined, Heard
<1>2. /\ seq \in Seqs /\ t.rnext = At(f, Rcv(f, t)) /\ Rcv(f, t) \in Nat /\ U \in Nat
      /\ r \in Nat /\ R \in Int /\ Buffer \in Nat /\ win \in 1..Buffer
  <2>1. /\ seq \in Seqs /\ t.rnext = At(f, Rcv(f, t)) /\ Rcv(f, t) \in Nat /\ U \in Nat
        /\ r \in Nat /\ R \in Int /\ Buffer \in Nat
    BY <1>1, TcbFields, Constants
  <2>2. win \in 0..Buffer /\ win > 0
    BY DEF SegmentType
  <2>3. QED
    BY <2>1, <2>2
<1>3. u \in TcbType /\ WindowFrom(u, t, s, seq)
  BY <1>1, <1>2, WindowFields
<1> HIDE DEF u
<1>4. /\ Una(e, u) = U /\ Nxt(e, u) = Nxt(e, t) /\ Rcv(f, u) = Rcv(f, t) /\ Joined(u) /\ Heard(u)
  BY <1>1, <1>3 DEF WindowFrom, Una, Nxt, Rcv, Joined, Heard
<1>5. Own(e, u, g, w, d)
  <2>1. Sender(e, t, g, w) => Sender(e, u, g, w)
    <3>1. Layout(e, t, g) => Layout(e, u, g)
      BY <1>3, <1>4 DEF Layout, WindowFrom
    <3>2. QED
      BY <1>3, <1>4, <3>1 DEF Sender, WindowFrom
  <2>2. WindowUpdates(e, u)
    <3>1. Rcv(f, t) \in 0..Rcv(f, t) /\ k \in 0..U
      BY <1>2
    <3>2. u.wl1 = At(f, Rcv(f, u)) /\ u.wl2 = At(e, k)
      BY <1>2, <1>3, <1>4 DEF WindowFrom
    <3>3. QED
      BY <1>4, <3>1, <3>2 DEF WindowUpdates
  <2>3. QED
    BY <1>1, <1>3, <1>4, <2>1, <2>2 DEF Own, WindowFrom
<1>6. Link(e, u, p, g)
  <2>1. U <= R \/ p.rwindow = 0
    BY <1>1 DEF Link
  <2>2. U <= r
    BY <1>1 DEF Link
  <2>3. U + win <= R + Buffer \/ (p.rwindow = 0 /\ U + win <= r + Buffer)
    <3> DEFINE x == p.rwindow = 0
    <3>1. U <= R \/ x
      BY <2>1
    <3> HIDE DEF U, R, r, win, x
    <3>2. U + win <= R + Buffer \/ (x /\ U + win <= r + Buffer)
      BY <1>2, <2>2, <3>1
    <3>3. QED
      BY <3>2 DEF x
  <2>4. Fits(e, p, U + win)
    BY <1>1, <2>3 DEF Fits
  <2>5. u.window = win /\ win # 0 /\ u.data = t.data /\ u.closed = t.closed
    BY <1>2, <1>3 DEF WindowFrom
  <2>6. QED
    BY <1>1, <1>4, <2>4, <2>5 DEF Link
<1>7. ReceiverGoesOn(f, t, u) /\ Link(f, p, u, h)
  BY <1>1, <1>3, <1>4, InputAlone DEF WindowFrom
<1>8. GoesOn(e, t, u, g, g)
  <2>1. Nxt(e, t) \in Nat
    BY <1>1, TcbFields
  <2>2. QED
    BY <1>3, <1>4, <1>7, <2>1 DEF GoesOn, SenderGoesOn, WindowFrom
<1>9. \A x \in ToSet(u.queue) : Sound(e, x, u, p, g)
  <2> TAKE x \in ToSet(u.queue)
  <2>1. x \in SegmentType /\ Sound(e, x, t, p, g)
    BY <1>1, <1>3, TcbFields, ToSetIsImage DEF Local, WindowFrom
  <2>2. SenderGoesOn(e, t, u, g, g) /\ ReceiverGoesOn(f, t, u) /\ ReceiverGoesOn(e, p, p)
    BY <1>8, GoesOnAndOn DEF GoesOn
  <2>3. QED
    BY <1>1, <1>3, <2>1, <2>2, SoundKept
<1>10. Local(e, u, p, g, h, w, d)
  BY <1>1, <1>3, <1>4, <1>5, <1>6, <1>7, <1>9 DEF Local
<1>11. SameInput(t, u)
  BY <1>3 DEF WindowFrom, SameInput
<1>12. QED
  BY <1>8, <1>10, <1>11 DEF Kept, u

\* The place that a segment acknowledges was taken by its sender.
LEMMA AckPlace ==
  ASSUME NEW e \in Ends, NEW t, NEW p \in TcbType, NEW g \in Nat, NEW h \in Nat, NEW w, NEW d,
         Local(e, t, p, g, h, w, d), NEW s, AckSound(Peer(e), s, p)
  PROVE  \E k \in 0..Far(e) :
           /\ k >= 1 /\ k <= Rcv(e, p) /\ k <= g + 2 /\ s.ack = At(e, k)
           /\ ~t.closed => k <= Nxt(e, t)
           /\ Before(t.una, s.ack) <=> Una(e, t) < k
           /\ NotAfter(t.una, s.ack) <=> Una(e, t) <= k
           /\ NotAfter(s.ack, t.next) <=> k <= Nxt(e, t)
           /\ Before(t.next, s.ack) <=> Nxt(e, t) < k
           /\ Minus(s.ack, t.una) = k - Una(e, t)
           /\ \A j \in 0..Far(e) : s.ack = At(e, j) => j = k
<1>1. Peer(e) \in Ends /\ Peer(Peer(e)) = e /\ Far(e) \in Nat
  BY Constants
<1>2. Heard(p)
  BY DEF AckSound
<1>3. PICK k \in 1..Rcv(e, p) : s.ack = At(e, k)
  BY <1>1 DEF AckSound
<1>4. /\ Rcv(e, p) \in 1..Far(e) /\ Rcv(e, p) <= g + 2
      /\ Una(e, t) \in 0..Far(e) /\ Nxt(e, t) \in 0..Far(e)
  BY <1>2, LocalFacts
<1>5. ~t.closed => Rcv(e, p) <= Nxt(e, t)
  BY <1>2 DEF Local, Link
<1>6. k \in 0..Far(e) /\ k >= 1 /\ k <= Rcv(e, p) /\ k <= g + 2 /\ (~t.closed => k <= Nxt(e, t))
  <2> DEFINE r == Rcv(e, p)
             F == Far(e)
             N == Nxt(e, t)
             c == t.closed
  <2>1. r \in 1..F /\ r <= g + 2 /\ N \in 0..F /\ F \in Nat /\ (~c => r <= N) /\ k \in 1..r
    BY <1>1, <1>4, <1>5
  <2> HIDE DEF r, F, N, c
  <2>2. k \in 0..F /\ k >= 1 /\ k <= r /\ k <= g + 2 /\ (~c => k <= N)
    BY <2>1
  <2>3. QED
    BY <2>2 DEF r, F, N, c
<1>7. t.una = At(e, Una(e, t)) /\ t.next = At(e, Nxt(e, t))
  BY TcbFields DEF Local
<1> DEFINE U == Una(e, t)
           N == Nxt(e, t)
<1> HIDE DEF U, N
<1>8. /\ Before(At(e, U), At(e, k)) <=> U < k
      /\ NotAfter(At(e, U), At(e, k)) <=> U <= k
      /\ NotAfter(At(e, k), At(e, N)) <=> k <= N
      /\ Before(At(e, N), At(e, k)) <=> N < k
      /\ Minus(At(e, k), At(e, U)) = k - U
  <2>1. U \in 0..Far(e) /\ N \in 0..Far(e) /\ k \in 0..Far(e)
    BY <1>4, <1>6 DEF U, N
  <2>2. \A i, j \in 0..Far(e) :
          /\ Minus(At(e, i), At(e, j)) = i - j
          /\ Before(At(e, i), At(e, j)) <=> i < j
          /\ NotAfter(At(e, i), At(e, j)) <=> i <= j
    BY Places
  <2>3. QED
    BY <2>1, <2>2
<1>9. \A j \in 0..Far(e) : At(e, k) = At(e, j) => j = k
  BY <1>6, Places
<1>10. QED
  BY <1>3, <1>6, <1>7, <1>8, <1>9 DEF U, N

LEMMA AckOfDataKept ==
  ASSUME NEW e \in Ends, NEW t, NEW p \in TcbType, NEW g \in Nat, NEW h \in Nat, NEW w, NEW d,
         Local(e, t, p, g, h, w, d), t.state \in {"ESTABLISHED", "CLOSE_WAIT"}, t.known,
         NEW s \in SegmentType, AckSound(Peer(e), s, p), NEW n,
         Rcv(Peer(e), t) \in 0..Far(Peer(e))
  PROVE  LET u == AckOfData(t, s, t.rnext, n)
         IN  /\ Kept(e, t, u, p, g, h, w, d) /\ SameInput(t, u)
             /\ ~AcksUnsent(t, s, n)
<1> DEFINE U == Una(e, t)
           N == Nxt(e, t)
           B == FlightSize(t.data)
<1>1. PICK k \in 0..Far(e) :
           /\ k >= 1 /\ k <= Rcv(e, p) /\ k <= g + 2 /\ s.ack = At(e, k)
           /\ ~t.closed => k <= Nxt(e, t)
           /\ Before(t.una, s.ack) <=> Una(e, t) < k
           /\ NotAfter(s.ack, t.next) <=> k <= Nxt(e, t)
           /\ Before(t.next, s.ack) <=> Nxt(e, t) < k
           /\ Minus(s.ack, t.una) = k - Una(e, t)
  BY AckPlace
<1>2. /\ t \in TcbType /\ Joined(t) /\ Heard(p) /\ Heard(t) /\ Own(e, t, g, w, d) /\ Sender(e, t, g, w) /\ ~t.closed
      /\ t.state # "LISTEN"
  BY DEF Local, Own, Joined, Heard, Sender
<1>3. /\ U \in Nat /\ N \in Nat /\ t.data \in Segments /\ B \in Nat /\ k \in Nat
  <2>1. t.data \in Segments
    BY <1>2, TcbFields
  <2>2. Len(t.data) \in 0..Len(t.data) /\ \A i \in 0..Len(t.data) : BytesIn(t.data, i) \in Nat
    <3>1. Len(t.data) \in Nat /\ \A i \in 0..Len(t.data) : BytesIn(t.data, i) \in Nat
      BY <2>1, BytesInType
    <3>2. QED
      BY <3>1
  <2>3. Far(e) \in Nat
    BY Constants
  <2>4. QED
    BY <1>2, <2>1, <2>2, <2>3, TcbFields DEF FlightSize
<1>4. InPlace(t.data, U) /\ N = U + B /\ t.unsent = Stretch(N - 1, g + 1 - N) /\ U <= N /\ N <= g + 1
  BY <1>2 DEF Sender, Layout
<1>5. k <= N /\ (Before(t.una, s.ack) <=> U < k) /\ (NotAfter(s.ack, t.next) <=> k <= N)
      /\ (Before(t.next, s.ack) <=> N < k)
      /\ Minus(s.ack, t.una) = k - U
  BY <1>1, <1>2
<1> HIDE DEF U, N, B
<1>6. (Advances(t, s) <=> U < k) /\ ~AcksUnsent(t, s, n)
  BY <1>3, <1>5 DEF Advances, AcksUnsent
<1>7. CASE Advances(t, s)
  <2>1. AckOfData(t, s, t.rnext, n) = Advance(t, s, t.rnext)
    BY <1>7 DEF AckOfData, Repeats, Opens
  <2>2. w # "acked"
    <3>1. w = "acked" => U = N
      BY <1>2 DEF Sender, U, N
    <3>2. QED
      BY <1>3, <1>5, <1>6, <1>7, <3>1
  <2>3. Ackable(e, t, p, g, h, w)
    <3>1. /\ t.isn = Isn[e] /\ g <= Messages[e] /\ t.rwindow + Len(t.rdata) <= Buffer
          /\ Link(e, t, p, g) /\ Link(Peer(e), p, t, h) /\ WindowUpdates(e, t)
          /\ \A x \in ToSet(t.queue) : Sound(e, x, t, p, g)
      BY <1>2 DEF Local, Own
    <3>2. QED
      BY <1>2, <1>4, <2>2, <3>1 DEF Ackable, U, N
  <2>4. Leaves(e, t, p, k, Unacked(t.data, Minus(s.ack, t.una)))
    <3> DEFINE a == Minus(s.ack, t.una)
               x == Unacked(t.data, a)
    <3>1. a = k - U /\ a \in 0..B /\ U + a = k /\ a \in Nat /\ N = k + (B - a)
      BY <1>3, <1>4, <1>5, <1>6, <1>7
    <3> HIDE DEF a
    <3>2. /\ x \in Segments /\ FlightSize(x) = B - a /\ InPlace(x, U + a)
          /\ \A i \in 1..Len(x) : \E j \in 1..Len(t.data) :
                  BytesIn(x, i) = BytesIn(t.data, j) - a /\ Len(x[i]) <= Len(t.data[j])
      <4>1. a \in 0..FlightSize(t.data)
        BY <3>1 DEF B
      <4>2. QED
        BY <1>3, <1>4, <4>1, InPlaceAcked DEF B
    <3> HIDE DEF x
    <3>3. InPlace(x, k) /\ N = k + FlightSize(x)
      BY <3>1, <3>2
    <3>4. ASSUME NEW i \in DOMAIN x, Len(x[i]) > 1 PROVE Fits(e, p, k + BytesIn(x, i))
      <4>1. i \in 1..Len(x) /\ Len(x[i]) \in Nat
        BY <3>2, BytesInType
      <4>2. PICK j \in 1..Len(t.data) : BytesIn(x, i) = BytesIn(t.data, j) - a /\ Len(x[i]) <= Len(t.data[j])
        BY <3>2, <4>1
      <4>3. j \in DOMAIN t.data /\ Len(t.data[j]) \in Nat /\ BytesIn(t.data, j) \in Nat
        <5>1. Len(t.data) \in Nat /\ DOMAIN t.data = 1..Len(t.data)
              /\ (\A l \in 1..Len(t.data) : Len(t.data[l]) \in Nat \ {0})
              /\ (\A l \in 0..Len(t.data) : BytesIn(t.data, l) \in Nat)
          BY <1>3, BytesInType
        <5>2. j \in 0..Len(t.data)
          BY <5>1
        <5>3. QED
          BY <5>1, <5>2
      <4>4. Len(t.data[j]) > 1
        BY <3>4, <4>1, <4>2, <4>3
      <4>5. Fits(e, p, U + BytesIn(t.data, j))
        BY <1>2, <4>3, <4>4 DEF Local, Link, U
      <4> DEFINE y == BytesIn(t.data, j)
      <4>6. k + BytesIn(x, i) = U + y
        <5>1. BytesIn(x, i) = y - a /\ y \in Nat
          BY <4>2, <4>3
        <5> HIDE DEF y
        <5>2. QED
          BY <1>3, <3>1, <5>1
      <4>7. QED
        BY <4>5, <4>6
    <3>5. QED
      BY <3>2, <3>3, <3>4 DEF Leaves, N, x, a
  <2>5. U < k
    BY <1>6, <1>7
  <2>6. Una(e, t) < k /\ k <= Nxt(e, t)
    BY <1>5, <2>5 DEF U, N
  <2>7. Kept(e, t, Advance(t, s, t.rnext), p, g, h, w, d) /\ SameInput(t, Advance(t, s, t.rnext))
    <3>1. t \in TcbType /\ k >= 1 /\ s.ack = At(e, k)
      BY <1>1, <1>2
    <3>2. QED
      BY <2>3, <2>4, <2>6, <3>1, AdvanceKept
  <2>8. QED
    BY <1>6, <2>1, <2>7
<1>8. CASE Repeats(t, s, n)
  <2>1. AckOfData(t, s, t.rnext, n) = Repeat(t, s)
    BY <1>8 DEF AckOfData, Repeats, Opens
  <2>2. QED
    BY <1>2, <1>6, <2>1, RepeatKept
<1>9. CASE Opens(t, s, n)
  <2>1. AckOfData(t, s, t.rnext, n) = UpdateWindow(t, s, t.rnext)
    BY <1>9 DEF AckOfData, Opens
  <2>2. ~(U < k) /\ t.window = 0 /\ s.window > 0
    BY <1>6, <1>9 DEF Opens
  <2>3. k <= Una(e, t)
    BY <1>3, <2>2 DEF U
  <2>4. QED
    BY <1>1, <1>2, <1>3, <1>6, <2>1, <2>2, <2>3, OpensKept
<1>10. CASE ~Advances(t, s) /\ ~Repeats(t, s, n) /\ ~Opens(t, s, n)
  <2>1. AckOfData(t, s, t.rnext, n) = t
    BY <1>10 DEF AckOfData
  <2>2. GoesOn(e, t, t, g, g)
    BY <1>2, GoesOnAndOn
  <2>3. QED
    BY <1>6, <2>1, <2>2 DEF Kept, SameInput
<1>11. QED
  BY <1>7, <1>8, <1>9, <1>10

\* t without its buffers and timers.
CleanFrom(u, t) ==
  /\ u \in TcbType
  /\ u.state = t.state /\ ~u.known /\ u.isn = t.isn /\ u.una = t.una /\ u.next = t.next
  /\ u.window = t.window /\ u.wl1 = t.wl1 /\ u.wl2 = t.wl2
  /\ u.unsent = <<>> /\ u.data = <<>> /\ u.closed = t.closed
  /\ u.rnext = t.rnext /\ u.rwindow = t.rwindow /\ u.rdata = <<>> /\ u.queue = t.queue

LEMMA CleanFields ==
  ASSUME NEW t \in TcbType
  PROVE  CleanFrom(Cleanup(t), t)
<1> DEFINE a == [t EXCEPT !.unsent = <<>>]
           b == [a EXCEPT !.data = <<>>]
           c == [b EXCEPT !.ooo = {}, !.rdata = <<>>]
           u == [c EXCEPT !.retransmit = FALSE, !.delayed = FALSE, !.known = FALSE]
<1>1. Cleanup(t) = u
  BY DEF Cleanup, TcbType
<1>2. a \in TcbType
  <2>1. <<>> \in Seq(Bytes)
    OBVIOUS
  <2>2. QED
    BY <2>1 DEF TcbType
<1>3. /\ a.state = t.state /\ a.isn = t.isn /\ a.una = t.una /\ a.next = t.next
      /\ a.window = t.window /\ a.wl1 = t.wl1 /\ a.wl2 = t.wl2
      /\ a.unsent = <<>> /\ a.closed = t.closed
      /\ a.rnext = t.rnext /\ a.rwindow = t.rwindow /\ a.queue = t.queue
  BY DEF TcbType
<1> HIDE DEF a
<1>4. b \in TcbType
  <2>1. <<>> \in Seq(Seq(Bytes) \ {<<>>})
    OBVIOUS
  <2>2. QED
    BY <1>2, <2>1 DEF TcbType
<1>5. /\ b.state = a.state /\ b.isn = a.isn /\ b.una = a.una /\ b.next = a.next
      /\ b.window = a.window /\ b.wl1 = a.wl1 /\ b.wl2 = a.wl2
      /\ b.unsent = a.unsent /\ b.data = <<>> /\ b.closed = a.closed
      /\ b.rnext = a.rnext /\ b.rwindow = a.rwindow /\ b.queue = a.queue
  BY <1>2 DEF TcbType
<1> HIDE DEF b
<1>6. c \in TcbType
  <2> DEFINE v == [b EXCEPT !.rdata = <<>>]
  <2>1. <<>> \in Seq(Bytes)
    OBVIOUS
  <2>2. v \in TcbType
    BY <1>4, <2>1 DEF TcbType
  <2>3. c = [v EXCEPT !.ooo = {}]
    BY <1>4 DEF TcbType
  <2> HIDE DEF v, c
  <2>4. QED
    BY <2>2, <2>3 DEF TcbType
<1>7. /\ c.state = b.state /\ c.isn = b.isn /\ c.una = b.una /\ c.next = b.next
      /\ c.window = b.window /\ c.wl1 = b.wl1 /\ c.wl2 = b.wl2
      /\ c.unsent = b.unsent /\ c.data = b.data /\ c.closed = b.closed
      /\ c.rnext = b.rnext /\ c.rwindow = b.rwindow /\ c.queue = b.queue /\ c.rdata = <<>>
  BY <1>4 DEF TcbType
<1> HIDE DEF c
<1>8. u \in TcbType
  BY <1>6 DEF TcbType
<1>9. /\ u.state = c.state /\ ~u.known /\ u.isn = c.isn /\ u.una = c.una /\ u.next = c.next
      /\ u.window = c.window /\ u.wl1 = c.wl1 /\ u.wl2 = c.wl2
      /\ u.unsent = c.unsent /\ u.data = c.data /\ u.closed = c.closed
      /\ u.rnext = c.rnext /\ u.rwindow = c.rwindow /\ u.queue = c.queue /\ u.rdata = c.rdata
  BY <1>6 DEF TcbType
<1> HIDE DEF u
<1>10. QED
  BY <1>1, <1>3, <1>5, <1>7, <1>8, <1>9 DEF CleanFrom

\* t when its FIN is acknowledged.
FinAckedFrom(u, t) ==
  /\ u \in TcbType
  /\ \/ u.state = "FIN_WAIT_2" /\ u.known = t.known
     \/ u.state \in {"TIME_WAIT", "CLOSED"} /\ ~u.known
  /\ u.isn = t.isn /\ u.una = Plus(t.una, 1) /\ u.next = Plus(t.next, 1)
  /\ u.window = t.window /\ u.wl1 = t.wl1 /\ u.wl2 = t.wl2
  /\ u.unsent = <<>> /\ u.data = <<>> /\ u.closed = t.closed
  /\ u.rnext = t.rnext /\ u.rwindow = t.rwindow
  /\ u.rdata = t.rdata \/ (u.rdata = <<>> /\ ~u.known)
  /\ u.queue = t.queue

LEMMA FinAckedFields ==
  ASSUME NEW t \in TcbType, t.data = <<>>, t.unsent = <<>>, NEW s
  PROVE  /\ FinAckedFrom(FinAcked(t, s, "FIN_WAIT_2"), t)
         /\ FinAckedFrom(Cleanup(FinAcked(t, s, "TIME_WAIT")), t)
         /\ FinAckedFrom(Cleanup(FinAcked(t, s, "CLOSED")), t)
<1>1. ASSUME NEW x \in States
      PROVE  LET u == FinAcked(t, s, x)
             IN  /\ u \in TcbType /\ u.state = x /\ u.known = t.known
                 /\ u.isn = t.isn /\ u.una = Plus(t.una, 1) /\ u.next = Plus(t.next, 1)
                 /\ u.window = t.window /\ u.wl1 = t.wl1 /\ u.wl2 = t.wl2
                 /\ u.unsent = <<>> /\ u.data = <<>> /\ u.closed = t.closed
                 /\ u.rnext = t.rnext /\ u.rwindow = t.rwindow
                 /\ u.rdata = t.rdata /\ u.queue = t.queue
  <2> DEFINE y == Plus(t.una, 1)
             z == Plus(t.next, 1)
             a == [t EXCEPT !.una = y]
             b == [a EXCEPT !.next = z]
             u == [b EXCEPT !.state = x]
  <2>1. y \in Seqs /\ z \in Seqs
    <3>1. t.una \in Int /\ t.next \in Int /\ 1 \in Int
      <4>1. t.una \in Seqs /\ t.next \in Seqs
        BY TcbFields
      <4>2. QED
        BY <4>1, Constants DEF Seqs
    <3>2. QED
      BY <3>1, PlusOfPlus
  <2>2. FinAcked(t, s, x) = u
    BY DEF FinAcked, TcbType
  <2> HIDE DEF y, z
  <2>3. a \in TcbType
    BY <2>1 DEF TcbType
  <2>4. b \in TcbType
    <3> HIDE DEF a
    <3>1. QED
      BY <2>1, <2>3 DEF TcbType
  <2>5. u \in TcbType
    <3> HIDE DEF b
    <3>1. QED
      BY <2>4 DEF TcbType
  <2>6. /\ u.state = x /\ u.known = t.known
        /\ u.isn = t.isn /\ u.una = y /\ u.next = z
        /\ u.window = t.window /\ u.wl1 = t.wl1 /\ u.wl2 = t.wl2
        /\ u.unsent = t.unsent /\ u.data = t.data /\ u.closed = t.closed
        /\ u.rnext = t.rnext /\ u.rwindow = t.rwindow
        /\ u.rdata = t.rdata /\ u.queue = t.queue
    BY DEF TcbType
  <2> HIDE DEF u
  <2>7. QED
    BY <2>2, <2>5, <2>6 DEF y, z
<1>2. FinAckedFrom(FinAcked(t, s, "FIN_WAIT_2"), t)
  <2> DEFINE x == "FIN_WAIT_2"
  <2>1. x \in States
    BY DEF States
  <2> HIDE DEF x
  <2> DEFINE u == FinAcked(t, s, x)
  <2>2. /\ u \in TcbType /\ u.state = x /\ u.known = t.known
        /\ u.isn = t.isn /\ u.una = Plus(t.una, 1) /\ u.next = Plus(t.next, 1)
        /\ u.window = t.window /\ u.wl1 = t.wl1 /\ u.wl2 = t.wl2
        /\ u.unsent = <<>> /\ u.data = <<>> /\ u.closed = t.closed
        /\ u.rnext = t.rnext /\ u.rwindow = t.rwindow
        /\ u.rdata = t.rdata /\ u.queue = t.queue
    BY <1>1, <2>1
  <2> HIDE DEF u
  <2>3. FinAckedFrom(u, t)
    BY <2>2 DEF FinAckedFrom, x
  <2>4. QED
    BY <2>3 DEF u, x
<1>3. ASSUME NEW x \in {"TIME_WAIT", "CLOSED"} PROVE FinAckedFrom(Cleanup(FinAcked(t, s, x)), t)
  <2> DEFINE u == FinAcked(t, s, x)
             v == Cleanup(u)
  <2>1. x \in States
    BY DEF States
  <2>2. /\ u \in TcbType /\ u.state = x /\ u.known = t.known
        /\ u.isn = t.isn /\ u.una = Plus(t.una, 1) /\ u.next = Plus(t.next, 1)
        /\ u.window = t.window /\ u.wl1 = t.wl1 /\ u.wl2 = t.wl2
        /\ u.unsent = <<>> /\ u.data = <<>> /\ u.closed = t.closed
        /\ u.rnext = t.rnext /\ u.rwindow = t.rwindow
        /\ u.rdata = t.rdata /\ u.queue = t.queue
    BY <1>1, <2>1
  <2> HIDE DEF u
  <2>3. CleanFrom(v, u)
    BY <2>2, CleanFields
  <2> HIDE DEF v
  <2>4. FinAckedFrom(v, t)
    BY <2>2, <2>3 DEF FinAckedFrom, CleanFrom
  <2>5. QED
    BY <2>4 DEF u, v
<1>4. FinAckedFrom(Cleanup(FinAcked(t, s, "TIME_WAIT")), t)
  <2> DEFINE x == "TIME_WAIT"
  <2>1. x \in {"TIME_WAIT", "CLOSED"}
    OBVIOUS
  <2> HIDE DEF x
  <2>2. FinAckedFrom(Cleanup(FinAcked(t, s, x)), t)
    BY <1>3, <2>1
  <2>3. QED
    BY <2>2 DEF x
<1>5. FinAckedFrom(Cleanup(FinAcked(t, s, "CLOSED")), t)
  <2> DEFINE x == "CLOSED"
  <2>1. x \in {"TIME_WAIT", "CLOSED"}
    OBVIOUS
  <2> HIDE DEF x
  <2>2. FinAckedFrom(Cleanup(FinAcked(t, s, x)), t)
    BY <1>3, <2>1
  <2>3. QED
    BY <2>2 DEF x
<1>6. QED
  BY <1>2, <1>4, <1>5

\* The next place, as a sequence number.
LEMMA NextPlace ==
  ASSUME NEW e \in Ends, NEW s, NEW k \in Nat, k + 1 <= Far(e), s = At(e, k)
  PROVE  Plus(s, 1) = At(e, k + 1) /\ Place(e, Plus(s, 1)) = k + 1 /\ k + 1 \in 0..Far(e)
<1>1. k \in Int /\ 1 \in Int /\ Far(e) \in Nat
  BY Constants
<1>2. Plus(At(e, k), 1) = At(e, k + 1)
  BY <1>1, Places
<1>3. k + 1 \in 0..Far(e)
  BY <1>1
<1>4. Place(e, At(e, k + 1)) = k + 1
  BY <1>3, Places
<1>5. QED
  BY <1>2, <1>3, <1>4

LEMMA FinAckedKept ==
  ASSUME NEW e \in Ends, NEW t, NEW p \in TcbType, NEW g \in Nat, NEW h \in Nat, NEW w, NEW d,
         Local(e, t, p, g, h, w, d), t.state \in {"FIN_WAIT_1", "CLOSING", "LAST_ACK"}, t.known,
         NEW s, AckSound(Peer(e), s, p), s.ack = Plus(t.next, 1),
         NEW u, FinAckedFrom(u, t)
  PROVE  Kept(e, t, u, p, g, h, w, d)
<1> DEFINE f == Peer(e)
           N == Nxt(e, t)
           r == Rcv(e, p)
<1>1. /\ t \in TcbType /\ f \in Ends /\ Peer(f) = e /\ Joined(t) /\ Heard(p) /\ Heard(t) /\ Own(e, t, g, w, d)
      /\ Sender(e, t, g, w) /\ WindowUpdates(e, t) /\ Link(e, t, p, g) /\ Link(f, p, t, h) /\ u \in TcbType
  BY Constants DEF Local, Own, Joined, Heard, FinAckedFrom
<1>2. t.closed /\ w = "closed" /\ Una(e, t) = N /\ N = g + 1
  BY <1>1 DEF Sender
<1>3. /\ t.una = At(e, N) /\ t.next = At(e, N) /\ N \in Nat /\ N + 1 <= Far(e) /\ N + 1 = g + 2
  <2>1. t.una = At(e, N) /\ t.next = At(e, N)
    BY <1>1, <1>2, TcbFields
  <2>2. g + 2 + Buffer < Far(e)
    BY LocalFacts
  <2>3. Buffer \in Nat /\ Far(e) \in Nat
    BY Constants
  <2>4. N + 1 = g + 2 /\ N \in Nat
    <3> HIDE DEF N
    <3>1. QED
      BY <1>2
  <2>5. N + 1 <= Far(e)
    <3> DEFINE x == N + 1
               F == Far(e)
    <3>1. x = g + 2 /\ F \in Nat /\ g + 2 + Buffer < F
      BY <2>2, <2>3, <2>4
    <3> HIDE DEF x, F
    <3>2. x <= F
      BY <2>3, <3>1
    <3>3. QED
      BY <3>2 DEF x, F
  <2>6. QED
    BY <2>1, <2>4, <2>5
<1>4. Plus(t.next, 1) = At(e, N + 1) /\ Place(e, Plus(t.next, 1)) = N + 1 /\ N + 1 \in 0..Far(e)
  BY <1>3, NextPlace
<1>5. N + 1 <= r
  <2>1. PICK k \in 0..Far(e) : k <= Rcv(e, p) /\ \A j \in 0..Far(e) : s.ack = At(e, j) => j = k
    BY AckPlace
  <2>2. N + 1 = k
    BY <1>4, <2>1
  <2>3. QED
    BY <2>1, <2>2
<1>6. /\ Una(e, u) = N + 1 /\ Nxt(e, u) = N + 1 /\ Rcv(f, u) = Rcv(f, t) /\ Joined(u) /\ Heard(u)
  BY <1>3, <1>4 DEF FinAckedFrom, Una, Nxt, Rcv, Joined, Heard
<1>7. Own(e, u, g, w, d)
  <2>1. Sender(e, u, g, w)
    <3> DEFINE m == N + 1
    <3>1. m = g + 2 /\ m \in Nat /\ m <= m /\ m >= 1 /\ m >= g + 1
      <4> HIDE DEF N
      <4>1. QED
        BY <1>3
    <3>2. Una(e, u) = m /\ Nxt(e, u) = m
      BY <1>6
    <3> HIDE DEF m
    <3>3. /\ u.data = <<>> /\ u.unsent = <<>> /\ u.closed /\ u.state \in {"FIN_WAIT_2", "TIME_WAIT", "CLOSED"}
          /\ u.state = "CLOSED" => ~u.known
          /\ ~u.known => u.state \in {"CLOSED", "TIME_WAIT"}
      BY <1>2 DEF FinAckedFrom
    <3>4. QED
      BY <1>2, <3>1, <3>2, <3>3 DEF Sender
  <2>2. WindowUpdates(e, u)
    <3>1. PICK v \in 0..Rcv(f, t) :
            /\ t.wl1 = At(f, v)
            /\ v < Rcv(f, t) \/ \E x \in 0..Una(e, t) : t.wl2 = At(e, x)
      BY <1>1 DEF WindowUpdates
    <3>2. \A x \in 0..N : x \in 0..(N + 1)
      <4> HIDE DEF N
      <4>1. QED
        BY <1>3
    <3>3. u.wl1 = t.wl1 /\ u.wl2 = t.wl2
      BY DEF FinAckedFrom
    <3>4. QED
      BY <1>2, <1>6, <3>1, <3>2, <3>3 DEF WindowUpdates
  <2>3. u.isn = Isn[e] /\ g <= Messages[e] /\ u.rwindow + Len(u.rdata) <= Buffer
    <3>1. t.isn = Isn[e] /\ g <= Messages[e] /\ t.rwindow + Len(t.rdata) <= Buffer
      BY <1>1 DEF Own
    <3>2. u.isn = t.isn /\ u.rwindow = t.rwindow /\ (u.rdata = t.rdata \/ u.rdata = <<>>)
      BY DEF FinAckedFrom
    <3>3. t.rwindow \in 0..Buffer /\ Buffer \in Nat /\ Len(<<>>) = 0
      BY <1>1, TcbFields, Constants
    <3>4. t.rwindow + 0 <= Buffer
      BY <3>3
    <3>5. QED
      BY <3>1, <3>2, <3>3, <3>4
  <2>4. QED
    BY <1>6, <2>1, <2>2, <2>3 DEF Own
<1>8. Link(e, u, p, g)
  <2>1. 1 <= r /\ r <= g + 2
    BY <1>1, <1>2 DEF Link
  <2>2. u.closed /\ u.data = <<>>
    BY <1>2 DEF FinAckedFrom
  <2>3. DOMAIN u.data = {}
    BY <2>2
  <2>4. QED
    BY <1>5, <1>6, <2>1, <2>2, <2>3 DEF Link
<1>9. ReceiverGoesOn(f, t, u) /\ Link(f, p, u, h)
  <2>1. u.rnext = t.rnext /\ u.rwindow = t.rwindow
    BY DEF FinAckedFrom
  <2>2. CASE u.rdata = t.rdata
    BY <1>1, <1>6, <2>1, <2>2, InputAlone
  <2>3. CASE u.rdata = <<>>
    BY <1>1, <1>6, <2>1, <2>3, Drained
  <2>4. QED
    BY <2>2, <2>3 DEF FinAckedFrom
<1>10. GoesOn(e, t, u, g, g)
  <2>1. N <= N + 1
    <3> HIDE DEF N
    <3>1. QED
      BY <1>3
  <2>2. u.closed
    BY <1>2 DEF FinAckedFrom
  <2>3. QED
    BY <1>6, <1>9, <2>1, <2>2 DEF GoesOn, SenderGoesOn
<1>11. \A x \in ToSet(u.queue) : Sound(e, x, u, p, g)
  <2> TAKE x \in ToSet(u.queue)
  <2>1. x \in SegmentType /\ Sound(e, x, t, p, g)
    BY <1>1, TcbFields, ToSetIsImage DEF Local, FinAckedFrom
  <2>2. SenderGoesOn(e, t, u, g, g) /\ ReceiverGoesOn(f, t, u) /\ ReceiverGoesOn(e, p, p)
    BY <1>10, GoesOnAndOn DEF GoesOn
  <2>3. QED
    BY <1>1, <2>1, <2>2, SoundKept
<1>12. Local(e, u, p, g, h, w, d)
  BY <1>1, <1>6, <1>7, <1>8, <1>9, <1>11 DEF Local
<1>13. QED
  BY <1>10, <1>12 DEF Kept

\* What the acknowledgment leaves of t for the text and the FIN.
AfterAck(t, a) ==
  /\ a.rnext = t.rnext /\ a.rwindow = t.rwindow
  /\ a.state = "CLOSED" => a.closed
  /\ ~ForeignWillNotSend(a) =>
       a.state \in {"ESTABLISHED", "FIN_WAIT_1", "FIN_WAIT_2"} /\ a.known /\ a.rdata = t.rdata

LEMMA AckFieldKept ==
  ASSUME NEW e \in Ends, NEW t, NEW p \in TcbType, NEW g \in Nat, NEW h \in Nat, NEW w, NEW d,
         Local(e, t, p, g, h, w, d), Joined(t), t.known,
         NEW s \in SegmentType, AckSound(Peer(e), s, p), NEW n,
         Rcv(Peer(e), t) \in 0..Far(Peer(e))
  PROVE  LET a == AckField(t, s, t.rnext, n)
         IN  Kept(e, t, a, p, g, h, w, d) /\ AfterAck(t, a) /\ ~AcksUnsent(t, s, n)
<1> DEFINE a == AckField(t, s, t.rnext, n)
<1>1. /\ t \in TcbType /\ Sender(e, t, g, w) /\ t.state # "CLOSED"
      /\ t.state \in {"ESTABLISHED", "FIN_WAIT_1", "FIN_WAIT_2", "CLOSE_WAIT", "CLOSING", "LAST_ACK", "TIME_WAIT"}
  <2>1. t \in TcbType /\ Sender(e, t, g, w)
    BY DEF Local, Own
  <2>2. t.state # "CLOSED"
    BY <2>1 DEF Sender
  <2>3. t.state \in States
    BY <2>1, TcbFields
  <2>4. QED
    BY <2>1, <2>2, <2>3 DEF States, Joined
<1>2. Kept(e, t, t, p, g, h, w, d)
  <2>1. GoesOn(e, t, t, g, g)
    BY <1>1, GoesOnAndOn
  <2>2. QED
    BY <2>1 DEF Kept
<1>3. AfterAck(t, t)
  BY <1>1 DEF AfterAck, ForeignWillNotSend
<1>4. CASE t.state \in {"ESTABLISHED", "CLOSE_WAIT"}
  <2> DEFINE u == AckOfData(t, s, t.rnext, n)
  <2>1. Kept(e, t, u, p, g, h, w, d) /\ SameInput(t, u) /\ ~AcksUnsent(t, s, n)
    BY <1>4, AckOfDataKept
  <2>2. a = u
    BY <1>4, <2>1 DEF AckField, SameInput
  <2> HIDE DEF u, a
  <2>3. AfterAck(t, u)
    BY <1>1, <1>4, <2>1 DEF AfterAck, SameInput, ForeignWillNotSend
  <2>4. QED
    BY <2>1, <2>2, <2>3 DEF a
<1>5. CASE t.state \notin {"ESTABLISHED", "CLOSE_WAIT"}
  <2>1. ~AcksUnsent(t, s, n)
    BY <1>5 DEF AcksUnsent
  <2>2. CASE /\ s.ack = Plus(t.next, 1) /\ t.state \in {"FIN_WAIT_1", "CLOSING", "LAST_ACK"}
    <3>1. t.closed /\ t.data = <<>> /\ t.unsent = <<>>
      BY <1>1, <2>2 DEF Sender
    <3>2. FinAckedFrom(a, t)
      <4>1. CASE t.state = "FIN_WAIT_1"
        <5>1. a = FinAcked(t, s, "FIN_WAIT_2")
          BY <2>2, <4>1 DEF AckField
        <5>2. QED
          BY <1>1, <3>1, <5>1, FinAckedFields
      <4>2. CASE t.state = "CLOSING"
        <5>1. a = Cleanup(FinAcked(t, s, "TIME_WAIT"))
          BY <2>2, <4>2 DEF AckField
        <5>2. QED
          BY <1>1, <3>1, <5>1, FinAckedFields
      <4>3. CASE t.state = "LAST_ACK"
        <5>1. a = Cleanup(FinAcked(t, s, "CLOSED"))
          BY <2>2, <4>3 DEF AckField
        <5>2. QED
          BY <1>1, <3>1, <5>1, FinAckedFields
      <4>4. QED
        BY <2>2, <4>1, <4>2, <4>3
    <3> HIDE DEF a
    <3>3. Kept(e, t, a, p, g, h, w, d)
      BY <2>2, <3>2, FinAckedKept
    <3>4. AfterAck(t, a)
      BY <3>1, <3>2 DEF AfterAck, FinAckedFrom, ForeignWillNotSend
    <3>5. QED
      BY <2>1, <3>3, <3>4 DEF a
  <2>3. CASE ~(s.ack = Plus(t.next, 1) /\ t.state \in {"FIN_WAIT_1", "CLOSING", "LAST_ACK"})
    <3>1. a = t
      BY <1>5, <2>3 DEF AckField
    <3>2. QED
      BY <1>2, <1>3, <2>1, <3>1
  <2>4. QED
    BY <2>2, <2>3
<1>6. QED
  BY <1>4, <1>5

\* Nothing is in segments that an acknowledgment could leave.
LEMMA NothingUnacked ==
  ASSUME NEW a \in Nat
  PROVE  Unacked(<<>>, a) = <<>> /\ <<>> \in Segments /\ FlightSize(<<>>) = 0 /\ \A k : InPlace(<<>>, k)
<1>1. <<>> \in Segments /\ Len(<<>>) = 0 /\ DOMAIN <<>> = {}
  BY DEF Segments
<1>2. FlightSize(<<>>) = 0
  BY <1>1, BytesInType DEF FlightSize
<1>3. Unacked(<<>>, a) = <<>>
  <2> DEFINE z == <<>>
             last == Len(z)
             P(n) == BytesIn(z, n) <= a /\ (n < last => BytesIn(z, n + 1) > a)
             gone == CHOOSE n \in 0..last : P(n)
             rest == SubSeq(z, gone + 1, last)
  <2>1. rest = <<>> => Unacked(z, a) = <<>>
    BY DEF Unacked
  <2>2. gone \in 0..0
    <3>1. last = 0 /\ BytesIn(z, 0) = 0
      BY <1>1, BytesInType
    <3> HIDE DEF last, z
    <3>2. 0 \in 0..last /\ P(0)
      BY <3>1
    <3> HIDE DEF P
    <3>3. gone \in 0..last
      BY <3>2
    <3>4. QED
      BY <3>1, <3>3
  <2> HIDE DEF gone
  <2>3. rest = <<>>
    <3>1. \A i \in Int : i >= 1 => SubSeq(<<>>, i, 0) = <<>>
      OBVIOUS
    <3>2. gone + 1 \in Int /\ gone + 1 >= 1
      BY <2>2
    <3>3. QED
      BY <3>1, <3>2
  <2>4. QED
    BY <2>1, <2>3
<1>4. QED
  BY <1>1, <1>2, <1>3 DEF InPlace

\* The acknowledgment of the SYN makes a connection of what was opening.
LEMMA EstablishedKept ==
  ASSUME NEW e \in Ends, NEW t, NEW p \in TcbType, NEW g \in Nat, NEW h \in Nat, NEW w, NEW d,
         Local(e, t, p, g, h, w, d), t.state = "SYN_RECEIVED",
         NEW s \in SegmentType, AckSound(Peer(e), s, p), ~Refused(t, s), NEW n,
         Rcv(Peer(e), t) \in 0..Far(Peer(e))
  PROVE  LET x == Established(t)
             a == AckField(x, s, t.rnext, n)
         IN  /\ Kept(e, t, a, p, g, h, w, d) /\ AfterAck(t, a) /\ ~AcksUnsent(x, s, n)
             /\ x.rnext = t.rnext
<1> DEFINE f == Peer(e)
           x == Established(t)
           a == AckField(x, s, t.rnext, n)
<1>1. /\ t \in TcbType /\ f \in Ends /\ Peer(f) = e /\ Heard(t) /\ ~Joined(t) /\ Heard(p)
      /\ Own(e, t, g, w, d) /\ Opening(e, t, g, w, d) /\ Link(e, t, p, g) /\ Link(f, p, t, h)
      /\ WindowUpdates(e, t) /\ t.isn = Isn[e] /\ g <= Messages[e] /\ t.rwindow + Len(t.rdata) <= Buffer
  BY Constants DEF Local, Own, Heard, Joined, AckSound
<1>2. /\ Una(e, t) = 0 /\ Nxt(e, t) = 1 /\ t.data = <<>> /\ t.unsent = <<>> /\ g = 0 /\ w = "open" /\ t.known /\ ~t.closed
  <2>1. Place(e, At(e, 1)) = 1 /\ Place(e, At(e, 0)) = 0 /\ At(e, 0) = Isn[e]
    <3>1. Far(e) \in Nat /\ Far(e) > 1
      BY Constants DEF Far
    <3>2. 0 \in 0..Far(e) /\ 1 \in 0..Far(e)
      BY <3>1
    <3>3. QED
      BY <3>2, Places
  <2>2. QED
    BY <1>1, <2>1 DEF Opening, Una, Nxt
<1>3. PICK k \in 0..Far(e) :
           /\ k >= 1 /\ s.ack = At(e, k)
           /\ Before(t.una, s.ack) <=> Una(e, t) < k
           /\ NotAfter(t.una, s.ack) <=> Una(e, t) <= k
           /\ NotAfter(s.ack, t.next) <=> k <= Nxt(e, t)
           /\ Minus(s.ack, t.una) = k - Una(e, t)
  BY AckPlace
<1>4. k \in Nat
  BY Constants
<1>5. k = 1 /\ NotAfter(s.ack, t.next) /\ Before(t.una, s.ack) /\ Minus(s.ack, t.una) = 1
  <2>1. NotAfter(s.ack, t.next)
    BY DEF Refused
  <2>2. k <= 1 /\ (Before(t.una, s.ack) <=> 0 < k) /\ Minus(s.ack, t.una) = k - 0
    BY <1>2, <1>3, <2>1
  <2>3. k = 1
    BY <1>3, <1>4, <2>2
  <2>4. QED
    BY <2>1, <2>2, <2>3
<1>6. /\ x \in TcbType /\ x.state = "ESTABLISHED"
      /\ x.known = t.known /\ x.isn = t.isn /\ x.una = t.una /\ x.next = t.next
      /\ x.window = t.window /\ x.wl1 = t.wl1 /\ x.wl2 = t.wl2
      /\ x.unsent = t.unsent /\ x.data = t.data /\ x.closed = t.closed
      /\ x.rnext = t.rnext /\ x.rwindow = t.rwindow /\ x.rdata = t.rdata /\ x.queue = t.queue
  <2> DEFINE y == "ESTABLISHED"
             z == [t EXCEPT !.state = y]
  <2>1. x = z
    BY DEF Established
  <2>2. y \in States
    BY DEF States
  <2>3. z \in TcbType
    <3> HIDE DEF y
    <3>1. QED
      BY <1>1, <2>2 DEF TcbType
  <2>4. /\ z.state = y
      /\ z.known = t.known /\ z.isn = t.isn /\ z.una = t.una /\ z.next = t.next
      /\ z.window = t.window /\ z.wl1 = t.wl1 /\ z.wl2 = t.wl2
      /\ z.unsent = t.unsent /\ z.data = t.data /\ z.closed = t.closed
      /\ z.rnext = t.rnext /\ z.rwindow = t.rwindow /\ z.rdata = t.rdata /\ z.queue = t.queue
    BY <1>1 DEF TcbType
  <2> HIDE DEF z, x
  <2>5. QED
    BY <2>1, <2>3, <2>4 DEF y
<1> HIDE DEF x
<1>7. /\ Una(e, x) = 0 /\ Nxt(e, x) = 1 /\ Rcv(f, x) = Rcv(f, t) /\ Joined(x) /\ Heard(x)
  BY <1>2, <1>6 DEF Una, Nxt, Rcv, Joined, Heard
<1>8. SenderGoesOn(e, t, x, g, g) /\ Link(e, x, p, g)
  BY <1>1, <1>6, OutputAlone
<1>9. ReceiverGoesOn(f, t, x) /\ Link(f, p, x, h)
  BY <1>1, <1>6, <1>7, InputAlone
<1>10. GoesOn(e, t, x, g, g)
  BY <1>7, <1>8, <1>9 DEF GoesOn
<1>11. \A y \in ToSet(x.queue) : Sound(e, y, x, p, g)
  <2> TAKE y \in ToSet(x.queue)
  <2>1. y \in SegmentType /\ Sound(e, y, t, p, g)
    BY <1>1, <1>6, TcbFields, ToSetIsImage DEF Local
  <2>2. ReceiverGoesOn(e, p, p)
    BY GoesOnAndOn
  <2>3. QED
    BY <1>1, <1>6, <1>8, <1>9, <2>1, <2>2, SoundKept
<1>12. Ackable(e, x, p, g, h, w)
  <2>1. x.unsent = Stretch(Nxt(e, x) - 1, g + 1 - Nxt(e, x))
    <3>1. Stretch(0, 0) = <<>>
      BY StretchType
    <3>2. 1 - 1 = 0 /\ 0 + 1 - 1 = 0
      OBVIOUS
    <3>3. QED
      BY <1>2, <1>6, <1>7, <3>1, <3>2
  <2>2. WindowUpdates(e, x)
    BY <1>1, <1>2, <1>6, <1>7 DEF WindowUpdates
  <2>3. 0 <= 1 /\ 1 <= 0 + 1
    OBVIOUS
  <2>4. Una(e, x) <= Nxt(e, x) /\ Nxt(e, x) <= g + 1
    BY <1>2, <1>7, <2>3
  <2>5. x.isn = Isn[e] /\ g <= Messages[e] /\ x.rwindow + Len(x.rdata) <= Buffer /\ w # "acked" /\ x.known /\ ~x.closed
    BY <1>1, <1>2, <1>6
  <2>6. x.state \in {"ESTABLISHED", "CLOSE_WAIT"}
    BY <1>6
  <2>7. QED
    BY <1>1, <1>8, <1>9, <1>11, <2>1, <2>2, <2>4, <2>5, <2>6 DEF Ackable
<1>13. Leaves(e, x, p, k, Unacked(x.data, Minus(s.ack, x.una)))
  <2> DEFINE z == <<>>
  <2>1. Unacked(x.data, Minus(s.ack, x.una)) = z
    BY <1>2, <1>5, <1>6, NothingUnacked
  <2>2. z \in Segments /\ InPlace(z, k) /\ FlightSize(z) = 0 /\ DOMAIN z = {}
    BY NothingUnacked
  <2> HIDE DEF z
  <2>3. Nxt(e, x) = k + FlightSize(z)
    BY <1>5, <1>7, <2>2
  <2>4. QED
    BY <2>1, <2>2, <2>3 DEF Leaves
<1> DEFINE u == Advance(x, s, x.rnext)
<1>14. Kept(e, x, u, p, g, h, w, d) /\ SameInput(x, u)
  <2>1. Rcv(Peer(e), x) \in 0..Far(Peer(e))
    BY <1>7
  <2>2. Una(e, x) < k /\ k <= Nxt(e, x) /\ k >= 1 /\ s.ack = At(e, k)
    BY <1>3, <1>5, <1>7
  <2> HIDE DEF f
  <2>3. QED
    BY <1>6, <1>12, <1>13, <2>1, <2>2, AdvanceKept
<1>15. Advances(x, s)
  BY <1>5, <1>6 DEF Advances
<1>16. a = u
  <2>1. AckOfData(x, s, t.rnext, n) = u
    BY <1>6, <1>15 DEF AckOfData, Repeats, Opens
  <2>2. u.state = "ESTABLISHED"
    BY <1>6, <1>14 DEF SameInput
  <2> HIDE DEF u
  <2>3. QED
    BY <1>6, <2>1, <2>2 DEF AckField
<1>17. ~AcksUnsent(x, s, n)
  BY <1>15 DEF AcksUnsent
<1> HIDE DEF u, a
<1>18. Kept(e, t, u, p, g, h, w, d)
  BY <1>1, <1>6, <1>10, <1>14, KeptOn
<1>19. AfterAck(t, u)
  BY <1>2, <1>6, <1>14 DEF AfterAck, SameInput, ForeignWillNotSend
<1>20. QED
  BY <1>6, <1>16, <1>17, <1>18, <1>19 DEF a, x

\* What is new in a segment that starts at or before the next byte expected is
\* within what was sent and within what the receiver has room for.
LEMMA InOrderText ==
  ASSUME NEW e \in Ends, NEW t \in TcbType, NEW p \in TcbType, NEW g \in Nat, NEW s \in SegmentType,
         TextSound(e, s, t, p, g), InOrder(p, s),
         Nxt(e, t) \in 0..Far(e), Rcv(e, p) \in 0..Far(e), p.rwindow + Len(p.rdata) <= Buffer
  PROVE  LET m == Len(Cut(p, s))
             r == Rcv(e, p)
         IN  /\ Cut(p, s) \in Seq(Bytes) /\ m \in Nat /\ r + m <= Nxt(e, t)
             /\ m > 0 => r + m <= g + 1 /\ p.rwindow # 0 /\ Len(p.rdata) + m <= Buffer
             /\ s.fin => m = 0 /\ t.closed /\ r = g + 1
<1> DEFINE n == Len(s.bytes)
           r == Rcv(e, p)
           N == Nxt(e, t)
           F == Far(e)
           k == Known(p, s)
           m == Len(Cut(p, s))
<1>1. PICK q \in 1..N :
        /\ s.seq = At(e, q)
        /\ q + n <= N
        /\ n > 0 => q + n <= g + 1
        /\ n > 1 => Fits(e, p, q + n)
        /\ s.fin => n = 0 /\ t.closed /\ q = g + 1
  BY DEF TextSound
<1>2. /\ s.bytes \in Seq(Bytes) /\ n \in Nat /\ p.rnext = At(e, r) /\ F \in Nat /\ N \in 0..F /\ r \in 0..F
      /\ p.rwindow \in Nat /\ Len(p.rdata) \in Nat /\ Buffer \in Nat
  <2>1. s.bytes \in Seq(Bytes)
    BY DEF SegmentType
  <2>2. p.rdata \in Seq(Bytes) /\ p.rwindow \in 0..Buffer /\ p.rnext = At(e, r) /\ Buffer \in Nat
    BY Constants, TcbFields
  <2>3. n \in Nat /\ Len(p.rdata) \in Nat
    BY <2>1, <2>2, LenProperties
  <2>4. p.rwindow \in Nat
    BY <2>2
  <2>5. F \in Nat
    BY Constants
  <2> HIDE DEF n, r, F, N
  <2>6. QED
    BY <2>1, <2>2, <2>3, <2>4, <2>5 DEF F, r, N
<1>3. q \in 0..F /\ q \in Nat /\ q + n \in 0..F
  <2> HIDE DEF n, N, F
  <2>1. QED
    BY <1>1, <1>2
<1> HIDE DEF n, r, N, F
<1>4. \A i \in Int : Plus(At(e, q), i) = At(e, q + i)
  BY <1>3, Places
<1>5. \A i, j \in 0..F :
        /\ Minus(At(e, i), At(e, j)) = i - j
        /\ Before(At(e, i), At(e, j)) <=> i < j
        /\ NotAfter(At(e, i), At(e, j)) <=> i <= j
        /\ At(e, i) = At(e, j) <=> i = j
  BY Places DEF F
<1>6. Minus(p.rnext, s.seq) = r - q
  BY <1>1, <1>2, <1>3, <1>5
<1>7. k = Min2(Max2(r - q, 0), n)
  BY <1>6 DEF Known, n
<1> HIDE DEF k
<1>8. k \in Int /\ k \in 0..n
  BY <1>2, <1>3, <1>7 DEF Min2, Max2
<1>9. q + k = r
  <2>1. Plus(s.seq, k) = p.rnext
    BY DEF InOrder, k
  <2>2. At(e, q + k) = At(e, r)
    BY <1>1, <1>2, <1>4, <1>8, <2>1
  <2>3. q + k \in 0..F
    BY <1>2, <1>3, <1>8
  <2>4. QED
    BY <1>2, <1>5, <2>2, <2>3
<1>10. Cut(p, s) \in Seq(Bytes) /\ m = n - k
  <2>1. Cut(p, s) = SubSeq(s.bytes, k + 1, n)
    BY DEF Cut, k, n
  <2>2. Len(s.bytes) = n
    BY DEF n
  <2>3. \A i \in 1..n : s.bytes[i] \in Bytes
    BY <1>2, <2>2, ElementOfSeq
  <2>4. k + 1 \in Int /\ n \in Int /\ \A i \in (k + 1)..n : s.bytes[i] \in Bytes
    BY <1>2, <1>8, <2>3
  <2>5. /\ SubSeq(s.bytes, k + 1, n) \in Seq(Bytes)
        /\ Len(SubSeq(s.bytes, k + 1, n)) = IF k + 1 <= n THEN n - (k + 1) + 1 ELSE 0
    BY <2>4, SubSeqProperties
  <2>6. Len(SubSeq(s.bytes, k + 1, n)) = n - k
    <3>1. Len(SubSeq(s.bytes, k + 1, n)) = IF k + 1 <= n THEN n - (k + 1) + 1 ELSE 0
      BY <2>5
    <3>2. QED
      BY <1>2, <1>8, <3>1
  <2>7. QED
    BY <2>1, <2>5, <2>6
<1> HIDE DEF m
<1>11. m \in Nat /\ r + m = q + n
  BY <1>2, <1>3, <1>8, <1>9, <1>10
<1>12. m > 0 => p.rwindow # 0
  <2> SUFFICES ASSUME m > 0, p.rwindow = 0 PROVE FALSE
    OBVIOUS
  <2>1. n > 0
    BY <1>2, <1>8, <1>10, <1>11
  <2>2. Plus(p.rnext, p.rwindow) = p.rnext
    <3>1. \A i \in Int : Plus(At(e, r), i) = At(e, r + i)
      BY <1>2, Places
    <3>2. r + 0 = r /\ 0 \in Int
      BY <1>2
    <3>3. Plus(At(e, r), 0) = At(e, r)
      BY <3>1, <3>2
    <3>4. QED
      BY <1>2, <3>3
  <2>3. \/ NotAfter(p.rnext, s.seq) /\ Before(s.seq, p.rnext)
        \/ NotAfter(p.rnext, Plus(s.seq, n - 1)) /\ Before(Plus(s.seq, n - 1), p.rnext)
    BY <1>2, <2>1, <2>2 DEF InOrder, Acceptable, n
  <2>4. \A x \in 0..F : ~(NotAfter(p.rnext, At(e, x)) /\ Before(At(e, x), p.rnext))
    <3> TAKE x \in 0..F
    <3>1. (NotAfter(p.rnext, At(e, x)) <=> r <= x) /\ (Before(At(e, x), p.rnext) <=> x < r)
      BY <1>2, <1>5
    <3>2. ~(r <= x /\ x < r)
      BY <1>2
    <3>3. QED
      BY <3>1, <3>2
  <2>5. q + (n - 1) \in 0..F /\ n - 1 \in Int
    BY <1>2, <1>3, <2>1
  <2>6. Plus(s.seq, n - 1) = At(e, q + (n - 1))
    BY <1>1, <1>4, <2>5
  <2>7. QED
    BY <1>1, <1>3, <2>3, <2>4, <2>5, <2>6
<1>13. m > 0 => r + m <= g + 1
  BY <1>1, <1>2, <1>8, <1>10, <1>11
<1>14. m > 0 => Len(p.rdata) + m <= Buffer
  <2> SUFFICES ASSUME m > 0 PROVE Len(p.rdata) + m <= Buffer
    OBVIOUS
  <2> DEFINE l == Len(p.rdata)
             b == p.rwindow
  <2>1. l \in Nat /\ b \in Nat /\ b # 0 /\ b + l <= Buffer
    BY <1>2, <1>12
  <2>2. CASE n > 1
    <3>1. Fits(e, p, r + m)
      BY <1>1, <1>11, <2>2
    <3>2. r + m <= (r - l) + Buffer
      BY <2>1, <3>1 DEF Fits, ReadTo, r
    <3> HIDE DEF l
    <3>3. l + m <= Buffer
      BY <1>2, <1>11, <2>1, <3>2
    <3>4. QED
      BY <3>3 DEF l
  <2>3. CASE ~(n > 1)
    <3> HIDE DEF l, b
    <3>1. m = 1
      BY <1>2, <1>8, <1>10, <1>11, <2>3
    <3>2. l + m <= Buffer
      BY <1>2, <2>1, <3>1
    <3>3. QED
      BY <3>2 DEF l
  <2>4. QED
    BY <2>2, <2>3
<1>15. s.fin => m = 0 /\ t.closed /\ r = g + 1
  BY <1>1, <1>3, <1>8, <1>9, <1>10
<1>16. r + m <= N
  BY <1>1, <1>11
<1>17. QED
  BY <1>10, <1>11, <1>12, <1>13, <1>14, <1>15, <1>16 DEF m, r, N

\* t when the bytes are taken.
TextFrom(u, t, bytes) ==
  /\ u \in TcbType
  /\ u.state = t.state /\ u.known = t.known /\ u.isn = t.isn /\ u.una = t.una /\ u.next = t.next
  /\ u.window = t.window /\ u.wl1 = t.wl1 /\ u.wl2 = t.wl2
  /\ u.unsent = t.unsent /\ u.data = t.data /\ u.closed = t.closed /\ u.queue = t.queue
  /\ u.rnext = Plus(t.rnext, Len(bytes))
  /\ u.rdata = t.rdata \o bytes
  /\ u.rwindow = Buffer - (Len(t.rdata) + Len(bytes))

LEMMA TextFields ==
  ASSUME NEW t \in TcbType, NEW bytes \in Seq(Bytes), Len(bytes) > 0,
         Len(t.rdata) + Len(bytes) <= Buffer,
         t.state \in {"ESTABLISHED", "FIN_WAIT_1", "FIN_WAIT_2"}
  PROVE  TextFrom(Text(t, bytes), t, bytes)
<1> DEFINE n == Len(bytes)
           rdata == t.rdata \o bytes
           second == n = Mss /\ t.full >= 1
           rnext == Plus(t.rnext, n)
           win == Max2(Buffer - Len(rdata), 0)
           later == {q \in t.ooo : Before(Plus(t.rnext, n), q)}
           full == IF second THEN 0 ELSE IF n = Mss THEN t.full + 1 ELSE t.full
           now == ~second
           poll == t.poll \/ second
           a == [t EXCEPT !.rdata = rdata]
           b == [a EXCEPT !.rnext = rnext]
           c == [b EXCEPT !.rwindow = win]
           v == [c EXCEPT !.ooo = later]
           x == [v EXCEPT !.full = full]
           y == [x EXCEPT !.delayed = now]
           u == [y EXCEPT !.poll = poll]
<1>1. /\ t.rdata \in Seq(Bytes) /\ t.rnext \in Seqs /\ t.full \in 0..1 /\ Len(t.rdata) \in Nat
      /\ n \in Nat /\ Buffer \in Nat /\ Mss \in Nat
  <2>1. t.rdata \in Seq(Bytes) /\ t.rnext \in Seqs /\ t.full \in 0..1
    BY TcbFields
  <2>2. QED
    BY <2>1, Constants, LenProperties
<1>2. n # 0
  BY <1>1
<1>3. Text(t, bytes) = u
  BY <1>2 DEF Text, TcbType
<1>4. rdata \in Seq(Bytes) /\ Len(rdata) = Len(t.rdata) + n
  BY <1>1, ConcatProperties
<1>5. win = Buffer - (Len(t.rdata) + n) /\ win \in 0..Buffer
  <2> DEFINE l == Len(rdata)
             k == Len(t.rdata)
  <2>1. l = k + n /\ k \in Nat /\ k + n <= Buffer
    BY <1>1, <1>4
  <2> HIDE DEF l, k, n
  <2>2. Max2(Buffer - l, 0) = Buffer - (k + n) /\ Buffer - (k + n) \in 0..Buffer
    BY <1>1, <2>1 DEF Max2
  <2>3. QED
    BY <2>2 DEF l, k
<1>6. rnext \in Seqs
  <2>1. SeqSpace \in Nat
    BY Constants
  <2>2. t.rnext \in Int /\ n \in Int
    BY <1>1, <2>1 DEF Seqs
  <2>3. QED
    BY <2>2, PlusOfPlus
<1>7. later \in SUBSET Seqs
  <2>1. t.ooo \in SUBSET Seqs
    BY DEF TcbType
  <2>2. QED
    BY <2>1
<1>8. full \in 0..1
  BY <1>1
<1>9. now \in BOOLEAN /\ poll \in BOOLEAN
  OBVIOUS
<1> HIDE DEF rdata, second, rnext, win, later, full, now, poll
<1>10. /\ a \in TcbType
       /\ a.state = t.state /\ a.known = t.known /\ a.isn = t.isn /\ a.una = t.una /\ a.next = t.next
       /\ a.window = t.window /\ a.wl1 = t.wl1 /\ a.wl2 = t.wl2
       /\ a.unsent = t.unsent /\ a.data = t.data /\ a.closed = t.closed /\ a.queue = t.queue
       /\ a.rdata = rdata
  <2>1. a \in TcbType
    BY <1>4 DEF TcbType
  <2>2. /\ a.state = t.state /\ a.known = t.known /\ a.isn = t.isn /\ a.una = t.una /\ a.next = t.next
        /\ a.window = t.window /\ a.wl1 = t.wl1 /\ a.wl2 = t.wl2
        /\ a.unsent = t.unsent /\ a.data = t.data /\ a.closed = t.closed /\ a.queue = t.queue
        /\ a.rdata = rdata
    BY DEF TcbType
  <2>3. QED
    BY <2>1, <2>2
<1> HIDE DEF a
<1>11. /\ b \in TcbType
       /\ b.state = a.state /\ b.known = a.known /\ b.isn = a.isn /\ b.una = a.una /\ b.next = a.next
       /\ b.window = a.window /\ b.wl1 = a.wl1 /\ b.wl2 = a.wl2
       /\ b.unsent = a.unsent /\ b.data = a.data /\ b.closed = a.closed /\ b.queue = a.queue
       /\ b.rdata = a.rdata /\ b.rnext = rnext
  <2>1. b \in TcbType
    BY <1>6, <1>10 DEF TcbType
  <2>2. /\ b.state = a.state /\ b.known = a.known /\ b.isn = a.isn /\ b.una = a.una /\ b.next = a.next
        /\ b.window = a.window /\ b.wl1 = a.wl1 /\ b.wl2 = a.wl2
        /\ b.unsent = a.unsent /\ b.data = a.data /\ b.closed = a.closed /\ b.queue = a.queue
        /\ b.rdata = a.rdata /\ b.rnext = rnext
    BY <1>10 DEF TcbType
  <2>3. QED
    BY <2>1, <2>2
<1> HIDE DEF b
<1>12. /\ c \in TcbType
       /\ c.state = b.state /\ c.known = b.known /\ c.isn = b.isn /\ c.una = b.una /\ c.next = b.next
       /\ c.window = b.window /\ c.wl1 = b.wl1 /\ c.wl2 = b.wl2
       /\ c.unsent = b.unsent /\ c.data = b.data /\ c.closed = b.closed /\ c.queue = b.queue
       /\ c.rdata = b.rdata /\ c.rnext = b.rnext /\ c.rwindow = win
  <2>1. c \in TcbType
    BY <1>5, <1>11 DEF TcbType
  <2>2. /\ c.state = b.state /\ c.known = b.known /\ c.isn = b.isn /\ c.una = b.una /\ c.next = b.next
        /\ c.window = b.window /\ c.wl1 = b.wl1 /\ c.wl2 = b.wl2
        /\ c.unsent = b.unsent /\ c.data = b.data /\ c.closed = b.closed /\ c.queue = b.queue
        /\ c.rdata = b.rdata /\ c.rnext = b.rnext /\ c.rwindow = win
    BY <1>11 DEF TcbType
  <2>3. QED
    BY <2>1, <2>2
<1> HIDE DEF c
<1>13. v \in TcbType
  BY <1>7, <1>12 DEF TcbType
<1>14. x \in TcbType
  <2> HIDE DEF v
  <2>1. QED
    BY <1>8, <1>13 DEF TcbType
<1>15. y \in TcbType
  <2> HIDE DEF x
  <2>1. QED
    BY <1>9, <1>14 DEF TcbType
<1>16. u \in TcbType
  <2> HIDE DEF y
  <2>1. QED
    BY <1>9, <1>15 DEF TcbType
<1>17. /\ u.state = c.state /\ u.known = c.known /\ u.isn = c.isn /\ u.una = c.una /\ u.next = c.next
       /\ u.window = c.window /\ u.wl1 = c.wl1 /\ u.wl2 = c.wl2
       /\ u.unsent = c.unsent /\ u.data = c.data /\ u.closed = c.closed /\ u.queue = c.queue
       /\ u.rdata = c.rdata /\ u.rnext = c.rnext /\ u.rwindow = c.rwindow
  BY <1>12 DEF TcbType
<1> HIDE DEF u
<1>18. QED
  BY <1>3, <1>5, <1>10, <1>11, <1>12, <1>16, <1>17 DEF TextFrom, rdata, rnext

\* The receiver of what e sends goes on from t to u, and it had room.
LEMMA LinkOnward ==
  ASSUME NEW e \in Ends, NEW p \in TcbType, NEW t \in TcbType, NEW u \in TcbType, NEW h \in Nat,
         Link(e, p, t, h), ReceiverGoesOn(e, t, u), Heard(t),
         t.rwindow # 0 \/ u.rwindow = t.rwindow,
         Rcv(e, u) <= IF p.closed THEN h + 2 ELSE Nxt(e, p)
  PROVE  Link(e, p, u, h)
<1>1. /\ Rcv(e, t) \in Nat /\ Rcv(e, u) \in Nat /\ Una(e, p) \in Nat /\ p.window \in 0..Buffer
      /\ p.data \in Segments /\ Buffer \in Nat /\ ReadTo(e, t) \in Int /\ ReadTo(e, u) \in Int
  BY TcbFields, Constants
<1>2. \A k \in Int : Fits(e, t, k) => Fits(e, u, k)
  BY FitsKept
<1>3. Una(e, p) + p.window \in Int /\ \A i \in DOMAIN p.data : Una(e, p) + BytesIn(p.data, i) \in Int
  <2>1. \A i \in DOMAIN p.data : BytesIn(p.data, i) \in Nat
    <3>1. DOMAIN p.data = 1..Len(p.data) /\ Len(p.data) \in Nat /\ \A i \in 0..Len(p.data) : BytesIn(p.data, i) \in Nat
      BY <1>1, BytesInType
    <3>2. QED
      BY <3>1
  <2>2. QED
    BY <1>1, <2>1
<1>4. Rcv(e, t) <= Rcv(e, u) /\ ReadTo(e, t) <= ReadTo(e, u)
  BY DEF ReceiverGoesOn
<1>5. 1 <= Rcv(e, t) /\ Una(e, p) <= Rcv(e, t)
  BY DEF Link
<1>6. 1 <= Rcv(e, u) /\ Una(e, p) <= Rcv(e, u)
  BY <1>1, <1>4, <1>5
<1>7. (p.window = 0 => Una(e, p) <= ReadTo(e, t) \/ t.rwindow = 0) \/ p.closed
  BY DEF Link
<1>8. (p.window = 0 => Una(e, p) <= ReadTo(e, u) \/ u.rwindow = 0) \/ p.closed
  BY <1>1, <1>4, <1>7
<1>9. QED
  BY <1>2, <1>3, <1>6, <1>8 DEF Link

LEMMA TextKept ==
  ASSUME NEW e \in Ends, NEW t, NEW p \in TcbType, NEW g \in Nat, NEW h \in Nat, NEW w, NEW d,
         Local(e, t, p, g, h, w, d), Joined(t), NEW bytes \in Seq(Bytes), Len(bytes) > 0,
         Rcv(Peer(e), t) + Len(bytes) <= Nxt(Peer(e), p), Nxt(Peer(e), p) \in 0..Far(Peer(e)),
         Rcv(Peer(e), t) + Len(bytes) <= h + 1,
         t.rwindow # 0, Len(t.rdata) + Len(bytes) <= Buffer,
         NEW u, TextFrom(u, t, bytes)
  PROVE  Kept(e, t, u, p, g, h, w, d)
<1> DEFINE f == Peer(e)
           r == Rcv(f, t)
           m == Len(bytes)
           F == Far(f)
           M == Nxt(f, p)
           l == Len(t.rdata)
<1>1. /\ t \in TcbType /\ u \in TcbType /\ f \in Ends /\ Peer(f) = e /\ Heard(t) /\ Heard(p)
      /\ Own(e, t, g, w, d) /\ Sender(e, t, g, w) /\ WindowUpdates(e, t) /\ Link(e, t, p, g) /\ Link(f, p, t, h)
      /\ t.isn = Isn[e] /\ g <= Messages[e]
  BY Constants DEF Local, Own, Joined, Heard, TextFrom
<1>2. /\ m \in Nat /\ m > 0 /\ r \in Nat /\ t.rnext = At(f, r) /\ l \in Nat /\ F \in Nat /\ M \in 0..F /\ r + m <= M
      /\ Buffer \in Nat /\ t.rdata \in Seq(Bytes)
  <2>1. t.rdata \in Seq(Bytes) /\ r \in Nat /\ t.rnext = At(f, r)
    BY <1>1, TcbFields
  <2>2. m \in Nat /\ l \in Nat
    BY <2>1, LenProperties
  <2>3. F \in Nat /\ Buffer \in Nat
    BY <1>1, Constants
  <2> HIDE DEF r, m, F, M, l
  <2>4. QED
    BY <2>1, <2>2, <2>3 DEF r, m, F, M
<1>3. /\ u.state = t.state /\ u.known = t.known /\ u.isn = t.isn /\ u.una = t.una /\ u.next = t.next
      /\ u.window = t.window /\ u.wl1 = t.wl1 /\ u.wl2 = t.wl2
      /\ u.unsent = t.unsent /\ u.data = t.data /\ u.closed = t.closed /\ u.queue = t.queue
      /\ u.rnext = Plus(t.rnext, m) /\ u.rdata = t.rdata \o bytes /\ u.rwindow = Buffer - (l + m)
  BY DEF TextFrom
<1>4. Len(u.rdata) = l + m
  BY <1>2, <1>3, ConcatProperties
<1>5. u.rwindow + Len(u.rdata) = Buffer
  <2> DEFINE k == l + m
  <2>1. k \in Nat /\ u.rwindow = Buffer - k /\ Len(u.rdata) = k
    BY <1>2, <1>3, <1>4
  <2> HIDE DEF k
  <2>2. QED
    BY <1>2, <2>1
<1>6. Rcv(f, u) = r + m
  <2>1. \A n \in Int : Plus(At(f, r), n) = At(f, r + n)
    BY <1>1, <1>2, Places
  <2>2. r + m \in 0..F
    <3> HIDE DEF r, m, F, M
    <3>1. QED
      BY <1>2
  <2>3. Place(f, At(f, r + m)) = r + m
    BY <1>1, <2>2, Places
  <2>4. Plus(At(f, r), m) = At(f, r + m)
    BY <1>2, <2>1
  <2>5. QED
    BY <1>2, <1>3, <2>3, <2>4 DEF Rcv
<1>7. ReadTo(f, u) = ReadTo(f, t) /\ ReadTo(f, t) \in Int
  <2>1. ReadTo(f, u) = (r + m) - (l + m) /\ ReadTo(f, t) = r - l
    BY <1>4, <1>6 DEF ReadTo
  <2> HIDE DEF r, m, l
  <2>2. QED
    BY <1>2, <2>1
<1>8. Una(e, u) = Una(e, t) /\ Nxt(e, u) = Nxt(e, t) /\ Joined(u) /\ Heard(u)
  BY <1>1, <1>3 DEF Una, Nxt, Joined, Heard
<1> DEFINE rm == r + m
<1>9. rm \in Nat /\ r < rm /\ r <= rm /\ rm <= h + 1 /\ rm <= M /\ rm = Rcv(f, u)
  <2>1. r + m <= h + 1
    OBVIOUS
  <2>2. rm = Rcv(f, u)
    BY <1>6
  <2> HIDE DEF r, m, M
  <2>3. QED
    BY <1>2, <2>1, <2>2
<1> HIDE DEF rm
<1>10. WindowUpdates(e, u)
  <2>1. PICK v \in 0..r :
          /\ t.wl1 = At(f, v)
          /\ v < r \/ \E x \in 0..Una(e, t) : t.wl2 = At(e, x)
    BY <1>1 DEF WindowUpdates
  <2>2. v \in 0..rm /\ v < rm
    <3>1. v \in 0..r
      BY <2>1
    <3>2. r \in Nat /\ rm \in Nat /\ r < rm
      BY <1>2, <1>9
    <3> HIDE DEF r
    <3>3. QED
      BY <3>1, <3>2
  <2>3. QED
    BY <1>3, <1>9, <2>1, <2>2 DEF WindowUpdates
<1>11. Own(e, u, g, w, d)
  <2>1. Sender(e, u, g, w)
    <3>1. Layout(e, t, g) => Layout(e, u, g)
      BY <1>3, <1>8 DEF Layout
    <3>2. QED
      BY <1>1, <1>3, <1>8, <3>1 DEF Sender
  <2>2. u.rwindow + Len(u.rdata) <= Buffer
    BY <1>2, <1>5
  <2>3. QED
    BY <1>1, <1>3, <1>8, <1>10, <2>1, <2>2 DEF Own
<1>12. SenderGoesOn(e, t, u, g, g) /\ Link(e, u, p, g)
  BY <1>1, <1>3, OutputAlone
<1>13. ReceiverGoesOn(f, t, u)
  <2>1. Rcv(f, t) <= Rcv(f, u)
    BY <1>9
  <2>2. ReadTo(f, t) <= ReadTo(f, u)
    BY <1>7
  <2>3. QED
    BY <1>8, <2>1, <2>2 DEF ReceiverGoesOn
<1>14. Link(f, p, u, h)
  <2>1. Rcv(f, u) <= IF p.closed THEN h + 2 ELSE Nxt(f, p)
    BY <1>9
  <2>2. QED
    BY <1>1, <1>13, <2>1, LinkOnward
<1>15. GoesOn(e, t, u, g, g)
  BY <1>8, <1>12, <1>13 DEF GoesOn
<1>16. \A x \in ToSet(u.queue) : Sound(e, x, u, p, g)
  <2> TAKE x \in ToSet(u.queue)
  <2>1. x \in SegmentType /\ Sound(e, x, t, p, g)
    BY <1>1, <1>3, TcbFields, ToSetIsImage DEF Local
  <2>2. ReceiverGoesOn(e, p, p)
    BY GoesOnAndOn
  <2>3. QED
    BY <1>1, <1>12, <1>13, <2>1, <2>2, SoundKept
<1>17. Local(e, u, p, g, h, w, d)
  BY <1>1, <1>8, <1>11, <1>12, <1>14, <1>16 DEF Local
<1>18. QED
  BY <1>15, <1>17 DEF Kept

\* t when the FIN of the peer is taken.
FinFrom(u, t) ==
  /\ u \in TcbType
  /\ \/ t.state = "ESTABLISHED" /\ u.state = "CLOSE_WAIT" /\ u.known = t.known
     \/ t.state = "FIN_WAIT_1" /\ u.state = "CLOSING" /\ u.known = t.known
     \/ t.state = "FIN_WAIT_2" /\ u.state = "TIME_WAIT" /\ ~u.known
  /\ u.isn = t.isn /\ u.una = t.una /\ u.next = t.next
  /\ u.window = t.window /\ u.wl1 = t.wl1 /\ u.wl2 = t.wl2
  /\ u.unsent = t.unsent /\ u.data = t.data /\ u.closed = t.closed /\ u.queue = t.queue
  /\ u.rnext = Plus(t.rnext, 1) /\ u.rwindow = t.rwindow
  /\ u.rdata = t.rdata \/ u.rdata = <<>>

LEMMA FinFields ==
  ASSUME NEW t \in TcbType, t.state = "FIN_WAIT_2" => t.data = <<>> /\ t.unsent = <<>>,
         t.state \in {"ESTABLISHED", "FIN_WAIT_1", "FIN_WAIT_2"},
         NEW s, s.fin, NEW seq, NEW n, Plus(seq, n) = t.rnext
  PROVE  FinFrom(Fin(t, s, seq, n), t)
<1> DEFINE x == Plus(t.rnext, 1)
           a == [t EXCEPT !.rnext = x]
           b == [a EXCEPT !.delayed = FALSE]
           c == Output(b)
           z == [c EXCEPT !.state = "CLOSE_WAIT"]
           y == [c EXCEPT !.state = "CLOSING"]
           v == [c EXCEPT !.state = "TIME_WAIT"]
<1>1. Fin(t, s, seq, n) = CASE t.state = "ESTABLISHED" -> z
             [] t.state = "FIN_WAIT_1" -> y
             [] t.state = "FIN_WAIT_2" -> Cleanup(v)
             [] OTHER -> c
  <2>1. Output([t EXCEPT !.rnext = Plus(@, 1), !.delayed = FALSE]) = c
    BY DEF TcbType
  <2>2. QED
    BY <2>1 DEF Fin
<1>2. x \in Seqs
  <2>1. SeqSpace \in Nat /\ t.rnext \in Seqs
    BY Constants, TcbFields
  <2>2. t.rnext \in Int /\ 1 \in Int
    BY <2>1 DEF Seqs
  <2>3. QED
    BY <2>2, PlusOfPlus
<1> HIDE DEF x
<1>3. a \in TcbType
  BY <1>2 DEF TcbType
<1>4. /\ a.state = t.state /\ a.known = t.known /\ a.isn = t.isn /\ a.una = t.una /\ a.next = t.next
      /\ a.window = t.window /\ a.wl1 = t.wl1 /\ a.wl2 = t.wl2
      /\ a.unsent = t.unsent /\ a.data = t.data /\ a.closed = t.closed /\ a.queue = t.queue
      /\ a.rwindow = t.rwindow /\ a.rdata = t.rdata /\ a.rnext = x
  BY DEF TcbType
<1> HIDE DEF a
<1>5. Resembles(a, b)
  <2>1. b = Undelayed(a)
    BY DEF Undelayed
  <2>2. QED
    BY <1>3, <2>1, CountsResemble
<1> HIDE DEF b
<1>6. Resembles(a, c)
  <2>1. Resembles(b, c)
    BY <1>5, OutputResembles DEF Resembles
  <2>2. QED
    BY <1>5, <2>1, ResemblesOn
<1> HIDE DEF c
<1> DEFINE Same(u) ==
      /\ u.known = t.known /\ u.isn = t.isn /\ u.una = t.una /\ u.next = t.next
      /\ u.window = t.window /\ u.wl1 = t.wl1 /\ u.wl2 = t.wl2
      /\ u.unsent = t.unsent /\ u.data = t.data /\ u.closed = t.closed /\ u.queue = t.queue
      /\ u.rwindow = t.rwindow /\ u.rdata = t.rdata /\ u.rnext = x
<1>7. c \in TcbType /\ Same(c)
  BY <1>4, <1>6 DEF Resembles, Alike
<1>8. ASSUME NEW i \in States
      PROVE  LET u == [c EXCEPT !.state = i] IN u \in TcbType /\ u.state = i /\ Same(u)
  <2> DEFINE u == [c EXCEPT !.state = i]
  <2>1. u \in TcbType
    BY <1>7 DEF TcbType
  <2>2. /\ u.state = i /\ u.known = c.known /\ u.isn = c.isn /\ u.una = c.una /\ u.next = c.next
        /\ u.window = c.window /\ u.wl1 = c.wl1 /\ u.wl2 = c.wl2
        /\ u.unsent = c.unsent /\ u.data = c.data /\ u.closed = c.closed /\ u.queue = c.queue
        /\ u.rwindow = c.rwindow /\ u.rdata = c.rdata /\ u.rnext = c.rnext
    BY <1>7 DEF TcbType
  <2> HIDE DEF u
  <2>3. Same(u)
    BY <1>7, <2>2
  <2>4. QED
    BY <2>1, <2>2, <2>3 DEF u
<1>9. "CLOSE_WAIT" \in States /\ "CLOSING" \in States /\ "TIME_WAIT" \in States
  BY DEF States
<1>10. z \in TcbType /\ z.state = "CLOSE_WAIT" /\ Same(z)
  BY <1>8, <1>9
<1>11. y \in TcbType /\ y.state = "CLOSING" /\ Same(y)
  BY <1>8, <1>9
<1>12. v \in TcbType /\ v.state = "TIME_WAIT" /\ Same(v)
  BY <1>8, <1>9
<1> HIDE DEF z, y, v
<1>13. CASE t.state = "ESTABLISHED"
  BY <1>1, <1>10, <1>13 DEF FinFrom, x
<1>14. CASE t.state = "FIN_WAIT_1"
  BY <1>1, <1>11, <1>14 DEF FinFrom, x
<1>15. CASE t.state = "FIN_WAIT_2"
  <2> DEFINE u == Cleanup(v)
  <2>1. CleanFrom(u, v)
    BY <1>12, CleanFields
  <2>2. Fin(t, s, seq, n) = u
    BY <1>1, <1>15
  <2> HIDE DEF u
  <2>3. FinFrom(u, t)
    BY <1>12, <1>15, <2>1 DEF FinFrom, CleanFrom, x
  <2>4. QED
    BY <2>2, <2>3
<1>16. QED
  BY <1>13, <1>14, <1>15

LEMMA FinKept ==
  ASSUME NEW e \in Ends, NEW t, NEW p \in TcbType, NEW g \in Nat, NEW h \in Nat, NEW w, NEW d,
         Local(e, t, p, g, h, w, d), Joined(t),
         p.closed, Rcv(Peer(e), t) = h + 1, h + 2 <= Far(Peer(e)),
         NEW u, FinFrom(u, t)
  PROVE  Kept(e, t, u, p, g, h, w, d)
<1> DEFINE f == Peer(e)
           r == Rcv(f, t)
           k == r + 1
           F == Far(f)
<1>1. /\ t \in TcbType /\ u \in TcbType /\ f \in Ends /\ Peer(f) = e /\ Heard(t) /\ Heard(p)
      /\ Own(e, t, g, w, d) /\ Sender(e, t, g, w) /\ WindowUpdates(e, t) /\ Link(e, t, p, g) /\ Link(f, p, t, h)
      /\ t.isn = Isn[e] /\ g <= Messages[e] /\ t.rwindow + Len(t.rdata) <= Buffer
  BY Constants DEF Local, Own, Joined, Heard, FinFrom
<1>2. /\ r \in Nat /\ t.rnext = At(f, r) /\ k = h + 2 /\ k <= F /\ Len(t.rdata) \in Nat
      /\ t.rdata \in Seq(Bytes) /\ t.rwindow \in 0..Buffer /\ Buffer \in Nat
  <2>1. t.rdata \in Seq(Bytes) /\ r \in Nat /\ t.rnext = At(f, r) /\ t.rwindow \in 0..Buffer /\ Buffer \in Nat
    BY <1>1, TcbFields, Constants
  <2>2. k = h + 2
    <3>1. r = h + 1
      OBVIOUS
    <3> HIDE DEF r
    <3>2. QED
      BY <3>1
  <2>3. QED
    BY <2>1, <2>2, LenProperties
<1>3. Rcv(f, u) = k
  <2>1. r + 1 <= Far(f)
    BY <1>2
  <2>2. Place(f, Plus(t.rnext, 1)) = r + 1
    BY <1>1, <1>2, <2>1, NextPlace
  <2>3. QED
    BY <2>2 DEF FinFrom, Rcv
<1> HIDE DEF F
<1>4. k \in Nat /\ r < k /\ r <= k
  <2> HIDE DEF r
  <2>1. QED
    BY <1>2
<1>5. ReadTo(f, t) <= ReadTo(f, u)
  <2> DEFINE l == Len(t.rdata)
             a == Len(u.rdata)
  <2>1. a = l \/ a = 0
    BY DEF FinFrom
  <2>2. ReadTo(f, t) = r - l /\ ReadTo(f, u) = k - a /\ l \in Nat
    BY <1>2, <1>3 DEF ReadTo
  <2> HIDE DEF a, l, r
  <2>3. QED
    BY <1>2, <2>1, <2>2
<1>6. Una(e, u) = Una(e, t) /\ Nxt(e, u) = Nxt(e, t) /\ Joined(u) /\ Heard(u)
  BY DEF FinFrom, Una, Nxt, Joined, Heard
<1>7. WindowUpdates(e, u)
  <2>1. PICK v \in 0..r :
          /\ t.wl1 = At(f, v)
          /\ v < r \/ \E x \in 0..Una(e, t) : t.wl2 = At(e, x)
    BY <1>1 DEF WindowUpdates
  <2>2. v \in 0..k /\ v < k
    <3>1. v \in 0..r /\ r \in Nat
      BY <1>2, <2>1
    <3> HIDE DEF r
    <3>2. QED
      BY <1>4, <3>1
  <2>3. u.wl1 = t.wl1
    BY DEF FinFrom
  <2> HIDE DEF k
  <2>4. QED
    BY <1>3, <2>1, <2>2, <2>3 DEF WindowUpdates
<1>8. Own(e, u, g, w, d)
  <2>1. Sender(e, u, g, w)
    <3>1. Layout(e, t, g) => Layout(e, u, g)
      BY <1>6 DEF Layout, FinFrom
    <3>2. CASE t.state = "ESTABLISHED"
      BY <1>1, <1>6, <3>1, <3>2 DEF Sender, FinFrom
    <3>3. CASE t.state = "FIN_WAIT_1"
      BY <1>1, <1>6, <3>1, <3>3 DEF Sender, FinFrom
    <3>4. CASE t.state = "FIN_WAIT_2"
      BY <1>1, <1>6, <3>1, <3>4 DEF Sender, FinFrom
    <3>5. QED
      BY <3>2, <3>3, <3>4 DEF FinFrom
  <2>2. u.isn = Isn[e] /\ u.rwindow + Len(u.rdata) <= Buffer
    <3>1. u.isn = t.isn /\ u.rwindow = t.rwindow /\ (u.rdata = t.rdata \/ u.rdata = <<>>)
      BY DEF FinFrom
    <3>2. Len(<<>>) = 0 /\ t.rwindow + 0 <= Buffer
      BY <1>2
    <3>3. QED
      BY <1>1, <3>1, <3>2
  <2>3. QED
    BY <1>1, <1>6, <1>7, <2>1, <2>2 DEF Own
<1>9. SenderGoesOn(e, t, u, g, g) /\ Link(e, u, p, g)
  <2>1. u.una = t.una /\ u.next = t.next /\ u.window = t.window /\ u.data = t.data /\ u.closed = t.closed
    BY DEF FinFrom
  <2>2. QED
    BY <1>1, <2>1, OutputAlone
<1>10. u.rwindow = t.rwindow
  BY DEF FinFrom
<1>11. ReceiverGoesOn(f, t, u)
  BY <1>3, <1>4, <1>5, <1>6, <1>10 DEF ReceiverGoesOn
<1>12. Link(f, p, u, h)
  <2>1. k <= IF p.closed THEN h + 2 ELSE Nxt(f, p)
    BY <1>2
  <2>2. QED
    BY <1>1, <1>3, <1>10, <1>11, <2>1, LinkOnward
<1>13. GoesOn(e, t, u, g, g)
  BY <1>6, <1>9, <1>11 DEF GoesOn
<1>14. \A x \in ToSet(u.queue) : Sound(e, x, u, p, g)
  <2> TAKE x \in ToSet(u.queue)
  <2>1. x \in SegmentType /\ Sound(e, x, t, p, g)
    BY <1>1, TcbFields, ToSetIsImage DEF Local, FinFrom
  <2>2. ReceiverGoesOn(e, p, p)
    BY GoesOnAndOn
  <2>3. QED
    BY <1>1, <1>9, <1>11, <2>1, <2>2, SoundKept
<1>15. Local(e, u, p, g, h, w, d)
  BY <1>1, <1>6, <1>8, <1>9, <1>12, <1>14 DEF Local
<1>16. QED
  BY <1>13, <1>15 DEF Kept

\* The text and the FIN of a segment that comes next.
LEMMA TakenKept ==
  ASSUME NEW e \in Ends, NEW t \in TcbType, NEW p \in TcbType, NEW g \in Nat, NEW h \in Nat, NEW w, NEW d,
         NEW a, Kept(e, t, a, p, g, h, w, d), AfterAck(t, a), ~ForeignWillNotSend(a),
         NEW s \in SegmentType, TextSound(Peer(e), s, p, t, h), InOrder(t, s),
         t.rwindow + Len(t.rdata) <= Buffer,
         Nxt(Peer(e), p) \in 0..Far(Peer(e)), Rcv(Peer(e), t) \in 0..Far(Peer(e)), h + 2 <= Far(Peer(e))
  PROVE  LET bytes == Cut(t, s)
             c == Fin(Text(a, bytes), s, t.rnext, Len(bytes))
         IN  Kept(e, t, c, p, g, h, w, d) /\ Joined(c) /\ c.state # "CLOSED"
<1> DEFINE f == Peer(e)
           bytes == Cut(t, s)
           m == Len(bytes)
           r == Rcv(f, t)
           b == Text(a, bytes)
           c == Fin(b, s, t.rnext, m)
<1>1. /\ bytes \in Seq(Bytes) /\ m \in Nat /\ r + m <= Nxt(f, p)
      /\ m > 0 => r + m <= h + 1 /\ t.rwindow # 0 /\ Len(t.rdata) + m <= Buffer
      /\ s.fin => m = 0 /\ p.closed /\ r = h + 1
  <2>1. /\ f \in Ends /\ TextSound(f, s, p, t, h) /\ Nxt(f, p) \in 0..Far(f) /\ Rcv(f, t) \in 0..Far(f)
        /\ t.rwindow + Len(t.rdata) <= Buffer
    BY Constants
  <2> HIDE DEF f
  <2>2. QED
    BY <2>1, InOrderText
<1>2. /\ a \in TcbType /\ Local(e, a, p, g, h, w, d) /\ GoesOn(e, t, a, g, g) /\ Joined(a)
      /\ a.state \in {"ESTABLISHED", "FIN_WAIT_1", "FIN_WAIT_2"} /\ a.known
      /\ a.rdata = t.rdata /\ a.rnext = t.rnext /\ a.rwindow = t.rwindow
  BY DEF Kept, Local, AfterAck, Joined
<1>3. Rcv(f, a) = r
  BY <1>2 DEF Rcv
<1> HIDE DEF bytes, r
<1>4. CASE m > 0
  <2>1. TextFrom(b, a, bytes)
    BY <1>1, <1>2, <1>4, TextFields
  <2>2. c = b
    BY <1>1, <1>4 DEF Fin
  <2> HIDE DEF b, c
  <2>3. Kept(e, a, b, p, g, h, w, d)
    BY <1>1, <1>2, <1>3, <1>4, <2>1, TextKept
  <2>4. Kept(e, t, b, p, g, h, w, d)
    BY <1>2, <2>3, KeptOn
  <2>5. Joined(b) /\ b.state # "CLOSED"
    BY <1>2, <2>1 DEF TextFrom, Joined
  <2>6. QED
    BY <2>2, <2>4, <2>5 DEF b, c, bytes
<1>5. CASE m = 0
  <2>1. b = a
    BY <1>5 DEF Text
  <2> HIDE DEF b
  <2>2. CASE ~s.fin
    <3>1. c = a
      BY <2>1, <2>2 DEF Fin
    <3>2. QED
      BY <1>2, <2>1, <3>1 DEF b, c, bytes
  <2>3. CASE s.fin
    <3>1. Plus(t.rnext, m) = a.rnext
      <4>1. t.rnext \in 0..(SeqSpace - 1) /\ SeqSpace \in Nat \ {0}
        <5>1. t.rnext \in Seqs /\ SeqSpace \in Nat \ {0}
          BY Constants, TcbFields
        <5>2. QED
          BY <5>1 DEF Seqs
      <4>2. t.rnext % SeqSpace = t.rnext
        <5>1. t.rnext \in Nat /\ t.rnext < SeqSpace
          BY <4>1
        <5>2. QED
          BY <4>1, <5>1, RemainderType
      <4>3. t.rnext + 0 = t.rnext
        BY <4>1
      <4>4. QED
        BY <1>2, <1>5, <4>2, <4>3 DEF Plus
    <3>2. a.state = "FIN_WAIT_2" => a.data = <<>> /\ a.unsent = <<>>
      BY <1>2 DEF Local, Own, Sender
    <3>3. FinFrom(Fin(a, s, t.rnext, m), a)
      BY <1>2, <2>3, <3>1, <3>2, FinFields
    <3>4. c = Fin(a, s, t.rnext, m)
      BY <2>1
    <3> HIDE DEF c
    <3>5. Kept(e, a, c, p, g, h, w, d)
      BY <1>1, <1>2, <1>3, <2>3, <3>3, <3>4, FinKept
    <3>6. Kept(e, t, c, p, g, h, w, d)
      BY <1>2, <3>5, KeptOn
    <3>7. Joined(c) /\ c.state # "CLOSED"
      BY <1>2, <3>3, <3>4 DEF FinFrom, Joined
    <3>8. QED
      BY <3>6, <3>7 DEF b, c, bytes
  <2>4. QED
    BY <2>2, <2>3
<1>6. QED
  BY <1>1, <1>4, <1>5

\* What the handler makes of t from the fifth check on.
Through(t, s) ==
  LET x == Established(t)
      bytes == Cut(t, s)
      a == AckField(x, s, x.rnext, Len(bytes))
      c == Fin(Text(a, bytes), s, x.rnext, Len(bytes))
  IN  IF ~s.ackOn \/ Refused(t, s) THEN t
      ELSE IF AcksUnsent(x, s, Len(bytes)) THEN Output(x)
      ELSE IF ForeignWillNotSend(a) THEN a
      ELSE IF c.known /\ OutputsData(x, s, Len(bytes)) /\ CanSend(c) > 0
      THEN Output(Undelayed(c))
      ELSE c

LEMMA ThroughKept ==
  ASSUME NEW e \in Ends, NEW t, NEW p \in TcbType, NEW g \in Nat, NEW h \in Nat, NEW w, NEW d, NEW x, NEW y,
         Local(e, t, p, g, h, w, d), Local(Peer(e), p, t, h, g, x, y),
         t.known, t.state \notin {"LISTEN", "SYN_SENT"},
         NEW s \in SegmentType, Sound(Peer(e), s, p, t, h), InOrder(t, s), ~s.rst, ~s.syn
  PROVE  LET u == Through(t, s)
         IN  /\ Kept(e, t, u, p, g, h, w, d)
             /\ \/ u = t /\ ~Joined(t)
                \/ Joined(u) /\ (~u.closed => u.known)
<1> DEFINE f == Peer(e)
           z == Established(t)
           bytes == Cut(t, s)
           n == Len(bytes)
           a == AckField(z, s, z.rnext, n)
           c == Fin(Text(a, bytes), s, z.rnext, n)
           v == Undelayed(c)
           o == Output(v)
           u == Through(t, s)
<1>1. /\ t \in TcbType /\ f \in Ends /\ Peer(f) = e /\ Heard(t) /\ t.rwindow + Len(t.rdata) <= Buffer
  BY Constants DEF Local, Own, Heard
<1>2. Nxt(f, p) \in 0..Far(f) /\ Rcv(f, t) \in 1..Far(f) /\ h + 2 + Buffer < Far(f)
  BY <1>1, LocalFacts
<1>3. Rcv(f, t) \in 0..Far(f) /\ h + 2 <= Far(f)
  <2> DEFINE F == Far(f)
             r == Rcv(f, t)
  <2>1. F \in Nat /\ Buffer \in Nat /\ r \in 1..F /\ h + 2 + Buffer < F
    BY <1>1, <1>2, Constants
  <2> HIDE DEF F, r
  <2>2. r \in 0..F /\ h + 2 <= F
    BY <2>1
  <2>3. QED
    BY <2>2 DEF F, r
<1>4. TextSound(f, s, p, t, h) /\ (s.ackOn => AckSound(f, s, p))
  BY DEF Sound
<1>5. CASE ~s.ackOn \/ Refused(t, s)
  <2>1. u = t
    BY <1>5 DEF Through
  <2>2. Kept(e, t, t, p, g, h, w, d)
    BY <1>1, GoesOnAndOn DEF Kept
  <2>3. Joined(t) /\ ~t.closed => t.known
    OBVIOUS
  <2>4. QED
    BY <2>1, <2>2, <2>3
<1>6. CASE s.ackOn /\ ~Refused(t, s)
  <2>1. Kept(e, t, a, p, g, h, w, d) /\ AfterAck(t, a) /\ ~AcksUnsent(z, s, n) /\ z.rnext = t.rnext
    <3>1. CASE t.state = "SYN_RECEIVED"
      BY <1>1, <1>3, <1>4, <1>6, <3>1, EstablishedKept
    <3>2. CASE t.state # "SYN_RECEIVED"
      <4>1. z = t /\ Joined(t)
        BY <3>2 DEF Established, Joined
      <4> HIDE DEF z, n
      <4>2. QED
        BY <1>3, <1>4, <1>6, <4>1, AckFieldKept
    <3>3. QED
      BY <3>1, <3>2
  <2>2. u = IF ForeignWillNotSend(a) THEN a
            ELSE IF c.known /\ OutputsData(z, s, n) /\ CanSend(c) > 0
            THEN o ELSE c
    BY <1>6, <2>1 DEF Through
  <2>3. Joined(a) /\ (~a.closed => a.known) /\ a \in TcbType
    <3>1. Local(e, a, p, g, h, w, d) /\ a \in TcbType
      BY <2>1 DEF Kept, Local
    <3>2. Joined(a)
      BY <2>1 DEF AfterAck, ForeignWillNotSend, Joined
    <3>3. Sender(e, a, g, w)
      BY <3>1, <3>2 DEF Local, Own
    <3>4. ~a.closed => a.state # "CLOSED"
      BY <2>1 DEF AfterAck
    <3>5. QED
      BY <3>1, <3>2, <3>3, <3>4 DEF Sender
  <2>4. CASE ForeignWillNotSend(a)
    <3>1. u = a
      BY <2>2, <2>4
    <3> HIDE DEF u, a
    <3>2. QED
      BY <2>1, <2>3, <3>1 DEF u
  <2>5. CASE ~ForeignWillNotSend(a)
    <3>1. Kept(e, t, c, p, g, h, w, d) /\ Joined(c) /\ c.state # "CLOSED"
      <4> HIDE DEF a
      <4>1. c = Fin(Text(a, bytes), s, t.rnext, Len(bytes))
        BY <2>1
      <4> HIDE DEF c
      <4>2. TextSound(Peer(e), s, p, t, h)
        BY <1>4
      <4>3. Nxt(Peer(e), p) \in 0..Far(Peer(e)) /\ Rcv(Peer(e), t) \in 0..Far(Peer(e)) /\ h + 2 <= Far(Peer(e))
        BY <1>2, <1>3
      <4> HIDE DEF f
      <4>4. QED
        BY <1>1, <2>1, <2>5, <4>1, <4>2, <4>3, TakenKept
    <3> HIDE DEF c
    <3>2. Local(e, c, p, g, h, w, d) /\ c \in TcbType /\ c.state # "LISTEN" /\ GoesOn(e, t, c, g, g)
      BY <3>1 DEF Kept, Local, Joined
    <3>3. ~c.closed => c.known
      <4>1. Sender(e, c, g, w)
        BY <3>1, <3>2 DEF Local, Own
      <4>2. QED
        BY <3>1, <4>1 DEF Sender
    <3>4. Resembles(c, o)
      <4>1. Resembles(c, v)
        BY <3>2, CountsResemble
      <4> HIDE DEF v
      <4>2. Resembles(v, o)
        BY <4>1, OutputResembles DEF Resembles
      <4>3. QED
        BY <4>1, <4>2, ResemblesOn
    <3> HIDE DEF o
    <3>5. Kept(e, c, o, p, g, h, w, d)
      BY <3>2, <3>4, ResemblingKept
    <3>6. Kept(e, t, o, p, g, h, w, d)
      BY <1>1, <3>2, <3>5, KeptOn
    <3>7. Joined(o) /\ (~o.closed => o.known)
      BY <3>1, <3>3, <3>4 DEF Resembles, Alike, Joined
    <3>8. u = o \/ u = c
      BY <2>2, <2>5
    <3> HIDE DEF u
    <3>9. QED
      BY <3>1, <3>3, <3>6, <3>7, <3>8 DEF u
  <2>6. QED
    BY <2>4, <2>5
<1>7. QED
  BY <1>5, <1>6

-----------------------------------------------------------------------------
(* Input: the whole handlers. *)

\* A SYN starts before whatever is expected of an end that has been heard.
LEMMA SynIsOld ==
  ASSUME NEW e \in Ends, NEW p \in TcbType, NEW s, s.bytes = <<>>, s.seq = Isn[e],
         Rcv(e, p) \in 1..Far(e)
  PROVE  ~InOrder(p, s)
<1> DEFINE r == Rcv(e, p)
           F == Far(e)
<1>1. F \in Nat /\ p.rnext = At(e, r) /\ s.seq = At(e, 0) /\ Len(s.bytes) = 0
  BY Constants, TcbFields, Places
<1>2. r \in 1..F
  OBVIOUS
<1> HIDE DEF r, F
<1>3. r \in 0..F /\ 0 \in 0..F /\ r \in Nat /\ r # 0
  BY <1>1, <1>2
<1>4. Minus(p.rnext, s.seq) = r - 0 /\ At(e, 0) # At(e, r)
  <2>1. \A i, j \in 0..F : Minus(At(e, i), At(e, j)) = i - j /\ (At(e, i) = At(e, j) <=> i = j)
    BY Places DEF F
  <2>2. QED
    BY <1>1, <1>3, <2>1
<1>5. Known(p, s) = 0
  BY <1>1, <1>3, <1>4 DEF Known, Min2, Max2
<1>6. Plus(s.seq, 0) = At(e, 0)
  <2>1. \A k \in Int : \A n \in Int : Plus(At(e, k), n) = At(e, k + n)
    BY Places
  <2>2. 0 \in Int /\ 0 + 0 = 0
    OBVIOUS
  <2>3. Plus(At(e, 0), 0) = At(e, 0 + 0)
    BY <2>1, <2>2
  <2>4. QED
    BY <1>1, <2>2, <2>3
<1>7. QED
  BY <1>1, <1>4, <1>5, <1>6 DEF InOrder

\* A segment is taken from the network, and may be answered with a reset.
Takes(e, s) ==
  /\ s \in SegmentType /\ s \in ToSet(net[e])
  /\ net' \in [Ends -> Seq(SegmentType)] /\ ToSet(net'[e]) \subseteq ToSet(net[e])
  /\ \A x \in ToSet(net'[Peer(e)]) :
       \/ x \in ToSet(net[Peer(e)])
       \/ x.rst /\ ~x.syn /\ x.bytes = <<>> /\ tcb[Client].state # "SYN_SENT"

\* Nothing is refused before the client has heard the server.
LEMMA NoAnswer ==
  ASSUME IInv, NEW e \in Ends, NEW s \in ToSet(net[e]), tcb[Client].state = "SYN_SENT"
  PROVE  ~Answers(tcb[e], s)
<1>1. /\ Client \in Ends /\ Server \in Ends /\ (e = Client \/ e = Server)
      /\ Peer(Client) = Server /\ Peer(Server) = Client
  BY Constants DEF Peer
<1>2. Handshake(tcb, net) /\ s \in From(tcb, net, Peer(e))
  BY <1>1 DEF IInv, Sane, From
<1>3. CASE e = Client
  <2>1. s.ackOn /\ s.ack = At(Client, 1)
    BY <1>1, <1>2, <1>3 DEF Handshake
  <2>2. tcb[e].known /\ tcb[e].next = At(Client, 1)
    <3>1. Opening(e, tcb[e], given[e], writer[e], reader[e])
      BY <1>3, InvFacts DEF Joined
    <3>2. QED
      BY <1>3, <3>1 DEF Opening
  <2>3. QED
    BY <1>3, <2>1, <2>2 DEF Answers, AcksSyn
<1>4. CASE e = Server
  <2>1. s.syn /\ ~s.ackOn /\ ~s.rst /\ tcb[e].state \in {"LISTEN", "SYN_RECEIVED"}
    BY <1>1, <1>2, <1>4 DEF Handshake
  <2>2. tcb[e].known = (tcb[e].state # "LISTEN")
    <3>1. Opening(e, tcb[e], given[e], writer[e], reader[e])
      BY <2>1, InvFacts DEF Joined
    <3>2. QED
      BY <3>1 DEF Opening
  <2>3. tcb[e].state = "SYN_RECEIVED" => ~InOrder(tcb[e], s)
    <3> SUFFICES ASSUME tcb[e].state = "SYN_RECEIVED" PROVE ~InOrder(tcb[e], s)
      OBVIOUS
    <3>1. Sound(Client, s, tcb[Client], tcb[e], given[Client])
      <4>1. Sane(tcb, given, writer, reader, net)
        BY InvFacts
      <4>2. \A x \in ToSet(net[e]) : Sound(Peer(e), x, tcb[Peer(e)], tcb[e], given[Peer(e)])
        BY <4>1, SaneLocal
      <4>3. QED
        BY <1>1, <1>4, <4>2
    <3>2. s.bytes = <<>> /\ s.seq = Isn[Client]
      BY <2>1, <3>1 DEF Sound
    <3>3. tcb[e].rnext = At(Client, 1)
      BY <1>2, <1>4 DEF Handshake
    <3>4. Rcv(Client, tcb[e]) = 1 /\ 1 \in 1..Far(Client)
      <4>1. Far(Client) \in Nat /\ Far(Client) > 1
        BY <1>1, Constants DEF Far
      <4>2. 1 \in 0..Far(Client) /\ 1 \in 1..Far(Client)
        BY <4>1
      <4>3. QED
        BY <1>1, <3>3, <4>2, Places DEF Rcv
    <3>5. tcb[e] \in TcbType
      BY InvFacts
    <3>6. QED
      BY <1>1, <3>2, <3>4, <3>5, SynIsOld
  <2>4. QED
    BY <2>1, <2>2, <2>3 DEF Answers
<1>5. QED
  BY <1>1, <1>3, <1>4

LEMMA ReceiveTakes ==
  ASSUME IInv, NEW e \in Ends, NEW i \in DOMAIN net[e], NEW s, s = net[e][i],
         net' = [net EXCEPT ![e] = RemoveAt(@, i),
                            ![Peer(e)] = IF Answers(tcb[e], s) THEN Append(@, ResetFor(s)) ELSE @]
  PROVE  Takes(e, s)
<1> DEFINE f == Peer(e)
           r == ResetFor(s)
           a == RemoveAt(net[e], i)
           b == IF Answers(tcb[e], s) THEN Append(net[f], r) ELSE net[f]
<1>1. /\ net \in [Ends -> Seq(SegmentType)] /\ f \in Ends /\ f # e
      /\ net[e] \in Seq(SegmentType) /\ net[f] \in Seq(SegmentType)
  BY InvFacts, Constants
<1>2. net'[e] = a /\ net'[f] = b /\ net' = [net EXCEPT ![e] = a, ![f] = b]
  BY <1>1
<1>3. a \in Seq(SegmentType) /\ ToSet(a) \subseteq ToSet(net[e]) /\ s \in ToSet(net[e]) /\ s \in SegmentType
  BY <1>1, RemovedFrom
<1>4. r \in SegmentType /\ r.rst /\ ~r.syn /\ r.bytes = <<>>
  <2>1. s.seq \in Seqs /\ s.ack \in Seqs /\ s.ackOn \in BOOLEAN /\ s.syn \in BOOLEAN
    BY <1>3 DEF SegmentType
  <2>2. Plus(s.seq, 1) \in Seqs /\ 0 \in Seqs /\ 0 \in 0..Buffer
    <3>1. SeqSpace \in Nat \ {0} /\ Buffer \in Nat
      BY Constants
    <3>2. s.seq \in Int /\ 1 \in Int
      BY <2>1, <3>1 DEF Seqs
    <3>3. Plus(s.seq, 1) \in Seqs
      BY <3>2, PlusOfPlus
    <3>4. QED
      BY <3>1, <3>3 DEF Seqs
  <2> DEFINE x == IF s.ackOn THEN s.ack ELSE 0
             y == IF s.syn THEN Plus(s.seq, 1) ELSE 0
             z == <<>>
             c == s.syn
             zero == 0
             o == [seq |-> x, bytes |-> z, ack |-> y, window |-> zero,
                   syn |-> FALSE, ackOn |-> c, fin |-> FALSE, rst |-> TRUE]
  <2>3. r = o
    BY DEF ResetFor
  <2>4. x \in Seqs /\ y \in Seqs /\ z \in Seq(Bytes) /\ c \in BOOLEAN /\ zero \in 0..Buffer
    BY <2>1, <2>2
  <2> HIDE DEF x, y, c, r, zero
  <2>5. o \in SegmentType /\ o.rst /\ ~o.syn /\ o.bytes = <<>>
    BY <2>4 DEF SegmentType
  <2>6. QED
    BY <2>3, <2>5
<1> HIDE DEF r
<1>5. b \in Seq(SegmentType) /\ \A x \in ToSet(b) : x \in ToSet(net[f]) \/ (x = r /\ Answers(tcb[e], s))
  <2>1. Append(net[f], r) \in Seq(SegmentType) /\ ToSet(Append(net[f], r)) = ToSet(net[f]) \cup {r}
    BY <1>1, <1>4, ToSetOfAppend
  <2>2. CASE Answers(tcb[e], s)
    BY <2>1, <2>2
  <2>3. CASE ~Answers(tcb[e], s)
    BY <1>1, <2>3
  <2>4. QED
    BY <2>2, <2>3
<1> HIDE DEF a, b
<1>6. net' \in [Ends -> Seq(SegmentType)]
  BY <1>1, <1>2, <1>3, <1>5
<1>7. Answers(tcb[e], s) => tcb[Client].state # "SYN_SENT"
  BY <1>3, NoAnswer
<1>8. \A x \in ToSet(net'[f]) :
        \/ x \in ToSet(net[f])
        \/ x.rst /\ ~x.syn /\ x.bytes = <<>> /\ tcb[Client].state # "SYN_SENT"
  BY <1>2, <1>4, <1>5, <1>7
<1>9. QED
  BY <1>2, <1>3, <1>6, <1>8 DEF Takes

\* A segment that changes nothing but the end that takes it.
LEMMA TakesKeeps ==
  ASSUME IInv, NEW e \in Ends, NEW s, Takes(e, s), NEW u, NEW x \in Writing, NEW y \in Reading,
         Local(e, u, tcb[Peer(e)], given[e], given[Peer(e)], x, y),
         GoesOn(e, tcb[e], u, given[e], given[e]),
         tcb[Client].state = "SYN_SENT" =>
           u.state = tcb[e].state /\ u.rnext = tcb[e].rnext /\ u.queue = tcb[e].queue,
         tcb' = [tcb EXCEPT ![e] = u], given' = given,
         writer' = [writer EXCEPT ![e] = x], reader' = [reader EXCEPT ![e] = y]
  PROVE  Sane(tcb', given', writer', reader', net')
<1> DEFINE t == tcb[e]
           p == tcb[Peer(e)]
           g == given[e]
           h == given[Peer(e)]
<1>1. /\ p \in TcbType /\ g \in Nat /\ h \in Nat /\ t \in TcbType
      /\ net' \in [Ends -> Seq(SegmentType)]
  BY InvFacts DEF Takes
<1>2. Sends(e, u, p, g, net, net')
  BY DEF Sends, Takes, Sound
<1>3. KeepsOpening(tcb, net, e, u, net')
  BY DEF KeepsOpening, Takes, From
<1>4. Becomes(tcb, tcb', e, u) /\ Becomes(given, given', e, g) /\ Becomes(writer, writer', e, x)
      /\ Becomes(reader, reader', e, y)
  BY InvFacts DEF Becomes
<1> HIDE DEF g, h, t, p
<1>5. QED
  BY <1>1, <1>2, <1>3, <1>4, InvFacts, EndStep DEF t, p, g, h

\* What is known of a segment that is taken.
LEMMA TakenFacts ==
  ASSUME IInv, NEW e \in Ends, NEW s, Takes(e, s)
  PROVE  /\ Sound(Peer(e), s, tcb[Peer(e)], tcb[e], given[Peer(e)])
         /\ Local(Peer(e), tcb[Peer(e)], tcb[e], given[Peer(e)], given[e], writer[Peer(e)], reader[Peer(e)])
         /\ tcb[Client].state = "SYN_SENT" /\ tcb[e].state # "SYN_SENT" =>
              e = Server /\ s.syn /\ ~s.ackOn /\ ~s.rst
         /\ tcb[e].state = "SYN_SENT" =>
              e = Client /\ s.syn /\ s.ackOn /\ ~s.rst /\ s.ack = At(Client, 1) /\ tcb[Server].state = "SYN_RECEIVED"
         /\ tcb[e].known => tcb[e].state # "LISTEN"
<1>1. /\ Client \in Ends /\ Server \in Ends /\ (e = Client \/ e = Server)
      /\ Peer(Client) = Server /\ Peer(Server) = Client /\ Peer(e) \in Ends /\ Peer(Peer(e)) = e
  BY Constants DEF Peer
<1>2. Sane(tcb, given, writer, reader, net) /\ Handshake(tcb, net)
  BY InvFacts DEF Sane
<1>3. Sound(Peer(e), s, tcb[Peer(e)], tcb[e], given[Peer(e)])
  <2>1. \A x \in ToSet(net[e]) : Sound(Peer(e), x, tcb[Peer(e)], tcb[e], given[Peer(e)])
    BY <1>2, SaneLocal
  <2>2. QED
    BY <2>1 DEF Takes
<1>4. Local(Peer(e), tcb[Peer(e)], tcb[e], given[Peer(e)], given[e], writer[Peer(e)], reader[Peer(e)])
  <2>1. \A a \in Ends : Local(a, tcb[a], tcb[Peer(a)], given[a], given[Peer(a)], writer[a], reader[a])
    BY <1>2, SaneLocal
  <2>2. QED
    BY <1>1, <2>1
<1>5. s \in From(tcb, net, Peer(e))
  BY <1>1 DEF Takes, From
<1>6. tcb[Client].state = "SYN_SENT" /\ tcb[e].state # "SYN_SENT" => e = Server /\ s.syn /\ ~s.ackOn /\ ~s.rst
  BY <1>1, <1>2, <1>5 DEF Handshake
<1>7. tcb[e].state = "SYN_SENT" =>
        e = Client /\ s.syn /\ s.ackOn /\ ~s.rst /\ s.ack = At(Client, 1) /\ tcb[Server].state = "SYN_RECEIVED"
  BY <1>1, <1>2, <1>5 DEF Handshake
<1>8. tcb[e].known => tcb[e].state # "LISTEN"
  BY InvFacts DEF Opening, Joined
<1>9. QED
  BY <1>3, <1>4, <1>6, <1>7, <1>8

\* The states on the way of a segment that is taken, put together.
LEMMA ThroughStep ==
  ASSUME NEW e \in Ends, NEW s, InputInOrder(e, s)
  PROVE  tcb' = [tcb EXCEPT ![e] = Through(tcb[e], s)] /\ Signals(e, tcb[e], Through(tcb[e], s))
<1>1. \E t \in {Established(tcb[e])}, bytes \in {Cut(tcb[e], s)} :
      \E a \in {AckField(t, s, t.rnext, Len(bytes))} :
      \E b \in {Text(a, bytes)} :
      \E c \in {Fin(b, s, t.rnext, Len(bytes))} :
      \E u \in {IF ~s.ackOn \/ Refused(tcb[e], s) THEN tcb[e]
                ELSE IF AcksUnsent(t, s, Len(bytes)) THEN Output(t)
                ELSE IF ForeignWillNotSend(a) THEN a
                ELSE IF c.known /\ OutputsData(t, s, Len(bytes)) /\ CanSend(c) > 0
                THEN Output([c EXCEPT !.delayed = FALSE])
                ELSE c} :
        /\ ~Merges(a, t.rnext, bytes)
        /\ tcb' = [tcb EXCEPT ![e] = u]
        /\ Signals(e, tcb[e], u)
  BY Zenon DEF InputInOrder
<1>2. PICK t \in {Established(tcb[e])}, bytes \in {Cut(tcb[e], s)} :
      \E a \in {AckField(t, s, t.rnext, Len(bytes))} :
      \E b \in {Text(a, bytes)} :
      \E c \in {Fin(b, s, t.rnext, Len(bytes))} :
      \E u \in {IF ~s.ackOn \/ Refused(tcb[e], s) THEN tcb[e]
                ELSE IF AcksUnsent(t, s, Len(bytes)) THEN Output(t)
                ELSE IF ForeignWillNotSend(a) THEN a
                ELSE IF c.known /\ OutputsData(t, s, Len(bytes)) /\ CanSend(c) > 0
                THEN Output([c EXCEPT !.delayed = FALSE])
                ELSE c} :
        /\ ~Merges(a, t.rnext, bytes)
        /\ tcb' = [tcb EXCEPT ![e] = u]
        /\ Signals(e, tcb[e], u)
  BY <1>1
<1>3. PICK a \in {AckField(t, s, t.rnext, Len(bytes))} :
      \E b \in {Text(a, bytes)} :
      \E c \in {Fin(b, s, t.rnext, Len(bytes))} :
      \E u \in {IF ~s.ackOn \/ Refused(tcb[e], s) THEN tcb[e]
                ELSE IF AcksUnsent(t, s, Len(bytes)) THEN Output(t)
                ELSE IF ForeignWillNotSend(a) THEN a
                ELSE IF c.known /\ OutputsData(t, s, Len(bytes)) /\ CanSend(c) > 0
                THEN Output([c EXCEPT !.delayed = FALSE])
                ELSE c} :
        /\ ~Merges(a, t.rnext, bytes)
        /\ tcb' = [tcb EXCEPT ![e] = u]
        /\ Signals(e, tcb[e], u)
  BY <1>2
<1>4. PICK b \in {Text(a, bytes)} :
      \E c \in {Fin(b, s, t.rnext, Len(bytes))} :
      \E u \in {IF ~s.ackOn \/ Refused(tcb[e], s) THEN tcb[e]
                ELSE IF AcksUnsent(t, s, Len(bytes)) THEN Output(t)
                ELSE IF ForeignWillNotSend(a) THEN a
                ELSE IF c.known /\ OutputsData(t, s, Len(bytes)) /\ CanSend(c) > 0
                THEN Output([c EXCEPT !.delayed = FALSE])
                ELSE c} :
        /\ ~Merges(a, t.rnext, bytes)
        /\ tcb' = [tcb EXCEPT ![e] = u]
        /\ Signals(e, tcb[e], u)
  BY <1>3
<1>5. PICK c \in {Fin(b, s, t.rnext, Len(bytes))} :
      \E u \in {IF ~s.ackOn \/ Refused(tcb[e], s) THEN tcb[e]
                ELSE IF AcksUnsent(t, s, Len(bytes)) THEN Output(t)
                ELSE IF ForeignWillNotSend(a) THEN a
                ELSE IF c.known /\ OutputsData(t, s, Len(bytes)) /\ CanSend(c) > 0
                THEN Output([c EXCEPT !.delayed = FALSE])
                ELSE c} :
        /\ ~Merges(a, t.rnext, bytes)
        /\ tcb' = [tcb EXCEPT ![e] = u]
        /\ Signals(e, tcb[e], u)
  BY <1>4
<1>6. t = Established(tcb[e]) /\ bytes = Cut(tcb[e], s)
  OBVIOUS
<1>7. a = AckField(t, s, t.rnext, Len(bytes)) /\ c = Fin(Text(a, bytes), s, t.rnext, Len(bytes))
  OBVIOUS
<1>8. Through(tcb[e], s)
        = IF ~s.ackOn \/ Refused(tcb[e], s) THEN tcb[e]
          ELSE IF AcksUnsent(t, s, Len(bytes)) THEN Output(t)
          ELSE IF ForeignWillNotSend(a) THEN a
          ELSE IF c.known /\ OutputsData(t, s, Len(bytes)) /\ CanSend(c) > 0
          THEN Output([c EXCEPT !.delayed = FALSE])
          ELSE c
  BY <1>6, <1>7, Zenon DEF Through, Undelayed
<1>9. QED
  BY <1>5, <1>8, Zenon

LEMMA InputInOrderKeeps ==
  ASSUME IInv, NEW e \in Ends, NEW s, Takes(e, s), InputInOrder(e, s), given' = given
  PROVE  Sane(tcb', given', writer', reader', net')
<1> DEFINE t == tcb[e]
           p == tcb[Peer(e)]
           g == given[e]
           h == given[Peer(e)]
           w == writer[e]
           d == reader[e]
           u == Through(t, s)
           x == IF w = "closing" /\ u.data = <<>> /\ u.unsent = <<>> THEN "acked" ELSE w
           y == IF d = "waiting" /\ u.rnext # t.rnext THEN "ready" ELSE d
<1>1. /\ t.known /\ t.state # "SYN_SENT" /\ InOrder(t, s) /\ ~s.rst /\ ~s.syn
      /\ tcb' = [tcb EXCEPT ![e] = u]
      /\ writer' = [writer EXCEPT ![e] = x] /\ reader' = [reader EXCEPT ![e] = y]
  <2>1. t.known /\ t.state # "SYN_SENT" /\ InOrder(t, s) /\ ~s.rst /\ ~s.syn
    BY DEF InputInOrder, Taken, Synchronised
  <2>2. tcb' = [tcb EXCEPT ![e] = u] /\ Signals(e, t, u)
    BY ThroughStep
  <2> HIDE DEF u
  <2>3. writer' = [writer EXCEPT ![e] = x] /\ reader' = [reader EXCEPT ![e] = y]
    BY <2>2, InvFacts DEF Signals
  <2>4. QED
    BY <2>1, <2>2, <2>3
<1>2. /\ t \in TcbType /\ p \in TcbType /\ g \in Nat /\ h \in Nat /\ w \in Writing /\ d \in Reading
      /\ Local(e, t, p, g, h, w, d) /\ s \in SegmentType
      /\ Sound(Peer(e), s, p, t, h) /\ Local(Peer(e), p, t, h, g, writer[Peer(e)], reader[Peer(e)])
      /\ tcb[Client].state # "SYN_SENT" /\ t.state # "LISTEN"
  BY <1>1, InvFacts, TakenFacts DEF Takes
<1>3. ~Joined(t) => w = "open" /\ d = "idle"
  BY InvFacts DEF Opening
<1>4. t.state \notin {"LISTEN", "SYN_SENT"}
  BY <1>1, <1>2
<1> HIDE DEF t, p, g, h, w, d
<1>5. /\ Kept(e, t, u, p, g, h, w, d)
      /\ \/ u = t /\ ~Joined(t)
         \/ Joined(u) /\ (~u.closed => u.known)
  BY <1>1, <1>2, <1>4, ThroughKept
<1> HIDE DEF u
<1>6. Local(e, u, p, g, h, x, y)
  <2>1. Local(e, u, p, g, h, w, d)
    BY <1>5 DEF Kept
  <2>2. CASE ~Joined(u)
    <3>1. x = w /\ y = d
      BY <1>3, <1>5, <2>2
    <3>2. QED
      BY <2>1, <3>1
  <2>3. CASE Joined(u)
    <3>1. w = "closing" => ~u.closed /\ u.known
      <4>1. Sender(e, u, g, w)
        BY <2>1, <2>3 DEF Local, Own
      <4>2. w = "closing" => ~u.closed
        BY <4>1 DEF Sender
      <4>3. u.known \/ u.closed
        BY <1>5, <2>3
      <4>4. QED
        BY <4>2, <4>3
    <3>2. \/ x = w
          \/ x = "acked" /\ u.data = <<>> /\ u.unsent = <<>> /\ u.known /\ ~u.closed
      BY <3>1
    <3> HIDE DEF x, y
    <3>3. QED
      BY <1>2, <2>1, <2>3, <3>2, AppKept
  <2>4. QED
    BY <2>2, <2>3
<1>7. x \in Writing /\ y \in Reading
  BY <1>2 DEF Writing, Reading
<1>8. GoesOn(e, t, u, g, g)
  BY <1>5 DEF Kept
<1> HIDE DEF x, y
<1>9. QED
  BY <1>1, <1>2, <1>6, <1>7, <1>8, TakesKeeps DEF t, p, g, h

\* A segment that changes nothing of what the invariant speaks of.
LEMMA LikeTaken ==
  ASSUME IInv, NEW e \in Ends, NEW s, Takes(e, s), NEW u,
         u = tcb[e] \/ (Resembles(tcb[e], u) /\ tcb[e].state # "LISTEN"),
         tcb' = [tcb EXCEPT ![e] = u], given' = given, writer' = writer, reader' = reader
  PROVE  Sane(tcb', given', writer', reader', net')
<1> DEFINE t == tcb[e]
           p == tcb[Peer(e)]
           g == given[e]
           h == given[Peer(e)]
           w == writer[e]
           d == reader[e]
<1>1. /\ t \in TcbType /\ p \in TcbType /\ g \in Nat /\ h \in Nat /\ w \in Writing /\ d \in Reading
      /\ Local(e, t, p, g, h, w, d)
      /\ writer' = [writer EXCEPT ![e] = w] /\ reader' = [reader EXCEPT ![e] = d]
  BY InvFacts
<1>2. u = t \/ (Resembles(t, u) /\ t.state # "LISTEN")
  OBVIOUS
<1> HIDE DEF t, p, g, h, w, d
<1>3. Local(e, u, p, g, h, w, d) /\ GoesOn(e, t, u, g, g)
  <2>1. CASE u = t
    <3>1. GoesOn(e, t, t, g, g)
      BY <1>1, GoesOnAndOn
    <3>2. QED
      BY <1>1, <2>1, <3>1
  <2>2. CASE Resembles(t, u) /\ t.state # "LISTEN"
    <3>1. Kept(e, t, u, p, g, h, w, d)
      BY <1>1, <2>2, ResemblingKept
    <3>2. QED
      BY <3>1 DEF Kept
  <2>3. QED
    BY <1>2, <2>1, <2>2
<1>4. u.state = t.state /\ u.rnext = t.rnext /\ u.queue = t.queue
  BY <1>2 DEF Resembles, Alike
<1>5. QED
  BY <1>1, <1>3, <1>4, TakesKeeps DEF t, p, g, h, w, d

LEMMA InputIgnoredKeeps ==
  ASSUME IInv, NEW e \in Ends, NEW s, Takes(e, s), Ignore, given' = given
  PROVE  Sane(tcb', given', writer', reader', net')
<1> DEFINE u == tcb[e]
<1>1. tcb' = [tcb EXCEPT ![e] = u] /\ writer' = writer /\ reader' = reader
  BY InvFacts DEF Ignore
<1>2. u = tcb[e]
  OBVIOUS
<1> HIDE DEF u
<1>3. QED
  BY <1>1, <1>2, LikeTaken

LEMMA InputUnacceptableKeeps ==
  ASSUME IInv, NEW e \in Ends, NEW s, Takes(e, s), InputUnacceptable(e, s), given' = given
  PROVE  Sane(tcb', given', writer', reader', net')
<1> DEFINE t == tcb[e]
           u == Output(t)
<1>1. /\ tcb' = [tcb EXCEPT ![e] = u] /\ writer' = writer /\ reader' = reader
      /\ t \in TcbType /\ t.state # "LISTEN"
  BY InvFacts, TakenFacts DEF InputUnacceptable, Synchronised
<1>2. Resembles(t, u)
  BY <1>1, OutputResembles
<1> HIDE DEF u
<1>3. QED
  BY <1>1, <1>2, LikeTaken

LEMMA InputOutOfOrderKeeps ==
  ASSUME IInv, NEW e \in Ends, NEW s, Takes(e, s), InputOutOfOrder(e, s), given' = given
  PROVE  Sane(tcb', given', writer', reader', net')
<1> DEFINE t == tcb[e]
           Q == t.ooo \cup {Plus(s.seq, i - 1) : i \in DOMAIN s.bytes}
           v == Later(t, Q)
           u == Output(v)
<1>1. /\ tcb' = [tcb EXCEPT ![e] = u] /\ writer' = writer /\ reader' = reader
      /\ t \in TcbType /\ t.state # "LISTEN"
  BY InvFacts, TakenFacts DEF InputOutOfOrder, Synchronised, Later
<1>2. Q \in SUBSET Seqs
  <2>1. s.seq \in Int /\ s.bytes \in Seq(Bytes) /\ t.ooo \in SUBSET Seqs
    <3>1. s \in SegmentType /\ t \in TcbType
      BY <1>1 DEF Takes
    <3>2. s.seq \in Seqs /\ s.bytes \in Seq(Bytes)
      BY <3>1 DEF SegmentType
    <3>3. t.ooo \in SUBSET Seqs
      BY <3>1 DEF TcbType
    <3>4. \A k \in Seqs : k \in Int
      BY Constants DEF Seqs
    <3>5. QED
      BY <3>2, <3>3, <3>4
  <2>2. \A k \in Int : Plus(s.seq, k) \in Seqs
    BY <2>1, PlusOfPlus
  <2>3. \A i \in DOMAIN s.bytes : i - 1 \in Int
    BY <2>1
  <2>4. QED
    BY <2>1, <2>2, <2>3
<1> HIDE DEF Q
<1>3. Resembles(t, v)
  BY <1>1, <1>2, CountsResemble
<1> HIDE DEF v
<1>4. Resembles(v, u)
  BY <1>3, OutputResembles DEF Resembles
<1> HIDE DEF u
<1>5. Resembles(t, u)
  BY <1>3, <1>4, ResemblesOn
<1>6. QED
  BY <1>1, <1>5, LikeTaken

\* What a reset leaves of a control block.
Dead(t) == [t EXCEPT !.state = "CLOSED"]

LEMMA DeadKept ==
  ASSUME NEW e \in Ends, NEW t, NEW p \in TcbType, NEW g \in Nat, NEW h \in Nat, NEW w, NEW d,
         Local(e, t, p, g, h, w, d), Heard(t), Heard(p),
         NEW x \in {w, IF w = "closing" THEN "closed" ELSE w}, NEW y
  PROVE  LET u == Cleanup(Dead(t))
         IN  Local(e, u, p, g, h, x, y) /\ GoesOn(e, t, u, g, g)
<1> DEFINE f == Peer(e)
           v == Dead(t)
           u == Cleanup(v)
<1>1. /\ t \in TcbType /\ f \in Ends /\ Peer(f) = e
      /\ Own(e, t, g, w, d) /\ Link(e, t, p, g) /\ Link(f, p, t, h) /\ WindowUpdates(e, t)
      /\ \A s \in ToSet(t.queue) : Sound(e, s, t, p, g)
  BY Constants DEF Local, Own
<1>2. v \in TcbType
  BY <1>1 DEF TcbType, Dead, States
<1>3. CleanFrom(u, v)
  BY <1>2, CleanFields
<1> HIDE DEF u
<1>4. /\ u \in TcbType /\ u.state = "CLOSED" /\ ~u.known /\ u.isn = t.isn /\ u.una = t.una /\ u.next = t.next
      /\ u.window = t.window /\ u.wl1 = t.wl1 /\ u.wl2 = t.wl2
      /\ u.unsent = <<>> /\ u.data = <<>> /\ u.closed = t.closed
      /\ u.rnext = t.rnext /\ u.rwindow = t.rwindow /\ u.rdata = <<>> /\ u.queue = t.queue
  <2>1. /\ v.state = "CLOSED" /\ v.isn = t.isn /\ v.una = t.una /\ v.next = t.next
        /\ v.window = t.window /\ v.wl1 = t.wl1 /\ v.wl2 = t.wl2 /\ v.closed = t.closed
        /\ v.rnext = t.rnext /\ v.rwindow = t.rwindow /\ v.queue = t.queue
    BY <1>1 DEF Dead, TcbType
  <2> HIDE DEF v
  <2>2. QED
    BY <1>3, <2>1 DEF CleanFrom
<1> HIDE DEF v
<1>5. Heard(u) /\ Joined(u) /\ f \in Ends
  BY <1>1, <1>4 DEF Heard, Joined
<1>6. ReceiverGoesOn(f, t, u) /\ Link(f, p, u, h)
  BY <1>1, <1>4, <1>5, Drained
<1>7. Una(e, u) = Una(e, t) /\ Nxt(e, u) = Nxt(e, t) /\ Rcv(f, u) = Rcv(f, t)
  BY <1>4 DEF Una, Nxt, Rcv
<1>8. /\ Una(e, t) \in Nat /\ Nxt(e, t) \in Nat /\ Una(e, t) <= Nxt(e, t)
      /\ Nxt(e, t) <= g + 2 /\ (~t.closed => Nxt(e, t) <= g + 1)
  <2>1. Una(e, t) \in Nat /\ Nxt(e, t) \in Nat
    BY <1>1, TcbFields
  <2>2. QED
    BY <2>1, LocalFacts
<1>9. SenderGoesOn(e, t, u, g, g)
  BY <1>4, <1>7, <1>8 DEF SenderGoesOn
<1>10. Link(e, u, p, g)
  <2>1. DOMAIN u.data = {}
    BY <1>4
  <2>2. QED
    BY <1>1, <1>4, <1>7, <2>1 DEF Link
<1>11. WindowUpdates(e, u)
  BY <1>1, <1>4, <1>7 DEF WindowUpdates, f
<1>12. Sender(e, u, g, x)
  <2>1. /\ ~Joined(t) => ~t.closed /\ w = "open"
        /\ Joined(t) => Sender(e, t, g, w)
    BY <1>1 DEF Own, Opening
  <2>2. /\ x = "acked" \/ t.closed => Una(e, t) = Nxt(e, t) /\ Nxt(e, t) >= g + 1
        /\ t.closed => x = "closed"
    <3>1. x = "acked" => w = "acked"
      OBVIOUS
    <3>2. w = "closed" => x = "closed"
      OBVIOUS
    <3>3. QED
      BY <2>1, <3>1, <3>2 DEF Sender
  <2>3. t.closed \in BOOLEAN
    BY <1>1 DEF TcbType
  <2>4. QED
    BY <1>4, <1>7, <1>8, <2>2, <2>3 DEF Sender
<1>13. Own(e, u, g, x, y)
  <2>1. u.rwindow \in 0..Buffer /\ Buffer \in Nat
    BY <1>4, TcbFields, Constants
  <2>2. Len(u.rdata) = 0
    BY <1>4
  <2>3. u.rwindow + Len(u.rdata) <= Buffer
    BY <2>1, <2>2
  <2>4. u.isn = Isn[e] /\ g <= Messages[e]
    BY <1>1, <1>4 DEF Own
  <2>5. QED
    BY <1>5, <1>11, <1>12, <2>3, <2>4 DEF Own
<1>14. \A s \in ToSet(u.queue) : Sound(e, s, u, p, g)
  <2> SUFFICES ASSUME NEW s \in ToSet(t.queue)
      PROVE  Sound(e, s, u, p, g)
    BY <1>4
  <2>1. Sound(e, s, t, p, g)
    BY <1>1
  <2>2. s \in SegmentType
    <3>1. t.queue \in Seq(SegmentType)
      BY <1>1, TcbFields
    <3>2. QED
      BY <3>1 DEF ToSet
  <2>3. ReceiverGoesOn(e, p, p)
    BY <1>1, GoesOnAndOn
  <2>4. QED
    BY <1>1, <1>4, <1>6, <1>9, <2>1, <2>2, <2>3, SoundKept DEF f
<1>15. Local(e, u, p, g, h, x, y)
  BY <1>4, <1>6, <1>10, <1>13, <1>14 DEF Local, f
<1>16. GoesOn(e, t, u, g, g)
  BY <1>5, <1>6, <1>9 DEF GoesOn, f
<1>17. QED
  BY <1>15, <1>16 DEF u, v

LEMMA InputResetKeeps ==
  ASSUME IInv, NEW e \in Ends, NEW s, Takes(e, s), InputReset(e, s), given' = given
  PROVE  Sane(tcb', given', writer', reader', net')
<1> DEFINE f == Peer(e)
           t == tcb[e]
           p == tcb[f]
           g == given[e]
           h == given[f]
           w == writer[e]
           d == reader[e]
           u == Cleanup(Dead(t))
           quiet == s.rst /\ t.state \in {"CLOSING", "LAST_ACK", "TIME_WAIT"}
           x == IF w = "closing" /\ ~quiet THEN "closed" ELSE w
           y == IF d = "waiting" /\ ~quiet THEN "failed" ELSE d
<1>1. /\ t.known /\ t.state # "SYN_SENT" /\ InOrder(t, s) /\ (s.rst \/ s.syn)
      /\ tcb' = [tcb EXCEPT ![e] = u]
      /\ writer' = [writer EXCEPT ![e] = x] /\ reader' = [reader EXCEPT ![e] = y]
  <2>1. t.known /\ t.state # "SYN_SENT" /\ InOrder(t, s) /\ (s.rst \/ s.syn)
    BY DEF InputReset, Synchronised
  <2>2. tcb' = [tcb EXCEPT ![e] = u]
    BY DEF InputReset, Reset, Closed, Dead
  <2> HIDE DEF u
  <2>3. writer' = [writer EXCEPT ![e] = x] /\ reader' = [reader EXCEPT ![e] = y]
    <3>1. writer \in [Ends -> Writing] /\ reader \in [Ends -> Reading]
      BY InvFacts
    <3>2. CASE quiet
      BY <3>1, <3>2 DEF InputReset, Closed
    <3>3. CASE ~quiet
      BY <3>1, <3>3 DEF InputReset, Reset
    <3>4. QED
      BY <3>2, <3>3
  <2>4. QED
    BY <2>1, <2>2, <2>3
<1>2. /\ t \in TcbType /\ p \in TcbType /\ g \in Nat /\ h \in Nat /\ w \in Writing /\ d \in Reading
      /\ Local(e, t, p, g, h, w, d) /\ f \in Ends
      /\ Sound(f, s, p, t, h) /\ Local(f, p, t, h, g, writer[f], reader[f])
      /\ t.state # "LISTEN"
      /\ tcb[Client].state = "SYN_SENT" => ~s.rst
  BY <1>1, InvFacts, TakenFacts, Constants
<1>3. Heard(t) /\ Heard(p)
  <2>1. Heard(t)
    BY <1>1, <1>2 DEF Heard
  <2>2. s.rst
    <3> HIDE DEF f, t, p, g, h
    <3>1. Rcv(f, t) \in 1..Far(f)
      BY <1>2, <2>1, LocalFacts
    <3>2. s.rst \/ (s.bytes = <<>> /\ s.seq = Isn[f])
      BY <1>1, <1>2 DEF Sound
    <3>3. QED
      BY <1>1, <1>2, <3>1, <3>2, SynIsOld
  <2>3. tcb[Client].state # "SYN_SENT"
    BY <1>2, <2>2
  <2>4. Joined(tcb[Client]) /\ Heard(tcb[Server])
    BY <2>3, InvFacts, SaneLocal
  <2>5. Heard(tcb[Client])
    BY <2>4 DEF Joined, Heard
  <2>6. f = Client \/ f = Server
    BY DEF Peer
  <2>7. QED
    BY <2>1, <2>4, <2>5, <2>6
<1>4. x \in Writing /\ y \in Reading
  BY <1>2 DEF Writing, Reading
<1>5. tcb[Client].state # "SYN_SENT"
  BY <1>3, InvFacts, SaneLocal, Constants DEF Heard, Peer
<1>9. x \in {w, IF w = "closing" THEN "closed" ELSE w}
  OBVIOUS
<1> HIDE DEF f, t, p, g, h, w, d, x, y
<1>6. Local(e, u, p, g, h, x, y) /\ GoesOn(e, t, u, g, g)
  BY <1>2, <1>3, <1>9, DeadKept
<1> HIDE DEF u
<1>7. QED
  BY <1>1, <1>4, <1>5, <1>6, TakesKeeps DEF f, t, p, g, h

\* The connection opens.
LEMMA FirstPlaces ==
  ASSUME NEW e \in Ends
  PROVE  /\ At(e, 0) = Isn[e] /\ Plus(Isn[e], 1) = At(e, 1)
         /\ At(e, 0) \in Seqs /\ At(e, 1) \in Seqs
         /\ Place(e, At(e, 0)) = 0 /\ Place(e, At(e, 1)) = 1
<1>1. Far(e) \in Nat /\ Far(e) > 1
  BY Constants DEF Far
<1>2. 0 \in 0..Far(e) /\ 1 \in 0..Far(e) /\ 0 \in Int /\ 1 \in Int
  BY <1>1
<1>3. At(e, 0) = Isn[e] /\ (\A k \in Int : At(e, k) \in Seqs) /\ (\A k \in 0..Far(e) : Place(e, At(e, k)) = k)
  BY Places
<1>4. QED
  BY <1>2, <1>3 DEF At

LEMMA FirstLink ==
  ASSUME NEW e \in Ends, NEW t \in TcbType, NEW p, NEW g, NEW k \in {0, 1},
         t.una = At(e, k), t.next = At(e, 1), t.data = <<>>, ~t.closed,
         p.rnext = At(e, 1), p.rdata = <<>>, Heard(p)
  PROVE  Link(e, t, p, g)
<1>1. Place(e, At(e, k)) = k /\ Place(e, At(e, 1)) = 1
  BY FirstPlaces
<1>2. Una(e, t) = k /\ Nxt(e, t) = 1 /\ Rcv(e, p) = 1
  BY <1>1 DEF Una, Nxt, Rcv
<1>3. ReadTo(e, p) = 1
  <2>1. Len(p.rdata) = 0
    OBVIOUS
  <2>2. ReadTo(e, p) = 1 - 0
    BY <1>2, <2>1 DEF ReadTo
  <2>3. QED
    BY <2>2
<1>4. t.window \in 0..Buffer /\ Buffer \in Nat
  BY TcbFields, Constants
<1>5. k + t.window <= 1 + Buffer /\ k <= 1 /\ 1 <= 1
  BY <1>4
<1>6. Fits(e, p, k + t.window)
  BY <1>3, <1>5 DEF Fits
<1>7. DOMAIN t.data = {}
  OBVIOUS
<1>8. QED
  BY <1>2, <1>3, <1>5, <1>6, <1>7 DEF Link

LEMMA FirstWindow ==
  ASSUME NEW e \in Ends, NEW u, u.rnext = At(Peer(e), 1), u.wl1 = At(Peer(e), 0)
  PROVE  WindowUpdates(e, u)
<1>1. Peer(e) \in Ends
  BY Constants
<1>2. Rcv(Peer(e), u) = 1
  BY <1>1, FirstPlaces DEF Rcv
<1>3. 0 \in 0..1 /\ 0 < 1
  OBVIOUS
<1>4. QED
  BY <1>2, <1>3 DEF WindowUpdates

\* The SYN that the listener takes, and the answer that the client takes.
Listened(t, s) ==
  Output([t EXCEPT !.state = "SYN_RECEIVED", !.known = TRUE,
                   !.rnext = Plus(s.seq, 1), !.window = s.window,
                   !.wl1 = s.seq, !.wl2 = s.ack])
Greeted(t, s) ==
  Output([t EXCEPT !.state = "ESTABLISHED", !.una = s.ack,
                   !.rnext = Plus(s.seq, 1), !.window = s.window,
                   !.wl1 = s.seq, !.wl2 = s.ack])

OpenedFrom(u, t, s) ==
  /\ u \in TcbType /\ u.known
  /\ u.rnext = Plus(s.seq, 1) /\ u.window = s.window /\ u.wl1 = s.seq /\ u.wl2 = s.ack
  /\ u.isn = t.isn /\ u.next = t.next /\ u.unsent = t.unsent /\ u.data = t.data /\ u.closed = t.closed
  /\ u.rwindow = t.rwindow /\ u.rdata = t.rdata /\ u.queue = t.queue

LEMMA OpenedFields ==
  ASSUME NEW t \in TcbType, NEW s \in SegmentType, Plus(s.seq, 1) \in Seqs
  PROVE  /\ OpenedFrom(Listened(t, s), t, s)
         /\ Listened(t, s).state = "SYN_RECEIVED" /\ Listened(t, s).una = t.una
         /\ t.known => OpenedFrom(Greeted(t, s), t, s)
         /\ Greeted(t, s).state = "ESTABLISHED" /\ Greeted(t, s).una = s.ack
<1> DEFINE r == Plus(s.seq, 1)
           a == [t EXCEPT !.rnext = r, !.window = s.window, !.wl1 = s.seq]
           b == [a EXCEPT !.wl2 = s.ack, !.poll = TRUE]
           one == "SYN_RECEIVED"
           two == "ESTABLISHED"
           c == [b EXCEPT !.state = one, !.known = TRUE]
           d == [b EXCEPT !.state = two, !.una = s.ack]
<1>1. s.seq \in Seqs /\ s.ack \in Seqs /\ s.window \in 0..Buffer /\ one \in States /\ two \in States
  BY DEF SegmentType, States
<1>2. Listened(t, s) = c
  BY DEF Listened, Output, TcbType
<1>3. Greeted(t, s) = d
  BY DEF Greeted, Output, TcbType
<1>4. r \in Seqs
  OBVIOUS
<1> HIDE DEF r, one, two
<1>5. a \in TcbType
  BY <1>1, <1>4 DEF TcbType
<1>6. /\ a.rnext = r /\ a.window = s.window /\ a.wl1 = s.seq
      /\ a.una = t.una /\ a.isn = t.isn /\ a.next = t.next /\ a.unsent = t.unsent /\ a.data = t.data
      /\ a.closed = t.closed /\ a.rwindow = t.rwindow /\ a.rdata = t.rdata /\ a.queue = t.queue /\ a.known = t.known
  BY DEF TcbType
<1> HIDE DEF a
<1>7. b \in TcbType
  BY <1>1, <1>5 DEF TcbType
<1>8. /\ b.rnext = r /\ b.window = s.window /\ b.wl1 = s.seq /\ b.wl2 = s.ack
      /\ b.una = t.una /\ b.isn = t.isn /\ b.next = t.next /\ b.unsent = t.unsent /\ b.data = t.data
      /\ b.closed = t.closed /\ b.rwindow = t.rwindow /\ b.rdata = t.rdata /\ b.queue = t.queue /\ b.known = t.known
  <2>1. /\ b.rnext = a.rnext /\ b.window = a.window /\ b.wl1 = a.wl1 /\ b.wl2 = s.ack
        /\ b.una = a.una /\ b.isn = a.isn /\ b.next = a.next /\ b.unsent = a.unsent /\ b.data = a.data
        /\ b.closed = a.closed /\ b.rwindow = a.rwindow /\ b.rdata = a.rdata /\ b.queue = a.queue /\ b.known = a.known
    BY <1>5 DEF TcbType
  <2> HIDE DEF b
  <2>2. QED
    BY <1>6, <2>1
<1> HIDE DEF b
<1>9. c \in TcbType /\ d \in TcbType
  BY <1>1, <1>7 DEF TcbType
<1>10. /\ c.rnext = b.rnext /\ c.window = b.window /\ c.wl1 = b.wl1 /\ c.wl2 = b.wl2
       /\ c.una = b.una /\ c.isn = b.isn /\ c.next = b.next /\ c.unsent = b.unsent /\ c.data = b.data
       /\ c.closed = b.closed /\ c.rwindow = b.rwindow /\ c.rdata = b.rdata /\ c.queue = b.queue
       /\ c.known /\ c.state = one
  BY <1>7 DEF TcbType
<1>11. /\ d.rnext = b.rnext /\ d.window = b.window /\ d.wl1 = b.wl1 /\ d.wl2 = b.wl2
       /\ d.una = s.ack /\ d.isn = b.isn /\ d.next = b.next /\ d.unsent = b.unsent /\ d.data = b.data
       /\ d.closed = b.closed /\ d.rwindow = b.rwindow /\ d.rdata = b.rdata /\ d.queue = b.queue
       /\ d.known = b.known /\ d.state = two
  BY <1>7 DEF TcbType
<1> HIDE DEF c, d
<1>12. OpenedFrom(c, t, s) /\ c.state = one /\ c.una = t.una
  BY <1>8, <1>9, <1>10 DEF OpenedFrom, r
<1>13. t.known => OpenedFrom(d, t, s)
  BY <1>8, <1>9, <1>11 DEF OpenedFrom, r
<1>14. QED
  BY <1>2, <1>3, <1>11, <1>12, <1>13 DEF one, two

\* A SYN is nothing but a SYN.
LEMMA SynFacts ==
  ASSUME NEW e \in Ends, NEW s, NEW t, NEW p, NEW g, Sound(e, s, t, p, g), s.syn
  PROVE  /\ ~s.rst /\ s.bytes = <<>> /\ s.seq = At(e, 0) /\ Plus(s.seq, 1) = At(e, 1)
         /\ s.ackOn => AckSound(e, s, t)
<1>1. At(e, 0) = Isn[e] /\ Plus(Isn[e], 1) = At(e, 1)
  BY FirstPlaces
<1>2. QED
  BY <1>1 DEF Sound

LEMMA ListenedKept ==
  ASSUME NEW e \in Ends, NEW t, NEW p \in TcbType, NEW g \in Nat, NEW h \in Nat, NEW w, NEW d,
         Local(e, t, p, g, h, w, d), t = NewTcb(e), ~Heard(t), ~Heard(p), NEW x, NEW y,
         Local(Peer(e), p, t, h, g, x, y),
         NEW s \in SegmentType, s.seq = At(Peer(e), 0), Plus(s.seq, 1) = At(Peer(e), 1),
         NEW u, OpenedFrom(u, t, s), u.state = "SYN_RECEIVED", u.una = t.una
  PROVE  Local(e, u, p, g, h, w, d) /\ GoesOn(e, t, u, g, g)
<1> DEFINE f == Peer(e)
<1>1. /\ t \in TcbType /\ f \in Ends /\ Peer(f) = e /\ ~Joined(t) /\ ~Joined(p)
      /\ Own(e, t, g, w, d) /\ Own(f, p, h, x, y)
  BY Constants DEF Local, Joined, Heard
<1>2. /\ Opening(e, t, g, w, d) /\ Opening(f, p, h, x, y) /\ t.isn = Isn[e] /\ g <= Messages[e]
      /\ t.rwindow + Len(t.rdata) <= Buffer
  BY <1>1 DEF Own
<1>3. /\ u \in TcbType /\ u.known /\ u.isn = Isn[e] /\ u.una = Isn[e] /\ u.next = At(e, 1)
      /\ u.rnext = At(f, 1) /\ u.wl1 = At(f, 0)
      /\ u.unsent = <<>> /\ u.data = <<>> /\ ~u.closed
      /\ u.rdata = <<>> /\ u.rwindow = Buffer /\ u.queue = t.queue /\ u.next = t.next
      /\ u.rdata = t.rdata /\ u.rwindow = t.rwindow
      /\ p.una = At(f, 0) /\ p.next = At(f, 1) /\ p.data = <<>> /\ ~p.closed
  <2>1. At(f, 0) = Isn[f]
    BY <1>1, FirstPlaces
  <2>2. QED
    BY <1>2, <2>1 DEF Opening, OpenedFrom
<1>4. t.queue = <<>>
  BY DEF NewTcb
<1>5. Heard(u) /\ ~Joined(u)
  BY DEF Heard, Joined
<1>6. WindowUpdates(e, u)
  BY <1>3, FirstWindow
<1>7. Link(f, p, u, h)
  BY <1>1, <1>3, <1>5, FirstLink
<1>8. Opening(e, u, g, w, d)
  BY <1>2, <1>3 DEF Opening
<1>9. Own(e, u, g, w, d)
  BY <1>2, <1>3, <1>5, <1>6, <1>8 DEF Own
<1>10. \A z \in ToSet(u.queue) : Sound(e, z, u, p, g)
  BY <1>3, <1>4 DEF ToSet
<1>11. Local(e, u, p, g, h, w, d)
  BY <1>3, <1>5, <1>7, <1>9, <1>10 DEF Local
<1>12. GoesOn(e, t, u, g, g)
  <2>1. Nxt(e, u) = Nxt(e, t) /\ Nxt(e, t) \in Nat
    BY <1>1, <1>3, TcbFields DEF Nxt
  <2>2. SenderGoesOn(e, t, u, g, g)
    BY <1>2, <2>1 DEF SenderGoesOn, Opening
  <2>3. ReceiverGoesOn(f, t, u)
    BY DEF ReceiverGoesOn
  <2>4. QED
    BY <1>1, <2>2, <2>3 DEF GoesOn
<1>13. QED
  BY <1>11, <1>12

LEMMA GreetedKept ==
  ASSUME NEW e \in Ends, NEW t, NEW p \in TcbType, NEW g \in Nat, NEW h \in Nat, NEW w, NEW d,
         Local(e, t, p, g, h, w, d), ~Heard(t), t.known,
         NEW x, NEW y, Local(Peer(e), p, t, h, g, x, y), Heard(p), ~Joined(p), p.rnext = At(e, 1),
         NEW s \in SegmentType, s.seq = At(Peer(e), 0), Plus(s.seq, 1) = At(Peer(e), 1), s.ack = At(e, 1),
         NEW u, OpenedFrom(u, t, s), u.state = "ESTABLISHED", u.una = s.ack
  PROVE  Local(e, u, p, g, h, w, d) /\ GoesOn(e, t, u, g, g)
<1> DEFINE f == Peer(e)
<1>1. /\ t \in TcbType /\ f \in Ends /\ Peer(f) = e /\ ~Joined(t)
      /\ Own(e, t, g, w, d) /\ Own(f, p, h, x, y)
      /\ \A z \in ToSet(t.queue) : Sound(e, z, t, p, g)
  BY Constants DEF Local, Joined, Heard
<1>2. /\ Opening(e, t, g, w, d) /\ Opening(f, p, h, x, y) /\ t.isn = Isn[e] /\ g <= Messages[e]
      /\ t.rwindow + Len(t.rdata) <= Buffer
  BY <1>1 DEF Own
<1>3. /\ u \in TcbType /\ u.known /\ u.isn = Isn[e] /\ u.una = At(e, 1) /\ u.next = At(e, 1)
      /\ u.rnext = At(f, 1) /\ u.wl1 = At(f, 0)
      /\ u.unsent = <<>> /\ u.data = <<>> /\ ~u.closed /\ ~t.closed
      /\ u.rdata = <<>> /\ u.rdata = t.rdata /\ u.rwindow = t.rwindow /\ u.queue = t.queue /\ u.next = t.next
      /\ p.una = At(f, 0) /\ p.next = At(f, 1) /\ p.data = <<>> /\ ~p.closed /\ p.rdata = <<>>
      /\ g = 0 /\ w = "open"
  <2>1. At(f, 0) = Isn[f]
    BY <1>1, FirstPlaces
  <2>2. QED
    BY <1>2, <2>1 DEF Opening, OpenedFrom
<1>4. Heard(u) /\ Joined(u)
  BY DEF Heard, Joined
<1>5. WindowUpdates(e, u)
  BY <1>3, FirstWindow
<1>6. Link(f, p, u, h)
  BY <1>1, <1>3, <1>4, FirstLink
<1>7. Link(e, u, p, g)
  BY <1>3, FirstLink
<1>8. Una(e, u) = 1 /\ Nxt(e, u) = 1
  BY <1>3, FirstPlaces DEF Una, Nxt
<1>9. Layout(e, u, g)
  <2> DEFINE z == <<>>
  <2>1. z \in Segments /\ InPlace(z, 1) /\ FlightSize(z) = 0
    BY NothingUnacked
  <2>2. Stretch(0, 0) = <<>>
    BY StretchType
  <2>3. 1 - 1 = 0 /\ 0 + 1 - 1 = 0 /\ 1 = 1 + 0
    OBVIOUS
  <2>4. u.data = z /\ u.unsent = <<>>
    BY <1>3
  <2> HIDE DEF z
  <2>5. InPlace(u.data, Una(e, u)) /\ Nxt(e, u) = Una(e, u) + FlightSize(u.data)
    BY <1>8, <2>1, <2>3, <2>4
  <2>6. u.unsent = Stretch(Nxt(e, u) - 1, g + 1 - Nxt(e, u))
    BY <1>3, <1>8, <2>2, <2>3, <2>4
  <2>7. QED
    BY <2>5, <2>6 DEF Layout
<1>10. Sender(e, u, g, w)
  <2>1. Una(e, u) <= Nxt(e, u) /\ Nxt(e, u) <= g + 1 /\ Una(e, u) >= 1
    BY <1>3, <1>8
  <2>2. QED
    BY <1>3, <1>9, <2>1 DEF Sender
<1>11. Own(e, u, g, w, d)
  BY <1>2, <1>3, <1>4, <1>5, <1>10 DEF Own
<1>12. SenderGoesOn(e, t, u, g, g)
  <2>1. Nxt(e, u) = Nxt(e, t) /\ Nxt(e, t) \in Nat
    BY <1>1, <1>3, TcbFields DEF Nxt
  <2>2. QED
    BY <1>3, <2>1 DEF SenderGoesOn
<1>13. ReceiverGoesOn(f, t, u)
  BY DEF ReceiverGoesOn
<1>14. \A z \in ToSet(u.queue) : Sound(e, z, u, p, g)
  <2> TAKE z \in ToSet(u.queue)
  <2>1. z \in SegmentType /\ Sound(e, z, t, p, g)
    BY <1>1, <1>3, TcbFields, ToSetIsImage
  <2>2. ReceiverGoesOn(e, p, p)
    BY GoesOnAndOn
  <2>3. QED
    BY <1>1, <1>3, <1>12, <1>13, <2>1, <2>2, SoundKept
<1>15. Local(e, u, p, g, h, w, d)
  BY <1>3, <1>6, <1>7, <1>11, <1>14 DEF Local
<1>16. GoesOn(e, t, u, g, g)
  BY <1>1, <1>12, <1>13 DEF GoesOn
<1>17. QED
  BY <1>15, <1>16

LEMMA InputUnknownKeeps ==
  ASSUME IInv, NEW e \in Ends, NEW s, Takes(e, s), InputUnknown(e, s), given' = given
  PROVE  Sane(tcb', given', writer', reader', net')
<1>1. CASE Ignore
  BY <1>1, InputIgnoredKeeps
<1>2. CASE ~Ignore
  <2> DEFINE f == Peer(e)
             t == tcb[e]
             p == tcb[f]
             g == given[e]
             h == given[f]
             w == writer[e]
             d == reader[e]
             u == Listened(t, s)
  <2>1. /\ t.state = "LISTEN" /\ s.syn /\ ~s.ackOn
        /\ tcb' = [tcb EXCEPT ![e] = u] /\ writer' = writer /\ reader' = reader
    BY <1>2 DEF InputUnknown, Listened
  <2>2. /\ t \in TcbType /\ p \in TcbType /\ g \in Nat /\ h \in Nat /\ w \in Writing /\ d \in Reading
        /\ Local(e, t, p, g, h, w, d) /\ Local(f, p, t, h, g, writer[f], reader[f])
        /\ t = NewTcb(e) /\ e = Server /\ s \in SegmentType /\ Sound(f, s, p, t, h)
        /\ writer' = [writer EXCEPT ![e] = w] /\ reader' = [reader EXCEPT ![e] = d]
        /\ given' = [given EXCEPT ![e] = g]
        /\ net' \in [Ends -> Seq(SegmentType)] /\ Sane(tcb, given, writer, reader, net)
    BY <2>1, InvFacts, TakenFacts DEF Takes
  <2>3. /\ f = Client /\ f \in Ends /\ Peer(Client) = Server /\ Peer(Server) = Client /\ Client # Server
    BY <2>2, Constants DEF Peer
  <2>4. Handshake(tcb, net) /\ p.state = "SYN_SENT" /\ From(tcb, net, Server) = {}
    BY <2>1, <2>2, <2>3 DEF Sane, Handshake
  <2>5. ~Heard(t) /\ ~Heard(p)
    BY <2>1, <2>4 DEF Heard
  <2>6. s.seq = At(f, 0) /\ Plus(s.seq, 1) = At(f, 1) /\ At(f, 1) \in Seqs
    BY <2>1, <2>2, <2>3, SynFacts, FirstPlaces
  <2>7. OpenedFrom(u, t, s) /\ u.state = "SYN_RECEIVED" /\ u.una = t.una
    BY <2>2, <2>6, OpenedFields
  <2>8. Sends(e, u, p, g, net, net')
    BY DEF Sends, Takes, Sound
  <2>9. u.queue = <<>> /\ u.rnext = At(Client, 1)
    <3>1. t.queue = <<>>
      BY <2>2 DEF NewTcb
    <3>2. QED
      BY <2>3, <2>6, <2>7, <3>1 DEF OpenedFrom
  <2> HIDE DEF u
  <2>10. tcb'[e] = u /\ tcb'[f] = p
    BY <2>1, <2>2, <2>3, InvFacts
  <2> HIDE DEF f, t, p, g, h, w, d
  <2>11. Local(e, u, p, g, h, w, d) /\ GoesOn(e, t, u, g, g)
    BY <2>2, <2>5, <2>6, <2>7, ListenedKept DEF f
  <2>12. Handshake(tcb', net')
    <3>1. \A x \in ToSet(net'[Client]) : x \in ToSet(net[Client])
      BY <2>2, <2>3, <2>4 DEF Takes, p
    <3>2. ToSet(net'[Server]) \subseteq ToSet(net[Server])
      BY <2>2 DEF Takes
    <3>3. From(tcb', net', Server) = {}
      <4>1. ToSet(u.queue) = {}
        BY <2>9 DEF ToSet
      <4>2. From(tcb', net', Server) = ToSet(net'[Client])
        BY <2>2, <2>3, <2>10, <4>1 DEF From
      <4>3. ToSet(net[Client]) = {}
        BY <2>3, <2>4 DEF From
      <4>4. QED
        BY <3>1, <4>2, <4>3
    <3>4. \A x \in From(tcb', net', Client) : x \in From(tcb, net, Client)
      BY <2>3, <2>10, <3>2 DEF From, p
    <3>5. tcb'[Client].state = "SYN_SENT" /\ tcb'[Server].state = "SYN_RECEIVED" /\ tcb'[Server].rnext = At(Client, 1)
      BY <2>2, <2>3, <2>4, <2>7, <2>9, <2>10
    <3>6. \A x \in From(tcb, net, Client) : x.syn /\ ~x.ackOn /\ ~x.rst
      BY <2>3, <2>4 DEF Handshake, p
    <3>7. QED
      BY <3>3, <3>4, <3>5, <3>6 DEF Handshake
  <2>13. /\ Becomes(tcb, tcb', e, u) /\ Becomes(given, given', e, g)
         /\ Becomes(writer, writer', e, w) /\ Becomes(reader, reader', e, d)
    BY <2>1, <2>2 DEF Becomes
  <2>14. QED
    BY <2>2, <2>8, <2>11, <2>12, <2>13, StepKeepsSane DEF f, t, p, g, h
<1>3. QED
  BY <1>1, <1>2

LEMMA InputSynSentKeeps ==
  ASSUME IInv, NEW e \in Ends, NEW s, Takes(e, s), InputSynSent(e, s), given' = given
  PROVE  Sane(tcb', given', writer', reader', net')
<1> DEFINE f == Peer(e)
           t == tcb[e]
           p == tcb[f]
           g == given[e]
           h == given[f]
           w == writer[e]
           d == reader[e]
           u == Greeted(t, s)
<1>1. t.known /\ t.state = "SYN_SENT"
  BY DEF InputSynSent
<1>2. /\ t \in TcbType /\ p \in TcbType /\ g \in Nat /\ h \in Nat /\ w \in Writing /\ d \in Reading
      /\ Local(e, t, p, g, h, w, d) /\ Local(f, p, t, h, g, writer[f], reader[f])
      /\ e = Client /\ s \in SegmentType /\ Sound(f, s, p, t, h)
      /\ s.syn /\ s.ackOn /\ ~s.rst /\ s.ack = At(Client, 1) /\ tcb[Server].state = "SYN_RECEIVED"
      /\ net' \in [Ends -> Seq(SegmentType)] /\ Sane(tcb, given, writer, reader, net)
      /\ Opening(e, t, g, w, d)
  BY <1>1, InvFacts, TakenFacts DEF Takes, Joined
<1>3. /\ f = Server /\ f \in Ends /\ Peer(Client) = Server /\ Peer(Server) = Client /\ Client # Server
  BY <1>2, Constants DEF Peer
<1>4. AcksSyn(t, s)
  BY <1>2 DEF AcksSyn, Opening
<1>5. tcb' = [tcb EXCEPT ![e] = u] /\ writer' = writer /\ reader' = reader
  BY <1>2, <1>4 DEF InputSynSent, Greeted
<1>6. /\ writer' = [writer EXCEPT ![e] = w] /\ reader' = [reader EXCEPT ![e] = d]
      /\ given' = [given EXCEPT ![e] = g]
  BY <1>5, InvFacts
<1>7. p.rnext = At(e, 1)
  BY <1>1, <1>2, <1>3 DEF Sane, Handshake
<1>8. ~Heard(t) /\ Heard(p) /\ ~Joined(p)
  BY <1>1, <1>2, <1>3 DEF Heard, Joined
<1>9. s.seq = At(f, 0) /\ Plus(s.seq, 1) = At(f, 1) /\ At(f, 1) \in Seqs
  BY <1>2, <1>3, SynFacts, FirstPlaces
<1>10. OpenedFrom(u, t, s) /\ u.state = "ESTABLISHED" /\ u.una = s.ack
  BY <1>1, <1>2, <1>9, OpenedFields
<1>11. Sends(e, u, p, g, net, net')
  BY DEF Sends, Takes, Sound
<1> HIDE DEF u
<1>12. tcb'[e] = u /\ tcb'[f] = p
  BY <1>2, <1>3, <1>5, InvFacts
<1> HIDE DEF f, t, p, g, h, w, d
<1>13. Local(e, u, p, g, h, w, d) /\ GoesOn(e, t, u, g, g)
  BY <1>1, <1>2, <1>7, <1>8, <1>9, <1>10, GreetedKept DEF f
<1>14. Handshake(tcb', net')
  <2>1. tcb'[Client].state = "ESTABLISHED" /\ tcb'[Server].state = "SYN_RECEIVED"
    BY <1>2, <1>3, <1>10, <1>12 DEF p, f
  <2>2. QED
    BY <2>1 DEF Handshake
<1>15. /\ Becomes(tcb, tcb', e, u) /\ Becomes(given, given', e, g)
       /\ Becomes(writer, writer', e, w) /\ Becomes(reader, reader', e, d)
  BY <1>5, <1>6 DEF Becomes
<1>16. QED
  BY <1>2, <1>11, <1>13, <1>14, <1>15, StepKeepsSane DEF f, t, p, g, h

LEMMA ReceiveKeeps ==
  ASSUME IInv, NEW e \in Ends, Receive(e)
  PROVE  IInv'
<1>1. PICK i \in DOMAIN net[e] :
        /\ i = 1 \/ faults < MaxFaults
        /\ faults' = IF i = 1 THEN faults ELSE faults + 1
        /\ net' = [net EXCEPT ![e] = RemoveAt(@, i),
                              ![Peer(e)] = IF Answers(tcb[e], net[e][i])
                                           THEN Append(@, ResetFor(net[e][i])) ELSE @]
        /\ \/ Input(e, net[e][i]) /\ UNCHANGED crashed
           \/ InputMerges(e, net[e][i]) /\ Ignore /\ crashed' = TRUE
        /\ UNCHANGED <<given, got>>
  BY Zenon DEF Receive
<1> DEFINE s == net[e][i]
<1>2. Takes(e, s)
  BY <1>1, ReceiveTakes
<1>3. given' = given /\ got' = got
  BY <1>1
<1>4. faults' \in 0..MaxFaults
  <2>1. faults' = faults \/ (faults < MaxFaults /\ faults' = faults + 1)
    BY <1>1
  <2>2. QED
    BY <2>1, FaultsCounted
<1>5. crashed' \in BOOLEAN
  BY <1>1 DEF IInv
<1>6. Input(e, s) \/ Ignore
  BY <1>1
<1> HIDE DEF s
<1>7. Sane(tcb', given', writer', reader', net')
  <2>1. CASE InputUnknown(e, s)
    BY <1>2, <1>3, <2>1, InputUnknownKeeps
  <2>2. CASE InputSynSent(e, s)
    BY <1>2, <1>3, <2>2, InputSynSentKeeps
  <2>3. CASE InputUnacceptable(e, s)
    BY <1>2, <1>3, <2>3, InputUnacceptableKeeps
  <2>4. CASE InputOutOfOrder(e, s)
    BY <1>2, <1>3, <2>4, InputOutOfOrderKeeps
  <2>5. CASE InputReset(e, s)
    BY <1>2, <1>3, <2>5, InputResetKeeps
  <2>6. CASE InputInOrder(e, s)
    BY <1>2, <1>3, <2>6, InputInOrderKeeps
  <2>7. CASE Ignore
    BY <1>2, <1>3, <2>7, InputIgnoredKeeps
  <2>8. QED
    BY <1>6, <2>1, <2>2, <2>3, <2>4, <2>5, <2>6, <2>7 DEF Input
<1>8. QED
  BY <1>3, <1>4, <1>5, <1>7 DEF IInv

-----------------------------------------------------------------------------
(* The theorem *)

LEMMA FirstTcb ==
  ASSUME NEW e \in Ends
  PROVE  /\ NewTcb(e) \in TcbType
         /\ Opening(e, NewTcb(e), 0, "open", "idle")
         /\ NewTcb(e).isn = Isn[e] /\ NewTcb(e).queue = <<>> /\ NewTcb(e).rdata = <<>>
         /\ NewTcb(e).rwindow = Buffer
         /\ NewTcb(e).state = IF e = Client THEN "SYN_SENT" ELSE "LISTEN"
<1> DEFINE n == NewTcb(e)
<1>1. /\ Isn[e] \in Seqs /\ Plus(Isn[e], 1) \in Seqs /\ 0 \in Seqs /\ Plus(Isn[e], 1) = At(e, 1)
  <2>1. Isn[e] \in 0..(SeqSpace - 1) /\ SeqSpace \in Nat \ {0}
    BY Constants
  <2>2. Isn[e] \in Seqs /\ 0 \in Seqs
    BY <2>1 DEF Seqs
  <2>3. QED
    BY <2>2, FirstPlaces
<1>2. 0 \in 0..Buffer /\ Buffer \in 0..Buffer /\ 0 \in 0..4 /\ 0 \in 0..QueueSpace /\ 0 \in 0..1
  BY Constants
<1>3. /\ <<>> \in Seq(Bytes) /\ <<>> \in Seq(Seq(Bytes) \ {<<>>}) /\ <<>> \in Seq(SegmentType)
      /\ {} \in SUBSET Seqs
      /\ (IF e = Client THEN "SYN_SENT" ELSE "LISTEN") \in States
  BY DEF States
<1>4. n \in TcbType
  <2> DEFINE zero == 0
  <2>1. /\ zero \in Seqs /\ zero \in 0..Buffer /\ zero \in 0..4 /\ zero \in 0..QueueSpace /\ zero \in 0..1
    BY <1>1, <1>2
  <2>2. n = [state |-> IF e = Client THEN "SYN_SENT" ELSE "LISTEN",
             known |-> e = Client,
             isn |-> Isn[e], una |-> Isn[e], next |-> Plus(Isn[e], 1), recover |-> Isn[e],
             window |-> zero, wl1 |-> zero, wl2 |-> zero,
             unsent |-> <<>>, data |-> <<>>,
             closed |-> FALSE, dupacks |-> zero, probing |-> zero,
             rnext |-> zero, rwindow |-> Buffer, rdata |-> <<>>,
             ooo |-> {}, full |-> zero,
             retransmit |-> FALSE, persist |-> FALSE, delayed |-> FALSE,
             queue |-> <<>>, poll |-> e = Client]
    BY DEF NewTcb
  <2> HIDE DEF zero, n
  <2>3. Isn[e] \in Seqs /\ Plus(Isn[e], 1) \in Seqs /\ Buffer \in 0..Buffer
    BY <1>1, <1>2
  <2>4. QED
    BY <1>3, <2>1, <2>2, <2>3 DEF TcbType
<1>5. /\ n.una = Isn[e] /\ n.next = Plus(Isn[e], 1) /\ n.unsent = <<>> /\ n.data = <<>> /\ ~n.closed
      /\ n.rdata = <<>> /\ n.rwindow = Buffer /\ n.known = (e = Client) /\ n.window = 0
      /\ n.state = (IF e = Client THEN "SYN_SENT" ELSE "LISTEN")
      /\ n.isn = Isn[e] /\ n.queue = <<>>
  BY DEF NewTcb
<1>6. n = NewTcb(e)
  OBVIOUS
<1> HIDE DEF n
<1>7. Opening(e, n, 0, "open", "idle")
  BY <1>1, <1>5, <1>6 DEF Opening
<1>8. QED
  BY <1>4, <1>5, <1>6, <1>7

LEMMA InitEstablishes ==
  ASSUME Init
  PROVE  IInv
<1>1. /\ tcb \in [Ends -> TcbType] /\ given \in [Ends -> Nat]
      /\ writer \in [Ends -> {"open", "closing", "acked", "closed"}]
      /\ reader \in [Ends -> {"idle", "waiting", "ready", "eof", "failed"}]
      /\ net \in [Ends -> Seq(SegmentType)] /\ got \in [Ends -> Seq(Bytes)]
  BY FirstTcb DEF Init
<1>2. ASSUME NEW e \in Ends
      PROVE  /\ tcb[e] = NewTcb(e) /\ given[e] = 0 /\ writer[e] = "open" /\ reader[e] = "idle"
             /\ net[e] = <<>> /\ tcb[e].queue = <<>>
             /\ ~Heard(tcb[e]) /\ ~Joined(tcb[e])
             /\ From(tcb, net, e) = {} /\ Own(e, tcb[e], given[e], writer[e], reader[e])
  <2>1. tcb[e] = NewTcb(e) /\ given[e] = 0 /\ writer[e] = "open" /\ reader[e] = "idle" /\ net[e] = <<>>
    BY DEF Init
  <2>2. tcb[e].queue = <<>> /\ ~Heard(tcb[e]) /\ ~Joined(tcb[e])
    BY <2>1, FirstTcb DEF Heard, Joined
  <2>3. net[Peer(e)] = <<>>
    BY Constants DEF Init
  <2>4. From(tcb, net, e) = {}
    <3>1. ToSet(<<>>) = {}
      BY DEF ToSet
    <3>2. QED
      BY <2>2, <2>3, <3>1 DEF From
  <2>5. Own(e, tcb[e], given[e], writer[e], reader[e])
    <3>1. 0 <= Messages[e] /\ Buffer + 0 <= Buffer /\ Len(<<>>) = 0
      BY Constants
    <3>2. tcb[e].rwindow + Len(tcb[e].rdata) <= Buffer
      BY <2>1, <3>1, FirstTcb
    <3>3. QED
      BY <2>1, <2>2, <3>1, <3>2, FirstTcb DEF Own
  <2>6. QED
    BY <2>1, <2>2, <2>4, <2>5
<1>3. Typed(tcb, given, writer, reader, net)
  BY <1>1 DEF Typed
<1>4. Handshake(tcb, net)
  <2>1. Client \in Ends /\ Server \in Ends /\ Client # Server
    BY Constants
  <2>2. tcb[Client].state = "SYN_SENT" /\ tcb[Server].state = "LISTEN"
    BY <1>2, <2>1, FirstTcb
  <2>3. From(tcb, net, Client) = {} /\ From(tcb, net, Server) = {}
    BY <1>2, <2>1
  <2>4. QED
    BY <2>2, <2>3 DEF Handshake
<1>5. Sane(tcb, given, writer, reader, net)
  BY <1>2, <1>3, <1>4, Constants DEF Sane
<1>6. faults \in 0..MaxFaults /\ crashed \in BOOLEAN
  <2>1. faults = 0 /\ crashed = FALSE
    BY DEF Init
  <2>2. 0 \in 0..MaxFaults
    BY Constants
  <2>3. QED
    BY <2>1, <2>2
<1>7. QED
  BY <1>1, <1>5, <1>6 DEF IInv

LEMMA NextPreserves ==
  ASSUME IInv, [Next]_vars
  PROVE  IInv'
<1>1. CASE UNCHANGED vars
  BY <1>1 DEF vars, app, IInv
<1>2. ASSUME NEW e \in Ends, Tcb(e)
      PROVE  IInv'
  <2>1. CASE Application(e)
    BY <2>1, SendKeeps, CloseWriteKeeps, SendFinKeeps, WaitKeeps, ReadKeeps DEF Application
  <2>2. CASE Device(e)
    BY <2>2, DelayedAckFiresKeeps, PollKeeps, ReceiveKeeps DEF Device
  <2>3. CASE RetransmitFires(e) \/ PersistFires(e)
    BY <2>3, RetransmitFiresKeeps, PersistFiresKeeps
  <2>4. CASE Lose(e) \/ Duplicate(e)
    BY <2>4, LoseKeeps, DuplicateKeeps
  <2>5. QED
    BY <1>2, <2>1, <2>2, <2>3, <2>4 DEF Tcb
<1>3. CASE AtRest
  BY <1>1, <1>3 DEF AtRest
<1>4. QED
  BY <1>1, <1>2, <1>3 DEF Next

\* What the invariant says of the open direction of a connection, in the terms
\* of the property.
LEMMA KeepsUnacked ==
  ASSUME NEW e \in Ends, NEW t, NEW p \in TcbType, NEW g \in Nat, NEW h \in Nat, NEW w, NEW d,
         Local(e, t, p, g, h, w, d), t.known, Joined(t), ~t.closed
  PROVE  LET acked == Minus(t.una, Plus(t.isn, 1))
             flight == FlightSize(t.data)
         IN  /\ \A i \in DOMAIN t.data :
                  t.data[i] = Stretch(acked + BytesIn(t.data, i - 1), Len(t.data[i]))
             /\ t.unsent = Stretch(acked + flight, g - acked - flight)
             /\ Minus(t.next, t.una) = flight
             /\ Heard(p) => NotAfter(t.una, p.rnext) /\ NotAfter(p.rnext, t.next)
<1> DEFINE a == Una(e, t)
           n == Nxt(e, t)
           b == FlightSize(t.data)
           acked == Minus(t.una, Plus(t.isn, 1))
           F == Far(e)
<1>1. /\ t \in TcbType /\ Own(e, t, g, w, d) /\ t.isn = Isn[e] /\ Sender(e, t, g, w)
      /\ Heard(p) => Link(e, t, p, g)
  BY DEF Local, Own
<1>2. Layout(e, t, g) /\ a >= 1 /\ n <= g + 1
  BY <1>1 DEF Sender
<1>3. /\ a \in 0..F /\ n \in 0..F /\ a <= n /\ Minus(t.next, t.una) = n - a
      /\ Heard(p) => Rcv(e, p) \in 1..F
  BY LocalFacts
<1>4. t.una = At(e, a) /\ t.next = At(e, n) /\ p.rnext = At(e, Rcv(e, p)) /\ Plus(t.isn, 1) = At(e, 1)
  <2>1. t.una = At(e, a) /\ t.next = At(e, n) /\ p.rnext = At(e, Rcv(e, p))
    BY <1>1, TcbFields
  <2>2. QED
    BY <1>1, <2>1, FirstPlaces
<1>5. \A i, j \in 0..F : /\ Minus(At(e, i), At(e, j)) = i - j
                         /\ NotAfter(At(e, i), At(e, j)) <=> i <= j
  BY Places
<1>6. InPlace(t.data, a) /\ n = a + b /\ t.unsent = Stretch(n - 1, g + 1 - n)
  BY <1>2 DEF Layout
<1>7. b \in Nat /\ \A i \in DOMAIN t.data : t.data[i] = Stretch(a - 1 + BytesIn(t.data, i - 1), Len(t.data[i]))
  <2>1. t.data \in Segments
    BY <1>1, TcbFields
  <2>2. b \in Nat
    BY <2>1, BytesInType DEF FlightSize
  <2>3. QED
    BY <1>6, <2>2 DEF InPlace
<1>8. Heard(p) => a <= Rcv(e, p) /\ Rcv(e, p) <= n
  BY <1>1 DEF Link
<1> HIDE DEF a, n, b, F
<1>9. F \in Nat /\ 1 \in 0..F
  <2>1. F \in Nat
    BY Constants DEF F
  <2>2. QED
    BY <1>2, <1>3, <2>1
<1>10. acked = a - 1
  <2>1. Minus(At(e, a), At(e, 1)) = a - 1
    BY <1>3, <1>5, <1>9
  <2>2. QED
    BY <1>4, <2>1
<1> HIDE DEF acked
<1>11. acked + b = n - 1 /\ g - acked - b = g + 1 - n /\ n - a = b
  <2>1. a \in Nat /\ b \in Nat /\ g \in Nat /\ n = a + b
    BY <1>3, <1>6, <1>7, <1>9
  <2>2. QED
    BY <1>10, <2>1
<1>12. Heard(p) => NotAfter(t.una, p.rnext) /\ NotAfter(p.rnext, t.next)
  <2> DEFINE r == Rcv(e, p)
  <2>1. Heard(p) => r \in 0..F /\ a <= r /\ r <= n
    BY <1>3, <1>8, <1>9
  <2>2. p.rnext = At(e, r)
    BY <1>4
  <2> HIDE DEF r
  <2>3. QED
    BY <1>3, <1>4, <1>5, <2>1, <2>2
<1>13. /\ \A i \in DOMAIN t.data : t.data[i] = Stretch(acked + BytesIn(t.data, i - 1), Len(t.data[i]))
       /\ t.unsent = Stretch(acked + b, g - acked - b)
       /\ Minus(t.next, t.una) = b
  BY <1>3, <1>6, <1>7, <1>10, <1>11
<1>14. QED
  BY <1>12, <1>13 DEF acked, b

LEMMA IInvTypes ==
  ASSUME IInv
  PROVE  TypeOK
<1>1. /\ tcb \in [Ends -> TcbType] /\ given \in [Ends -> Nat] /\ net \in [Ends -> Seq(SegmentType)]
      /\ writer \in [Ends -> {"open", "closing", "acked", "closed"}]
      /\ reader \in [Ends -> {"idle", "waiting", "ready", "eof", "failed"}]
      /\ \A e \in Ends : tcb[e].rwindow + Len(tcb[e].rdata) <= Buffer
  BY DEF IInv, Sane, Typed, Own
<1>2. ASSUME NEW e \in Ends
      PROVE  Len(tcb[e].rdata) <= Buffer
  <2>1. tcb[e].rdata \in Seq(Bytes) /\ tcb[e].rwindow \in 0..Buffer /\ Buffer \in Nat
    BY <1>1, TcbFields, Constants
  <2>2. Len(tcb[e].rdata) \in Nat
    BY <2>1, LenProperties
  <2> DEFINE l == Len(tcb[e].rdata)
             r == tcb[e].rwindow
  <2>3. l \in Nat /\ r \in 0..Buffer /\ r + l <= Buffer /\ Buffer \in Nat
    BY <1>1, <2>1, <2>2
  <2> HIDE DEF l, r
  <2>4. l <= Buffer
    BY <2>3
  <2>5. QED
    BY <2>4 DEF l
<1>3. QED
  BY <1>1, <1>2 DEF IInv, TypeOK

LEMMA IInvKeepsUnacked ==
  ASSUME IInv
  PROVE  SenderKeepsUnacked
<1>1. TypeOK
  BY IInvTypes
<1> DEFINE acked(e) == Minus(tcb[e].una, Plus(tcb[e].isn, 1))
           flight(e) == FlightSize(tcb[e].data)
<1>2. ASSUME NEW e \in Ends, tcb[e].known, Connected(e), ~tcb[e].closed
      PROVE  /\ \A i \in DOMAIN tcb[e].data :
                  tcb[e].data[i] = Stretch(acked(e) + BytesIn(tcb[e].data, i - 1), Len(tcb[e].data[i]))
             /\ tcb[e].unsent = Stretch(acked(e) + flight(e), given[e] - acked(e) - flight(e))
             /\ Minus(tcb[e].next, tcb[e].una) = flight(e)
             /\ tcb[Peer(e)].known =>
                  NotAfter(tcb[e].una, tcb[Peer(e)].rnext) /\ NotAfter(tcb[Peer(e)].rnext, tcb[e].next)
  <2> DEFINE f == Peer(e)
             t == tcb[e]
             p == tcb[f]
             g == given[e]
             h == given[f]
             w == writer[e]
             d == reader[e]
  <2>1. /\ p \in TcbType /\ g \in Nat /\ h \in Nat /\ Local(e, t, p, g, h, w, d)
        /\ t.known /\ Joined(t) /\ ~t.closed
        /\ Joined(t) => tcb[Client].state # "SYN_SENT"
    BY <1>2, InvFacts
  <2>2. Heard(p)
    <3>1. Joined(tcb[Client]) /\ Heard(tcb[Server])
      BY <2>1, InvFacts, SaneLocal
    <3>2. f = Client \/ f = Server
      BY DEF Peer
    <3>3. QED
      BY <3>1, <3>2 DEF Joined, Heard
  <2> HIDE DEF f, t, p, g, h, w, d
  <2>3. /\ \A i \in DOMAIN t.data :
             t.data[i] = Stretch(Minus(t.una, Plus(t.isn, 1)) + BytesIn(t.data, i - 1), Len(t.data[i]))
        /\ t.unsent = Stretch(Minus(t.una, Plus(t.isn, 1)) + FlightSize(t.data),
                              g - Minus(t.una, Plus(t.isn, 1)) - FlightSize(t.data))
        /\ Minus(t.next, t.una) = FlightSize(t.data)
        /\ NotAfter(t.una, p.rnext) /\ NotAfter(p.rnext, t.next)
    BY <2>1, <2>2, KeepsUnacked
  <2>4. QED
    BY <2>3 DEF t, p, f, g
<1>3. QED
  BY <1>1, <1>2 DEF SenderKeepsUnacked

\* Whatever the network loses, repeats or reorders within MaxFaults, however the
\* timers fire and the applications write, read and close: each byte that an
\* application has given to send() and the peer has not acknowledged is in
\* _snd.data or _snd.unsent, in order and at the place that its sequence number
\* says; _snd.next - _snd.unacknowledged is what is in flight; and nothing is
\* acknowledged that the peer has not taken.
THEOREM SenderKeepsUnackedHolds == Spec => []SenderKeepsUnacked
<1>1. Init => IInv
  BY InitEstablishes
<1>2. IInv /\ [Next]_vars => IInv'
  BY NextPreserves
<1>3. IInv => SenderKeepsUnacked
  BY IInvKeepsUnacked
<1>4. QED
  BY <1>1, <1>2, <1>3, PTL DEF Spec

===============================================================================
