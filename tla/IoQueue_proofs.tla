---------------------------- MODULE IoQueue_proofs ----------------------------
(***************************************************************************)
(* Proofs about the requests of a disk, IoQueue, for any requests, classes *)
(* and limits, and whatever part of a batch the kernel takes: a request    *)
(* that waits is in one place, and what it takes is given back.            *)
(***************************************************************************)
EXTENDS IoQueue, DataFacts

(* What the operations on sequences do to how often an element is in one. *)

\* A number of times, that of no place, and that of the element of one place.
LEMMA TimesType ==
  ASSUME NEW S, NEW s \in Seq(S), NEW r
  PROVE  /\ DOMAIN s = 1..Len(s) /\ Len(s) \in Nat
         /\ IsFiniteSet({i \in DOMAIN s : s[i] = r})
         /\ Times(r, s) \in Nat
         /\ Times(r, s) = 0 <=> r \notin ToSet(s)
         /\ \A i \in 1..Len(s) : s[i] = r => Times(r, s) > 0
<1> DEFINE A == {i \in DOMAIN s : s[i] = r}
<1>1. DOMAIN s = 1..Len(s) /\ Len(s) \in Nat
  BY LenProperties
<1>2. IsFiniteSet(A)
  <2>1. A \in SUBSET (1..Len(s)) /\ IsFiniteSet(1..Len(s))
    BY <1>1, FS_Interval
  <2>2. QED
    BY <2>1, FS_Subset
<1>3. Cardinality(A) \in Nat /\ (Cardinality(A) = 0 <=> A = {})
  BY <1>2, FS_CardinalityType, FS_EmptySet
<1>4. A = {} <=> r \notin ToSet(s)
  BY DEF ToSet
<1>5. \A i \in 1..Len(s) : s[i] = r => A # {}
  BY <1>1
<1> HIDE DEF A
<1>6. Times(r, s) = Cardinality(A)
  BY DEF Times, A
<1>7. Times(r, s) \in Nat /\ (Times(r, s) = 0 <=> r \notin ToSet(s))
  BY <1>3, <1>4, <1>6
<1>8. \A i \in 1..Len(s) : s[i] = r => Times(r, s) > 0
  BY <1>3, <1>5, <1>6
<1>9. QED
  BY <1>1, <1>2, <1>7, <1>8 DEF A

\* What is in no place of a sequence is there no time.
LEMMA TimesOfEmpty == \A r : Times(r, <<>>) = 0
<1>1. \A r : {i \in DOMAIN <<>> : <<>>[i] = r} = {}
  OBVIOUS
<1>2. QED
  BY <1>1, FS_EmptySet DEF Times

\* One sequence after another.
LEMMA TimesOfConcat ==
  ASSUME NEW S, NEW s \in Seq(S), NEW t \in Seq(S), NEW r
  PROVE  Times(r, s \o t) = Times(r, s) + Times(r, t)
<1> DEFINE c == s \o t
           M == Len(s)
           N == Len(t)
           A == {i \in DOMAIN s : s[i] = r}
           B == {i \in DOMAIN t : t[i] = r}
           C == {i \in DOMAIN c : c[i] = r}
           D == {M + i : i \in B}
           f == [i \in B |-> M + i]
<1>1. M \in Nat /\ N \in Nat /\ DOMAIN s = 1..M /\ DOMAIN t = 1..N
  BY LenProperties
<1>2. /\ c \in Seq(S) /\ Len(c) = M + N
      /\ \A i \in 1..(M + N) : c[i] = IF i <= M THEN s[i] ELSE t[i - M]
  BY ConcatProperties
<1>3. DOMAIN c = 1..(M + N)
  BY <1>2, LenProperties
<1>4. IsFiniteSet(A) /\ IsFiniteSet(B)
  BY TimesType
<1> HIDE DEF c, M, N
<1>5. C = A \cup D
  <2>1. \A i \in A : i \in C
    BY <1>1, <1>2, <1>3
  <2>2. \A i \in B : M + i \in C
    <3> TAKE i \in B
    <3>1. i \in 1..N /\ t[i] = r
      BY <1>1
    <3>2. M + i \in 1..(M + N) /\ ~ (M + i <= M) /\ (M + i) - M = i
      BY <1>1, <3>1
    <3>3. QED
      BY <1>2, <1>3, <3>1, <3>2
  <2>3. ASSUME NEW i \in C PROVE i \in A \/ i \in D
    <3>1. i \in 1..(M + N) /\ c[i] = r
      BY <1>3
    <3>2. CASE i <= M
      BY <1>1, <1>2, <3>1, <3>2
    <3>3. CASE ~ (i <= M)
      <4>1. i - M \in 1..N /\ M + (i - M) = i
        BY <1>1, <3>1, <3>3
      <4>2. t[i - M] = r
        BY <1>2, <3>1, <3>3
      <4>3. QED
        BY <1>1, <4>1, <4>2
    <3>4. QED
      BY <3>2, <3>3
  <2>4. QED
    BY <2>1, <2>2, <2>3
<1>6. A \cap D = {}
  BY <1>1
<1>7. f \in Bijection(B, D)
  <2>1. \A i, j \in B : M + i = M + j => i = j
    BY <1>1
  <2>2. f \in [B -> D] /\ \A i \in B : f[i] = M + i
    OBVIOUS
  <2>3. \A d \in D : \E i \in B : d = M + i
    OBVIOUS
  <2> HIDE DEF B, D, f
  <2>4. QED
    BY <2>1, <2>2, <2>3 DEF Bijection, Injection, Surjection, IsInjective
<1>8. IsFiniteSet(D) /\ Cardinality(D) = Cardinality(B)
  BY <1>4, <1>7, FS_Bijection DEF ExistsBijection
<1> HIDE DEF A, B, C, D
<1>9. Cardinality(C) = Cardinality(A) + Cardinality(D) - Cardinality(A \cap D)
  BY <1>4, <1>5, <1>8, FS_Union
<1>10. Cardinality(A) \in Nat /\ Cardinality(B) \in Nat /\ Cardinality(A \cap D) = 0
  BY <1>4, <1>6, FS_CardinalityType, FS_EmptySet
<1>11. Times(r, c) = Cardinality(C) /\ Times(r, s) = Cardinality(A) /\ Times(r, t) = Cardinality(B)
  BY DEF Times, A, B, C
<1>12. Times(r, c) = Times(r, s) + Times(r, t)
  BY <1>8, <1>9, <1>10, <1>11
<1>13. QED
  BY <1>12 DEF c

\* push_back()
LEMMA TimesOfAppend ==
  ASSUME NEW S, NEW s \in Seq(S), NEW e \in S, NEW r
  PROVE  Times(r, Append(s, e)) = Times(r, s) + (IF r = e THEN 1 ELSE 0)
<1>1. <<e>> \in Seq(S) /\ Append(s, e) = s \o <<e>>
  BY AppendIsConcat
<1>2. {i \in DOMAIN <<e>> : <<e>>[i] = r} = IF r = e THEN {1} ELSE {}
  OBVIOUS
<1>3. Cardinality({1}) = 1 /\ Cardinality({}) = 0
  BY FS_Singleton, FS_EmptySet
<1>4. Times(r, <<e>>) = IF r = e THEN 1 ELSE 0
  BY <1>2, <1>3 DEF Times
<1>5. QED
  BY <1>1, <1>4, TimesOfConcat

\* A sequence cut in two.
LEMMA TimesOfParts ==
  ASSUME NEW S, NEW s \in Seq(S), NEW n \in 0..Len(s), NEW r
  PROVE  Times(r, s) = Times(r, SubSeq(s, 1, n)) + Times(r, SubSeq(s, n + 1, Len(s)))
<1>1. Len(s) \in Nat
  BY LenProperties
<1>2. 1 \in 1..Len(s) + 1 /\ n \in 1-1..Len(s) /\ Len(s) \in n..Len(s)
  BY <1>1
<1>3. SubSeq(s, 1, n) \o SubSeq(s, n + 1, Len(s)) = SubSeq(s, 1, Len(s))
  BY <1>2, ConcatAdjacentSubSeq
<1>4. SubSeq(s, 1, Len(s)) = s
  BY SubSeqFull
<1>5. SubSeq(s, 1, n) \in Seq(S) /\ SubSeq(s, n + 1, Len(s)) \in Seq(S)
  BY ToSetOfParts
<1> DEFINE p == SubSeq(s, 1, n)
           q == SubSeq(s, n + 1, Len(s))
<1>6. Times(r, p \o q) = Times(r, p) + Times(r, q)
  <2> HIDE DEF p, q
  <2>1. p \in Seq(S) /\ q \in Seq(S)
    BY <1>5 DEF p, q
  <2>2. QED
    BY <2>1, TimesOfConcat
<1>7. p \o q = s
  BY <1>3, <1>4
<1> HIDE DEF p, q
<1>8. Times(r, s) = Times(r, p) + Times(r, q)
  BY <1>6, <1>7
<1>9. QED
  BY <1>8 DEF p, q

\* front() and pop_front()
LEMMA TimesOfTail ==
  ASSUME NEW S, NEW s \in Seq(S), s # <<>>, NEW r
  PROVE  /\ Tail(s) \in Seq(S) /\ Head(s) \in S
         /\ Times(r, s) = (IF r = Head(s) THEN 1 ELSE 0) + Times(r, Tail(s))
<1>1. Tail(s) \in Seq(S) /\ Head(s) \in S
  BY ToSetOfTail
<1>2. s = <<Head(s)>> \o Tail(s)
  BY HeadTailProperties, EmptySeq
<1>3. <<Head(s)>> \in Seq(S)
  BY <1>1
<1>4. Times(r, s) = Times(r, <<Head(s)>>) + Times(r, Tail(s))
  BY <1>1, <1>2, <1>3, TimesOfConcat
<1>5. {i \in DOMAIN <<Head(s)>> : <<Head(s)>>[i] = r} = IF r = Head(s) THEN {1} ELSE {}
  OBVIOUS
<1>6. Cardinality({1}) = 1 /\ Cardinality({}) = 0
  BY FS_Singleton, FS_EmptySet
<1>7. Times(r, <<Head(s)>>) = IF r = Head(s) THEN 1 ELSE 0
  BY <1>5, <1>6 DEF Times
<1>8. QED
  BY <1>1, <1>4, <1>7

-----------------------------------------------------------------------------
(* The same in several sequences, the batches. *)

LEMMA TimesInAllType ==
  ASSUME NEW S, NEW ss \in Seq(Seq(S)), NEW r
  PROVE  /\ DOMAIN ss = 1..Len(ss) /\ Len(ss) \in Nat /\ IsFiniteSet(DOMAIN ss)
         /\ \A i \in DOMAIN ss : ss[i] \in Seq(S) /\ Times(r, ss[i]) \in Nat
         /\ TimesInAll(r, ss) \in Nat
<1>1. DOMAIN ss = 1..Len(ss) /\ Len(ss) \in Nat /\ \A i \in DOMAIN ss : ss[i] \in Seq(S)
  BY LenProperties, ElementOfSeq
<1>2. \A i \in DOMAIN ss : Times(r, ss[i]) \in Nat
  BY <1>1, TimesType
<1>3. IsFiniteSet(DOMAIN ss)
  BY <1>1, FS_Interval
<1> DEFINE w == [i \in DOMAIN ss |-> Times(r, ss[i])]
<1>4. \A i \in DOMAIN ss : w[i] \in Nat
  BY <1>2
<1> HIDE DEF w
<1>5. Total(DOMAIN ss, w) \in Nat
  BY <1>3, <1>4, TotalType
<1>6. QED
  BY <1>1, <1>2, <1>3, <1>5 DEF TimesInAll, w

\* No batch at all.
LEMMA TimesInAllOfEmpty == \A r : TimesInAll(r, <<>>) = 0
<1>1. DOMAIN <<>> = {}
  OBVIOUS
<1>2. QED
  BY <1>1, TotalOfEmpty DEF TimesInAll

\* A batch behind the others.
LEMMA TimesInAllOfAppend ==
  ASSUME NEW S, NEW ss \in Seq(Seq(S)), NEW s \in Seq(S), NEW r
  PROVE  TimesInAll(r, Append(ss, s)) = TimesInAll(r, ss) + Times(r, s)
<1> DEFINE t == Append(ss, s)
           n == Len(ss)
           w == [i \in DOMAIN ss |-> Times(r, ss[i])]
           v == [i \in DOMAIN t |-> Times(r, t[i])]
<1>1. n \in Nat /\ DOMAIN ss = 1..n /\ IsFiniteSet(1..n)
  BY TimesInAllType, FS_Interval
<1>2. /\ t \in Seq(Seq(S)) /\ Len(t) = n + 1
      /\ \A i \in 1..n : t[i] = ss[i]
      /\ t[n + 1] = s
  BY AppendProperties
<1>3. DOMAIN t = 1..(n + 1) /\ \A i \in DOMAIN t : Times(r, t[i]) \in Nat
  BY <1>2, TimesInAllType
<1> HIDE DEF t, n
<1>4. /\ \A i \in 1..(n + 1) : v[i] \in Nat
      /\ \A i \in 1..n : v[i] = w[i]
      /\ v[n + 1] = Times(r, s)
  <2>1. /\ \A i \in 1..(n + 1) : v[i] = Times(r, t[i]) /\ Times(r, t[i]) \in Nat
        /\ \A i \in 1..n : w[i] = Times(r, ss[i])
    BY <1>1, <1>3
  <2> HIDE DEF v, w
  <2>2. n + 1 \in 1..(n + 1) /\ \A i \in 1..n : i \in 1..(n + 1)
    BY <1>1
  <2>3. QED
    BY <1>2, <2>1, <2>2
<1> HIDE DEF v, w
<1>5. 1..(n + 1) = (1..n) \cup {n + 1} /\ n + 1 \notin 1..n
  BY <1>1
<1>6. PICK m : m = n + 1
  OBVIOUS
<1>7. Total((1..n) \cup {m}, v) = Total(1..n, v) + v[m]
  BY <1>1, <1>4, <1>5, <1>6, TotalOfAdded
<1>8. Total(1..n, v) = Total(1..n, w)
  BY <1>4, TotalOfEqual
<1>9. Total(1..(n + 1), v) = Total(1..n, w) + Times(r, s)
  BY <1>4, <1>5, <1>6, <1>7, <1>8
<1>10. TimesInAll(r, t) = TimesInAll(r, ss) + Times(r, s)
  BY <1>1, <1>3, <1>9 DEF TimesInAll, v, w
<1>11. QED
  BY <1>10 DEF t

\* The first batch is taken.
LEMMA TimesInAllOfTail ==
  ASSUME NEW S, NEW ss \in Seq(Seq(S)), ss # <<>>, NEW r
  PROVE  /\ Head(ss) \in Seq(S) /\ Tail(ss) \in Seq(Seq(S))
         /\ TimesInAll(r, ss) = Times(r, Head(ss)) + TimesInAll(r, Tail(ss))
<1> DEFINE t == Tail(ss)
           n == Len(ss)
           w == [i \in DOMAIN ss |-> Times(r, ss[i])]
           v == [i \in DOMAIN t |-> Times(r, t[i])]
           b == [i \in 1..(n - 1) |-> i + 1]
<1>1. /\ n \in Nat /\ n > 0 /\ DOMAIN ss = 1..n /\ IsFiniteSet(1..(n - 1)) /\ IsFiniteSet(2..n)
      /\ \A i \in DOMAIN ss : Times(r, ss[i]) \in Nat
  <2>1. n \in Nat /\ DOMAIN ss = 1..n /\ \A i \in DOMAIN ss : Times(r, ss[i]) \in Nat
    BY TimesInAllType
  <2>2. n > 0
    BY <2>1, EmptySeq
  <2> HIDE DEF n
  <2>3. IsFiniteSet(1..(n - 1)) /\ IsFiniteSet(2..n)
    BY <2>1, FS_Interval
  <2>4. QED
    BY <2>1, <2>2, <2>3
<1>2. /\ t \in Seq(Seq(S)) /\ Len(t) = n - 1 /\ Head(ss) = ss[1] /\ Head(ss) \in Seq(S)
      /\ \A i \in 1..(n - 1) : t[i] = ss[i + 1]
  BY HeadTailProperties, EmptySeq
<1>3. DOMAIN t = 1..(n - 1) /\ \A i \in DOMAIN t : Times(r, t[i]) \in Nat
  BY <1>2, TimesInAllType
<1> HIDE DEF t, n
<1>4. /\ \A i \in 1..(n - 1) : v[i] \in Nat /\ w[i + 1] = v[i]
      /\ \A i \in 1..n : w[i] \in Nat
      /\ w[1] = Times(r, Head(ss))
  <2>1. /\ \A i \in 1..(n - 1) : v[i] = Times(r, t[i]) /\ Times(r, t[i]) \in Nat
        /\ \A i \in 1..n : w[i] = Times(r, ss[i]) /\ Times(r, ss[i]) \in Nat
    BY <1>1, <1>3
  <2> HIDE DEF v, w
  <2>2. 1 \in 1..n /\ \A i \in 1..(n - 1) : i + 1 \in 1..n
    BY <1>1
  <2>3. QED
    BY <1>2, <2>1, <2>2
<1>5. b \in Bijection(1..(n - 1), 2..n) /\ \A i \in 1..(n - 1) : b[i] = i + 1
  <2>1. \A i \in 1..(n - 1) : b[i] = i + 1 /\ b[i] \in 2..n
    BY <1>1
  <2>2. b \in [1..(n - 1) -> 2..n] /\ \A i, j \in 1..(n - 1) : b[i] = b[j] => i = j
    BY <1>1, <2>1
  <2>3. ASSUME NEW j \in 2..n PROVE \E i \in 1..(n - 1) : b[i] = j
    <3>1. j - 1 \in 1..(n - 1) /\ (j - 1) + 1 = j
      BY <1>1
    <3>2. QED
      BY <2>1, <3>1
  <2> HIDE DEF b
  <2>4. QED
    BY <2>1, <2>2, <2>3 DEF Bijection, Injection, Surjection, IsInjective
<1> HIDE DEF v, w, b
<1>6. Total(2..n, w) = Total(1..(n - 1), v)
  <2>1. (\A i \in 1..(n - 1) : v[i] \in Nat) /\ (\A i \in 1..(n - 1) : w[b[i]] = v[i])
    BY <1>4, <1>5
  <2>2. IsFiniteSet(1..(n - 1)) /\ b \in Bijection(1..(n - 1), 2..n)
    BY <1>1, <1>5
  <2> DEFINE A == 1..(n - 1)
             B == 2..n
  <2> HIDE DEF A, B
  <2>3. /\ IsFiniteSet(A) /\ b \in Bijection(A, B)
        /\ \A i \in A : v[i] \in Nat
        /\ \A i \in A : w[b[i]] = v[i]
    BY <2>1, <2>2 DEF A, B
  <2>4. Total(B, w) = Total(A, v)
    BY <2>3, TotalOfRenamed
  <2>5. QED
    BY <2>4 DEF A, B
<1>7. 1..n = (2..n) \cup {1} /\ 1 \notin 2..n /\ IsFiniteSet(2..n)
      /\ \A i \in 2..n : i \in 1..n
  BY <1>1
<1>8. PICK one : one = 1
  OBVIOUS
<1>9. Total((2..n) \cup {one}, w) = Total(2..n, w) + w[one]
  <2>1. IsFiniteSet(2..n) /\ one \notin 2..n /\ \A i \in (2..n) \cup {one} : w[i] \in Nat
    BY <1>1, <1>4, <1>7, <1>8
  <2> DEFINE B == 2..n
  <2> HIDE DEF B
  <2>2. IsFiniteSet(B) /\ one \notin B /\ \A i \in B \cup {one} : w[i] \in Nat
    BY <2>1 DEF B
  <2>3. Total(B \cup {one}, w) = Total(B, w) + w[one]
    BY <2>2, TotalOfAdded
  <2>4. QED
    BY <2>3 DEF B
<1>10. Total(2..n, w) \in Nat /\ w[1] \in Nat
  <2>1. (\A i \in 2..n : w[i] \in Nat) /\ w[1] \in Nat
    BY <1>1, <1>4, <1>7
  <2>2. QED
    BY <1>7, <2>1, TotalType
<1>11. Total(1..n, w) = Times(r, Head(ss)) + Total(1..(n - 1), v)
  <2>1. Total(1..n, w) = Total(2..n, w) + w[1]
    BY <1>7, <1>8, <1>9
  <2>2. QED
    BY <1>4, <1>6, <1>10, <2>1
<1>12. TimesInAll(r, ss) = Times(r, Head(ss)) + TimesInAll(r, t)
  BY <1>1, <1>3, <1>11 DEF TimesInAll, v, w
<1>13. QED
  BY <1>2, <1>12 DEF t

\* What is left of the examined batches.
RestsOf(bs) == [i \in DOMAIN bs |-> Rest(bs[i])]

Examined == [iocbs : Seq(Requests), result : Result]

LEMMA RestsOfSubmitted ==
  ASSUME NEW bs \in Seq(Examined), \A i \in 1..Len(bs) : bs[i].result.taken <= Len(bs[i].iocbs)
  PROVE  /\ RestsOf(bs) \in Seq(Seq(Requests)) /\ Len(RestsOf(bs)) = Len(bs)
         /\ \A b \in Examined : b.result.taken <= Len(b.iocbs)
              => /\ Rest(b) \in Seq(Requests)
                 /\ RestsOf(Append(bs, b)) = Append(RestsOf(bs), Rest(b))
         /\ bs # <<>> => /\ RestsOf(bs) # <<>>
                         /\ Head(RestsOf(bs)) = Rest(Head(bs))
                         /\ RestsOf(Tail(bs)) = Tail(RestsOf(bs))
<1> DEFINE n == Len(bs)
           rs == RestsOf(bs)
<1>1. n \in Nat /\ DOMAIN bs = 1..n /\ \A i \in 1..n : bs[i] \in Examined
  BY LenProperties, ElementOfSeq
<1>2. ASSUME NEW b \in Examined, b.result.taken <= Len(b.iocbs) PROVE Rest(b) \in Seq(Requests)
  <2>1. b.iocbs \in Seq(Requests) /\ b.result.taken \in Nat /\ Len(b.iocbs) \in Nat
    BY LenProperties DEF Examined, Result
  <2>2. PICK k \in 0..Len(b.iocbs) : k = b.result.taken
    BY <1>2, <2>1
  <2>3. SubSeq(b.iocbs, k + 1, Len(b.iocbs)) \in Seq(Requests)
    BY <2>1, ToSetOfParts
  <2>4. QED
    BY <2>2, <2>3 DEF Rest
<1>3. \A i \in 1..n : Rest(bs[i]) \in Seq(Requests)
  BY <1>1, <1>2
<1>4. rs \in Seq(Seq(Requests)) /\ Len(rs) = n /\ \A i \in 1..n : rs[i] = Rest(bs[i])
  BY <1>1, <1>3 DEF RestsOf
<1> HIDE DEF n, rs
<1>5. ASSUME NEW b \in Examined, b.result.taken <= Len(b.iocbs)
      PROVE  RestsOf(Append(bs, b)) = Append(rs, Rest(b))
  <2> DEFINE cs == Append(bs, b)
             us == Append(rs, Rest(b))
  <2>1. /\ cs \in Seq(Examined) /\ Len(cs) = n + 1 /\ cs[n + 1] = b
        /\ \A i \in 1..n : cs[i] = bs[i]
    BY AppendProperties DEF n
  <2>2. Rest(b) \in Seq(Requests)
    BY <1>2, <1>5
  <2>3. /\ us \in Seq(Seq(Requests)) /\ Len(us) = n + 1 /\ us[n + 1] = Rest(b)
        /\ \A i \in 1..n : us[i] = rs[i]
    BY <1>4, <2>2, AppendProperties
  <2>4. DOMAIN cs = 1..(n + 1) /\ DOMAIN us = 1..(n + 1)
    BY <2>1, <2>3, LenProperties
  <2> HIDE DEF cs, us
  <2>5. \A i \in 1..(n + 1) : us[i] = Rest(cs[i])
    <3> TAKE i \in 1..(n + 1)
    <3>1. i \in 1..n \/ i = n + 1
      BY <1>1
    <3>2. QED
      BY <1>4, <2>1, <2>3, <3>1
  <2>6. us = [i \in DOMAIN us |-> us[i]]
    BY <2>3, LenProperties
  <2>7. RestsOf(cs) = us
    BY <2>4, <2>5, <2>6 DEF RestsOf
  <2>8. QED
    BY <2>7 DEF cs, us
<1>6. ASSUME bs # <<>>
      PROVE  rs # <<>> /\ Head(rs) = Rest(Head(bs)) /\ RestsOf(Tail(bs)) = Tail(rs)
  <2> DEFINE cs == Tail(bs)
             us == Tail(rs)
  <2>1. n > 0 /\ n \in Nat
    BY <1>1, <1>6, EmptySeq DEF n
  <2>2. rs # <<>>
    BY <1>4, <2>1, EmptySeq
  <2>3. /\ cs \in Seq(Examined) /\ Len(cs) = n - 1 /\ Head(bs) = bs[1]
        /\ \A i \in 1..(n - 1) : cs[i] = bs[i + 1]
    BY <1>6, HeadTailProperties DEF n
  <2>4. /\ us \in Seq(Seq(Requests)) /\ Len(us) = n - 1 /\ Head(rs) = rs[1]
        /\ \A i \in 1..(n - 1) : us[i] = rs[i + 1]
    BY <1>4, <2>2, HeadTailProperties
  <2>5. DOMAIN cs = 1..(n - 1) /\ DOMAIN us = 1..(n - 1)
    BY <2>3, <2>4, LenProperties
  <2> HIDE DEF cs, us
  <2>6. \A i \in 1..(n - 1) : us[i] = Rest(cs[i])
    <3>1. \A i \in 1..(n - 1) : i + 1 \in 1..n
      BY <2>1
    <3>2. QED
      BY <1>4, <2>3, <2>4, <3>1
  <2>7. us = [i \in DOMAIN us |-> us[i]]
    BY <2>4, LenProperties
  <2>8. RestsOf(cs) = us
    BY <2>5, <2>6, <2>7 DEF RestsOf
  <2>9. Head(rs) = Rest(Head(bs))
    BY <1>4, <2>1, <2>3, <2>4
  <2>10. QED
    BY <2>2, <2>8, <2>9 DEF cs, us
<1>7. QED
  BY <1>2, <1>4, <1>5, <1>6 DEF n, rs

-----------------------------------------------------------------------------
(* The events of process_io(). *)

\* A set of places, in their order, has each of them once.
LEMMA InOrderIsBijection ==
  ASSUME NEW n \in Nat, NEW N \in SUBSET (1..n)
  PROVE  /\ Cardinality(N) \in Nat
         /\ InOrder(N) \in Bijection(1..Cardinality(N), N)
<1> DEFINE Upto(i) == {j \in N : j <= i}
           c == Cardinality(N)
           rank == [i \in N |-> Cardinality(Upto(i))]
<1>1. IsFiniteSet(N) /\ c \in Nat
  <2>1. IsFiniteSet(1..n)
    BY FS_Interval
  <2>2. IsFiniteSet(N)
    BY <2>1, FS_Subset
  <2>3. QED
    BY <2>2, FS_CardinalityType
<1>2. ASSUME NEW i \in N PROVE rank[i] \in 1..c
  <2>1. Upto(i) \in SUBSET N /\ i \in Upto(i)
    OBVIOUS
  <2> HIDE DEF Upto
  <2>2. IsFiniteSet(Upto(i)) /\ Cardinality(Upto(i)) <= c
    BY <1>1, <2>1, FS_Subset
  <2>3. Cardinality(Upto(i)) \in Nat /\ Cardinality(Upto(i)) # 0
    BY <2>1, <2>2, FS_CardinalityType, FS_EmptySet
  <2>4. QED
    BY <1>1, <2>2, <2>3
<1>3. ASSUME NEW i \in N, NEW k \in N, i < k PROVE rank[i] < rank[k]
  <2>1. Upto(i) \in SUBSET Upto(k) /\ k \in Upto(k) /\ k \notin Upto(i) /\ Upto(k) \in SUBSET N
    <3>1. i \in Nat /\ k \in Nat /\ \A j \in N : j \in Nat
      OBVIOUS
    <3>2. \A j \in N : j <= i => j <= k
      BY <1>3, <3>1
    <3>3. ~ (k <= i) /\ k <= k
      BY <1>3, <3>1
    <3>4. QED
      BY <3>2, <3>3
  <2> HIDE DEF Upto
  <2>2. IsFiniteSet(Upto(k)) /\ Upto(i) # Upto(k)
    BY <1>1, <2>1, FS_Subset
  <2>3. Cardinality(Upto(i)) <= Cardinality(Upto(k)) /\ Cardinality(Upto(i)) # Cardinality(Upto(k))
        /\ IsFiniteSet(Upto(i))
    BY <2>1, <2>2, FS_Subset
  <2>4. Cardinality(Upto(i)) \in Nat /\ Cardinality(Upto(k)) \in Nat
    BY <2>2, <2>3, FS_CardinalityType
  <2>5. QED
    BY <2>3, <2>4
<1>4. rank \in Injection(N, 1..c)
  <2>1. ASSUME NEW i \in N, NEW k \in N, rank[i] = rank[k] PROVE i = k
    <3>1. rank[i] \in 1..c /\ rank[k] \in 1..c /\ c \in Nat
      BY <1>1, <1>2
    <3>2. ~ (i < k) /\ ~ (k < i)
      BY <1>3, <2>1, <3>1
    <3>3. QED
      BY <3>2
  <2>2. rank \in [N -> 1..c]
    BY <1>2
  <2> HIDE DEF rank
  <2>3. QED
    BY <2>1, <2>2 DEF Injection, IsInjective
<1> HIDE DEF c
<1>5. IsFiniteSet(1..c) /\ Cardinality(1..c) = c
  BY <1>1, FS_Interval
<1>6. rank \in Surjection(N, 1..c)
  <2>1. Cardinality(N) = Cardinality(1..c)
    BY <1>5 DEF c
  <2> HIDE DEF rank
  <2> DEFINE T == 1..c
  <2> HIDE DEF T
  <2>2. IsFiniteSet(T) /\ rank \in Injection(N, T) /\ Cardinality(N) = Cardinality(T)
    BY <1>4, <1>5, <2>1 DEF T
  <2>3. rank \in Surjection(N, T)
    BY <2>2, FS_Injection
  <2>4. QED
    BY <2>3 DEF T
<1>7. \A k \in 1..c : \E i \in N : rank[i] = k
  BY <1>6 DEF Surjection
<1>8. \A i, k \in N : rank[i] = rank[k] => i = k
  BY <1>4 DEF Injection, IsInjective
<1> DEFINE b == InOrder(N)
<1>9. \A k \in 1..c : b[k] \in N /\ rank[b[k]] = k
  <2> TAKE k \in 1..c
  <2>1. b[k] = CHOOSE i \in N : Cardinality({j \in N : j <= i}) = k
    BY DEF InOrder, c
  <2>2. PICK i \in N : rank[i] = k
    BY <1>7
  <2>3. Cardinality({j \in N : j <= i}) = k
    BY <2>2
  <2>4. b[k] \in N /\ Cardinality({j \in N : j <= b[k]}) = k
    BY <2>1, <2>3
  <2>5. QED
    BY <2>4
<1>10. DOMAIN b = 1..c /\ b = [k \in 1..c |-> b[k]]
  BY DEF InOrder, c
<1>11. \A i \in N : rank[i] \in 1..c
  BY <1>2
<1> HIDE DEF b, rank
<1>12. \A i \in N : b[rank[i]] = i
  BY <1>8, <1>9, <1>11
<1>13. b \in Bijection(1..c, N)
  <2>1. b \in [1..c -> N]
    BY <1>9, <1>10
  <2>2. \A k, l \in 1..c : b[k] = b[l] => k = l
    BY <1>9
  <2>3. QED
    BY <1>11, <1>12, <2>1, <2>2 DEF Bijection, Injection, Surjection, IsInjective
<1>14. QED
  BY <1>1, <1>13 DEF b, c

Event == [request : Requests, res : {"EAGAIN", "done"}]

\* The requests of the events with one result, each as often as it has one.
LEMMA TimesOfEventsWith ==
  ASSUME events \in Seq(Event), NEW res, NEW r
  PROVE  /\ RequestsWith(res) \in Seq(Requests)
         /\ IsFiniteSet({i \in 1..Len(events) : events[i].res = res /\ events[i].request = r})
         /\ Times(r, RequestsWith(res))
              = Cardinality({i \in 1..Len(events) : events[i].res = res /\ events[i].request = r})
<1> DEFINE n == Len(events)
           N == {i \in DOMAIN events : events[i].res = res}
           b == InOrder(N)
           c == Cardinality(N)
           q == RequestsWith(res)
           K == {k \in DOMAIN q : q[k] = r}
           E == {i \in 1..n : events[i].res = res /\ events[i].request = r}
           f == [k \in K |-> b[k]]
<1>1. /\ n \in Nat /\ DOMAIN events = 1..n /\ N \in SUBSET (1..n)
      /\ \A i \in 1..n : events[i] \in Event
  BY LenProperties, ElementOfSeq
<1>2. c \in Nat /\ b \in Bijection(1..c, N)
  <2> HIDE DEF N, n
  <2>1. QED
    BY <1>1, InOrderIsBijection
<1>3. /\ b \in [1..c -> N] /\ DOMAIN b = 1..c
      /\ \A k, l \in 1..c : b[k] = b[l] => k = l
      /\ \A i \in N : \E k \in 1..c : b[k] = i
  BY <1>2 DEF Bijection, Injection, Surjection, IsInjective
<1>4. q = [k \in 1..c |-> events[b[k]].request]
  BY <1>3 DEF RequestsWith
<1>5. \A k \in 1..c : b[k] \in 1..n /\ events[b[k]].request \in Requests
  BY <1>1, <1>3 DEF Event
<1> HIDE DEF q, b, c
<1>6. q \in Seq(Requests) /\ DOMAIN q = 1..c
  BY <1>2, <1>4, <1>5
<1>7. IsFiniteSet(E)
  <2>1. E \in SUBSET (1..n) /\ IsFiniteSet(1..n)
    BY <1>1, FS_Interval
  <2>2. QED
    BY <2>1, FS_Subset
<1>8. f \in Bijection(K, E)
  <2>1. \A k \in K : k \in 1..c /\ events[b[k]].request = r
    BY <1>4, <1>6
  <2>2. \A k \in K : b[k] \in E
    BY <1>3, <1>5, <2>1
  <2>3. ASSUME NEW i \in E PROVE \E k \in K : b[k] = i
    <3>1. i \in N /\ events[i].request = r
      BY <1>1
    <3>2. PICK k \in 1..c : b[k] = i
      BY <1>3, <3>1
    <3>3. q[k] = r
      BY <1>4, <3>1, <3>2
    <3>4. QED
      BY <1>6, <3>2, <3>3
  <2>4. \A k, l \in K : b[k] = b[l] => k = l
    BY <1>3, <2>1
  <2>5. f \in [K -> E] /\ \A k \in K : f[k] = b[k]
    BY <2>2
  <2> HIDE DEF f, K, E
  <2>6. QED
    BY <2>3, <2>4, <2>5 DEF Bijection, Injection, Surjection, IsInjective
<1>9. K \in SUBSET (1..c) /\ IsFiniteSet(1..c)
  BY <1>2, <1>6, FS_Interval
<1> HIDE DEF f, E, K
<1>10. Cardinality(K) = Cardinality(E)
  BY <1>8, <1>9, FS_Subset, FS_Bijection DEF ExistsBijection
<1>11. Times(r, q) = Cardinality(E)
  BY <1>10 DEF Times, K
<1>12. QED
  BY <1>6, <1>7, <1>11 DEF q, E

\* Every event has one result or the other.
LEMMA EventsSplit ==
  ASSUME events \in Seq(Event), NEW r
  PROVE  Times(r, [i \in DOMAIN events |-> events[i].request])
           = Times(r, RequestsWith("EAGAIN")) + Times(r, RequestsWith("done"))
<1> DEFINE n == Len(events)
           q == [i \in DOMAIN events |-> events[i].request]
           A == {i \in 1..n : events[i].res = "EAGAIN" /\ events[i].request = r}
           B == {i \in 1..n : events[i].res = "done" /\ events[i].request = r}
           C == {i \in DOMAIN q : q[i] = r}
<1>1. n \in Nat /\ DOMAIN events = 1..n /\ \A i \in 1..n : events[i].res \in {"EAGAIN", "done"}
  <2>1. n \in Nat /\ DOMAIN events = 1..n /\ \A i \in 1..n : events[i] \in Event
    BY LenProperties, ElementOfSeq
  <2>2. \A e \in Event : e.res \in {"EAGAIN", "done"}
    BY DEF Event
  <2>3. QED
    BY <2>1, <2>2
<1>2. C = A \cup B
  BY <1>1
<1>3. A \cap B = {}
  BY <1>1
<1>4. /\ IsFiniteSet(A) /\ IsFiniteSet(B)
      /\ Times(r, RequestsWith("EAGAIN")) = Cardinality(A)
      /\ Times(r, RequestsWith("done")) = Cardinality(B)
  <2>1. IsFiniteSet(A) /\ Times(r, RequestsWith("EAGAIN")) = Cardinality(A)
    <3>1. PICK res : res = "EAGAIN"
      OBVIOUS
    <3> DEFINE E == {i \in 1..Len(events) : events[i].res = res /\ events[i].request = r}
    <3>2. IsFiniteSet(E) /\ Times(r, RequestsWith(res)) = Cardinality(E)
      BY TimesOfEventsWith
    <3>3. E = A
      BY <3>1
    <3>4. QED
      BY <3>1, <3>2, <3>3
  <2>2. IsFiniteSet(B) /\ Times(r, RequestsWith("done")) = Cardinality(B)
    <3>1. PICK res : res = "done"
      OBVIOUS
    <3> DEFINE E == {i \in 1..Len(events) : events[i].res = res /\ events[i].request = r}
    <3>2. IsFiniteSet(E) /\ Times(r, RequestsWith(res)) = Cardinality(E)
      BY TimesOfEventsWith
    <3>3. E = B
      BY <3>1
    <3>4. QED
      BY <3>1, <3>2, <3>3
  <2>3. QED
    BY <2>1, <2>2
<1>5. Times(r, q) = Cardinality(C)
  BY DEF Times
<1> HIDE DEF A, B, C, q
<1>6. Cardinality(A \cup B) = Cardinality(A) + Cardinality(B) - Cardinality(A \cap B)
  BY <1>4, FS_Union
<1>7. Cardinality(A \cap B) = 0 /\ Cardinality(A) \in Nat /\ Cardinality(B) \in Nat
  BY <1>3, <1>4, FS_EmptySet, FS_CardinalityType
<1>8. Times(r, q) = Times(r, RequestsWith("EAGAIN")) + Times(r, RequestsWith("done"))
  BY <1>2, <1>4, <1>5, <1>6, <1>7
<1>9. QED
  BY <1>8 DEF q

\* And the event of a new result is one more.
LEMMA EventAdded ==
  ASSUME events \in Seq(Event), NEW e \in Event, NEW r
  PROVE  LET t == Append(events, e)
         IN  Times(r, [i \in DOMAIN t |-> t[i].request])
               = Times(r, [i \in DOMAIN events |-> events[i].request])
                   + (IF r = e.request THEN 1 ELSE 0)
<1> DEFINE t == Append(events, e)
           p == [i \in DOMAIN events |-> events[i].request]
           q == [i \in DOMAIN t |-> t[i].request]
           n == Len(events)
<1>1. n \in Nat /\ DOMAIN events = 1..n /\ \A i \in 1..n : events[i].request \in Requests
  <2>1. n \in Nat /\ DOMAIN events = 1..n /\ \A i \in 1..n : events[i] \in Event
    BY LenProperties, ElementOfSeq
  <2>2. \A f \in Event : f.request \in Requests
    BY DEF Event
  <2>3. QED
    BY <2>1, <2>2
<1>2. /\ t \in Seq(Event) /\ Len(t) = n + 1 /\ t[n + 1] = e
      /\ \A i \in 1..n : t[i] = events[i]
  BY AppendProperties
<1>3. DOMAIN t = 1..(n + 1) /\ e.request \in Requests
  BY <1>2, LenProperties DEF Event
<1> HIDE DEF t, n
<1>4. p \in Seq(Requests) /\ Len(p) = n /\ \A i \in 1..n : p[i] = events[i].request
  BY <1>1
<1>5. \A i \in 1..(n + 1) : q[i] = t[i].request
  BY <1>3
<1>6. q = [i \in 1..(n + 1) |-> t[i].request]
  BY <1>3
<1> HIDE DEF p, q
<1>7. \A i \in 1..(n + 1) : i \in 1..n \/ i = n + 1
  BY <1>1
<1>8. \A i \in 1..(n + 1) : q[i] \in Requests
  BY <1>1, <1>2, <1>3, <1>5, <1>7
<1>9. q \in Seq(Requests) /\ Len(q) = n + 1
  BY <1>1, <1>5, <1>6, <1>8
<1> DEFINE u == Append(p, e.request)
<1>10. /\ u \in Seq(Requests) /\ Len(u) = n + 1 /\ u[n + 1] = e.request
       /\ \A i \in 1..n : u[i] = p[i]
  BY <1>3, <1>4, AppendProperties
<1>11. \A i \in 1..(n + 1) : u[i] = q[i]
  <2> HIDE DEF u
  <2>1. QED
    BY <1>2, <1>4, <1>5, <1>7, <1>10
<1>12. q = u
  <2> HIDE DEF u
  <2>1. QED
    BY <1>9, <1>10, <1>11, SeqEqual
<1>13. Times(r, u) = Times(r, p) + (IF r = e.request THEN 1 ELSE 0)
  BY <1>3, <1>4, TimesOfAppend
<1>14. QED
  BY <1>12, <1>13 DEF q, p, t

-----------------------------------------------------------------------------
(* Numbers kept as unsigned. *)

\* A sum is kept as unsigned when its terms are added, and when they are taken
\* away again.
LEMMA UnsignedSums ==
  ASSUME NEW u \in Nat \ {0}, NEW a \in Nat, NEW b \in Nat
  PROVE  /\ ((a % u) + b) % u = (a + b) % u
         /\ (((a + b) % u) - b) % u = a % u
<1>1. ((a % u) + b) % u = (a + b) % u
  <2> DEFINE q == a \div u
             m == a % u
  <2>1. q \in Int /\ m \in 0..(u - 1) /\ a = q * u + m
    BY RemainderOf, RemainderType
  <2> HIDE DEF q, m
  <2>2. q * u \in Int /\ m \in Int
    BY <2>1
  <2>3. a + b = (m + b) + q * u
    BY <2>1, <2>2
  <2>4. (a + b) % u = (m + b) % u
    <3>1. PICK x, y \in Int : x = a + b /\ y = m + b
      BY <2>2
    <3>2. x = y + q * u
      BY <2>3, <3>1
    <3>3. x % u = y % u
      BY <2>1, <3>1, <3>2, SameRemainder
    <3>4. QED
      BY <3>1, <3>3
  <2>5. QED
    BY <2>4 DEF m
<1>2. (((a + b) % u) - b) % u = a % u
  <2> DEFINE c == a + b
             q == c \div u
             m == c % u
  <2>1. c \in Int
    OBVIOUS
  <2>2. q \in Int /\ m \in 0..(u - 1) /\ c = q * u + m
    BY <2>1, RemainderOf, RemainderType
  <2>3. c = a + b
    OBVIOUS
  <2> HIDE DEF q, m, c
  <2>4. q * u \in Int /\ m \in Int
    BY <2>2
  <2>5. a = (m - b) + q * u
    BY <2>2, <2>3, <2>4
  <2>6. a % u = (m - b) % u
    <3>1. PICK y \in Int : y = m - b
      BY <2>4
    <3>2. a = y + q * u /\ a \in Int
      BY <2>5, <3>1
    <3>3. a % u = y % u
      BY <2>2, <3>1, <3>2, SameRemainder
    <3>4. QED
      BY <3>1, <3>3
  <2>7. QED
    BY <2>6 DEF m, c
<1>3. QED
  BY <1>1, <1>2

-----------------------------------------------------------------------------
(* The inductive invariant. *)

\* What io_submit() said of the batch s: the kernel takes no request on a bad
\* descriptor, and an error is that of the first request.
Judged(s, result) ==
  /\ s # <<>> /\ result.taken <= Len(s)
  /\ \A i \in 1..result.taken : s[i] \notin BadFd
  /\ result.errno # "none" => /\ result.taken = 0
                              /\ result.errno = "EBADF" <=> s[1] \in BadFd

\* Each queue holds requests of its class, and past io_submit() there are none
\* that it refuses.
Sound ==
  /\ \A c \in Classes : \A r \in ToSet(queue[c]) : ClassOf[r] = c
  /\ <<>> \notin ToSet(batches)
  /\ \A b \in ToSet(submitted) : Judged(b.iocbs, b.result)
  /\ kernel \cap BadFd = {}
  /\ \A e \in ToSet(events) : e.request \notin BadFd

\* The limit of the weights is passed by one request at most; when they do not
\* fit in an unsigned, the limit and a request may be all it can hold.
Passed(n) == n < MaxReqCount \/ \E r \in Requests : n < MaxReqCount + Weight(r)

Peak == Passed(Unsigned - 1) \/ Passed(WeightOf(Executing))

IInv == BooksBalance /\ InFlightOnce /\ Sound /\ Peak

\* The constants, one by one.
LEMMA Constants ==
  /\ IsFiniteSet(Requests) /\ IsFiniteSet(Classes)
  /\ ClassOf \in [Requests -> Classes] /\ LengthOf \in [Requests -> Nat]
  /\ BadFd \subseteq Requests
  /\ ReadCount \in Nat \ {0} /\ WriteReqs \in Nat \ {0} /\ WriteBytes \in Nat \ {0}
  /\ Capacity \in Nat \ {0} /\ MaxReqCount \in Nat \ {0} /\ MaxBytesCount \in Nat \ {0}
  /\ MaxAio \in Nat \ {0} /\ QueueLength \in Nat \ {0} /\ Window \in Nat \ {0}
  /\ Unsigned \in Nat \ {0} /\ Capacity <= MaxAio
  /\ Shares \subseteq Nat \ {0}
BY IoQueueAssumption

LEMMA WeightsAreUnsigned ==
  \A r \in Requests : Weight(r) \in 0..(Unsigned - 1) /\ Size(r) \in 0..(Unsigned - 1)
<1> TAKE r \in Requests
<1> DEFINE n == IF r \in Writes THEN WriteReqs ELSE ReadCount
           k == IF r \in Writes THEN WriteBytes ELSE ReadCount
<1>1. n \in Nat /\ k \in Nat /\ LengthOf[r] \in Nat /\ Unsigned \in Nat \ {0}
  BY Constants
<1> HIDE DEF n, k
<1>2. n \in Int /\ k * LengthOf[r] \in Int
  BY <1>1
<1>3. n % Unsigned \in 0..(Unsigned - 1) /\ (k * LengthOf[r]) % Unsigned \in 0..(Unsigned - 1)
  BY <1>1, <1>2, RemainderType
<1>4. QED
  BY <1>3 DEF Weight, Size, n, k

\* What the requests of a set count for, of one more, and of a part of it.
LEMMA WeightsAdd ==
  ASSUME NEW R \in SUBSET Requests
  PROVE  /\ IsFiniteSet(R) /\ Cardinality(R) \in Nat
         /\ WeightOf(R) \in Nat /\ SizeOf(R) \in Nat
         /\ \A r \in Requests \ R : /\ WeightOf(R \cup {r}) = WeightOf(R) + Weight(r)
                                    /\ SizeOf(R \cup {r}) = SizeOf(R) + Size(r)
                                    /\ Cardinality(R \cup {r}) = Cardinality(R) + 1
         /\ \A D \in SUBSET R : /\ WeightOf(R) = WeightOf(R \ D) + WeightOf(D)
                                /\ SizeOf(R) = SizeOf(R \ D) + SizeOf(D)
                                /\ Cardinality(R) = Cardinality(R \ D) + Cardinality(D)
                                /\ WeightOf(R \ D) \in Nat /\ WeightOf(D) \in Nat
                                /\ SizeOf(R \ D) \in Nat /\ SizeOf(D) \in Nat
                                /\ Cardinality(R \ D) \in Nat /\ Cardinality(D) \in Nat
<1> DEFINE w == [r \in Requests |-> Weight(r)]
           z == [r \in Requests |-> Size(r)]
<1>1. /\ \A r \in Requests : w[r] \in Nat /\ w[r] = Weight(r)
      /\ \A r \in Requests : z[r] \in Nat /\ z[r] = Size(r)
  BY WeightsAreUnsigned
<1>2. \A S : WeightOf(S) = Total(S, w) /\ SizeOf(S) = Total(S, z)
  BY DEF WeightOf, SizeOf
<1> HIDE DEF w, z
<1>3. IsFiniteSet(R)
  BY Constants, FS_Subset
<1>4. Cardinality(R) \in Nat
  BY <1>3, FS_CardinalityType
<1>5. /\ \A x \in R : w[x] \in Nat
      /\ \A x \in R : z[x] \in Nat
  BY <1>1
<1>6. Total(R, w) \in Nat /\ Total(R, z) \in Nat
  BY <1>3, <1>5, TotalType
<1>7. ASSUME NEW r \in Requests, r \notin R
      PROVE  /\ Total(R \cup {r}, w) = Total(R, w) + w[r]
             /\ Total(R \cup {r}, z) = Total(R, z) + z[r]
             /\ Cardinality(R \cup {r}) = Cardinality(R) + 1
  <2>1. (\A x \in R \cup {r} : w[x] \in Nat) /\ (\A x \in R \cup {r} : z[x] \in Nat)
    BY <1>1
  <2>2. Total(R \cup {r}, w) = Total(R, w) + w[r]
    BY <1>3, <1>7, <2>1, TotalOfAdded
  <2>3. Total(R \cup {r}, z) = Total(R, z) + z[r]
    BY <1>3, <1>7, <2>1, TotalOfAdded
  <2>4. Cardinality(R \cup {r}) = Cardinality(R) + 1
    BY <1>3, <1>7, FS_AddElement
  <2>5. QED
    BY <2>2, <2>3, <2>4
<1>8. ASSUME NEW D \in SUBSET R
      PROVE  /\ Total(R, w) = Total(R \ D, w) + Total(D, w)
             /\ Total(R, z) = Total(R \ D, z) + Total(D, z)
             /\ Cardinality(R) = Cardinality(R \ D) + Cardinality(D)
             /\ Total(R \ D, w) \in Nat /\ Total(D, w) \in Nat
             /\ Total(R \ D, z) \in Nat /\ Total(D, z) \in Nat
             /\ Cardinality(R \ D) \in Nat /\ Cardinality(D) \in Nat
  <2>1. Total(R, w) = Total(D, w) + Total(R \ D, w) /\ Total(R \ D, w) \in Nat /\ Total(D, w) \in Nat
    BY <1>3, <1>5, TotalOfSubset
  <2>2. Total(R, z) = Total(D, z) + Total(R \ D, z) /\ Total(R \ D, z) \in Nat /\ Total(D, z) \in Nat
    <3>1. \A x \in R : z[x] \in Nat
      BY <1>5
    <3>2. /\ Total(R, z) = Total(D, z) + Total(R \ D, z)
          /\ Total(D, z) \in Nat /\ Total(R \ D, z) \in Nat
          /\ Total(D, z) <= Total(R, z)
      BY <1>3, <3>1, TotalOfSubset
    <3>3. QED
      BY <3>2
  <2>3. IsFiniteSet(D) /\ IsFiniteSet(R \ D) /\ R \cap D = D
    BY <1>3, FS_Subset, FS_Difference
  <2>4. Cardinality(R \ D) = Cardinality(R) - Cardinality(D)
    BY <1>3, <2>3, FS_Difference
  <2>5. Cardinality(R \ D) \in Nat /\ Cardinality(D) \in Nat
    BY <2>3, FS_CardinalityType
  <2>6. Cardinality(R) = Cardinality(R \ D) + Cardinality(D)
    BY <1>4, <2>4, <2>5
  <2>7. QED
    BY <2>1, <2>2, <2>5, <2>6
<1>9. QED
  BY <1>1, <1>2, <1>3, <1>4, <1>6, <1>7, <1>8

-----------------------------------------------------------------------------
(* The parts of the invariant. *)

Loads ==
  /\ load.requests = Cardinality(Executing)
  /\ load.weight = WeightOf(Executing) % Unsigned
  /\ load.bytes = SizeOf(Executing) % Unsigned
  /\ load.requests <= Capacity
  /\ Passed(load.weight)
  /\ free = MaxAio - load.requests

Lengths == [c \in Classes |-> Len(queue[c])]

Heap ==
  /\ handles = {c \in Classes : queue[c] # <<>>}
  /\ queued = Total(Classes, Lengths)

\* Where the copies of a request can be.
InQueue(r) == Times(r, queue[ClassOf[r]])
InPending(r) == Times(r, pending)
InRetry(r) == Times(r, retry)
InBatches(r) == TimesInAll(r, batches)
InSubmitted(r) == TimesInAll(r, RestsOf(submitted))
InEvents(r) == Times(r, [i \in DOMAIN events |-> events[i].request])
InKernel(r) == IF r \in kernel THEN 1 ELSE 0

Places(r) == InQueue(r) + InPending(r) + InRetry(r) + InBatches(r) + InSubmitted(r)
               + InEvents(r) + InKernel(r)

\* A request that waits has one copy, one that was answered was answered for
\* what it is.
Once == \A r \in Requests : Places(r) = IF answer[r] = "none" THEN 1 ELSE 0

Answered == \A r \in Requests : answer[r] \in {"EBADF", "done"} => (answer[r] = "EBADF") = (r \in BadFd)

LEMMA Parts == IInv <=> TypeOK /\ Loads /\ Heap /\ Once /\ Answered /\ Sound /\ Peak
<1>1. \A r : Copies(r) = Places(r)
  BY DEF Copies, Places, InQueue, InPending, InRetry, InBatches, InSubmitted, InEvents, InKernel,
         RestsOf
<1>2. InFlightOnce <=> Once /\ Answered
  BY <1>1 DEF InFlightOnce, Once, Answered
<1>3. BooksBalance <=> TypeOK /\ Loads /\ Heap
  <2>1. TypeOK => load = [requests |-> load.requests, weight |-> load.weight, bytes |-> load.bytes]
    BY DEF TypeOK
  <2>2. QED
    BY <2>1 DEF BooksBalance, Loads, Heap, Lengths, Passed
<1>4. QED
  BY <1>2, <1>3 DEF IInv

\* The parts of the invariant in the next state.
LEMMA PartsNext == TypeOK' /\ Loads' /\ Heap' /\ Once' /\ Answered' /\ Sound' /\ Peak' => IInv'
BY Parts, PTL

\* The types, one by one, and what is known of the requests that execute.
LEMMA Facts ==
  ASSUME IInv
  PROVE  /\ queue \in [Classes -> Seq(Requests)]
         /\ load.requests \in 0..Capacity
         /\ load.weight \in 0..(Unsigned - 1) /\ load.bytes \in 0..(Unsigned - 1)
         /\ load = [requests |-> load.requests, weight |-> load.weight, bytes |-> load.bytes]
         /\ pending \in Seq(Requests) /\ retry \in Seq(Requests)
         /\ batches \in Seq(Seq(Requests)) /\ submitted \in Seq(Examined)
         /\ RestsOf(submitted) \in Seq(Seq(Requests))
         /\ kernel \subseteq Requests /\ events \in Seq(Event)
         /\ answer \in [Requests -> {"not asked", "none", "EBADF", "done"}]
         /\ Executing \in SUBSET Requests
<1>1. TypeOK /\ Sound
  BY Parts
<1>2. /\ queue \in [Classes -> Seq(Requests)]
      /\ pending \in Seq(Requests) /\ retry \in Seq(Requests)
      /\ batches \in Seq(Seq(Requests)) /\ submitted \in Seq(Examined)
      /\ kernel \subseteq Requests /\ events \in Seq(Event)
      /\ answer \in [Requests -> {"not asked", "none", "EBADF", "done"}]
  BY <1>1 DEF TypeOK, Examined, Event
<1>3. /\ load.requests \in 0..Capacity
      /\ load.weight \in 0..(Unsigned - 1) /\ load.bytes \in 0..(Unsigned - 1)
      /\ load = [requests |-> load.requests, weight |-> load.weight, bytes |-> load.bytes]
  BY <1>1 DEF TypeOK
<1>4. \A i \in 1..Len(submitted) : submitted[i].result.taken <= Len(submitted[i].iocbs)
  <2>1. \A i \in 1..Len(submitted) : submitted[i] \in ToSet(submitted)
    BY <1>2, LenProperties DEF ToSet
  <2>2. QED
    BY <1>1, <2>1 DEF Sound, Judged
<1>5. RestsOf(submitted) \in Seq(Seq(Requests))
  BY <1>2, <1>4, RestsOfSubmitted
<1>6. Executing \in SUBSET Requests
  BY DEF Executing
<1>7. QED
  BY <1>2, <1>3, <1>5, <1>6

LEMMA CopiesType ==
  ASSUME IInv, NEW r \in Requests
  PROVE  /\ InQueue(r) \in Nat /\ InPending(r) \in Nat /\ InRetry(r) \in Nat
         /\ InBatches(r) \in Nat /\ InSubmitted(r) \in Nat /\ InEvents(r) \in Nat
         /\ InKernel(r) \in {0, 1}
         /\ Places(r) = IF answer[r] = "none" THEN 1 ELSE 0
<1>1. InQueue(r) \in Nat
  <2>1. queue[ClassOf[r]] \in Seq(Requests)
    BY Facts, Constants
  <2>2. QED
    BY <2>1, TimesType DEF InQueue
<1>2. InPending(r) \in Nat
  BY Facts, TimesType DEF InPending
<1>3. InRetry(r) \in Nat
  BY Facts, TimesType DEF InRetry
<1>4. InBatches(r) \in Nat
  BY Facts, TimesInAllType DEF InBatches
<1>5. InSubmitted(r) \in Nat
  BY Facts, TimesInAllType DEF InSubmitted
<1>6. InEvents(r) \in Nat
  <2>1. [i \in DOMAIN events |-> events[i].request] \in Seq(Requests)
    <3>1. /\ Len(events) \in Nat /\ DOMAIN events = 1..Len(events)
          /\ \A i \in 1..Len(events) : events[i] \in Event
      BY Facts, LenProperties, ElementOfSeq
    <3>2. \A i \in 1..Len(events) : events[i].request \in Requests
      BY <3>1 DEF Event
    <3>3. QED
      BY <3>1, <3>2
  <2>2. QED
    BY <2>1, TimesType DEF InEvents
<1>7. InKernel(r) \in {0, 1}
  BY DEF InKernel
<1>8. Places(r) = IF answer[r] = "none" THEN 1 ELSE 0
  BY Parts DEF Once
<1>9. QED
  BY <1>1, <1>2, <1>3, <1>4, <1>5, <1>6, <1>7, <1>8

\* What does not touch the fair queue and answers nobody keeps the books.
LEMMA SameBooks ==
  ASSUME IInv, UNCHANGED <<queue, handles, queued, load, free, answer>>
  PROVE  Loads' /\ Heap' /\ Peak' /\ Answered'
<1>1. /\ queue' = queue /\ handles' = handles /\ queued' = queued /\ load' = load /\ free' = free
      /\ answer' = answer
  OBVIOUS
<1>2. Executing' = Executing
  BY <1>1 DEF Executing
<1>3. Loads /\ Heap /\ Peak /\ Answered
  BY Parts
<1>4. Loads' /\ Heap' /\ Answered'
  BY <1>1, <1>2, <1>3 DEF Loads, Heap, Lengths, Answered, Passed
<1>5. Peak'
  BY <1>2, <1>3 DEF Peak, Passed
<1>6. QED
  BY <1>4, <1>5

\* One class gets another queue.
LEMMA LengthsChange ==
  ASSUME IInv, NEW c \in Classes, NEW q \in Seq(Requests), queue' = [queue EXCEPT ![c] = q]
  PROVE  Total(Classes, Lengths') = (Total(Classes, Lengths) - Len(queue[c])) + Len(q)
<1> DEFINE w == Lengths
           v == Lengths'
<1>1. queue \in [Classes -> Seq(Requests)]
  BY Facts
<1>2. /\ \A d \in Classes : w[d] = Len(queue[d]) /\ v[d] = Len(queue'[d])
      /\ queue'[c] = q
      /\ \A d \in Classes \ {c} : queue'[d] = queue[d]
  BY <1>1 DEF Lengths
<1> HIDE DEF w, v
<1>3. \A d \in Classes : w[d] \in Nat
  BY <1>1, <1>2, LenProperties
<1>4. \A d \in Classes : v[d] \in Nat
  <2>1. \A d \in Classes : queue'[d] \in Seq(Requests)
    BY <1>1, <1>2
  <2>2. QED
    BY <1>2, <2>1, LenProperties
<1>5. \A d \in Classes \ {c} : v[d] = w[d]
  BY <1>2
<1>6. IsFiniteSet(Classes) /\ {c} \in SUBSET Classes
  BY Constants
<1>7. Total(Classes, v) = (Total(Classes, w) - Total({c}, w)) + Total({c}, v)
  BY <1>3, <1>4, <1>5, <1>6, TotalOfChanged
<1>8. Total({c}, w) = Len(queue[c]) /\ Total({c}, v) = Len(q)
  BY <1>2, <1>3, <1>4, TotalOfOne
<1>9. Total(Classes, v) = (Total(Classes, w) - Len(queue[c])) + Len(q)
  BY <1>7, <1>8
<1>10. QED
  BY <1>9 DEF w, v

-----------------------------------------------------------------------------
(* The fair queue. *)

\* queue_request(): the request stands at the end of the queue of its class.
LEMMA QueueRequestKeeps ==
  ASSUME IInv, NEW r \in Requests, QueueRequest(r)
  PROVE  IInv'
<1> DEFINE c == ClassOf[r]
           q == Append(queue[c], r)
<1>1. /\ answer[r] # "none"
      /\ handles' = handles \cup {c}
      /\ queue' = [queue EXCEPT ![c] = q]
      /\ queued' = queued + 1
      /\ answer' = [answer EXCEPT ![r] = "none"]
  BY DEF QueueRequest, Enqueue
<1>2. /\ accumulated' = accumulated /\ shares' = shares /\ load' = load /\ free' = free
      /\ pending' = pending /\ retry' = retry /\ nowait' = nowait /\ nowaitOk' = nowaitOk
      /\ flushing' = flushing /\ batches' = batches /\ submitted' = submitted
      /\ kernel' = kernel /\ events' = events
  BY DEF QueueRequest, aio, flags, threadPool, system
<1>3. TypeOK /\ Loads /\ Heap /\ Once /\ Answered /\ Sound /\ Peak
  BY Parts
<1>4. /\ c \in Classes /\ queue \in [Classes -> Seq(Requests)] /\ queue[c] \in Seq(Requests)
      /\ answer \in [Requests -> {"not asked", "none", "EBADF", "done"}]
  BY Facts, Constants
<1>5. /\ q \in Seq(Requests) /\ ToSet(q) = ToSet(queue[c]) \cup {r}
      /\ Len(q) = Len(queue[c]) + 1 /\ Len(queue[c]) \in Nat /\ q # <<>>
  <2>1. q \in Seq(Requests) /\ ToSet(q) = ToSet(queue[c]) \cup {r}
    <3>1. PICK u \in Seq(Requests) : u = queue[c]
      BY <1>4
    <3>2. Append(u, r) \in Seq(Requests) /\ ToSet(Append(u, r)) = ToSet(u) \cup {r}
      BY ToSetOfAppend
    <3>3. QED
      BY <3>1, <3>2
  <2>2. Len(q) = Len(queue[c]) + 1
    BY <1>4, AppendProperties
  <2>3. Len(queue[c]) \in Nat
    BY <1>4, LenProperties
  <2> HIDE DEF q
  <2>4. Len(q) # 0
    BY <2>2, <2>3
  <2>5. QED
    BY <2>1, <2>2, <2>3, <2>4, EmptySeq
<1>6. \A x : Times(x, q) = Times(x, queue[c]) + (IF x = r THEN 1 ELSE 0)
  BY <1>4, TimesOfAppend
<1> HIDE DEF c, q
<1>7. /\ queue' \in [Classes -> Seq(Requests)] /\ queue'[c] = q
      /\ \A d \in Classes \ {c} : queue'[d] = queue[d]
  BY <1>1, <1>4, <1>5
<1>8. /\ answer' \in [Requests -> {"not asked", "none", "EBADF", "done"}] /\ answer'[r] = "none"
      /\ \A x \in Requests \ {r} : answer'[x] = answer[x]
  BY <1>1, <1>4
<1>9. TypeOK'
  <2>1. handles' \subseteq Classes /\ queued' \in Nat
    <3>1. queued \in Nat /\ handles \subseteq Classes
      BY <1>3 DEF TypeOK
    <3>2. handles' \subseteq Classes
      BY <1>1, <1>4, <3>1
    <3>3. queued' \in Nat
      BY <1>1, <3>1
    <3>4. QED
      BY <3>2, <3>3
  <2>2. QED
    BY <1>2, <1>3, <1>7, <1>8, <2>1 DEF TypeOK
<1>10. \A x \in Requests : ClassOf[x] \in Classes
  BY Constants
<1>11. Executing' = Executing
  <2>1. r \notin Executing
    BY <1>1 DEF Executing
  <2>2. r \in ToSet(queue'[ClassOf[r]])
    BY <1>5, <1>7 DEF c
  <2>3. \A x \in Requests \ {r} : x \in ToSet(queue'[ClassOf[x]]) <=> x \in ToSet(queue[ClassOf[x]])
    BY <1>5, <1>7, <1>10
  <2>4. \A x \in Requests : x \in Executing' <=> x \in Executing
    BY <1>8, <2>1, <2>2, <2>3 DEF Executing
  <2>5. Executing' \subseteq Requests /\ Executing \subseteq Requests
    BY DEF Executing
  <2>6. QED
    BY <2>4, <2>5
<1>12. Loads'
  BY <1>2, <1>3, <1>11 DEF Loads, Passed
<1>13. Peak'
  BY <1>3, <1>11 DEF Peak, Passed
<1>14. Heap'
  <2>1. Total(Classes, Lengths') = Total(Classes, Lengths) - Len(queue[c]) + Len(q)
    BY <1>1, <1>4, <1>5, LengthsChange
  <2>2. queued' = Total(Classes, Lengths')
    <3>1. queued \in Nat /\ queued = Total(Classes, Lengths)
      BY <1>3 DEF TypeOK, Heap
    <3> DEFINE n == Len(queue[c])
               m == Len(q)
    <3>2. Total(Classes, Lengths') = (queued - n) + m /\ m = n + 1 /\ n \in Nat
      BY <1>5, <2>1, <3>1
    <3> HIDE DEF n, m
    <3>3. QED
      BY <1>1, <3>1, <3>2
  <2>3. handles' = {d \in Classes : queue'[d] # <<>>}
    BY <1>1, <1>3, <1>4, <1>5, <1>7 DEF Heap
  <2>4. QED
    BY <2>2, <2>3 DEF Heap
<1>15. Once'
  <2> SUFFICES ASSUME NEW x \in Requests PROVE (Places(x) = IF answer[x] = "none" THEN 1 ELSE 0)'
    BY DEF Once
  <2>1. InQueue(x)' = InQueue(x) + (IF x = r THEN 1 ELSE 0)
    <3>1. CASE ClassOf[x] = c
      BY <1>6, <1>7, <3>1 DEF InQueue
    <3>2. CASE ClassOf[x] # c
      <4>1. x # r /\ queue'[ClassOf[x]] = queue[ClassOf[x]]
        BY <1>7, <1>10, <3>2 DEF c
      <4>2. queue[ClassOf[x]] \in Seq(Requests)
        BY <1>4, <1>10
      <4>3. InQueue(x)' = InQueue(x) /\ InQueue(x) \in Nat
        BY <4>1, CopiesType DEF InQueue
      <4>4. QED
        BY <4>1, <4>3
    <3>3. QED
      BY <3>1, <3>2
  <2>2. /\ InPending(x)' = InPending(x) /\ InRetry(x)' = InRetry(x) /\ InBatches(x)' = InBatches(x)
        /\ InSubmitted(x)' = InSubmitted(x) /\ InEvents(x)' = InEvents(x)
        /\ InKernel(x)' = InKernel(x)
    BY <1>2 DEF InPending, InRetry, InBatches, InSubmitted, InEvents, InKernel, RestsOf
  <2>3. Places(x)' = InQueue(x)' + InPending(x)' + InRetry(x)' + InBatches(x)' + InSubmitted(x)'
                       + InEvents(x)' + InKernel(x)'
    BY DEF Places
  <2>4. Places(x)' = Places(x) + (IF x = r THEN 1 ELSE 0)
    BY <2>1, <2>2, <2>3, CopiesType DEF Places
  <2>5. QED
    <3>1. Places(x) = IF answer[x] = "none" THEN 1 ELSE 0
      BY CopiesType
    <3>2. Places(x)' = IF answer'[x] = "none" THEN 1 ELSE 0
      <4>1. CASE x = r
        <5>1. Places(x) = 0
          BY <1>1, <3>1, <4>1
        <5>2. Places(x)' = 0 + 1
          BY <2>4, <4>1, <5>1
        <5>3. answer'[x] = "none"
          BY <1>8, <4>1
        <5>4. QED
          BY <5>2, <5>3
      <4>2. CASE x # r
        <5>1. Places(x) \in Nat
          BY <3>1
        <5>2. Places(x)' = Places(x) + 0
          BY <2>4, <4>2
        <5>3. answer'[x] = answer[x]
          BY <1>8, <4>2
        <5>4. QED
          BY <3>1, <5>1, <5>2, <5>3
      <4>3. QED
        BY <4>1, <4>2
    <3>3. QED
      BY <3>2
<1>16. Answered'
  BY <1>3, <1>8 DEF Answered
<1>17. Sound'
  <2>1. ASSUME NEW d \in Classes, NEW x \in ToSet(queue'[d]) PROVE ClassOf[x] = d
    <3>1. CASE d = c
      <4>1. x \in ToSet(queue[c]) \/ x = r
        BY <1>5, <1>7, <2>1, <3>1
      <4>2. QED
        BY <1>3, <1>4, <3>1, <4>1 DEF Sound, c
    <3>2. CASE d # c
      BY <1>3, <1>7, <2>1, <3>2 DEF Sound
    <3>3. QED
      BY <3>1, <3>2
  <2>2. QED
    BY <1>2, <1>3, <2>1 DEF Sound
<1>18. QED
  BY <1>9, <1>12, <1>13, <1>14, <1>15, <1>16, <1>17, PartsNext

\* update_shares_for_class()
LEMMA UpdateSharesKeeps ==
  ASSUME IInv, NEW c \in Classes, NEW s \in Shares, UpdateShares(c, s)
  PROVE  IInv'
<1>1. shares' = [shares EXCEPT ![c] = s]
  BY DEF UpdateShares
<1>2. /\ queue' = queue /\ accumulated' = accumulated /\ handles' = handles /\ queued' = queued
      /\ load' = load /\ free' = free
      /\ pending' = pending /\ retry' = retry /\ nowait' = nowait /\ nowaitOk' = nowaitOk
      /\ flushing' = flushing /\ batches' = batches /\ submitted' = submitted
      /\ kernel' = kernel /\ events' = events /\ answer' = answer
  BY DEF UpdateShares, aio, flags, threadPool, system
<1>3. TypeOK /\ Loads /\ Heap /\ Once /\ Answered /\ Sound /\ Peak
  BY Parts
<1>4. TypeOK'
  <2>1. shares' \in [Classes -> Shares]
    BY <1>1, <1>3 DEF TypeOK
  <2>2. QED
    BY <1>2, <1>3, <2>1 DEF TypeOK
<1>5. Loads' /\ Heap' /\ Peak' /\ Answered'
  BY <1>2, SameBooks
<1>6. Once' /\ Sound'
  BY <1>2, <1>3 DEF Once, Sound, Places, InQueue, InPending, InRetry, InBatches, InSubmitted,
                    InEvents, InKernel, RestsOf
<1>7. QED
  BY <1>4, <1>5, <1>6, PartsNext

\* The accumulated cost of the classes stays below its bound.
LEMMA ChargedType ==
  ASSUME accumulated \in [Classes -> 0..Window], shares \in [Classes -> Shares],
         NEW c \in Classes, NEW r \in Requests
  PROVE  Charged(c, r) \in [Classes -> 0..Window]
<1> DEFINE cost  == Max2(1, (Weight(r) + Size(r)) \div shares[c])
           paid  == [accumulated EXCEPT ![c] = @ + cost]
           decay == Max2(0, paid[c] - Window)
<1>1. cost \in Nat
  <2>1. PICK a \in Nat : a = Weight(r) + Size(r)
    <3>1. Weight(r) \in Nat /\ Size(r) \in Nat
      BY WeightsAreUnsigned, Constants
    <3>2. QED
      BY <3>1
  <2>2. shares[c] \in Nat \ {0}
    BY Constants
  <2>3. PICK u \in Nat \ {0} : u = shares[c]
    BY <2>2
  <2>4. a \div u \in Int
    BY <2>3, RemainderOf
  <2>5. PICK d \in Int : d = a \div u
    BY <2>4
  <2>6. Max2(1, d) \in Nat
    BY <2>5 DEF Max2
  <2>7. QED
    BY <2>1, <2>3, <2>5, <2>6
<1> HIDE DEF cost
<1>2. /\ paid[c] = accumulated[c] + cost
      /\ \A d \in Classes \ {c} : paid[d] = accumulated[d]
      /\ \A d \in Classes : accumulated[d] \in 0..Window
  OBVIOUS
<1>3. Window \in Nat
  BY Constants
<1>4. paid[c] \in Nat /\ \A d \in Classes \ {c} : paid[d] \in 0..Window
  BY <1>1, <1>2
<1> HIDE DEF paid
<1>5. decay \in Nat /\ paid[c] - decay <= Window
  BY <1>3, <1>4 DEF Max2
<1> HIDE DEF decay
<1>6. Max2(0, paid[c] - decay) \in 0..Window
  BY <1>3, <1>4, <1>5 DEF Max2
<1>7. \A d \in Classes \ {c} : Max2(0, paid[d] - decay) \in 0..Window
  <2> TAKE d \in Classes \ {c}
  <2>1. PICK n \in 0..Window : n = paid[d]
    BY <1>4
  <2>2. Max2(0, n - decay) \in 0..Window
    BY <1>3, <1>5, <2>1 DEF Max2
  <2>3. QED
    BY <2>1, <2>2
<1>8. \A d \in Classes : Max2(0, paid[d] - decay) \in 0..Window
  BY <1>6, <1>7
<1>9. Charged(c, r) = [d \in Classes |-> Max2(0, paid[d] - decay)]
  BY DEF Charged, paid, decay, cost
<1>10. QED
  BY <1>8, <1>9

\* What is not answered, and moves, has as many copies as before.
LEMMA OnceKept ==
  ASSUME IInv, answer' = answer, \A x \in Requests : Places(x)' = Places(x)
  PROVE  Once'
<1>1. \A x \in Requests : Places(x) = IF answer[x] = "none" THEN 1 ELSE 0
  BY CopiesType
<1>2. \A x \in Requests : Places(x)' = IF answer'[x] = "none" THEN 1 ELSE 0
  BY <1>1
<1>3. QED
  BY <1>2 DEF Once

\* One turn of dispatch_requests(): the first request of a class goes to
\* _pending_aio, and from now on counts against the limits.
LEMMA DispatchKeeps ==
  ASSUME IInv, Dispatch
  PROVE  IInv'
<1>1. PICK c \in Classes :
        /\ Top(c)
        /\ queue' = [queue EXCEPT ![c] = Tail(@)]
        /\ handles' = IF Len(queue[c]) > 1 THEN handles ELSE handles \ {c}
        /\ accumulated' = Charged(c, Head(queue[c]))
        /\ queued' = queued - 1
        /\ load' = Started(load, Head(queue[c]))
        /\ SubmitIo(Head(queue[c]))
  BY DEF Dispatch
<1> DEFINE s == queue[c]
           r == Head(s)
           q == Tail(s)
<1>2. /\ shares' = shares /\ retry' = retry /\ nowaitOk' = nowaitOk /\ flushing' = flushing
      /\ batches' = batches /\ submitted' = submitted /\ answer' = answer
      /\ kernel' = kernel /\ events' = events
      /\ queued > 0 /\ load.requests < Capacity /\ load.weight < MaxReqCount
  BY DEF Dispatch, CanDispatch, threadPool, system
<1>3. /\ queue' = [queue EXCEPT ![c] = q]
      /\ handles' = IF Len(s) > 1 THEN handles ELSE handles \ {c}
      /\ accumulated' = Charged(c, r)
      /\ queued' = queued - 1
      /\ load' = Started(load, r)
      /\ free' = free - 1
      /\ nowait' = IF nowaitOk THEN nowait \cup {r} ELSE nowait \ {r}
      /\ pending' = Append(pending, r)
  BY <1>1 DEF SubmitIo
<1>4. TypeOK /\ Loads /\ Heap /\ Once /\ Answered /\ Sound /\ Peak
  BY Parts
<1>5. s \in Seq(Requests) /\ s # <<>>
  BY <1>1, <1>4, Facts DEF Heap, Top
<1>6. /\ r \in Requests /\ q \in Seq(Requests) /\ Len(q) = Len(s) - 1 /\ Len(s) \in Nat
      /\ ToSet(s) = {r} \cup ToSet(q)
      /\ q = <<>> <=> ~ (Len(s) > 1)
  <2>1. /\ r \in Requests /\ q \in Seq(Requests) /\ Len(q) = Len(s) - 1
        /\ ToSet(s) = {r} \cup ToSet(q)
    <3> HIDE DEF s
    <3>1. QED
      BY <1>5, ToSetOfTail
  <2>2. Len(s) \in Nat /\ Len(s) # 0
    <3> HIDE DEF s
    <3>1. QED
      BY <1>5, LenProperties, EmptySeq
  <2> HIDE DEF r, q, s
  <2>3. q = <<>> <=> Len(q) = 0
    BY <2>1, EmptySeq
  <2>4. QED
    BY <2>1, <2>2, <2>3
<1>7. \A x : Times(x, s) = (IF x = r THEN 1 ELSE 0) + Times(x, q)
  <2> HIDE DEF s
  <2>1. QED
    BY <1>5, TimesOfTail
<1>8. ClassOf[r] = c
  BY <1>4, <1>6 DEF Sound
<1>9. queue \in [Classes -> Seq(Requests)] /\ s = queue[c]
  BY Facts
<1> HIDE DEF s, q, r
<1>10. /\ queue' \in [Classes -> Seq(Requests)] /\ queue'[c] = q
       /\ \A d \in Classes \ {c} : queue'[d] = queue[d]
  BY <1>3, <1>6, <1>9
<1>11. \A x \in Requests : ClassOf[x] \in Classes
  BY Constants
\* The request waited, in its queue and nowhere else.
<1>12. answer[r] = "none" /\ r \in ToSet(s) /\ r \notin ToSet(q)
  <2>1. InQueue(r) = 1 + Times(r, q) /\ Times(r, q) \in Nat
    BY <1>6, <1>7, <1>8, <1>9, TimesType DEF InQueue
  <2>2. Places(r) = IF answer[r] = "none" THEN 1 ELSE 0
    BY <1>6, CopiesType
  <2>3. Places(r) >= InQueue(r)
    <3>1. /\ InQueue(r) \in Nat /\ InPending(r) \in Nat /\ InRetry(r) \in Nat
          /\ InBatches(r) \in Nat /\ InSubmitted(r) \in Nat /\ InEvents(r) \in Nat
          /\ InKernel(r) \in {0, 1}
      BY <1>6, CopiesType
    <3>2. QED
      BY <3>1 DEF Places
  <2>4. Times(r, q) = 0 /\ answer[r] = "none"
    BY <2>1, <2>2, <2>3
  <2>5. QED
    BY <1>6, <2>4, TimesType
<1>13. r \in Requests \ Executing /\ Executing' = Executing \cup {r}
  <2>1. r \notin Executing
    BY <1>8, <1>9, <1>12 DEF Executing
  <2>2. \A x \in Requests \ {r} : x \in ToSet(queue'[ClassOf[x]]) <=> x \in ToSet(queue[ClassOf[x]])
    BY <1>6, <1>9, <1>10, <1>11
  <2>3. r \notin ToSet(queue'[ClassOf[r]])
    BY <1>8, <1>10, <1>12
  <2>4. \A x \in Requests : x \in Executing' <=> x \in Executing \/ x = r
    BY <1>2, <1>12, <2>2, <2>3 DEF Executing
  <2>5. Executing' \subseteq Requests /\ Executing \subseteq Requests
    BY DEF Executing
  <2>6. QED
    BY <1>6, <2>1, <2>4, <2>5
<1> DEFINE E == Executing
<1>14. /\ E \in SUBSET Requests /\ Cardinality(E) \in Nat /\ WeightOf(E) \in Nat /\ SizeOf(E) \in Nat
       /\ WeightOf(E \cup {r}) = WeightOf(E) + Weight(r)
       /\ SizeOf(E \cup {r}) = SizeOf(E) + Size(r)
       /\ Cardinality(E \cup {r}) = Cardinality(E) + 1
  <2>1. E \in SUBSET Requests
    BY Facts
  <2> HIDE DEF E
  <2>2. r \in Requests \ E
    BY <1>13 DEF E
  <2>3. QED
    BY <2>1, <2>2, WeightsAdd
<1>15. Weight(r) \in Nat /\ Size(r) \in Nat /\ Unsigned \in Nat \ {0}
  BY <1>6, WeightsAreUnsigned, Constants
<1>16. /\ load.requests = Cardinality(E) /\ load.weight = WeightOf(E) % Unsigned
       /\ load.bytes = SizeOf(E) % Unsigned /\ free = MaxAio - load.requests
  BY <1>4 DEF Loads
<1> HIDE DEF E
<1>17. /\ load'.requests = load.requests + 1
       /\ load'.weight = (load.weight + Weight(r)) % Unsigned
       /\ load'.bytes = (load.bytes + Size(r)) % Unsigned
       /\ load' = [requests |-> load'.requests, weight |-> load'.weight, bytes |-> load'.bytes]
  BY <1>3 DEF Started
<1>18. /\ load'.weight = WeightOf(E \cup {r}) % Unsigned
       /\ load'.bytes = SizeOf(E \cup {r}) % Unsigned
  <2>1. ((WeightOf(E) % Unsigned) + Weight(r)) % Unsigned = (WeightOf(E) + Weight(r)) % Unsigned
    BY <1>14, <1>15, UnsignedSums
  <2>2. ((SizeOf(E) % Unsigned) + Size(r)) % Unsigned = (SizeOf(E) + Size(r)) % Unsigned
    BY <1>14, <1>15, UnsignedSums
  <2>3. QED
    BY <1>14, <1>16, <1>17, <2>1, <2>2
<1>19. load.requests \in Nat /\ Capacity \in Nat /\ Capacity <= MaxAio /\ MaxAio \in Nat
       /\ load.weight \in Nat /\ MaxReqCount \in Nat
  <2>1. Capacity \in Nat /\ Capacity <= MaxAio /\ MaxAio \in Nat /\ MaxReqCount \in Nat
    BY Constants
  <2>2. load.requests \in 0..Capacity /\ load.weight \in 0..(Unsigned - 1)
    BY Facts
  <2>3. QED
    BY <1>15, <2>1, <2>2
<1>20. /\ load'.requests \in 0..Capacity
       /\ load'.weight \in 0..(Unsigned - 1) /\ load'.bytes \in 0..(Unsigned - 1)
  <2>1. load'.requests \in 0..Capacity
    BY <1>2, <1>17, <1>19
  <2>2. WeightOf(E \cup {r}) \in Int /\ SizeOf(E \cup {r}) \in Int
    BY <1>14, <1>15
  <2>3. QED
    BY <1>15, <1>18, <2>1, <2>2, RemainderType
<1>21. Passed(load.weight)'
  <2>1. PICK n \in Nat : n = load.weight + Weight(r)
    BY <1>15, <1>19
  <2>2. n % Unsigned <= n
    BY <1>15, RemainderType
  <2>3. n % Unsigned \in Nat
    BY <1>15, RemainderType
  <2>4. n < MaxReqCount + Weight(r)
    BY <1>2, <1>15, <1>19, <2>1
  <2>5. n % Unsigned < MaxReqCount + Weight(r)
    BY <1>15, <1>19, <2>2, <2>3, <2>4
  <2>6. load'.weight < MaxReqCount + Weight(r)
    BY <1>17, <2>1, <2>5
  <2>7. QED
    BY <1>6, <2>6 DEF Passed
<1>22. Loads'
  <2>1. load'.requests = Cardinality(E \cup {r})
    BY <1>14, <1>16, <1>17
  <2>2. free' = MaxAio - load'.requests
    BY <1>3, <1>16, <1>17, <1>19
  <2>3. Executing' = E \cup {r}
    BY <1>13 DEF E
  <2>4. load'.requests <= Capacity
    BY <1>19, <1>20
  <2>5. QED
    BY <1>18, <1>21, <2>1, <2>2, <2>3, <2>4 DEF Loads
<1>23. Peak'
  <2>1. CASE Passed(Unsigned - 1)
    BY <2>1 DEF Peak, Passed
  <2>2. CASE Passed(WeightOf(E)) /\ WeightOf(E) < Unsigned
    <3>1. load.weight = WeightOf(E)
      BY <1>14, <1>15, <1>16, <2>2, RemainderType
    <3>2. WeightOf(E \cup {r}) < MaxReqCount + Weight(r)
      BY <1>2, <1>14, <1>15, <1>19, <3>1
    <3>3. WeightOf(Executing') < MaxReqCount + Weight(r)
      BY <1>13, <3>2 DEF E
    <3>4. QED
      BY <1>6, <3>3 DEF Peak, Passed
  <2>3. CASE Passed(WeightOf(E)) /\ ~ (WeightOf(E) < Unsigned)
    <3>1. Unsigned - 1 < WeightOf(E) /\ Unsigned - 1 \in Int /\ WeightOf(E) \in Int
      BY <1>14, <1>15, <2>3
    <3>2. CASE WeightOf(E) < MaxReqCount
      BY <1>19, <3>1, <3>2 DEF Peak, Passed
    <3>3. CASE \E x \in Requests : WeightOf(E) < MaxReqCount + Weight(x)
      <4>1. PICK x \in Requests : WeightOf(E) < MaxReqCount + Weight(x)
        BY <3>3
      <4>2. Weight(x) \in Int
        BY WeightsAreUnsigned
      <4>3. Unsigned - 1 < MaxReqCount + Weight(x)
        BY <1>19, <3>1, <4>1, <4>2
      <4>4. QED
        BY <4>3 DEF Peak, Passed
    <3>4. QED
      BY <2>3, <3>2, <3>3 DEF Passed
  <2>4. QED
    BY <1>4, <2>1, <2>2, <2>3 DEF Peak, E
<1>24. Heap'
  <2>1. Total(Classes, Lengths') = (Total(Classes, Lengths) - Len(s)) + Len(q)
    BY <1>3, <1>6, <1>9, LengthsChange
  <2>2. queued' = Total(Classes, Lengths')
    <3>1. queued \in Nat /\ queued = Total(Classes, Lengths)
      BY <1>4 DEF TypeOK, Heap
    <3> DEFINE n == Len(s)
               m == Len(q)
    <3>2. Total(Classes, Lengths') = (queued - n) + m /\ m = n - 1 /\ n \in Nat
      BY <1>6, <2>1, <3>1
    <3> HIDE DEF n, m
    <3>3. QED
      BY <1>3, <3>1, <3>2
  <2>3. handles = {d \in Classes : queue[d] # <<>>} /\ c \in handles
    BY <1>1, <1>4 DEF Heap, Top
  <2>4. \A d \in Classes : d \in handles' <=> queue'[d] # <<>>
    <3>1. c \in handles' <=> queue'[c] # <<>>
      <4>1. c \in handles' <=> Len(s) > 1
        BY <1>3, <2>3
      <4>2. QED
        BY <1>6, <1>10, <4>1
    <3>2. \A d \in Classes \ {c} : d \in handles' <=> queue'[d] # <<>>
      BY <1>3, <1>10, <2>3
    <3>3. QED
      BY <3>1, <3>2
  <2>5. handles' \subseteq Classes
    BY <1>3, <2>3
  <2>6. handles' = {d \in Classes : queue'[d] # <<>>}
    BY <2>4, <2>5
  <2>7. QED
    BY <2>2, <2>6 DEF Heap
<1>25. TypeOK'
  <2>1. accumulated' \in [Classes -> 0..Window]
    BY <1>3, <1>4, <1>6, ChargedType DEF TypeOK
  <2>2. handles' \subseteq Classes
    BY <1>24 DEF Heap
  <2>3. queued' \in Nat
    <3>1. queued \in Nat
      BY <1>4 DEF TypeOK
    <3>2. QED
      BY <1>2, <1>3, <3>1
  <2>4. load' \in [requests : 0..Capacity, weight : 0..(Unsigned - 1), bytes : 0..(Unsigned - 1)]
    BY <1>17, <1>20
  <2>5. free' \in 0..MaxAio
    <3>1. free' = MaxAio - load'.requests
      BY <1>22 DEF Loads
    <3>2. QED
      BY <1>19, <1>20, <3>1
  <2>6. pending' \in Seq(Requests)
    BY <1>3, <1>6, Facts, ToSetOfAppend
  <2>7. nowait' \subseteq Requests
    BY <1>3, <1>4, <1>6 DEF TypeOK
  <2>8. QED
    BY <1>2, <1>4, <1>10, <2>1, <2>2, <2>3, <2>4, <2>5, <2>6, <2>7 DEF TypeOK
<1>26. Once'
  <2>1. ASSUME NEW x \in Requests PROVE Places(x)' = Places(x)
    <3>1. InPending(x)' = InPending(x) + (IF x = r THEN 1 ELSE 0)
      BY <1>3, <1>6, Facts, TimesOfAppend DEF InPending
    <3>2. InQueue(x) = (IF x = r THEN 1 ELSE 0) + InQueue(x)' /\ InQueue(x)' \in Nat
      <4>1. CASE ClassOf[x] = c
        <5>1. InQueue(x)' = Times(x, q) /\ InQueue(x) = Times(x, s)
          BY <1>9, <1>10, <4>1 DEF InQueue
        <5>2. Times(x, q) \in Nat
          BY <1>6, TimesType
        <5>3. QED
          BY <1>7, <5>1, <5>2
      <4>2. CASE ClassOf[x] # c
        <5>1. x # r /\ InQueue(x)' = InQueue(x)
          BY <1>8, <1>10, <1>11, <4>2 DEF InQueue
        <5>2. InQueue(x) \in Nat
          BY CopiesType
        <5>3. QED
          BY <5>1, <5>2
      <4>3. QED
        BY <4>1, <4>2
    <3>3. /\ InRetry(x)' = InRetry(x) /\ InBatches(x)' = InBatches(x)
          /\ InSubmitted(x)' = InSubmitted(x) /\ InEvents(x)' = InEvents(x)
          /\ InKernel(x)' = InKernel(x)
      BY <1>2 DEF InRetry, InBatches, InSubmitted, InEvents, InKernel, RestsOf
    <3>4. Places(x)' = InQueue(x)' + InPending(x)' + InRetry(x)' + InBatches(x)' + InSubmitted(x)'
                         + InEvents(x)' + InKernel(x)'
      BY DEF Places
    <3>5. QED
      BY <3>1, <3>2, <3>3, <3>4, CopiesType DEF Places
  <2>2. QED
    BY <1>2, <2>1, OnceKept
<1>27. Answered'
  BY <1>2, <1>4 DEF Answered
<1>28. Sound'
  <2>1. ASSUME NEW d \in Classes, NEW x \in ToSet(queue'[d]) PROVE ClassOf[x] = d
    <3>1. x \in ToSet(queue[d])
      BY <1>6, <1>9, <1>10
    <3>2. QED
      BY <1>4, <3>1 DEF Sound
  <2>2. QED
    BY <1>2, <1>4, <2>1 DEF Sound
<1>29. QED
  BY <1>22, <1>23, <1>24, <1>25, <1>26, <1>27, <1>28, PartsNext

-----------------------------------------------------------------------------
(* What ends requests gives back what they took. *)

\* The requests of done are answered with x and leave the disk.
Returned(done, x) ==
  /\ answer' = [r \in Requests |-> IF r \in done THEN x ELSE answer[r]]
  /\ load' = Finished(load, done)
  /\ free' = free + Cardinality(done)

LEMMA PassedBelow ==
  ASSUME NEW m \in Int, NEW n \in Int, m <= n, Passed(n)
  PROVE  Passed(m)
<1>1. MaxReqCount \in Int /\ \A r \in Requests : Weight(r) \in Int
  BY WeightsAreUnsigned, Constants
<1>2. CASE n < MaxReqCount
  BY <1>1, <1>2 DEF Passed
<1>3. CASE \E r \in Requests : n < MaxReqCount + Weight(r)
  <2>1. PICK r \in Requests : n < MaxReqCount + Weight(r)
    BY <1>3
  <2>2. m < MaxReqCount + Weight(r)
    BY <1>1, <2>1
  <2>3. QED
    BY <2>2 DEF Passed
<1>4. QED
  BY <1>2, <1>3 DEF Passed

LEMMA ReturnedKeeps ==
  ASSUME IInv, NEW done \in SUBSET Executing, NEW x \in {"EBADF", "done"},
         \A r \in done : (x = "EBADF") = (r \in BadFd),
         Returned(done, x), UNCHANGED <<queue, handles, queued>>
  PROVE  /\ Loads' /\ Heap' /\ Peak' /\ Answered'
         /\ answer' \in [Requests -> {"not asked", "none", "EBADF", "done"}]
         /\ load' \in [requests : 0..Capacity, weight : 0..(Unsigned - 1), bytes : 0..(Unsigned - 1)]
         /\ free' \in 0..MaxAio
<1> DEFINE E == Executing
           F == E \ done
<1>1. /\ queue' = queue /\ handles' = handles /\ queued' = queued
      /\ answer' = [r \in Requests |-> IF r \in done THEN x ELSE answer[r]]
      /\ load' = Finished(load, done)
      /\ free' = free + Cardinality(done)
  BY DEF Returned
<1>2. TypeOK /\ Loads /\ Heap /\ Answered /\ Peak
  BY Parts
<1>3. done \in SUBSET Requests /\ answer \in [Requests -> {"not asked", "none", "EBADF", "done"}]
  BY Facts DEF Executing
<1>4. /\ answer' \in [Requests -> {"not asked", "none", "EBADF", "done"}]
      /\ \A r \in done : answer'[r] = x
      /\ \A r \in Requests \ done : answer'[r] = answer[r]
  BY <1>1, <1>3
<1>5. Executing' = F
  BY <1>1, <1>3, <1>4 DEF Executing
<1>6. /\ E \in SUBSET Requests /\ F \in SUBSET Requests
      /\ Cardinality(E) \in Nat /\ WeightOf(E) \in Nat /\ SizeOf(E) \in Nat
      /\ Cardinality(done) \in Nat /\ WeightOf(done) \in Nat /\ SizeOf(done) \in Nat
      /\ Cardinality(F) \in Nat /\ WeightOf(F) \in Nat /\ SizeOf(F) \in Nat
      /\ Cardinality(E) = Cardinality(F) + Cardinality(done)
      /\ WeightOf(E) = WeightOf(F) + WeightOf(done)
      /\ SizeOf(E) = SizeOf(F) + SizeOf(done)
  <2>1. E \in SUBSET Requests /\ done \in SUBSET E
    BY Facts
  <2> HIDE DEF E
  <2>2. QED
    BY <2>1, WeightsAdd
<1>7. /\ load.requests = Cardinality(E) /\ load.weight = WeightOf(E) % Unsigned
      /\ load.bytes = SizeOf(E) % Unsigned /\ free = MaxAio - load.requests
      /\ load.requests <= Capacity
  BY <1>2 DEF Loads
<1> HIDE DEF E, F
<1>8. /\ load'.requests = load.requests - Cardinality(done)
      /\ load'.weight = (load.weight - WeightOf(done)) % Unsigned
      /\ load'.bytes = (load.bytes - SizeOf(done)) % Unsigned
      /\ load' = [requests |-> load'.requests, weight |-> load'.weight, bytes |-> load'.bytes]
  BY <1>1 DEF Finished
<1>9. /\ Unsigned \in Nat \ {0} /\ Capacity \in Nat /\ MaxAio \in Nat /\ Capacity <= MaxAio
      /\ MaxReqCount \in Nat
  BY Constants
<1>10. load'.weight = WeightOf(F) % Unsigned
  <2>1. (((WeightOf(F) + WeightOf(done)) % Unsigned) - WeightOf(done)) % Unsigned = WeightOf(F) % Unsigned
    BY <1>6, <1>9, UnsignedSums
  <2>2. QED
    BY <1>6, <1>7, <1>8, <2>1
<1>11. load'.bytes = SizeOf(F) % Unsigned
  <2>1. (((SizeOf(F) + SizeOf(done)) % Unsigned) - SizeOf(done)) % Unsigned = SizeOf(F) % Unsigned
    BY <1>6, <1>9, UnsignedSums
  <2>2. QED
    BY <1>6, <1>7, <1>8, <2>1
<1>12. /\ load'.requests = Cardinality(F) /\ load'.requests \in 0..Capacity
       /\ load'.requests <= Capacity
       /\ free' = MaxAio - load'.requests /\ free' \in 0..MaxAio
  BY <1>1, <1>6, <1>7, <1>8, <1>9
<1>13. load'.weight \in 0..(Unsigned - 1) /\ load'.bytes \in 0..(Unsigned - 1)
       /\ load'.weight <= WeightOf(F)
  <2>1. WeightOf(F) \in Nat /\ SizeOf(F) \in Nat /\ WeightOf(F) \in Int /\ SizeOf(F) \in Int
    BY <1>6
  <2>2. WeightOf(F) % Unsigned \in 0..(Unsigned - 1) /\ SizeOf(F) % Unsigned \in 0..(Unsigned - 1)
    BY <1>9, <2>1, RemainderType
  <2>3. WeightOf(F) % Unsigned <= WeightOf(F)
    BY <1>9, <2>1, RemainderType
  <2>4. QED
    BY <1>10, <1>11, <2>2, <2>3
<1>14. Passed(Unsigned - 1) \/ Passed(WeightOf(F))
  <2>1. WeightOf(F) <= WeightOf(E) /\ WeightOf(F) \in Int /\ WeightOf(E) \in Int
    BY <1>6
  <2>2. QED
    BY <1>2, <2>1, PassedBelow DEF Peak, E
<1>15. Peak'
  BY <1>5, <1>14 DEF Peak, Passed
<1>16. Passed(load.weight)'
  <2>1. PICK n \in Int : n = load'.weight /\ n <= Unsigned - 1 /\ n <= WeightOf(F)
    BY <1>9, <1>13
  <2>2. Unsigned - 1 \in Int /\ WeightOf(F) \in Int
    BY <1>6, <1>9
  <2>3. Passed(n)
    BY <1>14, <2>1, <2>2, PassedBelow
  <2>4. QED
    BY <2>1, <2>3 DEF Passed
<1>17. Loads'
  BY <1>5, <1>10, <1>11, <1>12, <1>16 DEF Loads
<1>18. Heap'
  BY <1>1, <1>2 DEF Heap, Lengths
<1>19. Answered'
  <2>1. ASSUME NEW r \in Requests, answer'[r] \in {"EBADF", "done"}
        PROVE  (answer'[r] = "EBADF") = (r \in BadFd)
    <3>1. CASE r \in done
      BY <1>4, <3>1
    <3>2. CASE r \notin done
      <4>1. answer'[r] = answer[r]
        BY <1>4, <3>2
      <4>2. QED
        BY <1>2, <2>1, <4>1 DEF Answered
    <3>3. QED
      BY <3>1, <3>2
  <2>2. QED
    BY <2>1 DEF Answered
<1>20. load' \in [requests : 0..Capacity, weight : 0..(Unsigned - 1), bytes : 0..(Unsigned - 1)]
  BY <1>8, <1>12, <1>13
<1>21. QED
  BY <1>4, <1>12, <1>15, <1>17, <1>18, <1>19, <1>20

\* A request that is answered has no copy any more.
LEMMA OnceReturned ==
  ASSUME IInv, NEW done \in SUBSET Executing, NEW x \in {"EBADF", "done"},
         Returned(done, x),
         \A r \in Requests : Places(r)' = Places(r) - (IF r \in done THEN 1 ELSE 0)
  PROVE  Once'
<1>1. \A r \in done : r \in Requests /\ answer[r] = "none"
  BY DEF Executing
<1>2. \A r \in Requests : answer'[r] = IF r \in done THEN x ELSE answer[r]
  BY DEF Returned
<1>3. ASSUME NEW r \in Requests PROVE Places(r)' = IF answer'[r] = "none" THEN 1 ELSE 0
  <2>1. Places(r) = IF answer[r] = "none" THEN 1 ELSE 0
    BY CopiesType
  <2>2. CASE r \in done
    <3>1. Places(r) = 1 /\ answer'[r] = x
      BY <1>1, <1>2, <2>1, <2>2
    <3>2. Places(r)' = 1 - 1
      BY <2>2, <3>1
    <3>3. QED
      BY <3>1, <3>2
  <2>3. CASE r \notin done
    <3>1. Places(r)' = Places(r) - 0
      BY <2>3
    <3>2. answer'[r] = answer[r] /\ Places(r) \in Int
      BY <1>2, <2>1, <2>3
    <3>3. QED
      BY <2>1, <3>1, <3>2
  <2>4. QED
    BY <2>2, <2>3
<1>4. QED
  BY <1>3 DEF Once

\* A request that waits and has a copy outside the queue of its class executes.
LEMMA OutsideExecutes ==
  ASSUME IInv, NEW r \in Requests,
         InPending(r) + InRetry(r) + InBatches(r) + InSubmitted(r) + InEvents(r) + InKernel(r) > 0
  PROVE  r \in Executing
<1>1. /\ InQueue(r) \in Nat /\ InPending(r) \in Nat /\ InRetry(r) \in Nat
      /\ InBatches(r) \in Nat /\ InSubmitted(r) \in Nat /\ InEvents(r) \in Nat
      /\ InKernel(r) \in Nat
  BY CopiesType
<1>2. Places(r) = IF answer[r] = "none" THEN 1 ELSE 0
  BY CopiesType
<1>3. Places(r) > 0 /\ Places(r) > InQueue(r)
  BY <1>1 DEF Places
<1>4. answer[r] = "none" /\ Places(r) = 1
  BY <1>2, <1>3
<1>5. InQueue(r) = 0
  BY <1>1, <1>3, <1>4
<1>6. queue[ClassOf[r]] \in Seq(Requests)
  BY Facts, Constants
<1>7. r \notin ToSet(queue[ClassOf[r]])
  BY <1>5, <1>6, TimesType DEF InQueue
<1>8. QED
  BY <1>4, <1>7 DEF Executing

-----------------------------------------------------------------------------
(* io_submit(2) *)

\* What the call can return.
LEMMA IoSubmitReturns ==
  ASSUME NEW s \in Seq(Requests), s # <<>>, NEW result \in IoSubmit(s)
  PROVE  result \in Result /\ Judged(s, result)
<1>1. Len(s) \in Nat /\ Len(s) >= 1 /\ s[1] \in Requests
  BY LenProperties, EmptySeq, ElementOfSeq
<1>2. CASE result = [taken |-> 0, errno |-> Refusal(s[1])]
  <2>1. result.taken = 0 /\ result.errno = Refusal(s[1])
    BY <1>2
  <2>2. Refusal(s[1]) \in Errno /\ (Refusal(s[1]) = "EBADF" <=> s[1] \in BadFd)
    BY DEF Refusal, Errno
  <2>3. result \in Result
    BY <1>2, <2>2 DEF Result
  <2>4. 1..result.taken = {}
    BY <2>1
  <2>5. QED
    BY <1>1, <2>1, <2>2, <2>3, <2>4 DEF Judged
<1>3. CASE result \in {[taken |-> n, errno |-> "none"] : n \in
                         {k \in 1..Len(s) : \A i \in 1..k : Accepts(s[i])}}
  <2>1. PICK n \in 1..Len(s) : /\ \A i \in 1..n : Accepts(s[i])
                               /\ result = [taken |-> n, errno |-> "none"]
    BY <1>3
  <2>2. result \in Result /\ result.taken = n /\ result.errno = "none" /\ n <= Len(s)
    BY <1>1, <2>1 DEF Result
  <2>3. \A i \in 1..n : s[i] \notin BadFd
    BY <2>1 DEF Accepts
  <2>4. QED
    BY <2>2, <2>3 DEF Judged
<1>4. QED
  BY <1>2, <1>3 DEF IoSubmit

\* The batch is cut in three: what the kernel took, the request that the error
\* answers, and what is tried again.
LEMMA BatchIsCut ==
  ASSUME NEW s \in Seq(Requests), NEW result \in Result, Judged(s, result)
  PROVE  LET took == SubSeq(s, 1, result.taken)
             rest == SubSeq(s, result.taken + 1, Len(s))
             left == SubSeq(s, Consumed(result) + 1, Len(s))
         IN  /\ took \in Seq(Requests) /\ rest \in Seq(Requests) /\ left \in Seq(Requests)
             /\ s[1] \in Requests
             /\ \A r \in ToSet(took) : r \notin BadFd
             /\ \A r : /\ Times(r, s) = Times(r, took) + Times(r, rest)
                       /\ Times(r, rest) = Times(r, left)
                            + (IF result.errno = "EBADF" /\ r = s[1] THEN 1 ELSE 0)
<1> DEFINE took == SubSeq(s, 1, result.taken)
           rest == SubSeq(s, result.taken + 1, Len(s))
           left == SubSeq(s, Consumed(result) + 1, Len(s))
<1>1. Len(s) \in Nat /\ Len(s) >= 1 /\ s[1] \in Requests /\ s # <<>>
  BY LenProperties, EmptySeq, ElementOfSeq DEF Judged
<1>2. result.taken \in 0..Len(s)
  BY <1>1 DEF Judged, Result
<1>3. PICK n \in 0..Len(s) : n = result.taken
  BY <1>2
<1>4. took \in Seq(Requests) /\ rest \in Seq(Requests) /\ ToSet(took) = {s[i] : i \in 1..n}
  BY <1>3, ToSetOfParts
<1>5. \A r : Times(r, s) = Times(r, took) + Times(r, rest)
  BY <1>3, TimesOfParts
<1>6. \A r \in ToSet(took) : r \notin BadFd
  BY <1>3, <1>4 DEF Judged
<1>7. left \in Seq(Requests)
      /\ \A r : Times(r, rest) = Times(r, left) + (IF result.errno = "EBADF" /\ r = s[1] THEN 1 ELSE 0)
  <2>1. CASE result.errno = "EBADF"
    <3>1. Consumed(result) = 1 /\ result.taken = 0
      BY <2>1 DEF Consumed, Judged
    <3>2. PICK one \in 0..Len(s) : one = 1
      BY <1>1
    <3>3. left = SubSeq(s, one + 1, Len(s)) /\ left = Tail(s) /\ Head(s) = s[1]
      <4>1. left = SubSeq(s, 2, Len(s))
        BY <3>1
      <4>2. Tail(s) = SubSeq(s, 2, Len(s)) /\ Head(s) = s[1]
        BY <1>1, TailIsSubSeq, HeadTailProperties
      <4>3. left = Tail(s)
        BY <4>1, <4>2
      <4>4. one + 1 = 2
        BY <3>2
      <4> HIDE DEF left
      <4>5. left = SubSeq(s, one + 1, Len(s))
        BY <4>1, <4>4
      <4>6. QED
        BY <4>2, <4>3, <4>5
    <3>4. rest = s
      <4>1. rest = SubSeq(s, 1, Len(s))
        BY <3>1
      <4>2. QED
        BY <4>1, SubSeqFull
    <3>5. Tail(s) \in Seq(Requests)
          /\ \A r : Times(r, s) = (IF r = Head(s) THEN 1 ELSE 0) + Times(r, Tail(s))
      BY <1>1, TimesOfTail
    <3> HIDE DEF left, rest
    <3>6. \A r : Times(r, left) \in Nat
      BY <3>3, <3>5, TimesType
    <3>7. left \in Seq(Requests)
      BY <3>3, <3>5
    <3>8. ASSUME NEW r
          PROVE  Times(r, rest) = Times(r, left)
                   + (IF result.errno = "EBADF" /\ r = s[1] THEN 1 ELSE 0)
      <4>1. Times(r, rest) = (IF r = s[1] THEN 1 ELSE 0) + Times(r, left) /\ Times(r, left) \in Nat
        BY <3>3, <3>4, <3>5, <3>6
      <4>2. CASE r = s[1]
        BY <2>1, <4>1, <4>2
      <4>3. CASE r # s[1]
        BY <2>1, <4>1, <4>3
      <4>4. QED
        BY <4>2, <4>3
    <3>9. QED
      BY <3>7, <3>8
  <2>2. CASE result.errno # "EBADF"
    <3>1. left = rest
      BY <2>2 DEF Consumed
    <3> HIDE DEF left, rest
    <3>2. rest \in Seq(Requests)
      BY <1>4 DEF rest
    <3>3. \A r : Times(r, rest) \in Nat
      BY <3>2, TimesType
    <3>4. QED
      BY <2>2, <3>1, <3>2, <3>3
  <2>3. QED
    BY <2>1, <2>2
<1>8. QED
  BY <1>1, <1>4, <1>5, <1>6, <1>7

\* The kernel takes requests it does not have yet.
LEMMA KernelTakes ==
  ASSUME IInv, NEW p \in Seq(Requests), kernel' = kernel \cup ToSet(p),
         NEW r \in Requests, Times(r, p) + InKernel(r) <= 1
  PROVE  InKernel(r)' = InKernel(r) + Times(r, p)
<1>1. Times(r, p) \in Nat /\ (Times(r, p) = 0 <=> r \notin ToSet(p))
  BY TimesType
<1>2. r \in kernel' <=> r \in kernel \/ Times(r, p) # 0
  BY <1>1
<1>3. CASE r \in kernel
  BY <1>1, <1>2, <1>3 DEF InKernel
<1>4. CASE r \notin kernel
  BY <1>1, <1>2, <1>4 DEF InKernel
<1>5. QED
  BY <1>3, <1>4

\* handle_aio_error() answers the first request of the batch for EBADF, and
\* nobody for another result.
LEMMA HandleResultReturns ==
  ASSUME IInv, NEW s \in Seq(Requests), NEW result \in Result, Judged(s, result),
         HandleResult(s, result)
  PROVE  /\ Returned(IF result.errno = "EBADF" THEN {s[1]} ELSE {}, "EBADF")
         /\ nowait' \subseteq Requests /\ nowaitOk' \in BOOLEAN
<1>1. nowait \subseteq Requests /\ nowaitOk \in BOOLEAN /\ free \in Int
  <2>1. nowait \subseteq Requests /\ nowaitOk \in BOOLEAN /\ free \in 0..MaxAio
    BY Parts DEF TypeOK
  <2>2. QED
    BY <2>1
<1>2. s[1] \in Requests
  <2>1. Len(s) \in Nat /\ s # <<>>
    BY LenProperties DEF Judged
  <2>2. 1 \in 1..Len(s)
    BY <2>1, EmptySeq
  <2>3. QED
    BY <2>2, ElementOfSeq
<1>3. CASE result.errno = "EBADF"
  <2>1. /\ free' = free + 1 /\ answer' = [answer EXCEPT ![s[1]] = "EBADF"]
        /\ load' = Finished(load, {s[1]}) /\ nowait' = nowait /\ nowaitOk' = nowaitOk
    BY <1>3 DEF HandleResult, HandleAioError, flags
  <2>2. Cardinality({s[1]}) = 1
    BY FS_Singleton
  <2>3. answer' = [r \in Requests |-> IF r \in {s[1]} THEN "EBADF" ELSE answer[r]]
    BY <2>1, Facts
  <2>4. QED
    BY <1>1, <1>3, <2>1, <2>2, <2>3 DEF Returned
<1>4. CASE result.errno # "EBADF"
  <2>1. /\ free' = free /\ answer' = answer /\ load' = load
        /\ nowait' = nowait \/ nowait' = nowait \ {s[1]}
        /\ nowaitOk' = nowaitOk \/ nowaitOk' = FALSE
    BY <1>4 DEF HandleResult, HandleAioError, flags
  <2>2. Cardinality({}) = 0
    BY FS_EmptySet
  <2>3. answer' = [r \in Requests |-> IF r \in {} THEN "EBADF" ELSE answer[r]]
    BY <2>1, Facts
  <2>4. Finished(load, {}) = load
    <3>1. WeightOf({}) = 0 /\ SizeOf({}) = 0
      BY TotalOfEmpty DEF WeightOf, SizeOf
    <3>2. PICK a \in 0..(Unsigned - 1), b \in 0..(Unsigned - 1), k \in Int :
            a = load.weight /\ b = load.bytes /\ k = load.requests
      <4>1. load.requests \in 0..Capacity /\ load.weight \in 0..(Unsigned - 1)
            /\ load.bytes \in 0..(Unsigned - 1)
        BY Facts
      <4>2. load.requests \in Int
        BY <4>1
      <4>3. QED
        BY <4>1, <4>2
    <3>3. Unsigned \in Nat \ {0}
      BY Constants
    <3>4. (a - 0) % Unsigned = a /\ (b - 0) % Unsigned = b /\ k - 0 = k
      <4>1. a \in Nat /\ a < Unsigned /\ b \in Nat /\ b < Unsigned /\ a - 0 = a /\ b - 0 = b
        BY <3>3
      <4>2. a % Unsigned = a
        BY <3>3, <4>1, RemainderType
      <4>3. b % Unsigned = b
        BY <3>3, <4>1, RemainderType
      <4>4. k - 0 = k
        BY <3>2
      <4>5. QED
        BY <4>1, <4>2, <4>3, <4>4
    <3>5. load = [requests |-> k, weight |-> a, bytes |-> b]
      BY <3>2, Facts
    <3>6. Finished(load, {}) = [requests |-> k - 0, weight |-> (a - 0) % Unsigned,
                                bytes |-> (b - 0) % Unsigned]
      BY <2>2, <3>1, <3>2 DEF Finished
    <3>7. QED
      BY <3>4, <3>5, <3>6
  <2>5. QED
    <3>1. nowait' \subseteq Requests /\ nowaitOk' \in BOOLEAN
      BY <1>1, <2>1
    <3>2. free' = free + Cardinality({})
      BY <1>1, <2>1, <2>2
    <3>3. load' = Finished(load, {})
      BY <2>1, <2>4
    <3>4. Returned({}, "EBADF")
      BY <2>3, <3>2, <3>3 DEF Returned
    <3>5. QED
      BY <1>4, <3>1, <3>4
<1>5. QED
  BY <1>3, <1>4

-----------------------------------------------------------------------------
(* The kernel and the pollers. *)

\* The kernel is done with a request, or gives it back.
LEMMA KernelMovesKeep ==
  ASSUME IInv, NEW r \in Requests, KernelWouldBlock(r) \/ KernelCompletes(r)
  PROVE  IInv'
<1>1. r \in kernel /\ kernel' = kernel \ {r}
  BY DEF KernelWouldBlock, KernelCompletes
<1>2. PICK e \in Event : e.request = r /\ events' = Append(events, e)
  <2>1. [request |-> r, res |-> "EAGAIN"] \in Event /\ [request |-> r, res |-> "done"] \in Event
    BY DEF Event
  <2>2. QED
    BY <2>1 DEF KernelWouldBlock, KernelCompletes
<1>3. /\ queue' = queue /\ accumulated' = accumulated /\ shares' = shares
      /\ handles' = handles /\ queued' = queued
      /\ load' = load /\ free' = free /\ answer' = answer
      /\ pending' = pending /\ retry' = retry /\ nowait' = nowait /\ nowaitOk' = nowaitOk
      /\ flushing' = flushing /\ batches' = batches /\ submitted' = submitted
  BY DEF KernelWouldBlock, KernelCompletes, fairQueue, aio, flags, threadPool
<1>4. TypeOK /\ Sound
  BY Parts
<1>5. events' \in Seq(Event) /\ ToSet(events') = ToSet(events) \cup {e}
  <2>1. events \in Seq(Event)
    BY Facts
  <2>2. QED
    BY <1>2, <2>1, ToSetOfAppend
<1>6. TypeOK'
  <2>1. kernel' \subseteq Requests
    BY <1>1, Facts
  <2>2. events' \in Seq([request : Requests, res : {"EAGAIN", "done"}])
    BY <1>5 DEF Event
  <2>3. QED
    BY <1>3, <1>4, <2>1, <2>2 DEF TypeOK
<1>7. Loads' /\ Heap' /\ Peak' /\ Answered'
  BY <1>3, SameBooks
<1>8. Once'
  <2>1. ASSUME NEW x \in Requests PROVE Places(x)' = Places(x)
    <3>1. InEvents(x)' = InEvents(x) + (IF x = r THEN 1 ELSE 0)
      <4>1. events \in Seq(Event)
        BY Facts
      <4>2. QED
        BY <1>2, <4>1, EventAdded DEF InEvents
    <3>2. InKernel(x) = InKernel(x)' + (IF x = r THEN 1 ELSE 0) /\ InKernel(x)' \in {0, 1}
      BY <1>1 DEF InKernel
    <3>3. /\ InQueue(x)' = InQueue(x) /\ InPending(x)' = InPending(x) /\ InRetry(x)' = InRetry(x)
          /\ InBatches(x)' = InBatches(x) /\ InSubmitted(x)' = InSubmitted(x)
      BY <1>3 DEF InQueue, InPending, InRetry, InBatches, InSubmitted, RestsOf
    <3>4. Places(x)' = InQueue(x)' + InPending(x)' + InRetry(x)' + InBatches(x)' + InSubmitted(x)'
                         + InEvents(x)' + InKernel(x)'
      BY DEF Places
    <3>5. QED
      BY <3>1, <3>2, <3>3, <3>4, CopiesType DEF Places
  <2>2. QED
    BY <1>3, <2>1, OnceKept
<1>9. Sound'
  <2>1. r \notin BadFd
    BY <1>1, <1>4 DEF Sound
  <2>2. \A f \in ToSet(events') : f.request \notin BadFd
    BY <1>2, <1>4, <1>5, <2>1 DEF Sound
  <2>3. kernel' \cap BadFd = {}
    BY <1>1, <1>4 DEF Sound
  <2>4. QED
    BY <1>3, <1>4, <2>2, <2>3 DEF Sound
<1>10. QED
  BY <1>6, <1>7, <1>8, <1>9, PartsNext

\* flush_pending_aio() goes on to its next part.
LEMMA FlushKeeps ==
  ASSUME IInv, Flush \/ Dispatched
  PROVE  IInv'
<1>1. flushing' \in {"no", "dispatching", "submitting"}
  BY DEF Flush, Dispatched
<1>2. /\ queue' = queue /\ accumulated' = accumulated /\ shares' = shares
      /\ handles' = handles /\ queued' = queued
      /\ load' = load /\ free' = free /\ answer' = answer
      /\ pending' = pending /\ retry' = retry /\ nowait' = nowait /\ nowaitOk' = nowaitOk
      /\ batches' = batches /\ submitted' = submitted /\ kernel' = kernel /\ events' = events
  BY DEF Flush, Dispatched, fairQueue, aio, flags, threadPool, system
<1>3. TypeOK /\ Once /\ Sound
  BY Parts
<1>4. TypeOK'
  BY <1>1, <1>2, <1>3 DEF TypeOK
<1>5. Loads' /\ Heap' /\ Peak' /\ Answered'
  BY <1>2, SameBooks
<1>6. Once' /\ Sound'
  BY <1>2, <1>3 DEF Once, Sound, Places, InQueue, InPending, InRetry, InBatches, InSubmitted,
                    InEvents, InKernel, RestsOf
<1>7. QED
  BY <1>4, <1>5, <1>6, PartsNext

\* One turn of its loop: the kernel takes the front of _pending_aio, or says
\* what is wrong with the first request.
LEMMA SubmitPendingKeeps ==
  ASSUME IInv, SubmitPending
  PROVE  IInv'
<1>1. pending # <<>> /\ pending \in Seq(Requests) /\ TypeOK /\ Sound
  BY Facts, Parts DEF SubmitPending
<1>2. PICK result \in IoSubmit(pending) :
        /\ HandleResult(pending, result)
        /\ pending' = SubSeq(pending, Consumed(result) + 1, Len(pending))
        /\ kernel' = kernel \cup ToSet(SubSeq(pending, 1, result.taken))
  BY DEF SubmitPending
<1>3. /\ queue' = queue /\ accumulated' = accumulated /\ shares' = shares
      /\ handles' = handles /\ queued' = queued /\ retry' = retry /\ flushing' = flushing
      /\ batches' = batches /\ submitted' = submitted /\ events' = events
  BY DEF SubmitPending, fairQueue, threadPool
<1>4. result \in Result /\ Judged(pending, result)
  BY <1>1, <1>2, IoSubmitReturns
<1> DEFINE took == SubSeq(pending, 1, result.taken)
           rest == SubSeq(pending, result.taken + 1, Len(pending))
           done == IF result.errno = "EBADF" THEN {pending[1]} ELSE {}
<1>5. /\ took \in Seq(Requests) /\ rest \in Seq(Requests) /\ pending' \in Seq(Requests)
      /\ pending[1] \in Requests
      /\ \A r \in ToSet(took) : r \notin BadFd
      /\ \A r : /\ Times(r, pending) = Times(r, took) + Times(r, rest)
                /\ Times(r, rest) = Times(r, pending')
                     + (IF result.errno = "EBADF" /\ r = pending[1] THEN 1 ELSE 0)
  BY <1>1, <1>2, <1>4, BatchIsCut
<1>6. /\ Returned(done, "EBADF") /\ nowait' \subseteq Requests /\ nowaitOk' \in BOOLEAN
  BY <1>1, <1>2, <1>4, HandleResultReturns
<1>7. kernel' = kernel \cup ToSet(took)
  BY <1>2
<1>8. \A r : Times(r, rest) = Times(r, pending') + (IF r \in done THEN 1 ELSE 0)
  BY <1>5
<1>9. \A r : Times(r, took) \in Nat /\ Times(r, rest) \in Nat /\ Times(r, pending') \in Nat
  <2>1. took \in Seq(Requests) /\ rest \in Seq(Requests) /\ pending' \in Seq(Requests)
    BY <1>5
  <2> HIDE DEF took, rest
  <2>2. \A r : Times(r, took) \in Nat
    BY <2>1, TimesType
  <2>3. \A r : Times(r, rest) \in Nat
    BY <2>1, TimesType
  <2>4. \A r : Times(r, pending') \in Nat
    BY <2>1, TimesType
  <2>5. QED
    BY <2>2, <2>3, <2>4
<1>10. done \in SUBSET Executing /\ \A r \in done : ("EBADF" = "EBADF") = (r \in BadFd)
  <2>1. ASSUME NEW r \in done PROVE r \in Executing /\ r \in BadFd
    <3>1. r = pending[1] /\ result.errno = "EBADF" /\ r \in Requests
      BY <1>5, <2>1
    <3>2. Times(r, rest) > 0
      BY <1>8, <1>9, <2>1
    <3>3. InPending(r) > 0
      BY <1>5, <1>9, <3>2 DEF InPending
    <3>4. InPending(r) + InRetry(r) + InBatches(r) + InSubmitted(r) + InEvents(r) + InKernel(r) > 0
      BY <3>1, <3>3, CopiesType
    <3>5. r \in Executing
      BY <3>1, <3>4, OutsideExecutes
    <3>6. r \in BadFd
      BY <1>4, <3>1 DEF Judged
    <3>7. QED
      BY <3>5, <3>6
  <2> HIDE DEF done
  <2>2. QED
    BY <2>1
<1> HIDE DEF took, rest, done
<1>11. /\ Loads' /\ Heap' /\ Peak' /\ Answered'
       /\ answer' \in [Requests -> {"not asked", "none", "EBADF", "done"}]
       /\ load' \in [requests : 0..Capacity, weight : 0..(Unsigned - 1), bytes : 0..(Unsigned - 1)]
       /\ free' \in 0..MaxAio
  <2>1. PICK x \in {"EBADF", "done"} : x = "EBADF"
    OBVIOUS
  <2>2. /\ \A r \in done : (x = "EBADF") = (r \in BadFd)
        /\ Returned(done, x)
    BY <1>6, <1>10, <2>1
  <2>3. QED
    BY <1>3, <1>10, <2>2, ReturnedKeeps
<1>12. kernel' \subseteq Requests
  BY <1>5, <1>7, Facts, ToSetIsImage
<1>13. TypeOK'
  BY <1>1, <1>3, <1>5, <1>6, <1>11, <1>12 DEF TypeOK
<1>14. Once'
  <2>1. ASSUME NEW r \in Requests PROVE Places(r)' = Places(r) - (IF r \in done THEN 1 ELSE 0)
    <3>1. /\ InQueue(r) \in Nat /\ InPending(r) \in Nat /\ InRetry(r) \in Nat
          /\ InBatches(r) \in Nat /\ InSubmitted(r) \in Nat /\ InEvents(r) \in Nat
          /\ InKernel(r) \in {0, 1}
      BY CopiesType
    <3>2. Places(r) <= 1
      BY CopiesType
    <3>3. InPending(r) = Times(r, took) + Times(r, rest) /\ InPending(r)' = Times(r, pending')
      BY <1>5 DEF InPending
    <3>4. Times(r, took) + InKernel(r) <= 1
      BY <1>9, <3>1, <3>2, <3>3 DEF Places
    <3>5. InKernel(r)' = InKernel(r) + Times(r, took)
      BY <1>5, <1>7, <3>4, KernelTakes
    <3>6. /\ InQueue(r)' = InQueue(r) /\ InRetry(r)' = InRetry(r)
          /\ InBatches(r)' = InBatches(r) /\ InSubmitted(r)' = InSubmitted(r)
          /\ InEvents(r)' = InEvents(r)
      BY <1>3 DEF InQueue, InRetry, InBatches, InSubmitted, InEvents, RestsOf
    <3>7. Places(r)' = InQueue(r)' + InPending(r)' + InRetry(r)' + InBatches(r)' + InSubmitted(r)'
                         + InEvents(r)' + InKernel(r)'
      BY DEF Places
    <3>8. Times(r, rest) = Times(r, pending') + (IF r \in done THEN 1 ELSE 0)
          /\ Times(r, took) \in Nat /\ Times(r, rest) \in Nat /\ Times(r, pending') \in Nat
      BY <1>8, <1>9
    <3>9. QED
      BY <3>1, <3>3, <3>5, <3>6, <3>7, <3>8 DEF Places
  <2>2. QED
    BY <1>6, <1>10, <2>1, OnceReturned
<1>15. Sound'
  <2>1. kernel' \cap BadFd = {}
    BY <1>1, <1>5, <1>7 DEF Sound
  <2>2. QED
    BY <1>1, <1>3, <2>1 DEF Sound
<1>16. QED
  BY <1>11, <1>13, <1>14, <1>15, PartsNext

\* The end of the loop: what has to be tried again becomes a batch.
LEMMA FlushEndsKeeps ==
  ASSUME IInv, FlushEnds
  PROVE  IInv'
<1>1. /\ batches' = IF retry # <<>> THEN Append(batches, retry) ELSE batches
      /\ retry' = <<>> /\ flushing' = "no"
  BY DEF FlushEnds
<1>2. /\ queue' = queue /\ accumulated' = accumulated /\ shares' = shares
      /\ handles' = handles /\ queued' = queued
      /\ load' = load /\ free' = free /\ answer' = answer
      /\ pending' = pending /\ nowait' = nowait /\ nowaitOk' = nowaitOk
      /\ submitted' = submitted /\ kernel' = kernel /\ events' = events
  BY DEF FlushEnds, fairQueue, flags, system
<1>3. TypeOK /\ Sound /\ retry \in Seq(Requests) /\ batches \in Seq(Seq(Requests))
  BY Facts, Parts
<1>4. /\ batches' \in Seq(Seq(Requests)) /\ <<>> \notin ToSet(batches')
      /\ \A r : TimesInAll(r, batches') = TimesInAll(r, batches) + Times(r, retry)
  <2>1. CASE retry # <<>>
    <3>1. /\ Append(batches, retry) \in Seq(Seq(Requests))
          /\ ToSet(Append(batches, retry)) = ToSet(batches) \cup {retry}
      BY <1>3, ToSetOfAppend
    <3>2. \A r : TimesInAll(r, Append(batches, retry)) = TimesInAll(r, batches) + Times(r, retry)
      BY <1>3, TimesInAllOfAppend
    <3>3. batches' = Append(batches, retry)
      BY <1>1, <2>1
    <3>4. <<>> \notin ToSet(batches)
      BY <1>3 DEF Sound
    <3>5. QED
      BY <2>1, <3>1, <3>2, <3>3, <3>4
  <2>2. CASE retry = <<>>
    <3>1. batches' = batches /\ <<>> \notin ToSet(batches)
      BY <1>1, <1>3, <2>2 DEF Sound
    <3>2. \A r : Times(r, retry) = 0 /\ TimesInAll(r, batches) \in Nat
      BY <1>3, <2>2, TimesOfEmpty, TimesInAllType
    <3>3. QED
      BY <1>3, <3>1, <3>2
  <2>3. QED
    BY <2>1, <2>2
<1>5. TypeOK'
  <2>1. <<>> \in Seq(Requests)
    OBVIOUS
  <2>2. retry' \in Seq(Requests) /\ flushing' \in {"no", "dispatching", "submitting"}
    BY <1>1, <2>1
  <2>3. QED
    BY <1>2, <1>3, <1>4, <2>2 DEF TypeOK
<1>6. Loads' /\ Heap' /\ Peak' /\ Answered'
  BY <1>2, SameBooks
<1>7. Once'
  <2>1. ASSUME NEW r \in Requests PROVE Places(r)' = Places(r)
    <3>1. InBatches(r)' = InBatches(r) + InRetry(r)
      BY <1>4 DEF InBatches, InRetry
    <3>2. InRetry(r)' = 0
      BY <1>1, TimesOfEmpty DEF InRetry
    <3>3. /\ InQueue(r)' = InQueue(r) /\ InPending(r)' = InPending(r)
          /\ InSubmitted(r)' = InSubmitted(r) /\ InEvents(r)' = InEvents(r)
          /\ InKernel(r)' = InKernel(r)
      BY <1>2 DEF InQueue, InPending, InSubmitted, InEvents, InKernel, RestsOf
    <3>4. Places(r)' = InQueue(r)' + InPending(r)' + InRetry(r)' + InBatches(r)' + InSubmitted(r)'
                         + InEvents(r)' + InKernel(r)'
      BY DEF Places
    <3>5. QED
      BY <3>1, <3>2, <3>3, <3>4, CopiesType DEF Places
  <2>2. QED
    BY <1>2, <2>1, OnceKept
<1>8. Sound'
  BY <1>2, <1>3, <1>4 DEF Sound
<1>9. QED
  BY <1>5, <1>6, <1>7, <1>8, PartsNext

\* The system call thread submits its next batch.
LEMMA ThreadSubmitsKeeps ==
  ASSUME IInv, NEW result, ThreadSubmits(result)
  PROVE  IInv'
<1> DEFINE s == Head(batches)
           took == SubSeq(s, 1, result.taken)
           rest == SubSeq(s, result.taken + 1, Len(s))
           b == [iocbs |-> s, result |-> result]
<1>1. /\ batches # <<>> /\ result \in IoSubmit(s)
      /\ kernel' = kernel \cup ToSet(took)
      /\ submitted' = Append(submitted, b)
      /\ batches' = Tail(batches)
  BY DEF ThreadSubmits
<1>2. /\ queue' = queue /\ accumulated' = accumulated /\ shares' = shares
      /\ handles' = handles /\ queued' = queued
      /\ load' = load /\ free' = free /\ answer' = answer
      /\ pending' = pending /\ retry' = retry /\ nowait' = nowait /\ nowaitOk' = nowaitOk
      /\ flushing' = flushing /\ events' = events
  BY DEF ThreadSubmits, fairQueue, aio, flags
<1>3. /\ TypeOK /\ Sound /\ batches \in Seq(Seq(Requests)) /\ submitted \in Seq(Examined)
      /\ RestsOf(submitted) \in Seq(Seq(Requests)) /\ kernel \subseteq Requests
  BY Facts, Parts
<1>4. /\ s \in Seq(Requests) /\ batches' \in Seq(Seq(Requests))
      /\ ToSet(batches) = {s} \cup ToSet(batches')
      /\ \A r : TimesInAll(r, batches) = Times(r, s) + TimesInAll(r, batches')
  <2>1. /\ Head(batches) \in Seq(Requests) /\ Tail(batches) \in Seq(Seq(Requests))
        /\ ToSet(batches) = {Head(batches)} \cup ToSet(Tail(batches))
    BY <1>1, <1>3, ToSetOfTail
  <2>2. \A r : TimesInAll(r, batches) = Times(r, Head(batches)) + TimesInAll(r, Tail(batches))
    BY <1>1, <1>3, TimesInAllOfTail
  <2>3. QED
    BY <1>1, <2>1, <2>2
<1>5. s # <<>>
  BY <1>3, <1>4 DEF Sound
<1>6. result \in Result /\ Judged(s, result)
  <2> HIDE DEF s
  <2>1. QED
    BY <1>1, <1>4, <1>5, IoSubmitReturns
<1>7. /\ took \in Seq(Requests) /\ rest \in Seq(Requests)
      /\ \A r \in ToSet(took) : r \notin BadFd
      /\ \A r : Times(r, s) = Times(r, took) + Times(r, rest)
  <2> HIDE DEF s
  <2>1. QED
    BY <1>4, <1>6, BatchIsCut
<1>8. \A r : Times(r, took) \in Nat /\ Times(r, rest) \in Nat
  <2>1. took \in Seq(Requests) /\ rest \in Seq(Requests)
    BY <1>7
  <2> HIDE DEF took, rest
  <2>2. \A r : Times(r, took) \in Nat
    BY <2>1, TimesType
  <2>3. \A r : Times(r, rest) \in Nat
    BY <2>1, TimesType
  <2>4. QED
    BY <2>2, <2>3
<1>9. b \in Examined /\ b.iocbs = s /\ b.result = result /\ Rest(b) = rest
      /\ b.result.taken <= Len(b.iocbs)
  BY <1>4, <1>6 DEF Examined, Rest, Judged
<1> HIDE DEF s, took, rest, b
<1>10. /\ submitted' \in Seq(Examined) /\ ToSet(submitted') = ToSet(submitted) \cup {b}
       /\ RestsOf(submitted)' = Append(RestsOf(submitted), rest)
  <2>1. /\ Append(submitted, b) \in Seq(Examined)
        /\ ToSet(Append(submitted, b)) = ToSet(submitted) \cup {b}
    BY <1>3, <1>9, ToSetOfAppend
  <2>2. \A i \in 1..Len(submitted) : submitted[i].result.taken <= Len(submitted[i].iocbs)
    <3>1. \A i \in 1..Len(submitted) : submitted[i] \in ToSet(submitted)
      BY <1>3, LenProperties DEF ToSet
    <3>2. QED
      BY <1>3, <3>1 DEF Sound, Judged
  <2>3. RestsOf(Append(submitted, b)) = Append(RestsOf(submitted), Rest(b))
    BY <1>3, <1>9, <2>2, RestsOfSubmitted
  <2>4. RestsOf(submitted)' = RestsOf(Append(submitted, b))
    BY <1>1 DEF RestsOf
  <2>5. QED
    BY <1>1, <1>9, <2>1, <2>3, <2>4
<1>11. kernel' \subseteq Requests
  BY <1>1, <1>3, <1>7, ToSetIsImage
<1>12. TypeOK'
  <2>1. submitted' \in Seq([iocbs : Seq(Requests), result : Result])
    BY <1>10 DEF Examined
  <2>2. QED
    BY <1>2, <1>3, <1>4, <1>11, <2>1 DEF TypeOK
<1>13. Loads' /\ Heap' /\ Peak' /\ Answered'
  BY <1>2, SameBooks
<1>14. Once'
  <2>1. ASSUME NEW r \in Requests PROVE Places(r)' = Places(r)
    <3>1. /\ InQueue(r) \in Nat /\ InPending(r) \in Nat /\ InRetry(r) \in Nat
          /\ InBatches(r) \in Nat /\ InSubmitted(r) \in Nat /\ InEvents(r) \in Nat
          /\ InKernel(r) \in {0, 1}
      BY CopiesType
    <3>2. Places(r) <= 1
      BY CopiesType
    <3>3. InBatches(r) = Times(r, took) + Times(r, rest) + InBatches(r)'
      BY <1>4, <1>7 DEF InBatches
    <3>4. InSubmitted(r)' = InSubmitted(r) + Times(r, rest)
      BY <1>3, <1>7, <1>10, TimesInAllOfAppend DEF InSubmitted
    <3>5. InBatches(r)' \in Nat
      BY <1>4, TimesInAllType DEF InBatches
    <3>6. Times(r, took) + InKernel(r) <= 1
      BY <1>8, <3>1, <3>2, <3>3, <3>5 DEF Places
    <3>7. InKernel(r)' = InKernel(r) + Times(r, took)
      BY <1>1, <1>7, <3>6, KernelTakes
    <3>8. /\ InQueue(r)' = InQueue(r) /\ InPending(r)' = InPending(r)
          /\ InRetry(r)' = InRetry(r) /\ InEvents(r)' = InEvents(r)
      BY <1>2 DEF InQueue, InPending, InRetry, InEvents
    <3>9. Places(r)' = InQueue(r)' + InPending(r)' + InRetry(r)' + InBatches(r)' + InSubmitted(r)'
                         + InEvents(r)' + InKernel(r)'
      BY DEF Places
    <3>10. QED
      BY <1>8, <3>1, <3>3, <3>4, <3>5, <3>7, <3>8, <3>9 DEF Places
  <2>2. QED
    BY <1>2, <2>1, OnceKept
<1>15. Sound'
  <2>1. kernel' \cap BadFd = {}
    BY <1>1, <1>3, <1>7 DEF Sound
  <2>2. <<>> \notin ToSet(batches')
    BY <1>3, <1>4 DEF Sound
  <2>3. \A x \in ToSet(submitted') : Judged(x.iocbs, x.result)
    BY <1>3, <1>6, <1>9, <1>10 DEF Sound
  <2>4. QED
    BY <1>2, <1>3, <2>1, <2>2, <2>3 DEF Sound
<1>16. QED
  BY <1>12, <1>13, <1>14, <1>15, PartsNext

\* The reactor sees an examined batch: the rest of it is tried once more.
LEMMA RetrySubmittedKeeps ==
  ASSUME IInv, RetrySubmitted
  PROVE  IInv'
<1> DEFINE b == Head(submitted)
           s == b.iocbs
           result == b.result
           rest == SubSeq(s, result.taken + 1, Len(s))
           left == SubSeq(s, Consumed(result) + 1, Len(s))
           done == IF result.errno = "EBADF" THEN {s[1]} ELSE {}
<1>1. /\ submitted # <<>> /\ HandleResult(s, result)
      /\ retry' = retry \o left /\ submitted' = Tail(submitted)
  BY DEF RetrySubmitted
<1>2. /\ queue' = queue /\ accumulated' = accumulated /\ shares' = shares
      /\ handles' = handles /\ queued' = queued
      /\ pending' = pending /\ flushing' = flushing /\ batches' = batches
      /\ kernel' = kernel /\ events' = events
  BY DEF RetrySubmitted, fairQueue, system
<1>3. /\ TypeOK /\ Sound /\ submitted \in Seq(Examined) /\ retry \in Seq(Requests)
      /\ RestsOf(submitted) \in Seq(Seq(Requests))
  BY Facts, Parts
<1>4. /\ b \in Examined /\ submitted' \in Seq(Examined)
      /\ ToSet(submitted) = {b} \cup ToSet(submitted')
  <2>1. /\ Head(submitted) \in Examined /\ Tail(submitted) \in Seq(Examined)
        /\ ToSet(submitted) = {Head(submitted)} \cup ToSet(Tail(submitted))
    BY <1>1, <1>3, ToSetOfTail
  <2>2. QED
    BY <1>1, <2>1
<1>5. /\ s \in Seq(Requests) /\ result \in Result /\ Judged(s, result) /\ Rest(b) = rest
  <2>1. s \in Seq(Requests) /\ result \in Result
    BY <1>4 DEF Examined
  <2>2. Judged(s, result)
    BY <1>3, <1>4 DEF Sound
  <2>3. QED
    BY <2>1, <2>2 DEF Rest
<1>6. /\ rest \in Seq(Requests) /\ left \in Seq(Requests) /\ s[1] \in Requests
      /\ \A r : Times(r, rest) = Times(r, left)
                  + (IF result.errno = "EBADF" /\ r = s[1] THEN 1 ELSE 0)
  <2> HIDE DEF b, s, result
  <2>1. QED
    BY <1>5, BatchIsCut
<1>7. /\ Returned(done, "EBADF") /\ nowait' \subseteq Requests /\ nowaitOk' \in BOOLEAN
  <2> HIDE DEF b, s, result
  <2>1. QED
    BY <1>1, <1>5, HandleResultReturns
<1> HIDE DEF b, s, result
<1>8. \A r : Times(r, rest) = Times(r, left) + (IF r \in done THEN 1 ELSE 0)
  BY <1>6
<1>9. \A r : Times(r, rest) \in Nat /\ Times(r, left) \in Nat
  <2>1. rest \in Seq(Requests) /\ left \in Seq(Requests)
    BY <1>6
  <2> HIDE DEF rest, left
  <2>2. \A r : Times(r, rest) \in Nat
    BY <2>1, TimesType
  <2>3. \A r : Times(r, left) \in Nat
    BY <2>1, TimesType
  <2>4. QED
    BY <2>2, <2>3
<1> HIDE DEF rest, left
<1>10. /\ RestsOf(submitted)' \in Seq(Seq(Requests))
       /\ \A r : TimesInAll(r, RestsOf(submitted))
                   = Times(r, rest) + TimesInAll(r, RestsOf(submitted)')
  <2>1. \A i \in 1..Len(submitted) : submitted[i].result.taken <= Len(submitted[i].iocbs)
    <3>1. \A i \in 1..Len(submitted) : submitted[i] \in ToSet(submitted)
      BY <1>3, LenProperties DEF ToSet
    <3>2. QED
      BY <1>3, <3>1 DEF Sound, Judged
  <2>2. /\ RestsOf(submitted) # <<>> /\ Head(RestsOf(submitted)) = Rest(Head(submitted))
        /\ RestsOf(Tail(submitted)) = Tail(RestsOf(submitted))
    BY <1>1, <1>3, <2>1, RestsOfSubmitted
  <2>3. /\ Tail(RestsOf(submitted)) \in Seq(Seq(Requests))
        /\ \A r : TimesInAll(r, RestsOf(submitted))
             = Times(r, Head(RestsOf(submitted))) + TimesInAll(r, Tail(RestsOf(submitted)))
    BY <1>3, <2>2, TimesInAllOfTail, ToSetOfTail
  <2>4. RestsOf(submitted)' = RestsOf(Tail(submitted))
    BY <1>1 DEF RestsOf
  <2>5. Head(RestsOf(submitted)) = rest
    BY <1>5, <2>2 DEF b
  <2>6. QED
    BY <2>2, <2>3, <2>4, <2>5
<1>11. done \in SUBSET Executing /\ \A r \in done : ("EBADF" = "EBADF") = (r \in BadFd)
  <2>1. ASSUME NEW r \in done PROVE r \in Executing /\ r \in BadFd
    <3>1. r = s[1] /\ result.errno = "EBADF" /\ r \in Requests
      BY <1>6, <2>1
    <3>2. Times(r, rest) > 0
      BY <1>8, <1>9, <2>1
    <3>3. TimesInAll(r, RestsOf(submitted)') \in Nat
      BY <1>10, TimesInAllType
    <3>4. InSubmitted(r) > 0
      BY <1>9, <1>10, <3>2, <3>3 DEF InSubmitted
    <3>5. InPending(r) + InRetry(r) + InBatches(r) + InSubmitted(r) + InEvents(r) + InKernel(r) > 0
      BY <3>1, <3>4, CopiesType
    <3>6. r \in Executing
      BY <3>1, <3>5, OutsideExecutes
    <3>7. r \in BadFd
      BY <1>5, <3>1 DEF Judged
    <3>8. QED
      BY <3>6, <3>7
  <2> HIDE DEF done
  <2>2. QED
    BY <2>1
<1> HIDE DEF done
<1>12. /\ Loads' /\ Heap' /\ Peak' /\ Answered'
       /\ answer' \in [Requests -> {"not asked", "none", "EBADF", "done"}]
       /\ load' \in [requests : 0..Capacity, weight : 0..(Unsigned - 1), bytes : 0..(Unsigned - 1)]
       /\ free' \in 0..MaxAio
  <2>1. PICK x \in {"EBADF", "done"} : x = "EBADF"
    OBVIOUS
  <2>2. /\ \A r \in done : (x = "EBADF") = (r \in BadFd)
        /\ Returned(done, x)
    BY <1>7, <1>11, <2>1
  <2>3. QED
    BY <1>2, <1>11, <2>2, ReturnedKeeps
<1>13. retry' \in Seq(Requests) /\ \A r : Times(r, retry') = Times(r, retry) + Times(r, left)
  <2>1. left \in Seq(Requests) /\ retry \in Seq(Requests) /\ retry' = retry \o left
    BY <1>1, <1>3, <1>6
  <2>2. retry \o left \in Seq(Requests)
    BY <2>1, ToSetOfConcat
  <2>3. \A r : Times(r, retry \o left) = Times(r, retry) + Times(r, left)
    BY <2>1, TimesOfConcat
  <2>4. QED
    BY <2>1, <2>2, <2>3
<1>14. TypeOK'
  <2>1. submitted' \in Seq([iocbs : Seq(Requests), result : Result])
    BY <1>4 DEF Examined
  <2>2. QED
    BY <1>2, <1>3, <1>7, <1>12, <1>13, <2>1 DEF TypeOK
<1>15. Once'
  <2>1. ASSUME NEW r \in Requests PROVE Places(r)' = Places(r) - (IF r \in done THEN 1 ELSE 0)
    <3>1. InSubmitted(r) = Times(r, rest) + InSubmitted(r)'
      BY <1>10 DEF InSubmitted
    <3>2. InSubmitted(r)' \in Nat
      BY <1>10, TimesInAllType DEF InSubmitted
    <3>3. InRetry(r)' = InRetry(r) + Times(r, left)
      BY <1>13 DEF InRetry
    <3>4. Times(r, rest) = Times(r, left) + (IF r \in done THEN 1 ELSE 0)
          /\ Times(r, rest) \in Nat /\ Times(r, left) \in Nat
      BY <1>8, <1>9
    <3>5. /\ InQueue(r)' = InQueue(r) /\ InPending(r)' = InPending(r)
          /\ InBatches(r)' = InBatches(r) /\ InEvents(r)' = InEvents(r)
          /\ InKernel(r)' = InKernel(r)
      BY <1>2 DEF InQueue, InPending, InBatches, InEvents, InKernel
    <3>6. Places(r)' = InQueue(r)' + InPending(r)' + InRetry(r)' + InBatches(r)' + InSubmitted(r)'
                         + InEvents(r)' + InKernel(r)'
      BY DEF Places
    <3>7. QED
      BY <3>1, <3>2, <3>3, <3>4, <3>5, <3>6, CopiesType DEF Places
  <2>2. QED
    BY <1>7, <1>11, <2>1, OnceReturned
<1>16. Sound'
  BY <1>2, <1>3, <1>4 DEF Sound
<1>17. QED
  BY <1>12, <1>14, <1>15, <1>16, PartsNext

\* Each request that process_io() answers has an event.
LEMMA FinishedHasEvent ==
  ASSUME events \in Seq(Event), NEW r, Times(r, RequestsWith("done")) # 0
  PROVE  \E e \in ToSet(events) : e.request = r
<1>1. PICK res : res = "done"
  OBVIOUS
<1> DEFINE E == {i \in 1..Len(events) : events[i].res = res /\ events[i].request = r}
<1>2. IsFiniteSet(E) /\ Times(r, RequestsWith(res)) = Cardinality(E)
  BY TimesOfEventsWith, SMTT(30)
<1>3. E # {}
  <2> HIDE DEF E
  <2>1. QED
    BY <1>1, <1>2, FS_EmptySet
<1>4. PICK i \in 1..Len(events) : events[i].request = r
  BY <1>3
<1>5. events[i] \in ToSet(events)
  BY LenProperties DEF ToSet
<1>6. QED
  BY <1>4, <1>5

\* process_io(): what the kernel gave back is tried again, the rest is answered.
LEMMA ProcessIoKeeps ==
  ASSUME IInv, ProcessIo
  PROVE  IInv'
<1> DEFINE again == RequestsWith("EAGAIN")
           over == RequestsWith("done")
           done == ToSet(over)
<1>1. /\ nowait' = nowait \ ToSet(again) /\ retry' = retry \o again
      /\ Returned(done, "done") /\ events' = <<>>
  BY DEF ProcessIo, Returned
<1>2. /\ queue' = queue /\ accumulated' = accumulated /\ shares' = shares
      /\ handles' = handles /\ queued' = queued
      /\ pending' = pending /\ nowaitOk' = nowaitOk /\ flushing' = flushing
      /\ batches' = batches /\ submitted' = submitted /\ kernel' = kernel
  BY DEF ProcessIo, fairQueue, threadPool
<1>3. TypeOK /\ Sound /\ events \in Seq(Event) /\ retry \in Seq(Requests)
  BY Facts, Parts
<1>4. again \in Seq(Requests)
  BY <1>3, TimesOfEventsWith
<1>5. over \in Seq(Requests)
  BY <1>3, TimesOfEventsWith
<1>6. \A r : InEvents(r) = Times(r, again) + Times(r, over)
  BY <1>3, EventsSplit DEF InEvents
<1>7. \A r \in done : r \notin BadFd
  <2> SUFFICES ASSUME NEW r \in done PROVE r \notin BadFd
    OBVIOUS
  <2>1. Times(r, over) # 0
    <3> HIDE DEF over
    <3>1. QED
      BY <1>5, TimesType
  <2>2. PICK e \in ToSet(events) : e.request = r
    BY <1>3, <2>1, FinishedHasEvent
  <2>3. QED
    BY <1>3, <2>2 DEF Sound
<1> HIDE DEF again, over
<1>8. \A r : Times(r, again) \in Nat
  BY <1>4, TimesType
<1>9. \A r : Times(r, over) \in Nat /\ (Times(r, over) = 0 <=> r \notin done)
  BY <1>5, TimesType
<1>10. done \subseteq Requests
  BY <1>5, ToSetIsImage
<1> HIDE DEF done
<1>11. ASSUME NEW r \in Requests PROVE Times(r, over) = IF r \in done THEN 1 ELSE 0
  <2>1. Places(r) <= 1
    BY CopiesType
  <2>2. /\ InQueue(r) \in Nat /\ InPending(r) \in Nat /\ InRetry(r) \in Nat
        /\ InBatches(r) \in Nat /\ InSubmitted(r) \in Nat /\ InEvents(r) \in Nat
        /\ InKernel(r) \in {0, 1}
    BY CopiesType
  <2>3. InEvents(r) <= 1
    BY <2>1, <2>2 DEF Places
  <2>4. Times(r, over) <= 1
    BY <1>6, <1>8, <1>9, <2>3
  <2>5. QED
    BY <1>9, <2>4
<1>12. done \in SUBSET Executing
  <2>1. ASSUME NEW r \in done PROVE r \in Executing
    <3>1. r \in Requests /\ Times(r, over) = 1
      BY <1>10, <1>11, <2>1
    <3>2. InEvents(r) > 0
      BY <1>6, <1>8, <3>1
    <3>3. InPending(r) + InRetry(r) + InBatches(r) + InSubmitted(r) + InEvents(r) + InKernel(r) > 0
      BY <3>1, <3>2, CopiesType
    <3>4. QED
      BY <3>1, <3>3, OutsideExecutes
  <2>2. QED
    BY <2>1
<1>13. /\ Loads' /\ Heap' /\ Peak' /\ Answered'
       /\ answer' \in [Requests -> {"not asked", "none", "EBADF", "done"}]
       /\ load' \in [requests : 0..Capacity, weight : 0..(Unsigned - 1), bytes : 0..(Unsigned - 1)]
       /\ free' \in 0..MaxAio
  <2>1. PICK x \in {"EBADF", "done"} : x = "done"
    OBVIOUS
  <2>2. (\A r \in done : (x = "EBADF") = (r \in BadFd)) /\ Returned(done, x)
    BY <1>1, <1>7, <2>1
  <2>3. QED
    BY <1>2, <1>12, <2>2, ReturnedKeeps
<1>14. retry' \in Seq(Requests) /\ \A r : Times(r, retry') = Times(r, retry) + Times(r, again)
  <2>1. retry \o again \in Seq(Requests)
    BY <1>3, <1>4, ToSetOfConcat
  <2>2. \A r : Times(r, retry \o again) = Times(r, retry) + Times(r, again)
    BY <1>3, <1>4, TimesOfConcat
  <2>3. QED
    BY <1>1, <2>1, <2>2
<1>15. TypeOK'
  <2>1. nowait' \subseteq Requests
    BY <1>1, <1>3 DEF TypeOK
  <2>2. events' \in Seq([request : Requests, res : {"EAGAIN", "done"}])
    BY <1>1
  <2>3. QED
    BY <1>2, <1>3, <1>13, <1>14, <2>1, <2>2 DEF TypeOK
<1>16. Once'
  <2>1. ASSUME NEW r \in Requests PROVE Places(r)' = Places(r) - (IF r \in done THEN 1 ELSE 0)
    <3>1. InRetry(r)' = InRetry(r) + Times(r, again)
      BY <1>14 DEF InRetry
    <3>2. InEvents(r)' = 0
      <4>1. [i \in DOMAIN events' |-> events'[i].request] = <<>>
        BY <1>1
      <4>2. QED
        BY <4>1, TimesOfEmpty DEF InEvents
    <3>3. /\ InQueue(r)' = InQueue(r) /\ InPending(r)' = InPending(r)
          /\ InBatches(r)' = InBatches(r) /\ InSubmitted(r)' = InSubmitted(r)
          /\ InKernel(r)' = InKernel(r)
      BY <1>2 DEF InQueue, InPending, InBatches, InSubmitted, InKernel, RestsOf
    <3>4. Places(r)' = InQueue(r)' + InPending(r)' + InRetry(r)' + InBatches(r)' + InSubmitted(r)'
                         + InEvents(r)' + InKernel(r)'
      BY DEF Places
    <3>5. InEvents(r) = Times(r, again) + (IF r \in done THEN 1 ELSE 0) /\ Times(r, again) \in Nat
      BY <1>6, <1>8, <1>11
    <3>6. QED
      BY <3>1, <3>2, <3>3, <3>4, <3>5, CopiesType DEF Places
  <2>2. QED
    BY <1>1, <1>12, <2>1, OnceReturned
<1>17. Sound'
  <2>1. ToSet(events') = {}
    BY <1>1, ToSetOfEmpty
  <2>2. QED
    BY <1>2, <1>3, <2>1 DEF Sound
<1>18. QED
  BY <1>13, <1>15, <1>16, <1>17, PartsNext

-----------------------------------------------------------------------------
(* The initial states, and the theorems. *)

LEMMA InitEstablishes == Init => IInv
<1> SUFFICES ASSUME Init PROVE IInv
  OBVIOUS
<1>1. /\ queue = [c \in Classes |-> <<>>]
      /\ accumulated = [c \in Classes |-> 0]
      /\ shares \in [Classes -> Shares]
      /\ handles = {} /\ queued = 0
      /\ load = [requests |-> 0, weight |-> 0, bytes |-> 0]
      /\ free = MaxAio
      /\ pending = <<>> /\ retry = <<>>
      /\ nowait = {} /\ nowaitOk = TRUE
      /\ flushing = "no"
      /\ batches = <<>> /\ submitted = <<>>
      /\ kernel = {} /\ events = <<>>
      /\ answer = [r \in Requests |-> "not asked"]
  BY DEF Init
<1>2. /\ Unsigned \in Nat \ {0} /\ Capacity \in Nat /\ MaxAio \in Nat /\ Window \in Nat
      /\ MaxReqCount \in Nat \ {0}
  BY Constants
<1>3. TypeOK
  <2>1. queue \in [Classes -> Seq(Requests)] /\ accumulated \in [Classes -> 0..Window]
    <3>1. 0 \in 0..Window /\ <<>> \in Seq(Requests)
      BY <1>2
    <3>2. accumulated \in [Classes -> 0..Window]
      BY <1>1, <3>1
    <3>3. queue \in [Classes -> Seq(Requests)]
      BY <1>1, <3>1
    <3>4. QED
      BY <3>2, <3>3
  <2>2. load \in [requests : 0..Capacity, weight : 0..(Unsigned - 1), bytes : 0..(Unsigned - 1)]
        /\ free \in 0..MaxAio
    <3>1. 0 \in 0..Capacity /\ 0 \in 0..(Unsigned - 1) /\ MaxAio \in 0..MaxAio
      BY <1>2
    <3>2. QED
      BY <1>1, <3>1
  <2>3. /\ pending \in Seq(Requests) /\ retry \in Seq(Requests)
        /\ batches \in Seq(Seq(Requests))
        /\ submitted \in Seq([iocbs : Seq(Requests), result : Result])
        /\ events \in Seq([request : Requests, res : {"EAGAIN", "done"}])
    <3>1. pending = <<>> /\ retry = <<>> /\ batches = <<>> /\ submitted = <<>> /\ events = <<>>
      BY <1>1
    <3>2. \A S : <<>> \in Seq(S)
      OBVIOUS
    <3>3. QED
      BY <3>1, <3>2
  <2>4. answer \in [Requests -> {"not asked", "none", "EBADF", "done"}]
    BY <1>1
  <2>5. QED
    BY <1>1, <2>1, <2>2, <2>3, <2>4 DEF TypeOK
<1>4. Executing = {}
  BY <1>1 DEF Executing
<1>5. Cardinality({}) = 0 /\ WeightOf({}) = 0 /\ SizeOf({}) = 0
  BY FS_EmptySet, TotalOfEmpty DEF WeightOf, SizeOf
<1>6. 0 % Unsigned = 0
  BY <1>2
<1>7. Passed(0)
  BY <1>2 DEF Passed
<1>8. Loads /\ Peak
  <2>1. load.requests = 0 /\ load.weight = 0 /\ load.bytes = 0 /\ free = MaxAio - load.requests
    <3>1. load.requests = 0 /\ load.weight = 0 /\ load.bytes = 0 /\ free = MaxAio
      BY <1>1
    <3>2. QED
      BY <1>2, <3>1
  <2>2. load.requests <= Capacity
    BY <1>2, <2>1
  <2>3. QED
    BY <1>4, <1>5, <1>6, <1>7, <2>1, <2>2 DEF Loads, Peak
<1>9. Heap
  <2>1. \A c \in Classes : queue[c] = <<>> /\ Lengths[c] = 0
    BY <1>1 DEF Lengths
  <2>2. Total(Classes, Lengths) = 0
    BY <2>1, TotalOfZeros
  <2>3. QED
    BY <1>1, <2>1, <2>2 DEF Heap
<1>10. Once
  <2> SUFFICES ASSUME NEW r \in Requests PROVE Places(r) = IF answer[r] = "none" THEN 1 ELSE 0
    BY DEF Once
  <2>1. queue[ClassOf[r]] = <<>>
    BY <1>1, Constants
  <2>2. InQueue(r) = 0 /\ InPending(r) = 0 /\ InRetry(r) = 0
    BY <1>1, <2>1, TimesOfEmpty DEF InQueue, InPending, InRetry
  <2>3. InBatches(r) = 0
    BY <1>1, TimesInAllOfEmpty DEF InBatches
  <2>4. InSubmitted(r) = 0
    <3>1. RestsOf(submitted) = <<>>
      <4>1. submitted = <<>>
        BY <1>1
      <4>2. QED
        BY <4>1 DEF RestsOf
    <3>2. QED
      BY <3>1, TimesInAllOfEmpty DEF InSubmitted
  <2>5. InEvents(r) = 0
    <3>1. [i \in DOMAIN events |-> events[i].request] = <<>>
      <4>1. events = <<>>
        BY <1>1
      <4>2. QED
        BY <4>1
    <3>2. QED
      BY <3>1, TimesOfEmpty DEF InEvents
  <2>6. InKernel(r) = 0 /\ answer[r] # "none"
    BY <1>1 DEF InKernel
  <2>7. QED
    BY <2>2, <2>3, <2>4, <2>5, <2>6 DEF Places
<1>11. Answered
  BY <1>1 DEF Answered
<1>12. Sound
  <2>1. ToSet(<<>>) = {}
    BY ToSetOfEmpty
  <2>2. QED
    BY <1>1, <2>1 DEF Sound
<1>13. QED
  BY <1>3, <1>8, <1>9, <1>10, <1>11, <1>12, Parts

LEMMA NextPreserves == IInv /\ [Next]_vars => IInv'
<1> SUFFICES ASSUME IInv, [Next]_vars PROVE IInv'
  OBVIOUS
<1>1. CASE \E r \in Requests : QueueRequest(r)
  BY <1>1, QueueRequestKeeps
<1>2. CASE \E r \in Requests : KernelWouldBlock(r) \/ KernelCompletes(r)
  BY <1>2, KernelMovesKeep
<1>3. CASE \E c \in Classes, s \in Shares : UpdateShares(c, s)
  BY <1>3, UpdateSharesKeeps
<1>4. CASE Flush \/ Dispatched
  BY <1>4, FlushKeeps
<1>5. CASE Dispatch
  BY <1>5, DispatchKeeps
<1>6. CASE SubmitPending
  BY <1>6, SubmitPendingKeeps
<1>7. CASE FlushEnds
  BY <1>7, FlushEndsKeeps
<1>8. CASE \E n \in 0..Cardinality(Requests), e \in Errno \cup {"none"} :
             ThreadSubmits([taken |-> n, errno |-> e])
  BY <1>8, ThreadSubmitsKeeps
<1>9. CASE RetrySubmitted
  BY <1>9, RetrySubmittedKeeps
<1>10. CASE ProcessIo
  BY <1>10, ProcessIoKeeps
<1>11. CASE UNCHANGED vars
  <2>1. /\ queue' = queue /\ accumulated' = accumulated /\ shares' = shares
        /\ handles' = handles /\ queued' = queued
        /\ load' = load /\ free' = free /\ answer' = answer
        /\ pending' = pending /\ retry' = retry /\ nowait' = nowait /\ nowaitOk' = nowaitOk
        /\ flushing' = flushing /\ batches' = batches /\ submitted' = submitted
        /\ kernel' = kernel /\ events' = events
    BY <1>11 DEF vars, fairQueue, aio, flags, threadPool, system
  <2>2. TypeOK /\ Once /\ Sound
    BY Parts
  <2>3. Loads' /\ Heap' /\ Peak' /\ Answered'
    BY <2>1, SameBooks
  <2>4. TypeOK'
    BY <2>1, <2>2 DEF TypeOK
  <2>5. Once' /\ Sound'
    BY <2>1, <2>2 DEF Once, Sound, Places, InQueue, InPending, InRetry, InBatches, InSubmitted,
                      InEvents, InKernel, RestsOf
  <2>6. QED
    BY <2>3, <2>4, <2>5, PartsNext
<1>12. QED
  BY <1>1, <1>2, <1>3, <1>4, <1>5, <1>6, <1>7, <1>8, <1>9, <1>10, <1>11 DEF Next

LEMMA InvariantHolds == Spec => []IInv
BY InitEstablishes, NextPreserves, PTL DEF Spec

\* However a batch is cut and whichever thread submits it, a request that waits
\* is in exactly one place, and one that is answered is in none; the error of a
\* batch goes to the request it is about (flush_pending_aio(), process_io()).
THEOREM InFlightOnceHolds == Spec => []InFlightOnce
<1>1. IInv => InFlightOnce
  BY DEF IInv
<1>2. QED
  BY <1>1, InvariantHolds, PTL

\* What the disk works on is what load counts, as unsigned, and what is answered
\* gives its share and its control block back, on every path that ends a
\* request; a limit is passed by one request at most.
THEOREM BooksBalanceHolds == Spec => []BooksBalance
<1>1. IInv => BooksBalance
  BY DEF IInv
<1>2. QED
  BY <1>1, InvariantHolds, PTL
=============================================================================
