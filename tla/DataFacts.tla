------------------------------ MODULE DataFacts ------------------------------
(***************************************************************************)
(* What the operations on sequences that model the queues of the code do   *)
(* to the set of their elements and to sequences without repetition, where *)
(* a loop over a queue stops, and what becomes of sums.  The proofs about  *)
(* the components cite these lemmas.                                       *)
(***************************************************************************)
EXTENDS Integers, SequencesExt, Sums, FiniteSetTheorems, SequenceTheorems, TLAPS

\* The elements of a queue have its type, and their places are 1 to its length.
LEMMA ToSetIsImage ==
  ASSUME NEW S, NEW s \in Seq(S)
  PROVE  /\ DOMAIN s = 1..Len(s) /\ Len(s) \in Nat
         /\ ToSet(s) = {s[i] : i \in 1..Len(s)}
         /\ ToSet(s) \subseteq S
         /\ IsInjective(s) <=> \A i, j \in 1..Len(s) : s[i] = s[j] => i = j
<1>1. DOMAIN s = 1..Len(s) /\ Len(s) \in Nat /\ \A i \in 1..Len(s) : s[i] \in S
  BY LenProperties, ElementOfSeq
<1>2. QED
  BY <1>1 DEF ToSet, IsInjective

\* An empty queue, a queue not empty.
LEMMA ToSetOfEmpty ==
  /\ ToSet(<<>>) = {} /\ IsInjective(<<>>)
  /\ \A S : \A s \in Seq(S) : s = <<>> <=> ToSet(s) = {}
<1>1. DOMAIN <<>> = {}
  OBVIOUS
<1>2. ASSUME NEW S, NEW s \in Seq(S), s # <<>>
      PROVE  ToSet(s) # {}
  <2>1. 1 \in 1..Len(s)
    BY <1>2, EmptySeq
  <2>2. QED
    BY <2>1, ToSetIsImage
<1>3. QED
  BY <1>1, <1>2 DEF ToSet, IsInjective

\* push_back()
LEMMA ToSetOfAppend ==
  ASSUME NEW S, NEW s \in Seq(S), NEW e \in S
  PROVE  /\ Append(s, e) \in Seq(S)
         /\ ToSet(Append(s, e)) = ToSet(s) \cup {e}
         /\ IsInjective(s) /\ e \notin ToSet(s) => IsInjective(Append(s, e))
<1> DEFINE t == Append(s, e)
<1>1. /\ t \in Seq(S) /\ Len(t) = Len(s) + 1 /\ Len(s) \in Nat
      /\ \A i \in 1..Len(s) : t[i] = s[i]
      /\ t[Len(s) + 1] = e
  BY AppendProperties, LenProperties
<1> HIDE DEF t
<1>2. ToSet(t) = ToSet(s) \cup {e}
  <2>1. ToSet(t) = {t[i] : i \in 1..(Len(s) + 1)} /\ ToSet(s) = {s[i] : i \in 1..Len(s)}
    BY <1>1, ToSetIsImage
  <2>2. QED
    BY <1>1, <2>1
<1>3. ASSUME IsInjective(s), e \notin ToSet(s) PROVE IsInjective(t)
  <2>1. \A i \in 1..Len(s) : s[i] # e
    BY <1>3, ToSetIsImage
  <2>2. \A i, j \in 1..Len(s) : s[i] = s[j] => i = j
    BY <1>3, ToSetIsImage
  <2>3. \A i, j \in 1..(Len(s) + 1) : t[i] = t[j] => i = j
    BY <1>1, <2>1, <2>2
  <2>4. QED
    BY <1>1, <2>3, ToSetIsImage
<1>4. QED
  BY <1>1, <1>2, <1>3 DEF t

\* A queue cut in two after its n-th element.
LEMMA ToSetOfParts ==
  ASSUME NEW S, NEW s \in Seq(S), NEW n \in 0..Len(s)
  PROVE  LET p == SubSeq(s, 1, n)
             r == SubSeq(s, n + 1, Len(s))
         IN  /\ p \in Seq(S) /\ Len(p) = n /\ \A i \in 1..n : p[i] = s[i]
             /\ r \in Seq(S) /\ Len(r) = Len(s) - n /\ \A i \in 1..(Len(s) - n) : r[i] = s[n + i]
             /\ ToSet(p) = {s[i] : i \in 1..n}
             /\ ToSet(s) = ToSet(p) \cup ToSet(r)
             /\ IsInjective(s) => IsInjective(p) /\ IsInjective(r) /\ ToSet(p) \cap ToSet(r) = {}
<1> DEFINE p == SubSeq(s, 1, n)
           r == SubSeq(s, n + 1, Len(s))
           L == Len(s)
<1>1. L \in Nat /\ n \in Nat /\ n <= L /\ \A i \in 1..L : s[i] \in S
  BY LenProperties, ElementOfSeq
<1>2. p \in Seq(S) /\ Len(p) = n /\ \A i \in 1..n : p[i] = s[i]
  <2>1. \A i \in 1..n : s[i] \in S
    BY <1>1
  <2>2. QED
    BY <1>1, <2>1, SubSeqProperties
<1>3. r \in Seq(S) /\ Len(r) = L - n /\ \A i \in 1..(L - n) : r[i] = s[n + i]
  <2>1. \A i \in (n + 1)..L : s[i] \in S
    BY <1>1
  <2>2. /\ r \in Seq(S)
        /\ Len(r) = IF n + 1 <= L THEN L - (n + 1) + 1 ELSE 0
        /\ \A i \in 1..(L - (n + 1) + 1) : r[i] = s[n + 1 + i - 1]
    BY <1>1, <2>1, SubSeqProperties
  <2>3. QED
    BY <1>1, <2>2
<1> HIDE DEF p, r, L
<1>4. /\ ToSet(p) = {p[i] : i \in 1..n} /\ ToSet(r) = {r[i] : i \in 1..(L - n)}
      /\ ToSet(s) = {s[i] : i \in 1..L}
  BY <1>2, <1>3, ToSetIsImage DEF L
<1>5. ToSet(p) = {s[i] : i \in 1..n}
  BY <1>2, <1>4
<1>6. ToSet(s) = ToSet(p) \cup ToSet(r)
  <2>1. \A i \in 1..L : i \in 1..n \/ (i - n \in 1..(L - n) /\ s[i] = r[i - n])
    BY <1>1, <1>3
  <2>2. \A i \in 1..(L - n) : n + i \in 1..L
    BY <1>1
  <2>3. ToSet(s) \subseteq ToSet(p) \cup ToSet(r)
    BY <1>4, <1>5, <2>1
  <2>4. ToSet(p) \subseteq ToSet(s)
    <3>1. \A i \in 1..n : i \in 1..L
      BY <1>1
    <3>2. QED
      BY <1>4, <1>5, <3>1
  <2>5. ToSet(r) \subseteq ToSet(s)
    BY <1>3, <1>4, <2>2
  <2>6. QED
    BY <2>3, <2>4, <2>5
<1>7. ASSUME IsInjective(s)
      PROVE  IsInjective(p) /\ IsInjective(r) /\ ToSet(p) \cap ToSet(r) = {}
  <2>1. \A i, j \in 1..L : s[i] = s[j] => i = j
    BY <1>7, ToSetIsImage DEF L
  <2>2. \A i, j \in 1..n : p[i] = p[j] => i = j
    BY <1>1, <1>2, <2>1
  <2>3. \A i, j \in 1..(L - n) : r[i] = r[j] => i = j
    <3>1. SUFFICES ASSUME NEW i \in 1..(L - n), NEW j \in 1..(L - n), r[i] = r[j] PROVE i = j
      OBVIOUS
    <3>2. n + i \in 1..L /\ n + j \in 1..L /\ s[n + i] = s[n + j]
      BY <1>1, <1>3, <3>1
    <3>3. n + i = n + j
      BY <2>1, <3>2
    <3>4. QED
      BY <1>1, <3>3
  <2>4. \A i \in 1..n, j \in 1..(L - n) : p[i] # r[j]
    <3>1. SUFFICES ASSUME NEW i \in 1..n, NEW j \in 1..(L - n), p[i] = r[j] PROVE FALSE
      OBVIOUS
    <3>2. i \in 1..L /\ n + j \in 1..L /\ s[i] = s[n + j]
      BY <1>1, <1>2, <1>3, <3>1
    <3>3. i = n + j
      BY <2>1, <3>2
    <3>4. QED
      BY <1>1, <3>3
  <2>5. ToSet(p) \cap ToSet(r) = {}
    BY <1>4, <2>4
  <2>6. IsInjective(p)
    BY <1>2, <2>2, ToSetIsImage
  <2>7. IsInjective(r)
    BY <1>3, <2>3, ToSetIsImage
  <2>8. QED
    BY <2>5, <2>6, <2>7
<1>8. QED
  BY <1>2, <1>3, <1>5, <1>6, <1>7 DEF p, r, L

\* One queue moved to the end of another.
LEMMA ToSetOfConcat ==
  ASSUME NEW S, NEW s \in Seq(S), NEW t \in Seq(S)
  PROVE  /\ s \o t \in Seq(S) /\ Len(s \o t) = Len(s) + Len(t)
         /\ ToSet(s \o t) = ToSet(s) \cup ToSet(t)
         /\ IsInjective(s) /\ IsInjective(t) /\ ToSet(s) \cap ToSet(t) = {} => IsInjective(s \o t)
<1> DEFINE c == s \o t
           M == Len(s)
           N == Len(t)
<1>1. M \in Nat /\ N \in Nat
  BY LenProperties
<1>2. /\ c \in Seq(S) /\ Len(c) = M + N
      /\ \A i \in 1..(M + N) : c[i] = IF i <= M THEN s[i] ELSE t[i - M]
  BY ConcatProperties
<1>3. /\ ToSet(s) = {s[i] : i \in 1..M} /\ ToSet(t) = {t[i] : i \in 1..N}
      /\ ToSet(c) = {c[i] : i \in 1..(M + N)}
  BY <1>2, ToSetIsImage
<1> HIDE DEF c, M, N
<1>4. ToSet(c) = ToSet(s) \cup ToSet(t)
  <2>1. \A i \in 1..(M + N) : (i \in 1..M /\ c[i] = s[i]) \/ (i - M \in 1..N /\ c[i] = t[i - M])
    BY <1>1, <1>2
  <2>2. \A i \in 1..M : i \in 1..(M + N) /\ c[i] = s[i]
    BY <1>1, <1>2
  <2>3. \A i \in 1..N : M + i \in 1..(M + N) /\ c[M + i] = t[i]
    BY <1>1, <1>2
  <2>4. QED
    BY <1>3, <2>1, <2>2, <2>3
<1>5. ASSUME IsInjective(s), IsInjective(t), ToSet(s) \cap ToSet(t) = {}
      PROVE  IsInjective(c)
  <2>1. \A i, j \in 1..M : s[i] = s[j] => i = j
    BY <1>5, ToSetIsImage DEF M
  <2>2. \A i, j \in 1..N : t[i] = t[j] => i = j
    BY <1>5, ToSetIsImage DEF N
  <2>3. \A i \in 1..M, j \in 1..N : s[i] # t[j]
    BY <1>3, <1>5
  <2>4. \A i, j \in 1..(M + N) : c[i] = c[j] => i = j
    <3>1. SUFFICES ASSUME NEW i \in 1..(M + N), NEW j \in 1..(M + N), c[i] = c[j] PROVE i = j
      OBVIOUS
    <3>2. CASE i <= M /\ j <= M
      <4>1. i \in 1..M /\ j \in 1..M /\ s[i] = s[j]
        BY <1>1, <1>2, <3>1, <3>2
      <4>2. QED
        BY <2>1, <4>1
    <3>3. CASE i > M /\ j > M
      <4>1. i - M \in 1..N /\ j - M \in 1..N /\ t[i - M] = t[j - M]
        BY <1>1, <1>2, <3>1, <3>3
      <4>2. i - M = j - M
        BY <2>2, <4>1
      <4>3. QED
        BY <1>1, <4>2
    <3>4. CASE i <= M /\ j > M
      <4>1. i \in 1..M /\ j - M \in 1..N /\ s[i] = t[j - M]
        BY <1>1, <1>2, <3>1, <3>4
      <4>2. QED
        BY <2>3, <4>1
    <3>5. CASE i > M /\ j <= M
      <4>1. j \in 1..M /\ i - M \in 1..N /\ s[j] = t[i - M]
        BY <1>1, <1>2, <3>1, <3>5
      <4>2. QED
        BY <2>3, <4>1
    <3>6. QED
      BY <1>1, <3>2, <3>3, <3>4, <3>5
  <2>5. QED
    BY <1>2, <2>4, ToSetIsImage
<1>6. QED
  BY <1>2, <1>4, <1>5 DEF c, M, N

\* front() and pop_front()
LEMMA ToSetOfTail ==
  ASSUME NEW S, NEW s \in Seq(S), s # <<>>
  PROVE  /\ Head(s) \in S /\ Tail(s) \in Seq(S) /\ Len(Tail(s)) = Len(s) - 1
         /\ ToSet(s) = {Head(s)} \cup ToSet(Tail(s))
         /\ IsInjective(s) => IsInjective(Tail(s)) /\ Head(s) \notin ToSet(Tail(s))
<1>1. 1 \in 0..Len(s) /\ Head(s) = s[1] /\ Head(s) \in S
  BY EmptySeq, HeadTailProperties
<1>2. PICK n \in 0..Len(s) : n = 1
  BY <1>1
<1> DEFINE p == SubSeq(s, 1, n)
           r == SubSeq(s, n + 1, Len(s))
<1>3. r = Tail(s)
  BY <1>2, TailIsSubSeq
<1>4. /\ r \in Seq(S) /\ Len(r) = Len(s) - n
      /\ ToSet(p) = {s[i] : i \in 1..n}
      /\ ToSet(s) = ToSet(p) \cup ToSet(r)
      /\ IsInjective(s) => IsInjective(r) /\ ToSet(p) \cap ToSet(r) = {}
  BY ToSetOfParts
<1> HIDE DEF p, r
<1>5. {s[i] : i \in 1..n} = {Head(s)}
  BY <1>1, <1>2
<1>6. QED
  BY <1>1, <1>2, <1>3, <1>4, <1>5

\* erase() of the element at place i
LEMMA ToSetOfRemoveAt ==
  ASSUME NEW S, NEW s \in Seq(S), NEW i \in 1..Len(s), IsInjective(s)
  PROVE  /\ RemoveAt(s, i) \in Seq(S)
         /\ ToSet(RemoveAt(s, i)) = ToSet(s) \ {s[i]}
         /\ IsInjective(RemoveAt(s, i))
<1> DEFINE p == SubSeq(s, 1, i - 1)
           r == SubSeq(s, i + 1, Len(s))
           u == SubSeq(s, i, Len(s))
<1>1. Len(s) \in Nat /\ i - 1 \in 0..Len(s) /\ i \in 0..Len(s) /\ i - 1 + 1 = i
  BY LenProperties
<1>2. /\ p \in Seq(S) /\ IsInjective(p) /\ ToSet(p) = {s[j] : j \in 1..(i - 1)}
  BY <1>1, ToSetOfParts
<1>3. /\ r \in Seq(S) /\ IsInjective(r)
      /\ ToSet(SubSeq(s, 1, i)) = {s[j] : j \in 1..i}
      /\ ToSet(s) = ToSet(SubSeq(s, 1, i)) \cup ToSet(r)
      /\ ToSet(SubSeq(s, 1, i)) \cap ToSet(r) = {}
  BY <1>1, ToSetOfParts
<1>4. {s[j] : j \in 1..i} = {s[j] : j \in 1..(i - 1)} \cup {s[i]}
  BY <1>1
<1>5. s[i] \notin {s[j] : j \in 1..(i - 1)}
  <2>1. \A j \in 1..(i - 1) : j \in 1..Len(s) /\ j # i
    BY <1>1
  <2>2. QED
    BY <2>1, ToSetIsImage
<1> HIDE DEF p, r, u
<1>6. ToSet(p) \cap ToSet(r) = {} /\ ToSet(p) \cup ToSet(r) = ToSet(s) \ {s[i]}
  BY <1>2, <1>3, <1>4, <1>5
<1>7. RemoveAt(s, i) = p \o r
  BY DEF RemoveAt, p, r
<1>8. QED
  BY <1>2, <1>3, <1>6, <1>7, ToSetOfConcat

\* A queue without repetition has as many elements as places.
LEMMA LenIsCardinality ==
  ASSUME NEW S, NEW s \in Seq(S), IsInjective(s)
  PROVE  IsFiniteSet(ToSet(s)) /\ Cardinality(ToSet(s)) = Len(s)
<1>1. /\ DOMAIN s = 1..Len(s) /\ Len(s) \in Nat /\ s \in [1..Len(s) -> S]
      /\ ToSet(s) = {s[i] : i \in 1..Len(s)}
  BY LenProperties, ToSetIsImage
<1>2. s \in Bijection(1..Len(s), ToSet(s))
  BY <1>1 DEF Bijection, Injection, Surjection, IsInjective
<1>3. IsFiniteSet(1..Len(s)) /\ Cardinality(1..Len(s)) = Len(s)
  BY <1>1, FS_Interval
<1>4. QED
  BY <1>2, <1>3, FS_Bijection DEF ExistsBijection

\* A loop that goes on from one place of a queue to the next as long as it finds
\* what it looks for stops somewhere.
LEMMA LoopStops ==
  ASSUME NEW n \in Nat, NEW K \in SUBSET (0..n), 0 \in K
  PROVE  \E k \in K : k < n => k + 1 \notin K
<1> DEFINE T == {n - k : k \in K}
<1>1. T \subseteq Nat /\ T # {}
  OBVIOUS
<1>2. PICK t \in T : \A u \in T : ~ (<<u, t>> \in OpToRel(<, Nat))
  BY <1>1, NatLessThanWellFounded, WFMin
<1>3. PICK k \in K : t = n - k
  BY <1>2
<1>4. ASSUME k + 1 \in K PROVE FALSE
  <2>1. n - (k + 1) \in T /\ n - (k + 1) \in Nat /\ t \in Nat /\ n - (k + 1) < t
    BY <1>1, <1>3, <1>4
  <2>2. <<n - (k + 1), t>> \in OpToRel(<, Nat)
    BY <2>1 DEF OpToRel
  <2>3. QED
    BY <1>2, <2>1, <2>2
<1>5. QED
  BY <1>3, <1>4

\* What holds of 0, and of k + 1 with k, holds up to n.
LEMMA LoopReaches ==
  ASSUME NEW n \in Nat, NEW K, 0 \in K, \A k \in 0..n : k \in K /\ k < n => k + 1 \in K
  PROVE  \A k \in 0..n : k \in K
<1> DEFINE A == {k \in 0..n : \A j \in 0..k : j \in K}
<1>1. A \in SUBSET (0..n) /\ 0 \in A
  OBVIOUS
<1>2. PICK k \in A : k < n => k + 1 \notin A
  <2> HIDE DEF A
  <2>1. QED
    BY <1>1, LoopStops
<1>3. k \in 0..n /\ \A j \in 0..k : j \in K
  OBVIOUS
<1>4. ~ (k < n)
  <2>1. SUFFICES ASSUME k < n PROVE FALSE
    OBVIOUS
  <2>2. k + 1 \in K /\ k + 1 \in 0..n
    BY <1>3, <2>1
  <2>3. \A j \in 0..(k + 1) : j \in K
    <3>1. \A j \in 0..(k + 1) : j \in 0..k \/ j = k + 1
      BY <1>3
    <3>2. QED
      BY <1>3, <2>2, <3>1
  <2>4. QED
    BY <1>2, <2>1, <2>2, <2>3
<1>5. k = n
  BY <1>3, <1>4
<1>6. QED
  BY <1>3, <1>5

-----------------------------------------------------------------------------
(* Sums *)

\* The units of one member are as many as its weight.
LEMMA TotalOfOne ==
  ASSUME NEW x, NEW w, w[x] \in Nat
  PROVE  IsFiniteSet({x} \X (1..w[x])) /\ Cardinality({x} \X (1..w[x])) = w[x]
         /\ Total({x}, w) = w[x]
<1>1. IsFiniteSet(1..w[x]) /\ Cardinality(1..w[x]) = w[x]
  BY FS_Interval
<1>2. IsFiniteSet({x}) /\ Cardinality({x}) = 1
  BY FS_Singleton
<1>3. /\ IsFiniteSet({x} \X (1..w[x]))
      /\ Cardinality({x} \X (1..w[x])) = Cardinality({x}) * Cardinality(1..w[x])
  BY <1>1, <1>2, FS_Product
<1>4. UnitsOf({x}, w) = {x} \X (1..w[x])
  BY DEF UnitsOf
<1>5. Cardinality({x} \X (1..w[x])) = w[x]
  <2>1. 1 * w[x] = w[x]
    OBVIOUS
  <2>2. QED
    BY <1>1, <1>2, <1>3, <2>1
<1>6. QED
  BY <1>3, <1>4, <1>5 DEF Total

\* A sum is a number.
LEMMA TotalType ==
  ASSUME NEW S, IsFiniteSet(S), NEW w, \A x \in S : w[x] \in Nat
  PROVE  IsFiniteSet(UnitsOf(S, w)) /\ Total(S, w) \in Nat
<1> DEFINE b == [x \in S |-> {x} \X (1..w[x])]
           T == {{x} \X (1..w[x]) : x \in S}
<1>1. b \in Surjection(S, T)
  BY DEF Surjection
<1>2. IsFiniteSet(T)
  BY <1>1, FS_Surjection
<1>3. \A u \in T : IsFiniteSet(u)
  BY TotalOfOne
<1>4. IsFiniteSet(UNION T)
  BY <1>2, <1>3, FS_UNION
<1>5. QED
  BY <1>4, FS_CardinalityType DEF UnitsOf, Total

\* The sum over nothing.
LEMMA TotalOfEmpty == \A w : Total({}, w) = 0
<1>1. \A w : UnitsOf({}, w) = {}
  BY DEF UnitsOf
<1>2. QED
  BY <1>1, FS_EmptySet DEF Total

\* The sum over two sets with no member in common.
LEMMA TotalOfUnion ==
  ASSUME NEW S, IsFiniteSet(S), NEW T, IsFiniteSet(T), S \cap T = {},
         NEW w, \A x \in S \cup T : w[x] \in Nat
  PROVE  Total(S \cup T, w) = Total(S, w) + Total(T, w)
<1>1. UnitsOf(S \cup T, w) = UnitsOf(S, w) \cup UnitsOf(T, w)
  BY DEF UnitsOf
<1>2. UnitsOf(S, w) \cap UnitsOf(T, w) = {}
  BY DEF UnitsOf
<1>3. IsFiniteSet(UnitsOf(S, w)) /\ IsFiniteSet(UnitsOf(T, w))
  BY TotalType
<1> DEFINE A == UnitsOf(S, w)
           B == UnitsOf(T, w)
<1> HIDE DEF A, B
<1>4. Cardinality(A \cup B) = Cardinality(A) + Cardinality(B) - Cardinality(A \cap B)
  BY <1>3, FS_Union DEF A, B
<1>5. Cardinality(A \cap B) = 0 /\ Cardinality(A) \in Nat /\ Cardinality(B) \in Nat
  BY <1>2, <1>3, FS_EmptySet, FS_CardinalityType DEF A, B
<1>6. Total(S \cup T, w) = Cardinality(A \cup B) /\ Total(S, w) = Cardinality(A) /\ Total(T, w) = Cardinality(B)
  BY <1>1 DEF Total, A, B
<1>7. QED
  BY <1>4, <1>5, <1>6

\* A sum is that of its terms.
LEMMA TotalOfEqual ==
  ASSUME NEW S, NEW w, NEW v, \A x \in S : w[x] = v[x]
  PROVE  Total(S, w) = Total(S, v)
<1>1. UnitsOf(S, w) = UnitsOf(S, v)
  BY DEF UnitsOf
<1>2. QED
  BY <1>1 DEF Total

\* One more member, or one less.
LEMMA TotalOfAdded ==
  ASSUME NEW S, IsFiniteSet(S), NEW x, x \notin S,
         NEW w, \A y \in S \cup {x} : w[y] \in Nat
  PROVE  Total(S \cup {x}, w) = Total(S, w) + w[x]
<1>1. IsFiniteSet({x}) /\ S \cap {x} = {}
  BY FS_Singleton
<1>2. Total({x}, w) = w[x]
  BY TotalOfOne
<1>3. QED
  BY <1>1, <1>2, TotalOfUnion

\* A sum of some terms of a sum.
LEMMA TotalOfSubset ==
  ASSUME NEW S, IsFiniteSet(S), NEW T \in SUBSET S, NEW w, \A x \in S : w[x] \in Nat
  PROVE  /\ Total(S, w) = Total(T, w) + Total(S \ T, w)
         /\ Total(T, w) \in Nat /\ Total(S \ T, w) \in Nat
         /\ Total(T, w) <= Total(S, w)
<1>1. IsFiniteSet(T) /\ IsFiniteSet(S \ T) /\ T \cap (S \ T) = {} /\ T \cup (S \ T) = S
  BY FS_Subset, FS_Difference
<1>2. Total(S, w) = Total(T, w) + Total(S \ T, w)
  BY <1>1, TotalOfUnion
<1>3. Total(T, w) \in Nat /\ Total(S \ T, w) \in Nat
  BY <1>1, TotalType
<1>4. QED
  BY <1>2, <1>3

\* A sum of nothing but zeros.
LEMMA TotalOfZeros ==
  ASSUME NEW S, NEW w, \A x \in S : w[x] = 0
  PROVE  Total(S, w) = 0
<1>1. \A x \in S : {x} \X (1..w[x]) = {}
  OBVIOUS
<1>2. UnitsOf(S, w) = {}
  BY <1>1 DEF UnitsOf
<1>3. QED
  BY <1>2, FS_EmptySet DEF Total

\* The terms of the members of T change, the others do not.
LEMMA TotalOfChanged ==
  ASSUME NEW S, IsFiniteSet(S), NEW T \in SUBSET S,
         NEW w, \A x \in S : w[x] \in Nat, NEW v, \A x \in S : v[x] \in Nat,
         \A x \in S \ T : v[x] = w[x]
  PROVE  /\ Total(S, w) \in Nat /\ Total(S, v) \in Nat /\ Total(T, w) \in Nat /\ Total(T, v) \in Nat
         /\ Total(S, v) = (Total(S, w) - Total(T, w)) + Total(T, v)
         /\ Total(T, w) <= Total(S, w)
<1>1. Total(S \ T, v) = Total(S \ T, w)
  <2> DEFINE R == S \ T
  <2>1. \A x \in R : v[x] = w[x]
    OBVIOUS
  <2> HIDE DEF R
  <2>2. Total(R, v) = Total(R, w)
    BY <2>1, TotalOfEqual
  <2>3. QED
    BY <2>2 DEF R
<1>2. /\ Total(S, w) = Total(T, w) + Total(S \ T, w)
      /\ Total(T, w) \in Nat /\ Total(S \ T, w) \in Nat
  BY TotalOfSubset
<1>3. /\ Total(S, v) = Total(T, v) + Total(S \ T, v)
      /\ Total(T, v) \in Nat /\ Total(S \ T, v) \in Nat
  <2>1. Total(S, v) = Total(T, v) + Total(S \ T, v)
    BY TotalOfSubset
  <2>2. Total(T, v) \in Nat
    BY TotalOfSubset
  <2>3. Total(S \ T, v) \in Nat
    BY TotalOfSubset
  <2>4. QED
    BY <2>1, <2>2, <2>3
<1>4. QED
  BY <1>1, <1>2, <1>3

\* The terms of a sum under other names.
LEMMA TotalOfRenamed ==
  ASSUME NEW S, IsFiniteSet(S), NEW T, NEW b \in Bijection(S, T),
         NEW w, \A x \in S : w[x] \in Nat, NEW v, \A x \in S : v[b[x]] = w[x]
  PROVE  Total(T, v) = Total(S, w)
<1> DEFINE A == UnitsOf(S, w)
           B == UnitsOf(T, v)
           c == [u \in A |-> <<b[u[1]], u[2]>>]
<1>1. /\ b \in [S -> T] /\ \A x, y \in S : b[x] = b[y] => x = y
      /\ \A y \in T : \E x \in S : b[x] = y
  <2>1. DOMAIN b = S /\ b \in [S -> T]
    BY DEF Bijection, Injection
  <2>2. QED
    BY <2>1 DEF Bijection, Injection, Surjection, IsInjective
<1>2. \A u : u \in A <=> \E x \in S : \E k \in 1..w[x] : u = <<x, k>>
  BY DEF UnitsOf
<1>3. \A u : u \in B <=> \E y \in T : \E k \in 1..v[y] : u = <<y, k>>
  BY DEF UnitsOf
<1> HIDE DEF A, B
<1>4. \A x \in S : \A k \in 1..w[x] : <<x, k>> \in A /\ c[<<x, k>>] = <<b[x], k>> /\ <<b[x], k>> \in B
  BY <1>1, <1>2, <1>3
<1>5. c \in [A -> B]
  <2>1. DOMAIN c = A /\ c = [u \in A |-> c[u]]
    OBVIOUS
  <2> HIDE DEF c
  <2>2. ASSUME NEW u \in A PROVE c[u] \in B
    <3>1. PICK x \in S : \E k \in 1..w[x] : u = <<x, k>>
      BY <1>2
    <3>2. PICK k \in 1..w[x] : u = <<x, k>>
      BY <3>1
    <3>3. QED
      BY <1>4, <3>2
  <2>3. QED
    BY <2>1, <2>2
<1>6. \A t, u \in A : c[t] = c[u] => t = u
  <2> SUFFICES ASSUME NEW t \in A, NEW u \in A, c[t] = c[u] PROVE t = u
    OBVIOUS
  <2>1. PICK x \in S : \E k \in 1..w[x] : t = <<x, k>>
    BY <1>2
  <2>2. PICK k \in 1..w[x] : t = <<x, k>>
    BY <2>1
  <2>3. PICK y \in S : \E j \in 1..w[y] : u = <<y, j>>
    BY <1>2
  <2>4. PICK j \in 1..w[y] : u = <<y, j>>
    BY <2>3
  <2>5. c[t] = <<b[x], k>> /\ c[u] = <<b[y], j>>
    BY <1>4, <2>2, <2>4
  <2>6. b[x] = b[y] /\ k = j
    BY <2>5
  <2>7. QED
    BY <1>1, <2>2, <2>4, <2>6
<1>7. \A t \in B : \E u \in A : c[u] = t
  <2> SUFFICES ASSUME NEW t \in B PROVE \E u \in A : c[u] = t
    OBVIOUS
  <2>1. PICK y \in T : \E k \in 1..v[y] : t = <<y, k>>
    BY <1>3
  <2>2. PICK k \in 1..v[y] : t = <<y, k>>
    BY <2>1
  <2>3. PICK x \in S : b[x] = y
    BY <1>1
  <2>4. k \in 1..w[x]
    BY <2>3
  <2>5. QED
    BY <1>4, <2>2, <2>3, <2>4
<1> HIDE DEF c
<1>8. c \in Bijection(A, B)
  BY <1>5, <1>6, <1>7 DEF Bijection, Injection, Surjection, IsInjective
<1>9. QED
  BY <1>8, TotalType, FS_Bijection DEF ExistsBijection, Total, A, B

\* A finite set of numbers that is not empty has a greatest one.
LEMMA GreatestExists ==
  ASSUME NEW S \in SUBSET Nat, IsFiniteSet(S), S # {}
  PROVE  \E m \in S : \A x \in S : x <= m
<1> DEFINE w == [x \in S |-> x]
           b == Total(S, w)
           K == {k \in 0..b : \E x \in S : k <= x}
<1>1. \A x \in S : w[x] \in Nat /\ w[x] = x
  OBVIOUS
<1> HIDE DEF w
<1>2. b \in Nat
  BY <1>1, TotalType
<1>3. \A x \in S : x <= b
  <2>1. SUFFICES ASSUME NEW x \in S PROVE x <= b
    OBVIOUS
  <2>2. Total({x}, w) <= b
    BY <1>1, TotalOfSubset
  <2>3. QED
    BY <1>1, <2>2, TotalOfOne
<1> HIDE DEF b
<1>4. PICK k \in K : k < b => k + 1 \notin K
  <2>1. K \in SUBSET (0..b)
    OBVIOUS
  <2>2. 0 \in K
    <3>1. PICK x \in S : TRUE
      OBVIOUS
    <3>2. 0 <= x /\ 0 \in 0..b
      BY <1>2
    <3>3. QED
      BY <3>2
  <2> HIDE DEF K
  <2>3. QED
    BY <1>2, <2>1, <2>2, LoopStops
<1>5. PICK x \in S : k <= x
  OBVIOUS
<1>6. \A y \in S : y <= k
  <2>1. SUFFICES ASSUME NEW y \in S, y > k PROVE FALSE
    BY <1>2
  <2>2. k < b /\ k + 1 \in 0..b /\ k + 1 <= y
    BY <1>2, <1>3, <2>1
  <2>3. QED
    BY <1>4, <2>2
<1>7. QED
  BY <1>2, <1>5, <1>6

-----------------------------------------------------------------------------
(* Remainders, of which sequence numbers and unsigned counters are made. *)

\* A remainder is smaller than what is divided by, and not larger than the number.
LEMMA RemainderType ==
  ASSUME NEW u \in Nat \ {0}
  PROVE  /\ \A a \in Int : a % u \in 0..(u - 1)
         /\ \A a \in Nat : a % u <= a /\ (a < u => a % u = a)
<1>1. \A a \in Int : a % u \in 0..(u - 1)
  OBVIOUS
<1>2. ASSUME NEW a \in Nat, a < u PROVE a % u = a
  BY <1>2
<1>3. ASSUME NEW a \in Nat PROVE a % u <= a
  <2>1. CASE a < u
    BY <1>2, <2>1
  <2>2. CASE ~ (a < u)
    <3>1. a % u \in 0..(u - 1)
      BY <1>1
    <3>2. QED
      BY <2>2, <3>1
  <2>3. QED
    BY <2>1, <2>2
<1>4. QED
  BY <1>1, <1>2, <1>3

\* A number is its remainder and some times what it is divided by.
LEMMA RemainderOf ==
  ASSUME NEW u \in Nat \ {0}, NEW a \in Int
  PROVE  a \div u \in Int /\ a = (a \div u) * u + (a % u)
OBVIOUS

LEMMA RemainderUnique ==
  ASSUME NEW u \in Nat \ {0}, NEW a \in Int, NEW q \in Int, NEW m \in 0..(u - 1), a = q * u + m
  PROVE  a % u = m
OBVIOUS

\* What differs by a multiple has the same remainder.
LEMMA SameRemainder ==
  ASSUME NEW u \in Nat \ {0}, NEW a \in Int, NEW b \in Int, NEW k \in Int, b = a + k * u
  PROVE  b % u = a % u
<1> DEFINE q == a \div u
           m == a % u
<1>1. q \in Int /\ m \in 0..(u - 1) /\ a = q * u + m
  BY RemainderOf, RemainderType
<1> HIDE DEF q, m
<1>2. q + k \in Int /\ b = (q + k) * u + m
  <2>1. (q + k) * u = q * u + k * u
    BY <1>1
  <2>2. q * u \in Int /\ k * u \in Int
    BY <1>1
  <2>3. QED
    BY <1>1, <2>1, <2>2
<1>3. b % u = m
  BY <1>1, <1>2, RemainderUnique
<1>4. QED
  BY <1>3 DEF m

=============================================================================
