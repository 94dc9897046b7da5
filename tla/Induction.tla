------------------------------- MODULE Induction -------------------------------
(***************************************************************************)
(* Lemmas on data that the proofs about several components need: least     *)
(* numbers, induction and recursive definitions stated with sets and       *)
(* functions, and what happens to a sequence or a set of indices when an   *)
(* element is put in or taken out.                                         *)
(***************************************************************************)
EXTENDS SequencesExt, FiniteSetsExt, FiniteSetTheorems, SequenceTheorems, TLAPS

-----------------------------------------------------------------------------
(* ----- Numbers --------------------------------------------------------- *)
(* A set of natural numbers that is not empty has a least element.  The    *)
(* order of the numbers is read off the sets 0 .. n - 1, as strict         *)
(* inclusion of finite sets is known to be well-founded.                   *)
LEMMA LeastNumber ==
    ASSUME NEW T \in SUBSET Nat, T # {}
    PROVE  \E n \in T : \A m \in T : n <= m
<1> DEFINE Below(n) == 0 .. n - 1
           Initial == {Below(n) : n \in T}
<1>1. Initial \subseteq FiniteSubsetsOf(Nat)
  <2> SUFFICES ASSUME NEW n \in T PROVE Below(n) \in FiniteSubsetsOf(Nat)
    OBVIOUS
  <2>1. n - 1 \in Int /\ Below(n) \subseteq Nat
    OBVIOUS
  <2>2. IsFiniteSet(Below(n))
    BY <2>1, FS_Interval
  <2>3. QED
    BY <2>1, <2>2 DEF FiniteSubsetsOf
<1>2. PICK I \in Initial : \A J \in Initial : <<J, I>> \notin StrictSubsetOrdering(Nat)
  <2>1. IsWellFoundedOn(StrictSubsetOrdering(Nat), FiniteSubsetsOf(Nat))
    BY FS_StrictSubsetOrderingWellFounded
  <2>2. Initial # {}
    OBVIOUS
  <2> HIDE DEF Initial
  <2>3. QED
    BY <1>1, <2>1, <2>2, WFMin, Zenon
<1>3. PICK n \in T : I = Below(n)
  OBVIOUS
<1>4. ASSUME NEW m \in T, m < n
      PROVE  FALSE
  <2>1. Below(m) \subseteq Below(n) /\ Below(m) # Below(n)
    <3>1. m \in Below(n) /\ m \notin Below(m)
      BY <1>4
    <3>2. Below(m) \subseteq Below(n)
      BY <1>4
    <3>3. QED
      BY <3>1, <3>2
  <2>2. <<Below(m), Below(n)>> \in StrictSubsetOrdering(Nat)
    <3>1. Below(m) \in SUBSET Nat /\ Below(n) \in SUBSET Nat
      OBVIOUS
    <3> HIDE DEF Below
    <3>2. QED
      BY <2>1, <3>1 DEF StrictSubsetOrdering
  <2>3. QED
    BY <1>2, <1>3, <2>2
<1>5. QED
  BY <1>4

(* Induction along an interval, for a set of numbers.                      *)
LEMMA IntervalInduction ==
    ASSUME NEW a \in Nat, NEW b \in Nat, NEW S, a \in S,
           \A n \in a .. b - 1 : n \in S => n + 1 \in S
    PROVE  \A n \in a .. b : n \in S
<1> DEFINE T == {n \in a .. b : n \notin S}
<1> SUFFICES ASSUME T # {} PROVE FALSE
  OBVIOUS
<1>1. T \in SUBSET Nat
  OBVIOUS
<1>2. PICK n \in T : \A m \in T : n <= m
  BY <1>1, LeastNumber
<1>3. n # a /\ n \in a .. b
  OBVIOUS
<1>4. n - 1 \in a .. b - 1 /\ n - 1 \in a .. b /\ n - 1 + 1 = n
  BY <1>3
<1>5. n - 1 \in S
  BY <1>2, <1>4
<1>6. QED
  BY <1>4, <1>5

(* The operators of FiniteSetsExt find what they are named for.            *)
LEMMA MinFacts ==
    ASSUME NEW T \in SUBSET Nat, T # {}
    PROVE  Min(T) \in T /\ \A m \in T : Min(T) <= m
BY LeastNumber DEF Min

LEMMA MaxFacts ==
    ASSUME NEW n \in Nat, NEW T \in SUBSET (0 .. n), T # {}
    PROVE  Max(T) \in T /\ \A m \in T : m <= Max(T)
<1> DEFINE Bounds == {b \in 0 .. n : \A m \in T : m <= b}
<1>1. n \in Bounds /\ Bounds \in SUBSET Nat
  OBVIOUS
<1>2. PICK b \in Bounds : \A a \in Bounds : b <= a
  BY <1>1, LeastNumber
<1>3. b \in T
  <2> SUFFICES ASSUME b \notin T PROVE FALSE
    OBVIOUS
  <2>1. \A m \in T : m <= b - 1 /\ m >= 0
    BY <1>2
  <2>2. b - 1 \in Bounds
    <3>1. PICK m \in T : TRUE
      OBVIOUS
    <3>2. m \in Int /\ m <= b - 1 /\ m >= 0 /\ b \in 0 .. n
      BY <1>2, <2>1, <3>1
    <3>3. b - 1 \in 0 .. n
      BY <3>2
    <3>4. QED
      BY <2>1, <3>3
  <2>3. QED
    BY <1>2, <2>2
<1>4. \A m \in T : m <= b
  BY <1>2
<1>5. QED
  BY <1>3, <1>4 DEF Max

(* A function defined by recursion along 0 .. n exists: F takes the        *)
(* argument and the value before it to the next value.                     *)
Recursion(n, V, v0, F) ==
    {g \in [0 .. n -> V] : g[0] = v0 /\ \A i \in 1 .. n : g[i] = F[<<i, g[i - 1]>>]}

LEMMA RecursionExists ==
    ASSUME NEW n \in Nat, NEW V, NEW v0 \in V, NEW F \in [(1 .. n) \X V -> V]
    PROVE  \E g : g \in Recursion(n, V, v0, F)
<1> DEFINE Defined(m, g) == g[0] = v0 /\ \A i \in 1 .. m : g[i] = F[<<i, g[i - 1]>>]
           S == {m \in Nat : \E g \in [0 .. m -> V] : Defined(m, g)}
<1>1. 0 \in S
  <2>1. [x \in 0 .. 0 |-> v0] \in [0 .. 0 -> V]
    OBVIOUS
  <2>2. Defined(0, [x \in 0 .. 0 |-> v0])
    OBVIOUS
  <2>3. QED
    BY <2>1, <2>2
<1>2. ASSUME NEW m \in 0 .. n - 1, m \in S
      PROVE  m + 1 \in S
  <2>1. PICK g \in [0 .. m -> V] : Defined(m, g)
    BY <1>2
  <2> DEFINE h == [x \in 0 .. m + 1 |-> IF x = m + 1 THEN F[<<m + 1, g[m]>>] ELSE g[x]]
  <2>2. m + 1 \in 1 .. n /\ g[m] \in V
    OBVIOUS
  <2>3. h \in [0 .. m + 1 -> V]
    BY <2>2
  <2>4. h[0] = v0
    BY <2>1
  <2>5. ASSUME NEW i \in 1 .. m + 1
        PROVE  h[i] = F[<<i, h[i - 1]>>]
    <3>1. CASE i = m + 1
      <4>1. h[m] = g[m] /\ h[m + 1] = F[<<m + 1, g[m]>>]
        OBVIOUS
      <4>2. m + 1 - 1 = m
        OBVIOUS
      <4> HIDE DEF h
      <4>3. QED
        BY <3>1, <4>1, <4>2
    <3>2. CASE i \in 1 .. m
      <4>1. h[i] = g[i] /\ h[i - 1] = g[i - 1]
        BY <3>2
      <4>2. QED
        BY <2>1, <3>2, <4>1
    <3>3. QED
      BY <3>1, <3>2
  <2> HIDE DEF h
  <2>6. m + 1 \in Nat /\ Defined(m + 1, h)
    BY <2>4, <2>5
  <2>7. QED
    BY <2>3, <2>6
<1> HIDE DEF S
<1>3. n \in S
  BY <1>1, <1>2, IntervalInduction
<1>4. QED
  BY <1>3 DEF S, Recursion

(* A running sum, by recursion: it exists, and its values are what the     *)
(* recursion says.                                                         *)
LEMMA RunningSumExists ==
    ASSUME NEW n \in Nat, NEW v0 \in Int, NEW d \in [1 .. n -> Int]
    PROVE  \E g \in [0 .. n -> Int] : g[0] = v0 /\ \A i \in 1 .. n : g[i] = g[i - 1] + d[i]
<1>1. PICK F : F = [x \in (1 .. n) \X Int |-> x[2] + d[x[1]]]
  OBVIOUS
<1>2. PICK V : V = Int
  OBVIOUS
<1>3. F \in [(1 .. n) \X V -> V] /\ v0 \in V
  BY <1>1, <1>2
<1>4. PICK g : g \in Recursion(n, V, v0, F)
  BY <1>3, RecursionExists
<1>5. g \in [0 .. n -> V] /\ g[0] = v0 /\ \A i \in 1 .. n : g[i] = F[<<i, g[i - 1]>>]
  BY <1>4 DEF Recursion
<1>6. ASSUME NEW i \in 1 .. n
      PROVE  g[i] = g[i - 1] + d[i]
  <2>1. i - 1 \in 0 .. n
    OBVIOUS
  <2>2. g[i - 1] \in Int
    BY <1>2, <1>5, <2>1
  <2>3. F[<<i, g[i - 1]>>] = g[i - 1] + d[i]
    BY <1>1, <2>2
  <2>4. QED
    BY <1>5, <2>3
<1>7. QED
  BY <1>2, <1>5, <1>6

LEMMA RunningSumFacts ==
    ASSUME NEW n \in Nat, NEW v0 \in Int, NEW d \in [1 .. n -> Int],
           NEW f, f[0] = v0, \A i \in 1 .. n : f[i] = f[i - 1] + d[i]
    PROVE  \A i \in 0 .. n : f[i] \in Int
<1> DEFINE S == {j \in Nat : f[j] \in Int}
<1>2. 0 \in S
  OBVIOUS
<1>3. ASSUME NEW i \in 0 .. n - 1, i \in S
      PROVE  i + 1 \in S
  <2>1. i + 1 \in 1 .. n /\ i + 1 - 1 = i /\ i + 1 \in Nat
    OBVIOUS
  <2>2. QED
    BY <1>3, <2>1
<1> HIDE DEF S
<1>4. \A i \in 0 .. n : i \in S
  BY <1>2, <1>3, IntervalInduction
<1>5. QED
  BY <1>4 DEF S

-----------------------------------------------------------------------------
(* ----- Sequences ------------------------------------------------------- *)
(* One element less, one more.                                             *)
LEMMA RemoveAtFacts ==
    ASSUME NEW A, NEW s \in Seq(A), NEW i \in 1 .. Len(s)
    PROVE  /\ RemoveAt(s, i) \in Seq(A)
           /\ Len(RemoveAt(s, i)) = Len(s) - 1
           /\ \A j \in 1 .. Len(s) - 1 :
                 RemoveAt(s, i)[j] = IF j < i THEN s[j] ELSE s[j + 1]
<1> DEFINE p == SubSeq(s, 1, i - 1)
           q == SubSeq(s, i + 1, Len(s))
<1>1. Len(s) \in Nat /\ \A j \in 1 .. Len(s) : s[j] \in A
  BY LenProperties, ElementOfSeq
<1>2. /\ p \in Seq(A) /\ Len(p) = i - 1
      /\ \A j \in 1 .. i - 1 : p[j] = s[j]
  <2>1. /\ p \in Seq(A) /\ Len(p) = (IF 1 <= i - 1 THEN i - 1 - 1 + 1 ELSE 0)
        /\ \A j \in 1 .. i - 1 - 1 + 1 : p[j] = s[1 + j - 1]
    BY <1>1, SubSeqProperties
  <2> HIDE DEF p
  <2>2. QED
    BY <1>1, <2>1
<1>3. /\ q \in Seq(A) /\ Len(q) = Len(s) - i
      /\ \A j \in 1 .. Len(s) - i : q[j] = s[i + j]
  <2>1. /\ q \in Seq(A)
        /\ Len(q) = (IF i + 1 <= Len(s) THEN Len(s) - (i + 1) + 1 ELSE 0)
        /\ \A j \in 1 .. Len(s) - (i + 1) + 1 : q[j] = s[i + 1 + j - 1]
    BY <1>1, SubSeqProperties
  <2> HIDE DEF q
  <2>2. QED
    BY <1>1, <2>1
<1>4. RemoveAt(s, i) = p \o q
  BY DEF RemoveAt
<1> HIDE DEF p, q
<1>5. /\ p \o q \in Seq(A) /\ Len(p \o q) = Len(p) + Len(q)
      /\ \A j \in 1 .. Len(p) + Len(q) :
            (p \o q)[j] = IF j <= Len(p) THEN p[j] ELSE q[j - Len(p)]
  BY <1>2, <1>3, ConcatProperties
<1>6. ASSUME NEW j \in 1 .. Len(s) - 1
      PROVE  (p \o q)[j] = IF j < i THEN s[j] ELSE s[j + 1]
  <2>1. CASE j < i
    BY <1>1, <1>2, <1>3, <1>5, <2>1
  <2>2. CASE ~(j < i)
    <3>1. (p \o q)[j] = q[j - (i - 1)]
      BY <1>1, <1>2, <1>3, <1>5, <2>2
    <3>2. j - (i - 1) \in 1 .. Len(s) - i /\ i + (j - (i - 1)) = j + 1
      BY <1>1, <2>2
    <3>3. QED
      BY <1>3, <2>2, <3>1, <3>2
  <2>3. QED
    BY <2>1, <2>2
<1>7. Len(p) + Len(q) = Len(s) - 1
  BY <1>1, <1>2, <1>3
<1>8. QED
  BY <1>4, <1>5, <1>6, <1>7

LEMMA InsertAtFacts ==
    ASSUME NEW A, NEW s \in Seq(A), NEW i \in 1 .. Len(s) + 1, NEW e \in A
    PROVE  /\ InsertAt(s, i, e) \in Seq(A)
           /\ Len(InsertAt(s, i, e)) = Len(s) + 1
           /\ \A j \in 1 .. Len(s) + 1 :
                 InsertAt(s, i, e)[j] = IF j < i THEN s[j]
                                        ELSE IF j = i THEN e ELSE s[j - 1]
<1> DEFINE p == SubSeq(s, 1, i - 1)
           q == SubSeq(s, i, Len(s))
           r == p \o <<e>>
<1>1. Len(s) \in Nat /\ \A j \in 1 .. Len(s) : s[j] \in A
  BY LenProperties, ElementOfSeq
<1>2. /\ p \in Seq(A) /\ Len(p) = i - 1
      /\ \A j \in 1 .. i - 1 : p[j] = s[j]
  <2>1. /\ p \in Seq(A) /\ Len(p) = (IF 1 <= i - 1 THEN i - 1 - 1 + 1 ELSE 0)
        /\ \A j \in 1 .. i - 1 - 1 + 1 : p[j] = s[1 + j - 1]
    BY <1>1, SubSeqProperties
  <2> HIDE DEF p
  <2>2. QED
    BY <1>1, <2>1
<1>3. /\ q \in Seq(A) /\ Len(q) = Len(s) - i + 1
      /\ \A j \in 1 .. Len(s) - i + 1 : q[j] = s[i + j - 1]
  <2>1. /\ q \in Seq(A)
        /\ Len(q) = (IF i <= Len(s) THEN Len(s) - i + 1 ELSE 0)
        /\ \A j \in 1 .. Len(s) - i + 1 : q[j] = s[i + j - 1]
    BY <1>1, SubSeqProperties
  <2> HIDE DEF q
  <2>2. QED
    BY <1>1, <2>1
<1>4. <<e>> \in Seq(A) /\ Len(<<e>>) = 1 /\ <<e>>[1] = e
  OBVIOUS
<1>5. InsertAt(s, i, e) = r \o q
  BY DEF InsertAt
<1> HIDE DEF p, q
<1>6. /\ r \in Seq(A) /\ Len(r) = i
      /\ \A j \in 1 .. i : r[j] = IF j < i THEN s[j] ELSE e
  <2>1. /\ r \in Seq(A) /\ Len(r) = Len(p) + Len(<<e>>)
        /\ \A j \in 1 .. Len(p) + Len(<<e>>) :
              r[j] = IF j <= Len(p) THEN p[j] ELSE <<e>>[j - Len(p)]
    BY <1>2, <1>4, ConcatProperties
  <2>2. r[i] = e
    BY <1>1, <1>2, <1>4, <2>1
  <2> HIDE DEF r
  <2>3. QED
    BY <1>1, <1>2, <1>4, <2>1, <2>2
<1> HIDE DEF r
<1>7. /\ r \o q \in Seq(A) /\ Len(r \o q) = Len(r) + Len(q)
      /\ \A j \in 1 .. Len(r) + Len(q) :
            (r \o q)[j] = IF j <= Len(r) THEN r[j] ELSE q[j - Len(r)]
  BY <1>3, <1>6, ConcatProperties
<1>8. ASSUME NEW j \in 1 .. Len(s) + 1
      PROVE  (r \o q)[j] = IF j < i THEN s[j] ELSE IF j = i THEN e ELSE s[j - 1]
  <2>1. CASE j <= i
    <3>1. (r \o q)[j] = r[j]
      BY <1>1, <1>3, <1>6, <1>7, <2>1
    <3>2. QED
      BY <1>1, <1>6, <2>1, <3>1
  <2>2. CASE ~(j <= i)
    <3>1. (r \o q)[j] = q[j - i]
      BY <1>1, <1>3, <1>6, <1>7, <2>2
    <3>2. j - i \in 1 .. Len(s) - i + 1 /\ i + (j - i) - 1 = j - 1
      BY <1>1, <2>2
    <3>3. QED
      BY <1>3, <2>2, <3>1, <3>2
  <2>3. QED
    BY <2>1, <2>2
<1>9. Len(r) + Len(q) = Len(s) + 1
  BY <1>1, <1>3, <1>6
<1>10. QED
  BY <1>5, <1>7, <1>8, <1>9

(* So many numbers are there from 1 on.                                    *)
LEMMA UpToCounts ==
    ASSUME NEW n \in Nat
    PROVE  IsFiniteSet(1 .. n) /\ Cardinality(1 .. n) = n
<1>1. n \in Int /\ 1 \in Int
  OBVIOUS
<1>2. IsFiniteSet(1 .. n) /\ Cardinality(1 .. n) = IF 1 > n THEN 0 ELSE n - 1 + 1
  BY <1>1, FS_Interval
<1>3. QED
  BY <1>2

(* Each member is shown once: the length counts them.                      *)
LEMMA LenIsCardinality ==
    ASSUME NEW A, NEW w \in Seq(A),
           \A i, j \in 1 .. Len(w) : w[i] = w[j] => i = j
    PROVE  IsFiniteSet(ToSet(w)) /\ Cardinality(ToSet(w)) = Len(w)
<1>1. Len(w) \in Nat /\ DOMAIN w = 1 .. Len(w) /\ w \in [1 .. Len(w) -> ToSet(w)]
  BY LenProperties DEF ToSet
<1>2. IsFiniteSet(1 .. Len(w)) /\ Cardinality(1 .. Len(w)) = Len(w)
  BY <1>1, UpToCounts
<1>3. w \in Bijection(1 .. Len(w), ToSet(w))
  <2>1. \A t \in ToSet(w) : \E i \in 1 .. Len(w) : w[i] = t
    BY <1>1 DEF ToSet
  <2>2. QED
    BY <1>1, <2>1 DEF Bijection, Injection, Surjection, IsInjective
<1>4. ExistsBijection(1 .. Len(w), ToSet(w))
  BY <1>3 DEF ExistsBijection
<1>5. QED
  BY <1>2, <1>4, FS_Bijection

LEMMA LenCounts ==
    ASSUME NEW A, IsFiniteSet(A), NEW w \in Seq(A),
           \A i, j \in 1 .. Len(w) : w[i] = w[j] => i = j
    PROVE  /\ Len(w) = Cardinality(ToSet(w))
           /\ Len(w) \in 0 .. Cardinality(A)
           /\ Cardinality(A) \in Nat
<1>1. /\ Len(w) \in Nat /\ DOMAIN w = 1 .. Len(w)
      /\ \A i \in 1 .. Len(w) : w[i] \in A
  BY LenProperties, ElementOfSeq
<1>2. Cardinality(ToSet(w)) = Len(w)
  BY LenIsCardinality
<1>3. Cardinality(A) \in Nat
  BY FS_CardinalityType
<1>4. ToSet(w) \subseteq A
  BY <1>1 DEF ToSet
<1>5. Cardinality(ToSet(w)) <= Cardinality(A)
  BY <1>3, <1>4, FS_Subset
<1>6. QED
  BY <1>1, <1>2, <1>3, <1>5

(* Going from first on along f, by recursion, shows the sequence s when s  *)
(* does so.                                                                *)
Follows(n, first, f, s) == \A k \in 1 .. n : s[k] = IF k = 1 THEN first ELSE f[s[k - 1]]
Following(n, first, f, m) == m = [k \in 1 .. n |-> IF k = 1 THEN first ELSE f[m[k - 1]]]

LEMMA FollowingExists ==
    ASSUME NEW n \in Nat, NEW first, NEW f, NEW s, Follows(n, first, f, s)
    PROVE  \E m : Following(n, first, f, m)
<1>1. PICK g : g = [k \in 1 .. n |-> s[k]]
  OBVIOUS
<1>2. ASSUME NEW k \in 1 .. n
      PROVE  g[k] = IF k = 1 THEN first ELSE f[g[k - 1]]
  <2>1. k # 1 => k - 1 \in 1 .. n
    OBVIOUS
  <2>2. QED
    BY <1>1, <2>1 DEF Follows
<1>3. g = [k \in 1 .. n |-> IF k = 1 THEN first ELSE f[g[k - 1]]]
  BY <1>1, <1>2
<1>4. QED
  BY <1>3 DEF Following

LEMMA FollowingIs ==
    ASSUME NEW n \in Nat, NEW first, NEW f, NEW s, Follows(n, first, f, s),
           NEW m, Following(n, first, f, m)
    PROVE  \A k \in 1 .. n : m[k] = s[k]
<1>1. \A k \in 1 .. n : m[k] = IF k = 1 THEN first ELSE f[m[k - 1]]
  BY DEF Following
<1> DEFINE T == {k \in 1 .. n : m[k] = s[k]}
<1>2. ASSUME NEW k \in 1 .. n, NEW i \in 1 .. n, i = 1
      PROVE  k \in T
  <2>1. 1 \in T
    BY <1>1, <1>2 DEF Follows
  <2>2. ASSUME NEW j \in 1 .. n - 1, j \in T
        PROVE  j + 1 \in T
    <3>1. j + 1 \in 1 .. n /\ j + 1 # 1 /\ j + 1 - 1 = j
      OBVIOUS
    <3>2. QED
      BY <1>1, <2>2, <3>1 DEF Follows
  <2> HIDE DEF T
  <2>3. 1 \in Nat
    OBVIOUS
  <2>4. QED
    BY <2>1, <2>2, <2>3, IntervalInduction
<1>3. ASSUME NEW k \in 1 .. n
      PROVE  1 \in 1 .. n
  OBVIOUS
<1>4. QED
  BY <1>2, <1>3
=============================================================================
