--------------------------- MODULE ObjectsProofs ---------------------------
(***************************************************************************)
(* Proofs about Objects, for any finite set of addresses.                  *)
(***************************************************************************)
EXTENDS Objects, Induction

Ptr == Obj \cup {NULL}

(* The shape of the heap, without bounds on its numbers.                   *)
Heap == [next_all : [Obj -> Ptr], prev_all : [Obj -> Ptr],
         obj_list : Ptr, obj_list_end : Ptr,
         newly_destructed_objs : Ptr, destructed_objs : Ptr,
         num_listed_objs : Int, num_newly_destructed : Int, num_destructed : Int,
         ref : [Obj -> Int], destructed : SUBSET Obj, blueprints : SUBSET Blueprint,
         variable : [Holder -> Ptr], hook_ob : Ptr, dest_last_ref_gone : BOOLEAN]

-----------------------------------------------------------------------------
(* ----- Lists ----------------------------------------------------------- *)
(* The links lead from first through the objects of w, each there once, to *)
(* the end, and back.                                                      *)
Chain(next, first, w) ==
    /\ w \in Seq(Obj)
    /\ \A i, j \in 1 .. Len(w) : w[i] = w[j] => i = j
    /\ first = IF Len(w) = 0 THEN NULL ELSE w[1]
    /\ \A i \in 1 .. Len(w) : next[w[i]] = IF i = Len(w) THEN NULL ELSE w[i + 1]

Back(prev, w) ==
    \A i \in 1 .. Len(w) : prev[w[i]] = IF i = 1 THEN NULL ELSE w[i - 1]

End(w) == IF Len(w) = 0 THEN NULL ELSE w[Len(w)]

LEMMA MembersFacts ==
    ASSUME NEW w \in Seq(Obj)
    PROVE  /\ Len(w) \in Nat /\ DOMAIN w = 1 .. Len(w)
           /\ \A i \in 1 .. Len(w) : w[i] \in Obj /\ w[i] \in ToSet(w)
           /\ \A x \in ToSet(w) : x \in Obj /\ \E i \in 1 .. Len(w) : w[i] = x
<1>1. Len(w) \in Nat /\ DOMAIN w = 1 .. Len(w) /\ \A i \in 1 .. Len(w) : w[i] \in Obj
  BY LenProperties, ElementOfSeq
<1>2. QED
  BY <1>1 DEF ToSet

LEMMA Next1 == \A n \in Nat : \A i \in 1 .. n : i # n => i + 1 \in 1 .. n
OBVIOUS

(* Links of other objects do not matter.                                   *)
LEMMA SameChain ==
    ASSUME NEW next, NEW next2, NEW first, NEW w, Chain(next, first, w),
           \A x \in ToSet(w) : next2[x] = next[x]
    PROVE  Chain(next2, first, w)
<1>1. w \in Seq(Obj)
  BY DEF Chain
<1>2. \A i \in 1 .. Len(w) : w[i] \in ToSet(w)
  BY <1>1, MembersFacts
<1>3. QED
  BY <1>2 DEF Chain

LEMMA SameBack ==
    ASSUME NEW prev, NEW prev2, NEW w \in Seq(Obj), Back(prev, w),
           \A x \in ToSet(w) : prev2[x] = prev[x]
    PROVE  Back(prev2, w)
<1>1. \A i \in 1 .. Len(w) : w[i] \in ToSet(w)
  BY MembersFacts
<1>2. QED
  BY <1>1 DEF Back

(* An object put before the first.                                         *)
LEMMA FirstPut ==
    ASSUME NEW w \in Seq(Obj), NEW o \in Obj, NEW w2, w2 = InsertAt(w, 1, o)
    PROVE  /\ w2 \in Seq(Obj) /\ Len(w2) = Len(w) + 1
           /\ w2[1] = o /\ \A j \in 1 .. Len(w) : w2[j + 1] = w[j]
           /\ \A j \in 1 .. Len(w2) : j = 1 \/ \E i \in 1 .. Len(w) : j = i + 1
           /\ 1 \in 1 .. Len(w) + 1
<1>1. w \in Seq(Obj)
  OBVIOUS
<1>2. /\ Len(w) \in Nat /\ DOMAIN w = 1 .. Len(w)
      /\ \A i \in 1 .. Len(w) : w[i] \in Obj /\ w[i] \in ToSet(w)
  BY <1>1, MembersFacts
<1>3. 1 \in 1 .. Len(w) + 1
  BY <1>2
<1>4. /\ w2 \in Seq(Obj) /\ Len(w2) = Len(w) + 1
      /\ \A j \in 1 .. Len(w) + 1 :
            w2[j] = IF j < 1 THEN w[j] ELSE IF j = 1 THEN o ELSE w[j - 1]
  BY <1>1, <1>3, InsertAtFacts
<1>5. w2[1] = o /\ \A j \in 1 .. Len(w) : w2[j + 1] = w[j]
  <2>1. ASSUME NEW j \in 1 .. Len(w) PROVE w2[j + 1] = w[j]
    <3>1. j + 1 \in 1 .. Len(w) + 1 /\ ~(j + 1 < 1) /\ j + 1 # 1 /\ j + 1 - 1 = j
      BY <1>2
    <3>2. QED
      BY <1>4, <3>1, SMTT(30)
  <2>2. QED
    BY <1>3, <1>4, <2>1
<1>6. \A j \in 1 .. Len(w2) : j = 1 \/ \E i \in 1 .. Len(w) : j = i + 1
  <2>1. ASSUME NEW j \in 1 .. Len(w2), j # 1 PROVE j - 1 \in 1 .. Len(w) /\ j = j - 1 + 1
    BY <1>2, <1>4, <2>1
  <2>2. QED
    BY <2>1
<1>7. QED
  BY <1>3, <1>4, <1>5, <1>6

LEMMA PutFirst ==
    ASSUME NEW next, NEW next2, NEW first, NEW w, Chain(next, first, w),
           NEW o \in Obj, o \notin ToSet(w), next2[o] = first,
           \A x \in ToSet(w) : next2[x] = next[x]
    PROVE  LET w2 == InsertAt(w, 1, o)
           IN  /\ Chain(next2, o, w2)
               /\ ToSet(w2) = ToSet(w) \cup {o}
               /\ Len(w2) = Len(w) + 1
               /\ End(w2) = IF first = NULL THEN o ELSE End(w)
<1>1. w \in Seq(Obj)
  BY DEF Chain
<1>2. /\ Len(w) \in Nat /\ DOMAIN w = 1 .. Len(w)
      /\ \A i \in 1 .. Len(w) : w[i] \in Obj /\ w[i] \in ToSet(w)
  BY <1>1, MembersFacts
<1> DEFINE w2 == InsertAt(w, 1, o)
<1> HIDE DEF w2
<1>3. 1 \in 1 .. Len(w) + 1
  BY <1>2
<1>4. w2 \in Seq(Obj) /\ Len(w2) = Len(w) + 1
  BY <1>1, FirstPut DEF w2
<1>5. w2[1] = o /\ \A j \in 1 .. Len(w) : w2[j + 1] = w[j]
  BY <1>1, FirstPut DEF w2
<1>6. \A j \in 1 .. Len(w2) : j = 1 \/ \E i \in 1 .. Len(w) : j = i + 1
  BY <1>1, FirstPut DEF w2
<1>7. DOMAIN w2 = 1 .. Len(w) + 1
  BY <1>4, LenProperties
<1>8. ToSet(w2) = ToSet(w) \cup {o}
  <2>1. \A j \in 1 .. Len(w) : j + 1 \in 1 .. Len(w) + 1
    BY <1>2
  <2>2. ToSet(w2) \subseteq ToSet(w) \cup {o}
    <3>1. ASSUME NEW x \in ToSet(w2) PROVE x \in ToSet(w) \cup {o}
      <4>1. PICK j \in 1 .. Len(w2) : w2[j] = x
        BY <1>4, MembersFacts
      <4>2. QED
        BY <1>2, <1>5, <1>6, <4>1
    <3>2. QED
      BY <3>1
  <2>3. o \in ToSet(w2)
    BY <1>3, <1>5, <1>7 DEF ToSet
  <2>4. ToSet(w) \subseteq ToSet(w2)
    BY <1>2, <1>5, <1>7, <2>1 DEF ToSet
  <2>5. QED
    BY <2>2, <2>3, <2>4
<1>9. ASSUME NEW i \in 1 .. Len(w2), NEW j \in 1 .. Len(w2), w2[i] = w2[j]
      PROVE  i = j
  <2>1. \A k, l \in 1 .. Len(w) : w[k] = w[l] => k = l
    BY DEF Chain
  <2>2. \A k \in 1 .. Len(w) : w2[k + 1] # o
    BY <1>2, <1>5
  <2>3. CASE i = 1 \/ j = 1
    BY <1>5, <1>6, <1>9, <2>2, <2>3
  <2>4. ASSUME NEW k \in 1 .. Len(w), NEW l \in 1 .. Len(w), i = k + 1, j = l + 1
        PROVE  i = j
    BY <1>5, <1>9, <2>1, <2>4
  <2>5. QED
    BY <1>6, <2>3, <2>4
<1>10. ASSUME NEW j \in 1 .. Len(w2)
       PROVE  next2[w2[j]] = IF j = Len(w2) THEN NULL ELSE w2[j + 1]
  <2>1. CASE j = 1 /\ Len(w) = 0
    BY <1>4, <1>5, <2>1 DEF Chain
  <2>2. CASE j = 1 /\ Len(w) # 0
    <3>1. 1 \in 1 .. Len(w) /\ j # Len(w2)
      BY <1>2, <1>4, <2>2
    <3>2. w2[j + 1] = w[1]
      BY <1>5, <2>2, <3>1
    <3>3. QED
      BY <1>5, <2>2, <3>1, <3>2 DEF Chain
  <2>3. ASSUME NEW i \in 1 .. Len(w), j = i + 1
        PROVE  next2[w2[j]] = IF j = Len(w2) THEN NULL ELSE w2[j + 1]
    <3>1. w2[j] = w[i] /\ next2[w[i]] = next[w[i]]
      BY <1>2, <1>5, <2>3
    <3>2. next[w[i]] = IF i = Len(w) THEN NULL ELSE w[i + 1]
      BY DEF Chain
    <3>3. CASE i = Len(w)
      BY <1>4, <2>3, <3>1, <3>2, <3>3
    <3>4. CASE i # Len(w)
      <4>1. i + 1 \in 1 .. Len(w) /\ j # Len(w2)
        <5>1. i + 1 \in 1 .. Len(w)
          BY <1>2, <3>4, Next1
        <5>2. j # Len(w2)
          <6>1. Len(w2) = Len(w) + 1
            BY <1>4
          <6>2. \A m \in Nat : i # m => i + 1 # m + 1
            OBVIOUS
          <6>3. QED
            BY <1>2, <2>3, <3>4, <6>1, <6>2
        <5>3. QED
          BY <5>1, <5>2
      <4>2. w2[j + 1] = w[i + 1]
        BY <1>5, <2>3, <4>1
      <4>3. QED
        BY <3>1, <3>2, <3>4, <4>1, <4>2
    <3>5. QED
      BY <3>3, <3>4
  <2>4. QED
    BY <1>6, <2>1, <2>2, <2>3
<1>11. Chain(next2, o, w2)
  <2>1. Len(w2) # 0
    BY <1>2, <1>4
  <2>2. QED
    BY <1>4, <1>5, <1>9, <1>10, <2>1 DEF Chain
<1>12. End(w2) = IF first = NULL THEN o ELSE End(w)
  <2>1. CASE Len(w) = 0
    BY <1>4, <1>5, <2>1 DEF Chain, End
  <2>2. CASE Len(w) # 0
    <3>1. Len(w) \in 1 .. Len(w) /\ 1 \in 1 .. Len(w)
      BY <1>2, <2>2
    <3>2. first # NULL
      <4>1. first = w[1]
        BY <2>2 DEF Chain
      <4>2. w[1] \in Obj
        BY <1>2, <3>1
      <4>3. QED
        BY <4>1, <4>2, HeapAssumption
    <3>3. w2[Len(w2)] = w[Len(w)] /\ Len(w2) # 0
      BY <1>2, <1>4, <1>5, <3>1
    <3>4. QED
      BY <2>2, <3>2, <3>3 DEF End
  <2>3. QED
    BY <2>1, <2>2
<1>13. QED
  BY <1>4, <1>8, <1>11, <1>12 DEF w2

LEMMA PutFirstBack ==
    ASSUME NEW next, NEW first, NEW w, Chain(next, first, w), NEW o \in Obj,
           NEW prev, NEW prev2, Back(prev, w), prev2[o] = NULL,
           \A x \in ToSet(w) : prev2[x] = IF x = first THEN o ELSE prev[x]
    PROVE  Back(prev2, InsertAt(w, 1, o))
<1>1. w \in Seq(Obj)
  BY DEF Chain
<1>2. /\ Len(w) \in Nat /\ DOMAIN w = 1 .. Len(w)
      /\ \A i \in 1 .. Len(w) : w[i] \in Obj /\ w[i] \in ToSet(w)
  BY <1>1, MembersFacts
<1> DEFINE w2 == InsertAt(w, 1, o)
<1> HIDE DEF w2
<1>3. 1 \in 1 .. Len(w) + 1
  BY <1>2
<1>4. w2 \in Seq(Obj) /\ Len(w2) = Len(w) + 1
  BY <1>1, FirstPut DEF w2
<1>5. w2[1] = o /\ \A j \in 1 .. Len(w) : w2[j + 1] = w[j]
  BY <1>1, FirstPut DEF w2
<1>6. \A j \in 1 .. Len(w2) : j = 1 \/ \E i \in 1 .. Len(w) : j = i + 1
  BY <1>1, FirstPut DEF w2
<1> SUFFICES ASSUME NEW j \in 1 .. Len(w2)
             PROVE  prev2[w2[j]] = IF j = 1 THEN NULL ELSE w2[j - 1]
  BY DEF Back, w2
<1>7. CASE j = 1
  BY <1>5, <1>7
<1>8. ASSUME NEW i \in 1 .. Len(w), j = i + 1
      PROVE  prev2[w2[j]] = w2[i] /\ j # 1 /\ j - 1 = i
  <2>1. w2[j] = w[i] /\ prev2[w[i]] = IF w[i] = first THEN o ELSE prev[w[i]]
    BY <1>2, <1>5, <1>8
  <2>2. prev[w[i]] = IF i = 1 THEN NULL ELSE w[i - 1]
    BY DEF Back
  <2>3. w[i] = first <=> i = 1
    <3>1. 1 \in 1 .. Len(w) /\ Len(w) # 0
      BY <1>2
    <3>2. QED
      BY <3>1 DEF Chain
  <2>4. i = 1 \/ (i - 1 \in 1 .. Len(w) /\ i - 1 + 1 = i)
    BY <1>2
  <2>5. i # 1 => w2[i] = w[i - 1]
    BY <1>5, <2>4
  <2>6. QED
    BY <1>5, <1>8, <2>1, <2>2, <2>3, <2>5
<1>9. QED
  BY <1>6, <1>7, <1>8

(* An object taken out.                                                    *)
LEMMA TakeOut ==
    ASSUME NEW next, NEW prev, NEW first, NEW w, Chain(next, first, w), Back(prev, w),
           NEW k \in 1 .. Len(w), NEW o, o = w[k],
           NEW next2, NEW prev2,
           \A x \in ToSet(w) \ {o} :
               /\ next2[x] = IF x = prev[o] THEN next[o] ELSE next[x]
               /\ prev2[x] = IF x = next[o] THEN prev[o] ELSE prev[x]
    PROVE  LET w2 == RemoveAt(w, k)
           IN  /\ Chain(next2, IF first = o THEN next[o] ELSE first, w2)
               /\ Back(prev2, w2)
               /\ ToSet(w2) = ToSet(w) \ {o}
               /\ Len(w2) = Len(w) - 1
               /\ End(w2) = IF End(w) = o THEN prev[o] ELSE End(w)
<1>1. w \in Seq(Obj)
  BY DEF Chain
<1>2. PICK n \in Nat : n = Len(w)
  BY <1>1, LenProperties
<1>3. /\ n >= 1 /\ k \in 1 .. n /\ DOMAIN w = 1 .. n
      /\ \A i \in 1 .. n : w[i] \in Obj /\ w[i] \in ToSet(w) /\ w[i] # NULL
  BY <1>1, <1>2, MembersFacts, HeapAssumption
<1>4. \A i, j \in 1 .. n : w[i] = w[j] => i = j
  BY <1>2 DEF Chain
<1>5. \A i \in 1 .. n : /\ next[w[i]] = IF i = n THEN NULL ELSE w[i + 1]
                        /\ prev[w[i]] = IF i = 1 THEN NULL ELSE w[i - 1]
  BY <1>2 DEF Chain, Back
<1>6. first = w[1] /\ End(w) = w[n]
  BY <1>2, <1>3 DEF Chain, End
<1> DEFINE w2 == RemoveAt(w, k)
           first2 == IF first = o THEN next[o] ELSE first
<1>7. /\ w2 \in Seq(Obj) /\ Len(w2) = n - 1
      /\ \A j \in 1 .. n - 1 : w2[j] = IF j < k THEN w[j] ELSE w[j + 1]
  BY <1>1, <1>2, RemoveAtFacts
<1> HIDE DEF w2
<1>8. DOMAIN w2 = 1 .. n - 1
  BY <1>3, <1>7, LenProperties
<1>9. \A i \in 1 .. n : i # k =>
         /\ w[i] # o
         /\ next2[w[i]] = IF i = k - 1 THEN next[o] ELSE next[w[i]]
         /\ prev2[w[i]] = IF i = k + 1 THEN prev[o] ELSE prev[w[i]]
  <2> SUFFICES ASSUME NEW i \in 1 .. n, i # k
               PROVE  /\ w[i] # o
                      /\ next2[w[i]] = IF i = k - 1 THEN next[o] ELSE next[w[i]]
                      /\ prev2[w[i]] = IF i = k + 1 THEN prev[o] ELSE prev[w[i]]
    OBVIOUS
  <2>1. w[i] \in ToSet(w) \ {o}
    BY <1>3, <1>4
  <2>2. w[i] = prev[o] <=> i = k - 1
    <3>1. CASE k = 1
      BY <1>3, <1>5, <3>1
    <3>2. CASE k # 1
      <4>1. prev[o] = w[k - 1] /\ k - 1 \in 1 .. n
        BY <1>3, <1>5, <3>2
      <4>2. QED
        BY <1>4, <4>1
    <3>3. QED
      BY <3>1, <3>2
  <2>3. w[i] = next[o] <=> i = k + 1
    <3>1. CASE k = n
      BY <1>3, <1>5, <3>1
    <3>2. CASE k # n
      <4>1. next[o] = w[k + 1] /\ k + 1 \in 1 .. n
        BY <1>3, <1>5, <3>2, Next1
      <4>2. QED
        BY <1>4, <4>1
    <3>3. QED
      BY <3>1, <3>2
  <2>4. QED
    BY <2>1, <2>2, <2>3
<1>10. /\ next[o] = IF k = n THEN NULL ELSE w[k + 1]
       /\ prev[o] = IF k = 1 THEN NULL ELSE w[k - 1]
  BY <1>3, <1>5
<1>11. \A i, j \in 1 .. Len(w2) : w2[i] = w2[j] => i = j
  <2> SUFFICES ASSUME NEW i \in 1 .. n - 1, NEW j \in 1 .. n - 1, w2[i] = w2[j]
               PROVE  i = j
    BY <1>7
  <2>1. i \in 1 .. n /\ i + 1 \in 1 .. n /\ j \in 1 .. n /\ j + 1 \in 1 .. n
    OBVIOUS
  <2>2. PICK a \in 1 .. n : w2[i] = w[a] /\ a = IF i < k THEN i ELSE i + 1
    BY <1>7, <2>1
  <2>3. PICK b \in 1 .. n : w2[j] = w[b] /\ b = IF j < k THEN j ELSE j + 1
    BY <1>7, <2>1
  <2>4. a = b
    <3>1. w[a] = w[b]
      BY <2>2, <2>3
    <3>2. QED
      BY <1>4, <3>1
  <2>5. QED
    BY <2>2, <2>3, <2>4
<1>12. \A j \in 1 .. n - 1 : next2[w2[j]] = IF j = n - 1 THEN NULL ELSE w2[j + 1]
  <2> SUFFICES ASSUME NEW j \in 1 .. n - 1
               PROVE  next2[w2[j]] = IF j = n - 1 THEN NULL ELSE w2[j + 1]
    OBVIOUS
  <2>1. /\ j \in 1 .. n /\ j + 1 \in 1 .. n
        /\ j # n - 1 => j + 1 \in 1 .. n - 1 /\ j + 1 + 1 \in 1 .. n
    OBVIOUS
  <2>2. j # n - 1 => w2[j + 1] = IF j + 1 < k THEN w[j + 1] ELSE w[j + 1 + 1]
    BY <1>7, <2>1
  <2>3. CASE j < k
    <3>1. w2[j] = w[j] /\ j # k /\ next2[w[j]] = IF j = k - 1 THEN next[o] ELSE next[w[j]]
      BY <1>7, <1>9, <2>1, <2>3
    <3>2. CASE j = k - 1
      BY <1>3, <1>10, <2>2, <3>1, <3>2
    <3>3. CASE j # k - 1
      <4>1. j + 1 < k /\ j # n - 1 /\ j # n
        BY <1>3, <2>3, <3>3
      <4>2. next[w[j]] = w[j + 1]
        BY <1>5, <2>1, <4>1
      <4>3. QED
        BY <2>2, <3>1, <3>3, <4>1, <4>2
    <3>4. QED
      BY <3>2, <3>3
  <2>4. CASE ~(j < k)
    <3>1. w2[j] = w[j + 1] /\ j + 1 # k /\ j + 1 # k - 1
      BY <1>7, <2>4
    <3>2. next2[w[j + 1]] = next[w[j + 1]]
      BY <1>9, <2>1, <3>1
    <3>3. next[w[j + 1]] = IF j + 1 = n THEN NULL ELSE w[j + 1 + 1]
      BY <1>5, <2>1
    <3>4. j = n - 1 <=> j + 1 = n
      OBVIOUS
    <3>5. ~(j + 1 < k)
      BY <2>4
    <3>6. QED
      BY <2>2, <3>1, <3>2, <3>3, <3>4, <3>5
  <2>5. QED
    BY <2>3, <2>4
<1>13. \A j \in 1 .. n - 1 : prev2[w2[j]] = IF j = 1 THEN NULL ELSE w2[j - 1]
  <2> SUFFICES ASSUME NEW j \in 1 .. n - 1
               PROVE  prev2[w2[j]] = IF j = 1 THEN NULL ELSE w2[j - 1]
    OBVIOUS
  <2>1. /\ j \in 1 .. n /\ j + 1 \in 1 .. n
        /\ j # 1 => j - 1 \in 1 .. n - 1 /\ j - 1 + 1 = j
    OBVIOUS
  <2>2. j # 1 => w2[j - 1] = IF j - 1 < k THEN w[j - 1] ELSE w[j]
    BY <1>7, <2>1
  <2>3. CASE j < k
    <3>1. w2[j] = w[j] /\ j # k /\ j # k + 1 /\ j - 1 < k
      BY <1>7, <2>3
    <3>2. prev2[w[j]] = prev[w[j]] /\ prev[w[j]] = IF j = 1 THEN NULL ELSE w[j - 1]
      BY <1>5, <1>9, <2>1, <3>1
    <3>3. QED
      BY <2>2, <3>1, <3>2
  <2>4. CASE j = k
    <3>1. w2[j] = w[j + 1] /\ j + 1 # k /\ j + 1 = k + 1
      BY <1>7, <2>4
    <3>2. prev2[w[j + 1]] = prev[o]
      BY <1>9, <2>1, <3>1
    <3>3. j - 1 < k
      BY <2>4
    <3>4. QED
      BY <1>10, <2>2, <2>4, <3>1, <3>2, <3>3
  <2>5. CASE j > k
    <3>1. w2[j] = w[j + 1] /\ j + 1 # k /\ j + 1 # k + 1 /\ ~(j - 1 < k) /\ j # 1 /\ j + 1 # 1
      BY <1>3, <1>7, <2>5
    <3>2. prev2[w[j + 1]] = prev[w[j + 1]]
      BY <1>9, <2>1, <3>1
    <3>3. prev[w[j + 1]] = w[j]
      <4>1. j + 1 - 1 = j
        OBVIOUS
      <4>2. QED
        BY <1>5, <2>1, <3>1, <4>1, SMTT(30)
    <3>4. QED
      BY <2>2, <3>1, <3>2, <3>3
  <2>6. QED
    BY <2>3, <2>4, <2>5
<1>14. first2 = IF Len(w2) = 0 THEN NULL ELSE w2[1]
  <2>1. CASE n = 1
    <3>1. k = 1 /\ Len(w2) = 0
      BY <1>3, <1>7, <2>1
    <3>2. QED
      BY <1>6, <1>10, <2>1, <3>1
  <2>2. CASE n # 1
    <3>1. 1 \in 1 .. n - 1 /\ 1 \in 1 .. n /\ Len(w2) # 0 /\ 1 + 1 \in 1 .. n
      BY <1>3, <1>7, <2>2
    <3>2. w2[1] = IF 1 < k THEN w[1] ELSE w[1 + 1]
      BY <1>7, <3>1
    <3>3. CASE k = 1
      BY <1>6, <1>10, <2>2, <3>1, <3>2, <3>3
    <3>4. CASE k # 1
      <4>1. 1 < k
        BY <1>3, <3>4
      <4>2. first # o
        BY <1>4, <1>3, <1>6, <3>1, <3>4
      <4>3. QED
        BY <1>6, <3>1, <3>2, <4>1, <4>2
    <3>5. QED
      BY <3>3, <3>4
  <2>3. QED
    BY <2>1, <2>2
<1>15. End(w2) = IF End(w) = o THEN prev[o] ELSE End(w)
  <2>1. CASE n = 1
    <3>1. k = 1 /\ Len(w2) = 0
      BY <1>3, <1>7, <2>1
    <3>2. QED
      BY <1>6, <1>10, <2>1, <3>1 DEF End
  <2>2. CASE n # 1
    <3>1. /\ n - 1 \in 1 .. n - 1 /\ n \in 1 .. n /\ Len(w2) # 0 /\ n - 1 \in 1 .. n
          /\ n - 1 + 1 = n
      BY <1>3, <1>7, <2>2
    <3>2. w2[n - 1] = IF n - 1 < k THEN w[n - 1] ELSE w[n]
      BY <1>7, <3>1
    <3>3. End(w2) = w2[n - 1]
      BY <1>7, <3>1 DEF End
    <3>4. CASE k = n
      <4>1. n - 1 < k
        BY <3>4
      <4>2. QED
        BY <1>6, <1>10, <2>2, <3>2, <3>3, <3>4, <4>1
    <3>5. CASE k # n
      <4>1. ~(n - 1 < k)
        BY <1>3, <3>5
      <4>2. w[n] # o
        BY <1>4, <1>3, <3>1, <3>5
      <4>3. QED
        BY <1>6, <3>2, <3>3, <4>1, <4>2
    <3>6. QED
      BY <3>4, <3>5
  <2>3. QED
    BY <2>1, <2>2
<1>16. ToSet(w2) = ToSet(w) \ {o}
  <2>1. ASSUME NEW j \in 1 .. n - 1
        PROVE  w2[j] \in ToSet(w) \ {o}
    <3>1. j \in 1 .. n /\ j + 1 \in 1 .. n
      OBVIOUS
    <3>2. w2[j] = IF j < k THEN w[j] ELSE w[j + 1]
      BY <1>7
    <3>3. CASE j < k
      <4>1. w2[j] = w[j] /\ j # k
        BY <3>2, <3>3
      <4>2. QED
        BY <1>3, <1>9, <3>1, <4>1
    <3>4. CASE ~(j < k)
      <4>1. w2[j] = w[j + 1] /\ j + 1 # k
        BY <3>2, <3>4
      <4>2. QED
        BY <1>3, <1>9, <3>1, <4>1
    <3>5. QED
      BY <3>3, <3>4
  <2>2. ASSUME NEW i \in 1 .. n, i # k
        PROVE  \E j \in 1 .. n - 1 : w2[j] = w[i]
    <3>1. CASE i < k
      <4>1. i \in 1 .. n - 1 /\ w2[i] = w[i]
        BY <1>3, <1>7, <3>1
      <4>2. QED
        BY <4>1
    <3>2. CASE i > k
      <4>1. i - 1 \in 1 .. n - 1 /\ ~(i - 1 < k) /\ i - 1 + 1 = i
        BY <1>3, <3>2
      <4>2. w2[i - 1] = w[i]
        BY <1>7, <4>1
      <4>3. QED
        BY <4>1, <4>2
    <3>3. QED
      BY <2>2, <3>1, <3>2
  <2>3. ToSet(w2) \subseteq ToSet(w) \ {o}
    BY <1>8, <2>1 DEF ToSet
  <2>4. ToSet(w) \ {o} \subseteq ToSet(w2)
    <3>1. ASSUME NEW x \in ToSet(w) \ {o} PROVE x \in ToSet(w2)
      <4>1. PICK i \in 1 .. n : x = w[i] /\ i # k
        BY <1>3 DEF ToSet
      <4>2. PICK j \in 1 .. n - 1 : w2[j] = x
        BY <2>2, <4>1
      <4>3. QED
        BY <1>8, <4>2 DEF ToSet
    <3>2. QED
      BY <3>1
  <2>5. QED
    BY <2>3, <2>4
<1>17. Chain(next2, first2, w2)
  BY <1>7, <1>11, <1>12, <1>14 DEF Chain
<1>18. Back(prev2, w2)
  BY <1>7, <1>13 DEF Back
<1>19. Len(w2) = Len(w) - 1
  BY <1>2, <1>7
<1>20. QED
  BY <1>15, <1>16, <1>17, <1>18, <1>19 DEF w2

(* The first object put last.                                              *)
LEMMA PutLast ==
    ASSUME NEW next, NEW prev, NEW first, NEW w, Chain(next, first, w), Back(prev, w),
           first # End(w),
           NEW next2, NEW prev2,
           \A x \in ToSet(w) :
               /\ next2[x] = IF x = first THEN NULL ELSE IF x = End(w) THEN first ELSE next[x]
               /\ prev2[x] = IF x = first THEN End(w)
                             ELSE IF x = next[first] THEN NULL ELSE prev[x]
    PROVE  \E w2 : /\ Chain(next2, next[first], w2) /\ Back(prev2, w2)
                   /\ ToSet(w2) = ToSet(w) /\ Len(w2) = Len(w) /\ End(w2) = first
<1>1. w \in Seq(Obj)
  BY DEF Chain
<1>2. PICK n \in Nat : n = Len(w)
  BY <1>1, LenProperties
<1>3. DOMAIN w = 1 .. n /\ \A i \in 1 .. n : w[i] \in Obj /\ w[i] \in ToSet(w)
  BY <1>1, <1>2, MembersFacts
<1>4. \A i, j \in 1 .. n : w[i] = w[j] => i = j
  BY <1>2 DEF Chain
<1>5. \A i \in 1 .. n : /\ next[w[i]] = IF i = n THEN NULL ELSE w[i + 1]
                        /\ prev[w[i]] = IF i = 1 THEN NULL ELSE w[i - 1]
  BY <1>2 DEF Chain, Back
<1>6. n # 0 /\ first = w[1] /\ End(w) = w[n]
  BY <1>2 DEF Chain, End
<1>7. n # 1 /\ n \in 1 .. n /\ 1 \in 1 .. n /\ 2 \in 1 .. n /\ n - 1 \in 1 .. n
  BY <1>6
<1>8. next[first] = w[2]
  BY <1>5, <1>6, <1>7
<1>9. \A i \in 1 .. n :
          /\ next2[w[i]] = IF i = 1 THEN NULL ELSE IF i = n THEN first ELSE w[i + 1]
          /\ prev2[w[i]] = IF i = 1 THEN w[n] ELSE IF i = 2 THEN NULL ELSE w[i - 1]
  <2> SUFFICES ASSUME NEW i \in 1 .. n
               PROVE  /\ next2[w[i]] = IF i = 1 THEN NULL ELSE IF i = n THEN first ELSE w[i + 1]
                      /\ prev2[w[i]] = IF i = 1 THEN w[n] ELSE IF i = 2 THEN NULL ELSE w[i - 1]
    OBVIOUS
  <2>1. (w[i] = w[1] <=> i = 1) /\ (w[i] = w[n] <=> i = n) /\ (w[i] = w[2] <=> i = 2)
    BY <1>4, <1>7
  <2>2. QED
    BY <1>3, <1>5, <1>6, <1>8, <2>1
<1> DEFINE w2 == [i \in 1 .. n |-> IF i = n THEN w[1] ELSE w[i + 1]]
<1>10. w2 \in Seq(Obj) /\ Len(w2) = n /\ DOMAIN w2 = 1 .. n
  <2>1. \A i \in 1 .. n : (IF i = n THEN w[1] ELSE w[i + 1]) \in Obj
    BY <1>3, <1>7, Next1
  <2>2. w2 \in [1 .. n -> Obj]
    BY <2>1
  <2>3. QED
    BY <2>2, SeqDef
<1>11. \A i \in 1 .. n : w2[i] = IF i = n THEN w[1] ELSE w[i + 1]
  OBVIOUS
<1> HIDE DEF w2
<1>12. \A i \in 1 .. n : \E k \in 1 .. n : w2[i] = w[k] /\ k = IF i = n THEN 1 ELSE i + 1
  BY <1>7, <1>11, Next1
<1>13. ASSUME NEW i \in 1 .. n, NEW j \in 1 .. n, w2[i] = w2[j]
       PROVE  i = j
  <2>1. PICK a \in 1 .. n : w2[i] = w[a] /\ a = IF i = n THEN 1 ELSE i + 1
    BY <1>12
  <2>2. PICK b \in 1 .. n : w2[j] = w[b] /\ b = IF j = n THEN 1 ELSE j + 1
    BY <1>12
  <2>3. w[a] = w[b]
    BY <1>13, <2>1, <2>2
  <2>4. a = b
    BY <1>4, <2>3
  <2>5. QED
    BY <2>1, <2>2, <2>4
<1>14. ASSUME NEW i \in 1 .. n
       PROVE  next2[w2[i]] = IF i = n THEN NULL ELSE w2[i + 1]
  <2>1. CASE i = n
    BY <1>7, <1>9, <1>11, <2>1
  <2>2. CASE i # n
    <3>1. i + 1 \in 1 .. n /\ i + 1 # 1
      BY <2>2, Next1
    <3>2. w2[i] = w[i + 1]
      BY <1>11, <2>2
    <3>3. next2[w[i + 1]] = IF i + 1 = n THEN first ELSE w[i + 1 + 1]
      BY <1>9, <3>1
    <3>4. w2[i + 1] = IF i + 1 = n THEN w[1] ELSE w[i + 1 + 1]
      BY <1>11, <3>1
    <3>5. QED
      BY <1>6, <2>2, <3>2, <3>3, <3>4
  <2>3. QED
    BY <2>1, <2>2
<1>15. ASSUME NEW i \in 1 .. n
       PROVE  prev2[w2[i]] = IF i = 1 THEN NULL ELSE w2[i - 1]
  <2>1. CASE i = 1
    <3>1. w2[i] = w[2]
      BY <1>7, <1>11, <2>1
    <3>2. QED
      BY <1>7, <1>9, <2>1, <3>1
  <2>2. CASE i # 1
    <3>1. i - 1 \in 1 .. n /\ i - 1 # n /\ i - 1 + 1 = i
      BY <2>2
    <3>2. w2[i - 1] = w[i]
      BY <1>11, <3>1
    <3>3. CASE i = n
      BY <1>7, <1>9, <1>11, <2>2, <3>2, <3>3
    <3>4. CASE i # n
      <4>1. i + 1 \in 1 .. n /\ i + 1 # 1 /\ i + 1 # 2 /\ i + 1 - 1 = i
        BY <2>2, <3>4, Next1
      <4>2. w2[i] = w[i + 1] /\ prev2[w[i + 1]] = w[i]
        BY <1>9, <1>11, <3>4, <4>1
      <4>3. QED
        BY <2>2, <3>2, <4>2
    <3>5. QED
      BY <3>3, <3>4
  <2>3. QED
    BY <2>1, <2>2
<1>16. ToSet(w2) = ToSet(w)
  <2>1. ASSUME NEW k \in 1 .. n
        PROVE  \E i \in 1 .. n : w2[i] = w[k]
    <3>1. CASE k = 1
      BY <1>7, <1>11, <3>1
    <3>2. CASE k # 1
      <4>1. k - 1 \in 1 .. n /\ k - 1 # n /\ k - 1 + 1 = k
        BY <3>2
      <4>2. w2[k - 1] = w[k]
        BY <1>11, <4>1
      <4>3. QED
        BY <4>1, <4>2
    <3>3. QED
      BY <3>1, <3>2
  <2>2. \A i \in 1 .. n : \E k \in 1 .. n : w2[i] = w[k]
    BY <1>12
  <2>3. ToSet(w2) = {w2[i] : i \in 1 .. n} /\ ToSet(w) = {w[i] : i \in 1 .. n}
    BY <1>3, <1>10 DEF ToSet
  <2>4. QED
    BY <2>1, <2>2, <2>3
<1>17. w2[1] = w[2] /\ w2[n] = w[1]
  BY <1>7, <1>11
<1>18. Chain(next2, next[first], w2)
  BY <1>6, <1>8, <1>10, <1>13, <1>14, <1>17 DEF Chain
<1>19. Back(prev2, w2) /\ End(w2) = first
  BY <1>6, <1>10, <1>15, <1>17 DEF Back, End
<1>20. QED
  BY <1>2, <1>10, <1>16, <1>18, <1>19

(* Walk finds the objects that are linked, in order.                       *)
LEMMA WalkFacts ==
    ASSUME NEW h, h.next_all \in [Obj -> Ptr],
           NEW first \in Ptr, NEW w, Chain(h.next_all, first, w)
    PROVE  Walk(h, first) = w
<1> DEFINE c == Cardinality(Obj)
           F == [x \in (1 .. c) \X Ptr |->
                    IF x[1] = 1 THEN first
                    ELSE IF x[2] = NULL THEN NULL ELSE h.next_all[x[2]]]
           at == CHOOSE at : at = [n \in 0 .. c |->
                    IF n <= 1 THEN first
                    ELSE IF at[n - 1] = NULL THEN NULL ELSE h.next_all[at[n - 1]]]
<1>1. w \in Seq(Obj) /\ \A i, j \in 1 .. Len(w) : w[i] = w[j] => i = j
  BY DEF Chain
<1>2. PICK l \in Nat : l = Len(w)
  BY <1>1, LenProperties
<1>3. c \in Nat /\ l <= c
  BY <1>1, <1>2, LenCounts, HeapAssumption
<1>4. DOMAIN w = 1 .. l /\ \A i \in 1 .. l : w[i] \in Obj /\ w[i] # NULL
  BY <1>1, <1>2, MembersFacts, HeapAssumption
<1>5. Walk(h, first) = [n \in 1 .. Cardinality({m \in 1 .. c : at[m] # NULL}) |-> at[n]]
  BY DEF Walk
<1> HIDE DEF c
<1>6. F \in [(1 .. c) \X Ptr -> Ptr]
  <2>1. ASSUME NEW x \in (1 .. c) \X Ptr
        PROVE  (IF x[1] = 1 THEN first
                ELSE IF x[2] = NULL THEN NULL ELSE h.next_all[x[2]]) \in Ptr
    <3>1. x[2] \in Ptr
      OBVIOUS
    <3>2. QED
      BY <3>1 DEF Ptr
  <2>2. QED
    BY <2>1
<1>7. PICK g : g \in Recursion(c, Ptr, first, F)
  <2> HIDE DEF F
  <2>1. QED
    BY <1>3, <1>6, RecursionExists
<1>8. /\ g \in [0 .. c -> Ptr] /\ g[0] = first
      /\ \A i \in 1 .. c : g[i] = F[<<i, g[i - 1]>>]
  <2> HIDE DEF F
  <2>1. QED
    BY <1>7 DEF Recursion
<1>9. ASSUME NEW i \in 1 .. c
      PROVE  /\ i - 1 \in 0 .. c /\ g[i - 1] \in Ptr
             /\ g[i] = IF i = 1 THEN first
                       ELSE IF g[i - 1] = NULL THEN NULL ELSE h.next_all[g[i - 1]]
  <2>1. i - 1 \in 0 .. c
    BY <1>3
  <2>2. <<i, g[i - 1]>> \in (1 .. c) \X Ptr
    BY <1>8, <2>1
  <2>3. QED
    BY <1>8, <2>1, <2>2
<1> HIDE DEF F
<1>10. g = [n \in 0 .. c |->
               IF n <= 1 THEN first
               ELSE IF g[n - 1] = NULL THEN NULL ELSE h.next_all[g[n - 1]]]
  <2>1. \A n \in 0 .. c : n = 0 \/ n \in 1 .. c
    BY <1>3
  <2>2. \A n \in 1 .. c : n <= 1 <=> n = 1
    OBVIOUS
  <2>3. \A n \in 0 .. c :
           g[n] = IF n <= 1 THEN first
                  ELSE IF g[n - 1] = NULL THEN NULL ELSE h.next_all[g[n - 1]]
    BY <1>8, <1>9, <2>1, <2>2
  <2>4. QED
    BY <1>8, <2>3
<1>11. at = [n \in 0 .. c |->
               IF n <= 1 THEN first
               ELSE IF at[n - 1] = NULL THEN NULL ELSE h.next_all[at[n - 1]]]
  BY <1>10
<1> HIDE DEF at
<1>12. \A n \in 1 .. c : at[n] = IF n = 1 THEN first
                ELSE IF at[n - 1] = NULL THEN NULL ELSE h.next_all[at[n - 1]]
  <2> SUFFICES ASSUME NEW n \in 1 .. c
               PROVE  at[n] = IF n = 1 THEN first
                ELSE IF at[n - 1] = NULL THEN NULL ELSE h.next_all[at[n - 1]]
    OBVIOUS
  <2>1. n \in 0 .. c /\ (n <= 1 <=> n = 1)
    OBVIOUS
  <2>2. QED
    BY <1>11, <2>1
<1> DEFINE S == {n \in 1 .. c : at[n] = IF n <= l THEN w[n] ELSE NULL}
<1>13. ASSUME 1 \in 1 .. c
       PROVE  1 \in S
  <2>1. at[1] = first
    BY <1>12, <1>13
  <2>2. first = IF 1 <= l THEN w[1] ELSE NULL
    BY <1>2 DEF Chain
  <2>3. QED
    BY <1>13, <2>1, <2>2
<1>14. ASSUME NEW n \in 1 .. c - 1, n \in S
       PROVE  n + 1 \in S
  <2>1. n + 1 \in 1 .. c /\ n + 1 # 1 /\ n + 1 - 1 = n
    BY <1>3
  <2>2. at[n + 1] = IF at[n] = NULL THEN NULL ELSE h.next_all[at[n]]
    BY <1>12, <2>1
  <2>3. CASE n <= l
    <3>1. n \in 1 .. l /\ at[n] = w[n]
      BY <1>14, <2>3
    <3>2. at[n] # NULL /\ h.next_all[w[n]] = IF n = l THEN NULL ELSE w[n + 1]
      BY <1>2, <1>4, <3>1 DEF Chain
    <3>3. n + 1 <= l <=> n # l
      BY <3>1
    <3>4. at[n + 1] = IF n + 1 <= l THEN w[n + 1] ELSE NULL
      BY <2>2, <3>1, <3>2, <3>3
    <3>5. QED
      BY <2>1, <3>4
  <2>4. CASE ~(n <= l)
    <3>1. at[n + 1] = NULL /\ ~(n + 1 <= l)
      BY <1>14, <2>2, <2>4
    <3>2. QED
      BY <2>1, <3>1
  <2>5. QED
    BY <2>3, <2>4
<1>15. \A n \in 1 .. c : n \in S
  <2>1. CASE 1 \in 1 .. c
    <3> HIDE DEF S
    <3>1. 1 \in Nat /\ 1 \in S
      BY <1>13, <2>1
    <3>2. QED
      BY <1>3, <1>14, <3>1, IntervalInduction
  <2>2. CASE 1 \notin 1 .. c
    BY <1>3, <2>2
  <2>3. QED
    BY <2>1, <2>2
<1>16. \A n \in 1 .. c : at[n] = IF n <= l THEN w[n] ELSE NULL
  BY <1>15
<1>17. {m \in 1 .. c : at[m] # NULL} = 1 .. l
  <2>1. \A m \in 1 .. l : m \in 1 .. c /\ m <= l
    BY <1>3
  <2>2. \A m \in 1 .. c : m <= l => m \in 1 .. l
    OBVIOUS
  <2> HIDE DEF S
  <2>3. QED
    BY <1>4, <1>16, <2>1, <2>2
<1>18. Walk(h, first) = [n \in 1 .. l |-> at[n]]
  <2>1. Cardinality(1 .. l) = l
    BY UpToCounts
  <2>2. QED
    BY <1>5, <1>17, <2>1
<1>19. \A n \in 1 .. l : at[n] = w[n]
  <2>1. \A m \in 1 .. l : m \in 1 .. c /\ m <= l
    BY <1>3
  <2>2. QED
    BY <1>16, <2>1
<1>20. w = [n \in 1 .. l |-> w[n]]
  BY <1>1, <1>4
<1>21. QED
  BY <1>18, <1>19, <1>20

-----------------------------------------------------------------------------
(* ----- References ------------------------------------------------------ *)
Vars(f, o) == {v \in Holder : f[v] = o}
One(yes) == IF yes THEN 1 ELSE 0

(* What names an object, other than the list it is in.                     *)
Named(h, o) == Cardinality(Vars(h.variable, o))
               + One(o \in h.blueprints) + One(h.hook_ob = o)

(* The objects of S, and no others, have a reference of their list.        *)
Counted(h, S) ==
    \A o \in Obj : /\ h.ref[o] = Named(h, o) + One(o \in S)
                   /\ o \notin S => Named(h, o) = 0

LEMMA HolderFacts == IsFiniteSet(Holder) /\ Cardinality(Holder) \in Nat
BY HeapAssumption, FS_Subset, FS_CardinalityType

LEMMA VarsFacts ==
    ASSUME NEW f, NEW o
    PROVE  /\ IsFiniteSet(Vars(f, o)) /\ Cardinality(Vars(f, o)) \in Nat
           /\ Cardinality(Vars(f, o)) <= Cardinality(Holder)
<1>1. Vars(f, o) \subseteq Holder
  BY DEF Vars
<1>2. QED
  BY <1>1, HolderFacts, FS_Subset, FS_CardinalityType

LEMMA NamedFacts ==
    ASSUME NEW h, NEW o
    PROVE  /\ Named(h, o) \in 0 .. Cardinality(Holder) + 2
           /\ (\E v \in Holder : h.variable[v] = o) => Named(h, o) >= 1
           /\ o \in h.blueprints => Named(h, o) >= 1
           /\ h.hook_ob = o => Named(h, o) >= 1
<1>1. /\ Cardinality(Vars(h.variable, o)) \in Nat /\ IsFiniteSet(Vars(h.variable, o))
      /\ Cardinality(Vars(h.variable, o)) <= Cardinality(Holder)
      /\ Cardinality(Holder) \in Nat
  BY VarsFacts, HolderFacts
<1>2. One(o \in h.blueprints) \in {0, 1} /\ One(h.hook_ob = o) \in {0, 1}
  BY DEF One
<1>3. ASSUME NEW v \in Holder, h.variable[v] = o
      PROVE  Cardinality(Vars(h.variable, o)) # 0
  <2>1. Vars(h.variable, o) # {}
    BY <1>3 DEF Vars
  <2>2. QED
    BY <1>1, <2>1, FS_EmptySet
<1>4. (o \in h.blueprints => One(o \in h.blueprints) = 1) /\ (h.hook_ob = o => One(h.hook_ob = o) = 1)
  BY DEF One
<1>5. QED
  BY <1>1, <1>2, <1>3, <1>4 DEF Named

(* Another value in a variable.                                            *)
LEMMA VariableSet ==
    ASSUME NEW f \in [Holder -> Ptr], NEW v \in Holder, NEW x \in Ptr, NEW o \in Obj
    PROVE  Cardinality(Vars([f EXCEPT ![v] = x], o))
              = Cardinality(Vars(f, o)) + One(x = o) - One(f[v] = o)
<1> DEFINE g == [f EXCEPT ![v] = x]
           W == Vars(f, o) \ {v}
<1>1. Vars(f, o) = IF f[v] = o THEN W \cup {v} ELSE W
  BY DEF Vars
<1>2. Vars(g, o) = IF x = o THEN W \cup {v} ELSE W
  BY DEF Vars
<1>3. v \notin W /\ IsFiniteSet(W)
  BY VarsFacts, FS_RemoveElement
<1> HIDE DEF W, g
<1>4. Cardinality(W) \in Nat /\ Cardinality(W \cup {v}) = Cardinality(W) + 1
  BY <1>3, FS_AddElement, FS_CardinalityType
<1>5. Cardinality(Vars(f, o)) = Cardinality(W) + One(f[v] = o)
  BY <1>1, <1>4 DEF One
<1>6. Cardinality(Vars(g, o)) = Cardinality(W) + One(x = o)
  BY <1>2, <1>4 DEF One
<1>7. One(x = o) \in {0, 1} /\ One(f[v] = o) \in {0, 1}
  BY DEF One
<1>8. QED
  BY <1>4, <1>5, <1>6, <1>7 DEF g

-----------------------------------------------------------------------------
(* ----- The heap -------------------------------------------------------- *)
SameLists(g, h) ==
    /\ g.next_all = h.next_all /\ g.prev_all = h.prev_all
    /\ g.obj_list = h.obj_list /\ g.obj_list_end = h.obj_list_end
    /\ g.newly_destructed_objs = h.newly_destructed_objs
    /\ g.destructed_objs = h.destructed_objs
    /\ g.num_listed_objs = h.num_listed_objs
    /\ g.num_newly_destructed = h.num_newly_destructed
    /\ g.num_destructed = h.num_destructed

LEMMA FreedFacts ==
    ASSUME NEW h \in Heap, NEW o \in Obj
    PROVE  LET g == Freed(h, o)
           IN  /\ g \in Heap /\ SameLists(g, h)
               /\ g.variable = h.variable /\ g.blueprints = h.blueprints
               /\ g.hook_ob = h.hook_ob
               /\ g.ref = [h.ref EXCEPT ![o] = @ - 1]
               /\ g.destructed = IF h.ref[o] = 1 THEN h.destructed \ {o} ELSE h.destructed
<1> DEFINE gone == h.dest_last_ref_gone \/ h.ref[o] = FlagAt
           left == IF h.ref[o] = 1 THEN h.destructed \ {o} ELSE h.destructed
           refs == [h.ref EXCEPT ![o] = @ - 1]
<1>1. o # NULL
  BY HeapAssumption
<1>2. gone \in BOOLEAN
  OBVIOUS
<1>3. left \in SUBSET Obj
  BY DEF Heap
<1>4. refs \in [Obj -> Int]
  BY DEF Heap
<1>5. Freed(h, o) = [h EXCEPT !.dest_last_ref_gone = gone, !.ref = refs, !.destructed = left]
  BY <1>1 DEF Freed, Heap
<1> HIDE DEF gone, left, refs
<1>6. Freed(h, o) \in Heap
  BY <1>2, <1>3, <1>4, <1>5 DEF Heap
<1>7. QED
  BY <1>5, <1>6 DEF Heap, SameLists, left, refs

(* The operations on links leave the rest of the heap alone.               *)
SameRest(g, h) ==
    /\ g.obj_list = h.obj_list /\ g.obj_list_end = h.obj_list_end
    /\ g.newly_destructed_objs = h.newly_destructed_objs
    /\ g.destructed_objs = h.destructed_objs
    /\ g.num_listed_objs = h.num_listed_objs
    /\ g.num_newly_destructed = h.num_newly_destructed
    /\ g.num_destructed = h.num_destructed
    /\ g.ref = h.ref /\ g.destructed = h.destructed /\ g.blueprints = h.blueprints
    /\ g.variable = h.variable /\ g.hook_ob = h.hook_ob

LEMMA LinkPrevFacts ==
    ASSUME NEW h \in Heap, NEW n \in Ptr, NEW p \in Ptr
    PROVE  LET g == LinkPrev(h, n, p)
           IN  /\ g \in Heap /\ SameRest(g, h) /\ g.next_all = h.next_all
               /\ \A x \in Obj : g.prev_all[x] = IF x = n THEN p ELSE h.prev_all[x]
<1>1. CASE n = NULL
  BY <1>1, HeapAssumption DEF LinkPrev, SameRest
<1>2. CASE n # NULL
  <2>1. n \in Obj
    BY <1>2 DEF Ptr
  <2> DEFINE links == [h.prev_all EXCEPT ![n] = p]
  <2>2. links \in [Obj -> Ptr] /\ \A x \in Obj : links[x] = IF x = n THEN p ELSE h.prev_all[x]
    BY <2>1 DEF Heap
  <2>3. LinkPrev(h, n, p) = [h EXCEPT !.prev_all = links]
    BY <1>2 DEF LinkPrev, Heap
  <2> HIDE DEF links
  <2>4. QED
    BY <2>2, <2>3 DEF SameRest, Heap
<1>3. QED
  BY <1>1, <1>2

LEMMA LinkNextFacts ==
    ASSUME NEW h \in Heap, NEW n \in Ptr, NEW p \in Ptr
    PROVE  LET g == LinkNext(h, p, n)
           IN  /\ g \in Heap /\ SameRest(g, h) /\ g.prev_all = h.prev_all
               /\ \A x \in Obj : g.next_all[x] = IF x = p THEN n ELSE h.next_all[x]
<1>1. CASE p = NULL
  BY <1>1, HeapAssumption DEF LinkNext, SameRest
<1>2. CASE p # NULL
  <2>1. p \in Obj
    BY <1>2 DEF Ptr
  <2> DEFINE links == [h.next_all EXCEPT ![p] = n]
  <2>2. links \in [Obj -> Ptr] /\ \A x \in Obj : links[x] = IF x = p THEN n ELSE h.next_all[x]
    BY <2>1 DEF Heap
  <2>3. LinkNext(h, p, n) = [h EXCEPT !.next_all = links]
    BY <1>2 DEF LinkNext, Heap
  <2> HIDE DEF links
  <2>4. QED
    BY <2>2, <2>3 DEF SameRest, Heap
<1>3. QED
  BY <1>1, <1>2

LEMMA UnlinkedFacts ==
    ASSUME NEW h \in Heap, NEW o \in Obj
    PROVE  LET g == Unlinked(h, o)
           IN  /\ g \in Heap /\ SameRest(g, h)
               /\ \A x \in Obj :
                     /\ g.next_all[x] = IF x = h.prev_all[o] THEN h.next_all[o] ELSE h.next_all[x]
                     /\ g.prev_all[x] = IF x = h.next_all[o] THEN h.prev_all[o] ELSE h.prev_all[x]
<1> DEFINE m == LinkNext(h, h.prev_all[o], h.next_all[o])
           g == LinkPrev(m, h.next_all[o], h.prev_all[o])
<1>1. h.prev_all[o] \in Ptr /\ h.next_all[o] \in Ptr
  BY DEF Heap
<1>2. /\ m \in Heap /\ SameRest(m, h) /\ m.prev_all = h.prev_all
      /\ \A x \in Obj :
            m.next_all[x] = IF x = h.prev_all[o] THEN h.next_all[o] ELSE h.next_all[x]
  BY <1>1, LinkNextFacts
<1> HIDE DEF m
<1>3. /\ g \in Heap /\ SameRest(g, m) /\ g.next_all = m.next_all
      /\ \A x \in Obj :
            g.prev_all[x] = IF x = h.next_all[o] THEN h.prev_all[o] ELSE m.prev_all[x]
  BY <1>1, <1>2, LinkPrevFacts
<1>4. Unlinked(h, o) = g
  BY DEF Unlinked, m
<1> HIDE DEF g
<1>5. SameRest(g, h)
  BY <1>2, <1>3 DEF SameRest
<1>6. QED
  BY <1>2, <1>3, <1>4, <1>5

-----------------------------------------------------------------------------
(* The list of all objects is L, the one of destructed objects D; P are    *)
(* those destructed objects that remove_object() has not been called for.  *)
Exact(h, L, D, P) ==
    /\ Chain(h.next_all, h.obj_list, L) /\ Back(h.prev_all, L)
    /\ h.obj_list_end = End(L) /\ h.num_listed_objs = Len(L)
    /\ Chain(h.next_all, h.destructed_objs, D) /\ Back(h.prev_all, D)
    /\ h.num_destructed = Len(D)
    /\ P \subseteq Obj
    /\ ToSet(L) \cap (ToSet(D) \cup P) = {}
    /\ ToSet(D) \cap P = {}
    /\ h.destructed = ToSet(D) \cup P

Good(h, L, D, P) ==
    /\ h \in Heap
    /\ Exact(h, L, D, P)
    /\ Counted(h, ToSet(L) \cup h.destructed)

(* What the newly destructed objects are linked by.                        *)
SameNewly(g, h, P) ==
    /\ g.newly_destructed_objs = h.newly_destructed_objs
    /\ g.num_newly_destructed = h.num_newly_destructed
    /\ \A x \in P : g.next_all[x] = h.next_all[x]

LEMMA SameListsExact ==
    ASSUME NEW g, NEW h, NEW L, NEW D, NEW P, Exact(h, L, D, P),
           SameLists(g, h), g.destructed = h.destructed
    PROVE  Exact(g, L, D, P) /\ SameNewly(g, h, P)
BY DEF Exact, SameLists, SameNewly

(* Objects are named, or named no more: the references follow.             *)
LEMMA NamesKeep ==
    ASSUME NEW h, NEW L, NEW D, NEW P, Good(h, L, D, P),
           NEW g \in Heap, SameLists(g, h), g.destructed = h.destructed,
           NEW d, \A x \in Obj : /\ d[x] \in Int
                                 /\ g.ref[x] = h.ref[x] + d[x]
                                 /\ Named(g, x) = Named(h, x) + d[x]
                                 /\ x \notin ToSet(L) \cup h.destructed => d[x] <= 0
    PROVE  Good(g, L, D, P) /\ SameNewly(g, h, P)
<1>1. Exact(g, L, D, P) /\ SameNewly(g, h, P)
  BY SameListsExact DEF Good
<1>2. Counted(g, ToSet(L) \cup g.destructed)
  <2> DEFINE S == ToSet(L) \cup h.destructed
  <2>1. ASSUME NEW x \in Obj
        PROVE  /\ g.ref[x] = Named(g, x) + One(x \in S)
               /\ x \notin S => Named(g, x) = 0
    <3>1. h.ref[x] = Named(h, x) + One(x \in S) /\ (x \notin S => Named(h, x) = 0)
      BY DEF Good, Counted
    <3>2. Named(g, x) >= 0 /\ Named(g, x) \in Int /\ Named(h, x) \in Int
      BY NamedFacts, HolderFacts
    <3>3. One(x \in S) \in Int
      BY DEF One
    <3> HIDE DEF S
    <3>4. /\ d[x] \in Int
          /\ g.ref[x] = h.ref[x] + d[x]
          /\ Named(g, x) = Named(h, x) + d[x]
          /\ x \notin S => d[x] <= 0
      BY DEF S
    <3>5. QED
      BY <3>1, <3>2, <3>3, <3>4
  <2>2. QED
    BY <2>1 DEF Counted
<1>3. QED
  BY <1>1, <1>2 DEF Good

(* Who is named or listed is there, and who is named is listed.            *)
LEMMA GoodFacts ==
    ASSUME NEW h, NEW L, NEW D, NEW P, Good(h, L, D, P)
    PROVE  /\ L \in Seq(Obj) /\ D \in Seq(Obj)
           /\ ToSet(L) \subseteq Obj /\ ToSet(D) \subseteq Obj /\ P \subseteq Obj
           /\ Live(h) = ToSet(L)
           /\ \A o \in Obj : /\ h.ref[o] \in 0 .. Cardinality(Holder) + 3
                             /\ h.ref[o] > 0 <=> o \in ToSet(L) \cup h.destructed
                             /\ Named(h, o) > 0 => h.ref[o] > 1
<1>1. L \in Seq(Obj) /\ D \in Seq(Obj)
  BY DEF Good, Exact, Chain
<1>2. ToSet(L) \subseteq Obj /\ ToSet(D) \subseteq Obj /\ P \subseteq Obj
  BY <1>1, MembersFacts DEF Good, Exact
<1> DEFINE S == ToSet(L) \cup h.destructed
<1>3. ASSUME NEW o \in Obj
      PROVE  /\ h.ref[o] \in 0 .. Cardinality(Holder) + 3
             /\ h.ref[o] > 0 <=> o \in S
             /\ Named(h, o) > 0 => h.ref[o] > 1
  <2>1. h.ref[o] = Named(h, o) + One(o \in S) /\ (o \notin S => Named(h, o) = 0)
    BY DEF Good, Counted
  <2>2. Named(h, o) \in 0 .. Cardinality(Holder) + 2 /\ Cardinality(Holder) \in Nat
    BY NamedFacts, HolderFacts
  <2> HIDE DEF S
  <2>3. One(o \in S) = IF o \in S THEN 1 ELSE 0
    BY DEF One
  <2>4. QED
    BY <2>1, <2>2, <2>3
<1>4. Live(h) = ToSet(L)
  <2>1. ToSet(L) \cap h.destructed = {} /\ h.destructed \subseteq Obj
    BY <1>2 DEF Good, Exact
  <2>2. QED
    BY <1>2, <1>3, <2>1 DEF Live
<1>5. QED
  BY <1>1, <1>2, <1>3, <1>4

-----------------------------------------------------------------------------
(* ----- The operations -------------------------------------------------- *)
(* A name less for o, which is freed once.                                 *)
LEMMA ForgottenKeeps ==
    ASSUME NEW h, NEW L, NEW D, NEW P, Good(h, L, D, P), NEW o \in Obj, Named(h, o) > 0,
           NEW g \in Heap, SameLists(g, h), g.ref = [h.ref EXCEPT ![o] = @ - 1],
           g.destructed = IF h.ref[o] = 1 THEN h.destructed \ {o} ELSE h.destructed,
           \A x \in Obj : Named(g, x) = Named(h, x) - One(x = o)
    PROVE  /\ Good(g, L, D, P) /\ SameNewly(g, h, P)
           /\ g.destructed = h.destructed
<1>1. h.ref[o] > 1 /\ h.ref \in [Obj -> Int]
  BY GoodFacts DEF Good, Heap
<1>2. g.destructed = h.destructed
  BY <1>1
<1> DEFINE d == [x \in Obj |-> 0 - One(x = o)]
<1>3. ASSUME NEW x \in Obj
      PROVE  /\ d[x] \in Int
             /\ g.ref[x] = h.ref[x] + d[x]
             /\ Named(g, x) = Named(h, x) + d[x]
             /\ d[x] <= 0
  <2>1. One(x = o) = IF x = o THEN 1 ELSE 0
    BY DEF One
  <2>2. d[x] = 0 - One(x = o)
    OBVIOUS
  <2>3. h.ref[x] \in Int /\ Named(h, x) \in Int /\ Named(g, x) = Named(h, x) - One(x = o)
    BY <1>1, NamedFacts, HolderFacts
  <2>4. g.ref[x] = IF x = o THEN h.ref[x] - 1 ELSE h.ref[x]
    BY <1>1
  <2> HIDE DEF d
  <2>5. QED
    BY <2>1, <2>2, <2>3, <2>4
<1> HIDE DEF d
<1>4. Good(g, L, D, P) /\ SameNewly(g, h, P)
  BY <1>2, <1>3, NamesKeep
<1>5. QED
  BY <1>2, <1>4

LEMMA WithoutBlueprintKeeps ==
    ASSUME NEW h, NEW L, NEW D, NEW P, Good(h, L, D, P), NEW o
    PROVE  LET g == WithoutBlueprint(h, o)
           IN  /\ Good(g, L, D, P) /\ SameNewly(g, h, P)
               /\ g.destructed = h.destructed /\ g.hook_ob = h.hook_ob
               /\ g.next_all = h.next_all
<1>1. CASE o \notin h.blueprints
  BY <1>1 DEF WithoutBlueprint, SameNewly
<1>2. CASE o \in h.blueprints
  <2> DEFINE left == h.blueprints \ {o}
             m == [h EXCEPT !.blueprints = left]
             g == Freed(m, o)
  <2>1. h \in Heap /\ o \in Obj
    BY <1>2, HeapAssumption DEF Good, Heap
  <2>2. left \in SUBSET Blueprint
    BY <2>1 DEF Heap
  <2>3. WithoutBlueprint(h, o) = g
    BY <1>2, <2>1 DEF WithoutBlueprint, Heap
  <2> HIDE DEF left
  <2>4. /\ m \in Heap /\ SameLists(m, h) /\ m.ref = h.ref /\ m.destructed = h.destructed
        /\ m.variable = h.variable /\ m.hook_ob = h.hook_ob /\ m.blueprints = left
    BY <2>1, <2>2 DEF Heap, SameLists
  <2> HIDE DEF m
  <2>5. /\ g \in Heap /\ SameLists(g, m)
        /\ g.variable = m.variable /\ g.blueprints = m.blueprints /\ g.hook_ob = m.hook_ob
        /\ g.ref = [m.ref EXCEPT ![o] = @ - 1]
        /\ g.destructed = IF m.ref[o] = 1 THEN m.destructed \ {o} ELSE m.destructed
    BY <2>1, <2>4, FreedFacts
  <2> HIDE DEF g
  <2>6. SameLists(g, h)
    BY <2>4, <2>5 DEF SameLists
  <2>7. ASSUME NEW x \in Obj
        PROVE  Named(g, x) = Named(h, x) - One(x = o)
    <3>1. One(x \in left) = One(x \in h.blueprints) - One(x = o)
      BY <1>2 DEF One, left
    <3>2. Named(g, x) = Cardinality(Vars(h.variable, x)) + One(x \in left) + One(h.hook_ob = x)
      BY <2>4, <2>5 DEF Named
    <3>3. /\ Cardinality(Vars(h.variable, x)) \in Nat
          /\ One(x \in h.blueprints) \in Int /\ One(x = o) \in Int /\ One(h.hook_ob = x) \in Int
      BY VarsFacts DEF One
    <3>4. QED
      BY <3>1, <3>2, <3>3 DEF Named
  <2>8. Named(h, o) > 0
    BY <1>2, <2>1, NamedFacts, HolderFacts
  <2>9. g.ref = [h.ref EXCEPT ![o] = @ - 1]
        /\ g.destructed = IF h.ref[o] = 1 THEN h.destructed \ {o} ELSE h.destructed
    BY <2>4, <2>5
  <2>10. Good(g, L, D, P) /\ SameNewly(g, h, P) /\ g.destructed = h.destructed
    BY <2>1, <2>5, <2>6, <2>7, <2>8, <2>9, ForgottenKeeps
  <2>11. QED
    BY <2>3, <2>4, <2>5, <2>6, <2>10 DEF SameLists
<1>3. QED
  BY <1>1, <1>2

(* What a variable names, it names while it is there.                      *)
LEMMA AssignedKeeps ==
    ASSUME NEW h, NEW L, NEW D, NEW P, Good(h, L, D, P),
           NEW v \in Holder, NEW w \in Ptr, w # NULL => w \in ToSet(L) \cup h.destructed
    PROVE  LET g == Assigned(h, v, w)
           IN  /\ Good(g, L, D, P) /\ SameNewly(g, h, P)
               /\ g.destructed = h.destructed /\ g.hook_ob = h.hook_ob
               /\ g.next_all = h.next_all
<1>1. h \in Heap /\ h.ref \in [Obj -> Int] /\ h.variable \in [Holder -> Ptr] /\ v \in Obj
  BY HeapAssumption DEF Good, Heap
<1> DEFINE hw == IF w = NULL THEN h ELSE [h EXCEPT !.ref[w] = @ + 1]
           old == h.variable[v]
           fr == Freed(hw, old)
           vars2 == [h.variable EXCEPT ![v] = w]
           g == Assigned(h, v, w)
<1>2. old \in Ptr /\ vars2 \in [Holder -> Ptr]
  BY <1>1
<1>3. /\ hw \in Heap /\ SameLists(hw, h) /\ hw.variable = h.variable
      /\ hw.blueprints = h.blueprints /\ hw.hook_ob = h.hook_ob
      /\ hw.destructed = h.destructed
      /\ \A x \in Obj : hw.ref[x] = h.ref[x] + One(x = w)
  <2>1. CASE w = NULL
    BY <1>1, <2>1, HeapAssumption DEF SameLists, One
  <2>2. CASE w # NULL
    <3> DEFINE refs == [h.ref EXCEPT ![w] = @ + 1]
    <3>1. w \in Obj
      BY <2>2 DEF Ptr
    <3>2. refs \in [Obj -> Int] /\ \A x \in Obj : refs[x] = h.ref[x] + One(x = w)
      BY <1>1, <3>1 DEF One
    <3>3. hw = [h EXCEPT !.ref = refs]
      BY <1>1, <2>2 DEF Heap
    <3> HIDE DEF refs, hw
    <3>4. QED
      BY <1>1, <3>2, <3>3 DEF Heap, SameLists
  <2>3. QED
    BY <2>1, <2>2
<1> HIDE DEF hw
<1>4. /\ fr \in Heap /\ SameLists(fr, h) /\ fr.variable = h.variable
      /\ fr.blueprints = h.blueprints /\ fr.hook_ob = h.hook_ob
      /\ fr.destructed = h.destructed
      /\ \A x \in Obj : fr.ref[x] = h.ref[x] + (One(x = w) - One(x = old))
  <2>1. CASE old = NULL
    <3>1. fr = hw
      BY <2>1 DEF Freed
    <3>2. \A x \in Obj : One(x = old) = 0 /\ One(x = w) \in {0, 1}
      BY <2>1, HeapAssumption DEF One
    <3>3. QED
      BY <1>1, <1>3, <3>1, <3>2
  <2>2. CASE old # NULL
    <3>1. old \in Obj
      BY <1>2, <2>2 DEF Ptr
    <3> HIDE DEF old, fr
    <3>2. /\ fr \in Heap /\ SameLists(fr, hw)
          /\ fr.variable = hw.variable /\ fr.blueprints = hw.blueprints
          /\ fr.hook_ob = hw.hook_ob
          /\ fr.ref = [hw.ref EXCEPT ![old] = @ - 1]
          /\ fr.destructed = IF hw.ref[old] = 1 THEN hw.destructed \ {old} ELSE hw.destructed
      BY <1>3, <3>1, FreedFacts DEF fr
    <3>3. Named(h, old) > 0
      BY NamedFacts, HolderFacts DEF old
    <3>4. h.ref[old] > 1
      BY <3>1, <3>3, GoodFacts
    <3>5. hw.ref[old] = h.ref[old] + One(old = w) /\ One(old = w) \in {0, 1}
      BY <1>3, <3>1 DEF One
    <3>6. hw.ref[old] # 1
      BY <1>1, <3>1, <3>4, <3>5
    <3>7. ASSUME NEW x \in Obj
          PROVE  fr.ref[x] = h.ref[x] + (One(x = w) - One(x = old))
      <4>1. hw.ref[x] = h.ref[x] + One(x = w) /\ h.ref[x] \in Int /\ One(x = w) \in {0, 1}
        BY <1>1, <1>3 DEF One
      <4>2. fr.ref[x] = IF x = old THEN hw.ref[x] - 1 ELSE hw.ref[x]
        BY <1>3, <3>1, <3>2 DEF Heap
      <4>3. One(x = old) = IF x = old THEN 1 ELSE 0
        BY DEF One
      <4>4. QED
        BY <4>1, <4>2, <4>3
    <3>8. QED
      BY <1>3, <3>2, <3>6, <3>7 DEF SameLists
  <2>3. QED
    BY <2>1, <2>2
<1>5. g = [fr EXCEPT !.variable = vars2]
  <2>1. g = [fr EXCEPT !.variable[v] = w]
    BY DEF Assigned, hw
  <2> HIDE DEF fr, g
  <2>2. QED
    BY <1>1, <1>4, <2>1 DEF Heap
<1> HIDE DEF fr, g, old, vars2
<1>6. /\ g \in Heap /\ SameLists(g, fr) /\ g.variable = vars2 /\ g.ref = fr.ref
      /\ g.blueprints = fr.blueprints /\ g.hook_ob = fr.hook_ob
      /\ g.destructed = fr.destructed
  BY <1>2, <1>4, <1>5 DEF Heap, SameLists
<1>7. SameLists(g, h) /\ g.destructed = h.destructed /\ g.hook_ob = h.hook_ob
  BY <1>4, <1>6 DEF SameLists
<1> DEFINE d == [x \in Obj |-> One(x = w) - One(x = old)]
<1>8. ASSUME NEW x \in Obj
      PROVE  /\ d[x] \in Int
             /\ g.ref[x] = h.ref[x] + d[x]
             /\ Named(g, x) = Named(h, x) + d[x]
             /\ x \notin ToSet(L) \cup h.destructed => d[x] <= 0
  <2>1. d[x] = One(x = w) - One(x = old)
    OBVIOUS
  <2>2. One(x = w) \in {0, 1} /\ One(x = old) \in {0, 1}
    BY DEF One
  <2> HIDE DEF d
  <2>3. g.ref[x] = h.ref[x] + d[x]
    BY <1>4, <1>6, <2>1
  <2>4. Cardinality(Vars(vars2, x)) = Cardinality(Vars(h.variable, x)) + One(w = x) - One(old = x)
    BY <1>1, VariableSet DEF vars2, old
  <2>5. One(w = x) = One(x = w) /\ One(old = x) = One(x = old)
    BY DEF One
  <2>6. Named(g, x) = Cardinality(Vars(vars2, x)) + One(x \in h.blueprints) + One(h.hook_ob = x)
    BY <1>4, <1>6 DEF Named
  <2>7. /\ Cardinality(Vars(h.variable, x)) \in Nat
        /\ One(x \in h.blueprints) \in Int /\ One(h.hook_ob = x) \in Int
    BY VarsFacts DEF One
  <2>8. Named(g, x) = Named(h, x) + d[x]
    BY <2>1, <2>2, <2>4, <2>5, <2>6, <2>7 DEF Named
  <2>9. x \notin ToSet(L) \cup h.destructed => One(x = w) = 0
    BY HeapAssumption DEF One
  <2>10. QED
    BY <2>1, <2>2, <2>3, <2>8, <2>9
<1> HIDE DEF d
<1>9. Good(g, L, D, P) /\ SameNewly(g, h, P)
  BY <1>6, <1>7, <1>8, NamesKeep
<1>10. QED
  BY <1>7, <1>9 DEF g, SameLists

LEMMA NeighboursFacts ==
    ASSUME NEW next, NEW prev, NEW first, NEW w, Chain(next, first, w), Back(prev, w)
    PROVE  /\ first \in ToSet(w) \cup {NULL}
           /\ \A o \in ToSet(w) : /\ next[o] \in ToSet(w) \cup {NULL}
                                  /\ prev[o] \in ToSet(w) \cup {NULL}
<1>1. w \in Seq(Obj)
  BY DEF Chain
<1>2. PICK n \in Nat : n = Len(w)
  BY <1>1, LenProperties
<1>3. \A i \in 1 .. n : w[i] \in ToSet(w)
  BY <1>1, <1>2, MembersFacts
<1>4. first \in ToSet(w) \cup {NULL}
  <2>1. n # 0 => 1 \in 1 .. n
    OBVIOUS
  <2>2. QED
    BY <1>2, <1>3, <2>1 DEF Chain
<1>5. ASSUME NEW o \in ToSet(w)
      PROVE  next[o] \in ToSet(w) \cup {NULL} /\ prev[o] \in ToSet(w) \cup {NULL}
  <2>1. PICK i \in 1 .. n : w[i] = o
    BY <1>1, <1>2, MembersFacts
  <2>2. /\ next[o] = IF i = n THEN NULL ELSE w[i + 1]
        /\ prev[o] = IF i = 1 THEN NULL ELSE w[i - 1]
    BY <1>2, <2>1 DEF Chain, Back
  <2>3. (i # n => i + 1 \in 1 .. n) /\ (i # 1 => i - 1 \in 1 .. n)
    BY Next1
  <2>4. QED
    BY <1>3, <2>2, <2>3
<1>6. QED
  BY <1>4, <1>5

(* A new object.                                                           *)
LEMMA ListedKeeps ==
    ASSUME NEW h, NEW L, NEW D, NEW P, Good(h, L, D, P),
           NEW o \in Obj, o \notin ToSet(L) \cup h.destructed
    PROVE  LET g == Listed(h, o)
           IN  /\ Good(g, InsertAt(L, 1, o), D, P) /\ SameNewly(g, h, P)
               /\ g.destructed = h.destructed /\ g.hook_ob = h.hook_ob
               /\ ToSet(InsertAt(L, 1, o)) = ToSet(L) \cup {o}
<1> DEFINE n == h.obj_list
           m == LinkPrev(h, n, o)
           next2 == [m.next_all EXCEPT ![o] = n]
           prev2 == [m.prev_all EXCEPT ![o] = NULL]
           end2 == IF h.obj_list_end = NULL THEN o ELSE h.obj_list_end
           ref2 == [h.ref EXCEPT ![o] = IF o \in Blueprint THEN 2 ELSE 1]
           blue2 == IF o \in Blueprint THEN h.blueprints \cup {o} ELSE h.blueprints
           num2 == h.num_listed_objs + 1
           g == Listed(h, o)
           L2 == InsertAt(L, 1, o)
<1>1. h \in Heap /\ n \in Ptr /\ o \in Ptr /\ NULL \in Ptr
  BY DEF Good, Heap, Ptr
<1>2. /\ m \in Heap /\ SameRest(m, h) /\ m.next_all = h.next_all
      /\ \A x \in Obj : m.prev_all[x] = IF x = n THEN o ELSE h.prev_all[x]
  <2>1. m = LinkPrev(h, n, o)
    OBVIOUS
  <2> HIDE DEF n, m
  <2>2. h \in Heap /\ n \in Ptr /\ o \in Ptr
    BY <1>1
  <2>3. QED
    BY ONLY <2>1, <2>2, LinkPrevFacts
<1>3. g = [m EXCEPT !.next_all = next2, !.prev_all = prev2, !.obj_list = o,
                    !.obj_list_end = end2, !.num_listed_objs = num2, !.ref = ref2,
                    !.blueprints = blue2]
  <2> HIDE DEF m
  <2>1. g = [m EXCEPT !.next_all[o] = n, !.prev_all[o] = NULL, !.obj_list = o,
                      !.obj_list_end = IF @ = NULL THEN o ELSE @,
                      !.num_listed_objs = @ + 1,
                      !.ref[o] = IF o \in Blueprint THEN 2 ELSE 1,
                      !.blueprints = IF o \in Blueprint THEN @ \cup {o} ELSE @]
    BY DEF Listed, m
  <2> HIDE DEF g
  <2>2. QED
    BY <1>2, <2>1 DEF Heap, SameRest
<1> HIDE DEF m, g
<1>4. /\ next2 \in [Obj -> Ptr] /\ prev2 \in [Obj -> Ptr] /\ end2 \in Ptr
      /\ ref2 \in [Obj -> Int] /\ blue2 \in SUBSET Blueprint /\ num2 \in Int
      /\ \A x \in Obj : /\ next2[x] = IF x = o THEN n ELSE h.next_all[x]
                        /\ prev2[x] = IF x = o THEN NULL ELSE IF x = n THEN o ELSE h.prev_all[x]
  BY <1>1, <1>2 DEF Heap
<1> HIDE DEF next2, prev2, end2, ref2, blue2, num2
<1>5. /\ g \in Heap /\ g.next_all = next2 /\ g.prev_all = prev2
      /\ g.obj_list = o /\ g.obj_list_end = end2 /\ g.num_listed_objs = num2
      /\ g.ref = ref2 /\ g.blueprints = blue2 /\ g.destructed = h.destructed
      /\ g.newly_destructed_objs = h.newly_destructed_objs
      /\ g.num_newly_destructed = h.num_newly_destructed
      /\ g.destructed_objs = h.destructed_objs /\ g.num_destructed = h.num_destructed
      /\ g.variable = h.variable /\ g.hook_ob = h.hook_ob
  BY <1>1, <1>2, <1>3, <1>4 DEF Heap, SameRest
<1>6. /\ Chain(h.next_all, n, L) /\ Back(h.prev_all, L) /\ h.obj_list_end = End(L)
      /\ h.num_listed_objs = Len(L)
      /\ Chain(h.next_all, h.destructed_objs, D) /\ Back(h.prev_all, D)
      /\ h.num_destructed = Len(D)
      /\ P \subseteq Obj /\ ToSet(L) \cap (ToSet(D) \cup P) = {}
      /\ ToSet(D) \cap P = {} /\ h.destructed = ToSet(D) \cup P
  BY DEF Good, Exact
<1>7. /\ L \in Seq(Obj) /\ D \in Seq(Obj)
      /\ ToSet(L) \subseteq Obj /\ ToSet(D) \subseteq Obj
  BY GoodFacts
<1>8. /\ Chain(next2, o, L2) /\ ToSet(L2) = ToSet(L) \cup {o} /\ Len(L2) = Len(L) + 1
      /\ End(L2) = IF n = NULL THEN o ELSE End(L)
      /\ Back(prev2, L2)
  <2>1. o \notin ToSet(L) /\ next2[o] = n /\ \A x \in ToSet(L) : next2[x] = h.next_all[x]
    BY <1>4, <1>7
  <2>2. prev2[o] = NULL /\ \A x \in ToSet(L) : prev2[x] = IF x = n THEN o ELSE h.prev_all[x]
    BY <1>4, <1>7
  <2>3. /\ Chain(next2, o, L2) /\ ToSet(L2) = ToSet(L) \cup {o} /\ Len(L2) = Len(L) + 1
        /\ End(L2) = IF n = NULL THEN o ELSE End(L)
    BY <1>6, <2>1, PutFirst
  <2>4. Back(prev2, L2)
    BY <1>6, <2>2, PutFirstBack
  <2>5. QED
    BY <2>3, <2>4
<1> HIDE DEF L2, n
<1>9. end2 = End(L2)
  <2>1. n = NULL <=> End(L) = NULL
    <3>1. Len(L) \in Nat /\ \A i \in 1 .. Len(L) : L[i] # NULL
      BY <1>7, MembersFacts, HeapAssumption
    <3>2. Len(L) # 0 => 1 \in 1 .. Len(L) /\ Len(L) \in 1 .. Len(L)
      BY <3>1
    <3>3. n = IF Len(L) = 0 THEN NULL ELSE L[1]
      BY <1>6 DEF Chain
    <3>4. QED
      BY <3>1, <3>2, <3>3 DEF End
  <2>2. QED
    BY <1>6, <1>8, <2>1 DEF end2
<1>10. n \in ToSet(L) \cup {NULL}
  BY <1>6, NeighboursFacts
<1>11. \A x \in ToSet(D) \cup P : next2[x] = h.next_all[x] /\ prev2[x] = h.prev_all[x]
  BY <1>4, <1>6, <1>7, <1>10, HeapAssumption
<1>12. Chain(next2, h.destructed_objs, D) /\ Back(prev2, D)
  BY <1>6, <1>7, <1>11, SameChain, SameBack
<1>13. Exact(g, L2, D, P)
  <2>1. num2 = Len(L2)
    BY <1>6, <1>8 DEF num2
  <2>2. ToSet(L2) \cap (ToSet(D) \cup P) = {}
    BY <1>6, <1>8
  <2>3. QED
    BY <1>5, <1>6, <1>8, <1>9, <1>12, <2>1, <2>2 DEF Exact
<1>14. Counted(g, ToSet(L2) \cup g.destructed)
  <2> DEFINE S == ToSet(L) \cup h.destructed
             S2 == ToSet(L2) \cup g.destructed
  <2>1. S2 = S \cup {o} /\ o \notin S
    BY <1>5, <1>8
  <2>2. \A x \in Obj : /\ h.ref[x] = Named(h, x) + One(x \in S)
                       /\ x \notin S => Named(h, x) = 0
    BY DEF Good, Counted
  <2> HIDE DEF S, S2
  <2>3. ASSUME NEW x \in Obj, x # o
        PROVE  g.ref[x] = Named(g, x) + One(x \in S2) /\ (x \notin S2 => Named(g, x) = 0)
    <3>1. g.ref[x] = h.ref[x]
      BY <1>1, <1>5, <2>3 DEF ref2, Heap
    <3>2. x \in blue2 <=> x \in h.blueprints
      BY <2>3 DEF blue2
    <3>3. One(x \in blue2) = One(x \in h.blueprints)
      BY <3>2 DEF One
    <3>4. Named(g, x) = Named(h, x)
      BY <1>5, <3>3 DEF Named
    <3>5. One(x \in S2) = One(x \in S) /\ (x \in S2 <=> x \in S)
      BY <2>1, <2>3 DEF One
    <3>6. QED
      BY <2>2, <3>1, <3>4, <3>5
  <2>4. g.ref[o] = Named(g, o) + One(o \in S2) /\ o \in S2
    <3>1. Named(h, o) = 0
      BY <2>1, <2>2
    <3>2. o \notin h.blueprints
      BY <3>1, NamedFacts
    <3>3. One(o \in h.blueprints) = 0 /\ One(o \in S2) = 1
      BY <2>1, <3>2 DEF One
    <3>4. Cardinality(Vars(h.variable, o)) \in Nat /\ One(h.hook_ob = o) \in {0, 1}
      BY VarsFacts DEF One
    <3>5. Named(h, o) = Cardinality(Vars(h.variable, o)) + One(h.hook_ob = o)
      BY <3>3, <3>4 DEF Named
    <3>6. Named(g, o) = Cardinality(Vars(h.variable, o)) + One(o \in blue2) + One(h.hook_ob = o)
      BY <1>5 DEF Named
    <3>7. One(o \in blue2) = One(o \in Blueprint)
      BY <3>2 DEF One, blue2
    <3>8. g.ref[o] = IF o \in Blueprint THEN 2 ELSE 1
      BY <1>1, <1>5 DEF ref2, Heap
    <3>9. One(o \in Blueprint) = IF o \in Blueprint THEN 1 ELSE 0
      BY DEF One
    <3>10. Named(g, o) = One(o \in Blueprint)
      BY <3>1, <3>4, <3>5, <3>6, <3>7, <3>9
    <3>11. QED
      BY <2>1, <3>3, <3>8, <3>9, <3>10
  <2>5. QED
    BY <2>3, <2>4 DEF Counted, S2
<1>15. SameNewly(g, h, P)
  BY <1>5, <1>11 DEF SameNewly
<1>16. QED
  BY <1>5, <1>8, <1>13, <1>14, <1>15 DEF Good, g, L2

(* destruct() moves an object from the list of all objects.                *)
LEMMA DestructedKeeps ==
    ASSUME NEW h, NEW L, NEW D, NEW P, Good(h, L, D, P), NEW o \in ToSet(L)
    PROVE  LET g == Destructed(h, o)
           IN  /\ \E L2 : ToSet(L2) = ToSet(L) \ {o} /\ Good(g, L2, D, P \cup {o})
               /\ g.newly_destructed_objs = o
               /\ g.num_newly_destructed = h.num_newly_destructed + 1
               /\ g.next_all[o] = h.newly_destructed_objs
               /\ \A x \in P : g.next_all[x] = h.next_all[x]
               /\ g.destructed = h.destructed \cup {o} /\ g.ref = h.ref
<1> DEFINE m == Unlinked(h, o)
           first2 == IF h.obj_list = o THEN h.next_all[o] ELSE h.obj_list
           end2 == EndWithout(h, o)
           next2 == [m.next_all EXCEPT ![o] = h.newly_destructed_objs]
           prev2 == [m.prev_all EXCEPT ![o] = NULL]
           num2 == h.num_listed_objs - 1
           newly2 == h.num_newly_destructed + 1
           gone2 == h.destructed \cup {o}
           g == Destructed(h, o)
<1>1. /\ L \in Seq(Obj) /\ D \in Seq(Obj)
      /\ ToSet(L) \subseteq Obj /\ ToSet(D) \subseteq Obj /\ P \subseteq Obj
  BY GoodFacts
<1>2. h \in Heap /\ o \in Obj /\ NULL \in Ptr /\ o \in Ptr /\ h.next_all[o] \in Ptr
  BY <1>1 DEF Good, Heap, Ptr
<1>3. /\ m \in Heap /\ SameRest(m, h)
      /\ \A x \in Obj :
            /\ m.next_all[x] = IF x = h.prev_all[o] THEN h.next_all[o] ELSE h.next_all[x]
            /\ m.prev_all[x] = IF x = h.next_all[o] THEN h.prev_all[o] ELSE h.prev_all[x]
  BY <1>2, UnlinkedFacts
<1>4. g = [m EXCEPT !.obj_list = first2, !.obj_list_end = end2, !.num_listed_objs = num2,
                    !.destructed = gone2, !.prev_all = prev2, !.next_all = next2,
                    !.newly_destructed_objs = o, !.num_newly_destructed = newly2]
  <2> HIDE DEF m
  <2>1. g = [m EXCEPT !.obj_list = IF @ = o THEN h.next_all[o] ELSE @,
                      !.obj_list_end = EndWithout(h, o),
                      !.num_listed_objs = @ - 1,
                      !.destructed = @ \cup {o},
                      !.prev_all[o] = NULL,
                      !.next_all[o] = h.newly_destructed_objs,
                      !.newly_destructed_objs = o,
                      !.num_newly_destructed = @ + 1]
    BY DEF Destructed, m
  <2> HIDE DEF g
  <2>2. QED
    BY <1>3, <2>1 DEF Heap, SameRest
<1> HIDE DEF m, g
<1>5. /\ next2 \in [Obj -> Ptr] /\ prev2 \in [Obj -> Ptr] /\ end2 \in Ptr /\ first2 \in Ptr
      /\ num2 \in Int /\ newly2 \in Int /\ gone2 \in SUBSET Obj
      /\ next2[o] = h.newly_destructed_objs
      /\ \A x \in Obj \ {o} :
            /\ next2[x] = IF x = h.prev_all[o] THEN h.next_all[o] ELSE h.next_all[x]
            /\ prev2[x] = IF x = h.next_all[o] THEN h.prev_all[o] ELSE h.prev_all[x]
  BY <1>2, <1>3 DEF Heap, EndWithout
<1> HIDE DEF next2, prev2, end2, first2, num2, newly2, gone2
<1>6. /\ g \in Heap /\ g.next_all = next2 /\ g.prev_all = prev2
      /\ g.obj_list = first2 /\ g.obj_list_end = end2 /\ g.num_listed_objs = num2
      /\ g.ref = h.ref /\ g.blueprints = h.blueprints /\ g.destructed = gone2
      /\ g.newly_destructed_objs = o
      /\ g.num_newly_destructed = newly2
      /\ g.destructed_objs = h.destructed_objs /\ g.num_destructed = h.num_destructed
      /\ g.variable = h.variable /\ g.hook_ob = h.hook_ob
  BY <1>2, <1>3, <1>4, <1>5 DEF Heap, SameRest
<1>7. /\ Chain(h.next_all, h.obj_list, L) /\ Back(h.prev_all, L)
      /\ h.obj_list_end = End(L) /\ h.num_listed_objs = Len(L)
      /\ Chain(h.next_all, h.destructed_objs, D) /\ Back(h.prev_all, D)
      /\ h.num_destructed = Len(D)
      /\ ToSet(L) \cap (ToSet(D) \cup P) = {}
      /\ ToSet(D) \cap P = {} /\ h.destructed = ToSet(D) \cup P
  BY DEF Good, Exact
<1>8. PICK k \in 1 .. Len(L) : o = L[k]
  BY <1>1, MembersFacts
<1>9. PICK L2 : L2 = RemoveAt(L, k)
  OBVIOUS
<1>10. /\ Chain(next2, first2, L2) /\ Back(prev2, L2)
       /\ ToSet(L2) = ToSet(L) \ {o} /\ Len(L2) = Len(L) - 1 /\ end2 = End(L2)
  <2>1. \A x \in ToSet(L) \ {o} :
            /\ next2[x] = IF x = h.prev_all[o] THEN h.next_all[o] ELSE h.next_all[x]
            /\ prev2[x] = IF x = h.next_all[o] THEN h.prev_all[o] ELSE h.prev_all[x]
    BY <1>1, <1>5
  <2>2. /\ Chain(next2, IF h.obj_list = o THEN h.next_all[o] ELSE h.obj_list, L2)
        /\ Back(prev2, L2)
        /\ ToSet(L2) = ToSet(L) \ {o} /\ Len(L2) = Len(L) - 1
        /\ End(L2) = IF End(L) = o THEN h.prev_all[o] ELSE End(L)
    BY <1>7, <1>8, <1>9, <2>1, TakeOut, SMTT(30)
  <2>3. QED
    BY <1>7, <2>2 DEF first2, end2, EndWithout
<1>11. h.next_all[o] \in ToSet(L) \cup {NULL} /\ h.prev_all[o] \in ToSet(L) \cup {NULL}
  BY <1>7, NeighboursFacts
<1>12. \A x \in ToSet(D) \cup P : next2[x] = h.next_all[x] /\ prev2[x] = h.prev_all[x]
  BY <1>1, <1>5, <1>7, <1>11, HeapAssumption
<1>13. Chain(next2, h.destructed_objs, D) /\ Back(prev2, D)
  BY <1>1, <1>7, <1>12, SameChain, SameBack
<1>14. Exact(g, L2, D, P \cup {o})
  <2>1. num2 = Len(L2)
    BY <1>7, <1>10 DEF num2
  <2>2. /\ P \cup {o} \subseteq Obj
        /\ ToSet(L2) \cap (ToSet(D) \cup (P \cup {o})) = {}
        /\ ToSet(D) \cap (P \cup {o}) = {}
        /\ gone2 = ToSet(D) \cup (P \cup {o})
    BY <1>1, <1>7, <1>10 DEF gone2
  <2>3. QED
    BY <1>6, <1>7, <1>10, <1>13, <2>1, <2>2 DEF Exact
<1>15. Counted(g, ToSet(L2) \cup g.destructed)
  <2>1. ToSet(L2) \cup g.destructed = ToSet(L) \cup h.destructed
    BY <1>6, <1>10 DEF gone2
  <2>2. \A x \in Obj : Named(g, x) = Named(h, x)
    BY <1>6 DEF Named
  <2>3. QED
    BY <1>6, <2>1, <2>2 DEF Counted, Good
<1>16. Good(g, L2, D, P \cup {o})
  BY <1>6, <1>14, <1>15 DEF Good
<1>17. QED
  BY <1>5, <1>6, <1>10, <1>12, <1>16 DEF g, newly2, gone2

(* A destructed object that nothing names is freed, ...                    *)
LEMMA LastFreed ==
    ASSUME NEW h, NEW L, NEW D, NEW P, Good(h, L, D, P),
           NEW o \in P, ~(h.ref[o] > 1)
    PROVE  LET g == Freed(h, o)
           IN  /\ Good(g, L, D, P \ {o}) /\ SameNewly(g, h, P)
               /\ g.hook_ob = h.hook_ob
<1> DEFINE g == Freed(h, o)
<1>1. /\ ToSet(L) \subseteq Obj /\ ToSet(D) \subseteq Obj /\ P \subseteq Obj /\ o \in Obj
      /\ h \in Heap /\ o \in h.destructed
  BY GoodFacts DEF Good, Exact
<1>2. /\ g \in Heap /\ SameLists(g, h)
      /\ g.variable = h.variable /\ g.blueprints = h.blueprints /\ g.hook_ob = h.hook_ob
      /\ g.ref = [h.ref EXCEPT ![o] = @ - 1]
      /\ g.destructed = IF h.ref[o] = 1 THEN h.destructed \ {o} ELSE h.destructed
  BY <1>1, FreedFacts
<1> HIDE DEF g
<1> DEFINE S == ToSet(L) \cup h.destructed
<1>3. \A x \in Obj : /\ h.ref[x] = Named(h, x) + One(x \in S)
                     /\ x \notin S => Named(h, x) = 0
                     /\ Named(h, x) \in Nat
  BY NamedFacts, HolderFacts DEF Good, Counted
<1>4. h.ref[o] = 1 /\ Named(h, o) = 0
  <2>1. o \in S
    BY <1>1
  <2> HIDE DEF S
  <2>2. One(o \in S) = 1
    BY <2>1 DEF One
  <2>3. QED
    BY <1>1, <1>3, <2>2
<1>5. g.destructed = h.destructed \ {o} /\ g.destructed = ToSet(D) \cup (P \ {o})
  BY <1>2, <1>4 DEF Good, Exact
<1>6. Exact(g, L, D, P \ {o})
  BY <1>2, <1>5 DEF SameLists, Good, Exact
<1>7. Counted(g, ToSet(L) \cup g.destructed)
  <2> DEFINE S2 == ToSet(L) \cup g.destructed
  <2>1. S2 = S \ {o}
    BY <1>5 DEF Good, Exact
  <2>2. \A x \in Obj : Named(g, x) = Named(h, x)
    BY <1>2 DEF Named
  <2>3. \A x \in Obj : g.ref[x] = IF x = o THEN h.ref[x] - 1 ELSE h.ref[x]
    BY <1>1, <1>2 DEF Heap
  <2> HIDE DEF S, S2
  <2>4. \A x \in Obj : One(x \in S2) = (IF x = o THEN 0 ELSE One(x \in S)) /\ (x \in S2 <=> x \in S /\ x # o)
    BY <2>1 DEF One
  <2>5. \A x \in Obj : /\ g.ref[x] = Named(g, x) + One(x \in S2)
                       /\ x \notin S2 => Named(g, x) = 0
    BY <1>3, <1>4, <2>2, <2>3, <2>4
  <2>6. QED
    BY <2>5 DEF Counted, S2
<1>8. SameNewly(g, h, P)
  BY <1>2 DEF SameLists, SameNewly
<1>9. QED
  BY <1>2, <1>6, <1>7, <1>8 DEF Good, g

(* ... others go to the list of destructed objects.                        *)
Queued(h, o) ==
    [LinkPrev(h, h.destructed_objs, o) EXCEPT
        !.next_all[o] = h.destructed_objs, !.prev_all[o] = NULL,
        !.destructed_objs = o,
        !.num_destructed = @ + 1]

LEMMA QueuedKeeps ==
    ASSUME NEW h, NEW L, NEW D, NEW P, Good(h, L, D, P), NEW o \in P
    PROVE  LET g == Queued(h, o)
           IN  /\ Good(g, L, InsertAt(D, 1, o), P \ {o}) /\ SameNewly(g, h, P \ {o})
               /\ g.hook_ob = h.hook_ob
<1> DEFINE n == h.destructed_objs
           m == LinkPrev(h, n, o)
           next2 == [m.next_all EXCEPT ![o] = n]
           prev2 == [m.prev_all EXCEPT ![o] = NULL]
           num2 == h.num_destructed + 1
           g == Queued(h, o)
           D2 == InsertAt(D, 1, o)
<1>1. /\ L \in Seq(Obj) /\ D \in Seq(Obj)
      /\ ToSet(L) \subseteq Obj /\ ToSet(D) \subseteq Obj /\ P \subseteq Obj
  BY GoodFacts
<1>2. h \in Heap /\ n \in Ptr /\ o \in Obj /\ o \in Ptr /\ NULL \in Ptr
  BY <1>1 DEF Good, Heap, Ptr
<1>3. /\ m \in Heap /\ SameRest(m, h) /\ m.next_all = h.next_all
      /\ \A x \in Obj : m.prev_all[x] = IF x = n THEN o ELSE h.prev_all[x]
  <2>1. m = LinkPrev(h, n, o)
    OBVIOUS
  <2> HIDE DEF n, m
  <2>2. h \in Heap /\ n \in Ptr /\ o \in Ptr
    BY <1>2
  <2>3. QED
    BY ONLY <2>1, <2>2, LinkPrevFacts
<1>4. g = [m EXCEPT !.next_all = next2, !.prev_all = prev2, !.destructed_objs = o,
                    !.num_destructed = num2]
  <2> HIDE DEF m
  <2>1. g = [m EXCEPT !.next_all[o] = n, !.prev_all[o] = NULL, !.destructed_objs = o,
                      !.num_destructed = @ + 1]
    BY DEF Queued, m
  <2> HIDE DEF g
  <2>2. QED
    BY <1>3, <2>1 DEF Heap, SameRest
<1> HIDE DEF m, g
<1>5. /\ next2 \in [Obj -> Ptr] /\ prev2 \in [Obj -> Ptr] /\ num2 \in Int
      /\ \A x \in Obj : /\ next2[x] = IF x = o THEN n ELSE h.next_all[x]
                        /\ prev2[x] = IF x = o THEN NULL ELSE IF x = n THEN o ELSE h.prev_all[x]
  BY <1>2, <1>3 DEF Heap
<1> HIDE DEF next2, prev2, num2
<1>6. /\ g \in Heap /\ g.next_all = next2 /\ g.prev_all = prev2
      /\ g.obj_list = h.obj_list /\ g.obj_list_end = h.obj_list_end
      /\ g.num_listed_objs = h.num_listed_objs
      /\ g.ref = h.ref /\ g.blueprints = h.blueprints /\ g.destructed = h.destructed
      /\ g.newly_destructed_objs = h.newly_destructed_objs
      /\ g.num_newly_destructed = h.num_newly_destructed
      /\ g.destructed_objs = o /\ g.num_destructed = num2
      /\ g.variable = h.variable /\ g.hook_ob = h.hook_ob
  BY <1>2, <1>3, <1>4, <1>5 DEF Heap, SameRest
<1>7. /\ Chain(h.next_all, h.obj_list, L) /\ Back(h.prev_all, L)
      /\ h.obj_list_end = End(L) /\ h.num_listed_objs = Len(L)
      /\ Chain(h.next_all, n, D) /\ Back(h.prev_all, D)
      /\ h.num_destructed = Len(D)
      /\ ToSet(L) \cap (ToSet(D) \cup P) = {}
      /\ ToSet(D) \cap P = {} /\ h.destructed = ToSet(D) \cup P
  BY DEF Good, Exact
<1>8. /\ Chain(next2, o, D2) /\ ToSet(D2) = ToSet(D) \cup {o} /\ Len(D2) = Len(D) + 1
      /\ Back(prev2, D2)
  <2>1. o \notin ToSet(D) /\ next2[o] = n /\ \A x \in ToSet(D) : next2[x] = h.next_all[x]
    BY <1>1, <1>2, <1>5, <1>7
  <2>2. prev2[o] = NULL /\ \A x \in ToSet(D) : prev2[x] = IF x = n THEN o ELSE h.prev_all[x]
    BY <1>1, <1>2, <1>5, <2>1
  <2>3. Chain(next2, o, D2) /\ ToSet(D2) = ToSet(D) \cup {o} /\ Len(D2) = Len(D) + 1
    BY <1>2, <1>7, <2>1, PutFirst
  <2>4. Back(prev2, D2)
    BY <1>2, <1>7, <2>2, PutFirstBack
  <2>5. QED
    BY <2>3, <2>4
<1> HIDE DEF D2, n
<1>9. n \in ToSet(D) \cup {NULL}
  BY <1>7, NeighboursFacts
<1>10. \A x \in ToSet(L) \cup (P \ {o}) : next2[x] = h.next_all[x] /\ prev2[x] = h.prev_all[x]
  BY <1>1, <1>5, <1>7, <1>9, HeapAssumption
<1>11. Chain(next2, h.obj_list, L) /\ Back(prev2, L)
  BY <1>1, <1>7, <1>10, SameChain, SameBack
<1>12. Exact(g, L, D2, P \ {o})
  <2>1. num2 = Len(D2)
    BY <1>7, <1>8 DEF num2
  <2>2. /\ P \ {o} \subseteq Obj
        /\ ToSet(L) \cap (ToSet(D2) \cup (P \ {o})) = {}
        /\ ToSet(D2) \cap (P \ {o}) = {}
        /\ h.destructed = ToSet(D2) \cup (P \ {o})
    BY <1>1, <1>7, <1>8
  <2>3. QED
    BY <1>6, <1>7, <1>8, <1>11, <2>1, <2>2 DEF Exact
<1>13. Counted(g, ToSet(L) \cup g.destructed)
  <2>1. \A x \in Obj : Named(g, x) = Named(h, x)
    BY <1>6 DEF Named
  <2>2. QED
    BY <1>6, <2>1 DEF Counted, Good
<1>14. SameNewly(g, h, P \ {o})
  BY <1>6, <1>10 DEF SameNewly
<1>15. QED
  BY <1>6, <1>12, <1>13, <1>14 DEF Good, g, D2

LEMMA RemoveObjectKeeps ==
    ASSUME NEW h, NEW L, NEW D, NEW P, Good(h, L, D, P), NEW o \in P
    PROVE  LET g == RemoveObject(h, o)
           IN  /\ \E D2 : Good(g, L, D2, P \ {o})
               /\ SameNewly(g, h, P \ {o}) /\ g.hook_ob = h.hook_ob
<1> DEFINE h1 == WithoutBlueprint(h, o)
           h2 == IF o \in Holder THEN Assigned(h1, o, NULL) ELSE h1
           queued == Queued(h2, o)
           g == RemoveObject(h, o)
<1>1. o \in Obj /\ NULL \in Ptr
  BY GoodFacts DEF Ptr
<1>2. Good(h1, L, D, P) /\ SameNewly(h1, h, P) /\ h1.hook_ob = h.hook_ob
  BY <1>1, WithoutBlueprintKeeps
<1> HIDE DEF h1
<1>3. Good(h2, L, D, P) /\ SameNewly(h2, h1, P) /\ h2.hook_ob = h1.hook_ob
  <2>1. CASE o \in Holder
    <3> DEFINE h3 == Assigned(h1, o, NULL)
    <3>1. Good(h3, L, D, P) /\ SameNewly(h3, h1, P) /\ h3.hook_ob = h1.hook_ob
      BY <1>1, <1>2, <2>1, AssignedKeeps
    <3>2. QED
      BY <2>1, <3>1
  <2>2. CASE o \notin Holder
    BY <1>2, <2>2 DEF SameNewly
  <2>3. QED
    BY <2>1, <2>2
<1>4. g = IF h2.ref[o] <= 1 THEN Freed(h2, o) ELSE queued
  BY DEF RemoveObject, Queued, h1
<1> HIDE DEF h2, g
<1>5. SameNewly(h2, h, P) /\ h2.hook_ob = h.hook_ob
  BY <1>2, <1>3 DEF SameNewly
<1>6. CASE h2.ref[o] <= 1
  <2>1. ~(h2.ref[o] > 1)
    <3>1. h2.ref[o] \in Int
      BY <1>1, <1>3 DEF Good, Heap
    <3>2. QED
      BY <1>6, <3>1
  <2> DEFINE f == Freed(h2, o)
  <2>2. Good(f, L, D, P \ {o}) /\ SameNewly(f, h2, P) /\ f.hook_ob = h2.hook_ob
    BY <1>3, <2>1, LastFreed
  <2>3. g = f
    BY <1>4, <1>6
  <2> HIDE DEF f
  <2>4. QED
    BY <1>5, <2>2, <2>3 DEF SameNewly, g
<1>7. CASE ~(h2.ref[o] <= 1)
  <2>1. g = queued
    BY <1>4, <1>7
  <2>2. /\ Good(queued, L, InsertAt(D, 1, o), P \ {o})
        /\ SameNewly(queued, h2, P \ {o}) /\ queued.hook_ob = h2.hook_ob
    BY <1>3, QueuedKeeps
  <2> HIDE DEF queued
  <2>3. QED
    BY <1>5, <2>1, <2>2 DEF SameNewly, g
<1>8. QED
  BY <1>6, <1>7

(* The members of w from place i + 1 on.                                   *)
From(w, i) == {w[j] : j \in i + 1 .. Len(w)}

LEMMA FromFacts ==
    ASSUME NEW w \in Seq(Obj), \A i, j \in 1 .. Len(w) : w[i] = w[j] => i = j
    PROVE  /\ From(w, 0) = ToSet(w) /\ From(w, Len(w)) = {}
           /\ \A i \in 1 .. Len(w) : /\ w[i] \in From(w, i - 1)
                                     /\ From(w, i) = From(w, i - 1) \ {w[i]}
<1>1. PICK n \in Nat : n = Len(w)
  BY LenProperties
<1>2. DOMAIN w = 1 .. n
  BY <1>1, MembersFacts
<1>3. From(w, 0) = ToSet(w)
  BY <1>1, <1>2 DEF From, ToSet
<1>4. From(w, Len(w)) = {}
  BY <1>1 DEF From
<1>5. ASSUME NEW i \in 1 .. n
      PROVE  w[i] \in From(w, i - 1) /\ From(w, i) = From(w, i - 1) \ {w[i]}
  <2>1. i - 1 + 1 .. n = (i + 1 .. n) \cup {i} /\ i \notin i + 1 .. n
    OBVIOUS
  <2>2. \A j \in i + 1 .. n : j \in 1 .. n
    OBVIOUS
  <2>3. \A j \in i + 1 .. n : w[j] # w[i]
    BY <1>1, <2>1, <2>2
  <2>4. From(w, i - 1) = {w[j] : j \in i + 1 .. n} \cup {w[i]}
    BY <1>1, <2>1 DEF From
  <2>5. From(w, i) = {w[j] : j \in i + 1 .. n}
    BY <1>1 DEF From
  <2>6. QED
    BY <2>3, <2>4, <2>5
<1>6. QED
  BY <1>1, <1>3, <1>4, <1>5

(* remove_object() is called for all that are newly destructed.            *)
LEMMA HandleNewlyKeeps ==
    ASSUME NEW h, NEW L, NEW D, NEW N, Good(h, L, D, ToSet(N)),
           Chain(h.next_all, h.newly_destructed_objs, N)
    PROVE  LET g == HandleNewlyDestructed(h)
           IN  /\ \E D2 : Good(g, L, D2, {})
               /\ g.newly_destructed_objs = NULL /\ g.num_newly_destructed = 0
               /\ g.hook_ob = h.hook_ob
<1> DEFINE W == Walk(h, h.newly_destructed_objs)
           start == [h EXCEPT !.newly_destructed_objs = NULL, !.num_newly_destructed = 0]
           after == CHOOSE after : after = [n \in 0 .. Len(W) |->
                        IF n = 0 THEN start ELSE RemoveObject(after[n - 1], W[n])]
           Fine(f, P) == /\ \E D2 : Good(f, L, D2, P)
                         /\ f.newly_destructed_objs = NULL /\ f.num_newly_destructed = 0
                         /\ f.hook_ob = h.hook_ob
<1>1. h \in Heap /\ h.next_all \in [Obj -> Ptr] /\ h.newly_destructed_objs \in Ptr /\ NULL \in Ptr
  BY DEF Good, Heap, Ptr
<1>2. W = N
  BY <1>1, WalkFacts
<1>3. N \in Seq(Obj) /\ \A i, j \in 1 .. Len(N) : N[i] = N[j] => i = j
  BY DEF Chain
<1>4. PICK l \in Nat : l = Len(N)
  BY <1>3, LenProperties
<1>5. HandleNewlyDestructed(h) = after[Len(W)]
  BY DEF HandleNewlyDestructed
<1> HIDE DEF W
<1>6. Fine(start, From(N, 0))
  <2>1. start \in Heap
    <3>1. PICK none \in Int : none = 0
      OBVIOUS
    <3>2. start = [h EXCEPT !.newly_destructed_objs = NULL, !.num_newly_destructed = none]
      BY <3>1
    <3> HIDE DEF start
    <3>3. QED
      BY <1>1, <3>2 DEF Heap
  <2>2. /\ start.newly_destructed_objs = NULL
        /\ start.num_newly_destructed = 0 /\ start.hook_ob = h.hook_ob
        /\ start.next_all = h.next_all /\ start.prev_all = h.prev_all
        /\ start.obj_list = h.obj_list /\ start.obj_list_end = h.obj_list_end
        /\ start.num_listed_objs = h.num_listed_objs
        /\ start.destructed_objs = h.destructed_objs /\ start.num_destructed = h.num_destructed
        /\ start.ref = h.ref /\ start.destructed = h.destructed
        /\ start.blueprints = h.blueprints /\ start.variable = h.variable
    BY <1>1 DEF Heap
  <2> HIDE DEF start
  <2>3. Exact(start, L, D, ToSet(N))
    BY <2>2 DEF Good, Exact
  <2>4. \A x \in Obj : Named(start, x) = Named(h, x)
    BY <2>2 DEF Named
  <2>5. Good(start, L, D, ToSet(N))
    BY <2>1, <2>2, <2>3, <2>4 DEF Good, Counted
  <2>6. From(N, 0) = ToSet(N)
    BY <1>3, FromFacts
  <2>7. QED
    BY <2>2, <2>5, <2>6
<1>7. start \in Heap
  BY <1>6 DEF Good
<1> HIDE DEF start
<1>8. ASSUME NEW f, NEW i \in 1 .. l, Fine(f, From(N, i - 1))
      PROVE  Fine(RemoveObject(f, N[i]), From(N, i)) /\ RemoveObject(f, N[i]) \in Heap
  <2>1. N[i] \in From(N, i - 1) /\ From(N, i) = From(N, i - 1) \ {N[i]}
    BY <1>3, <1>4, FromFacts
  <2>2. PICK D2 : Good(f, L, D2, From(N, i - 1))
    BY <1>8
  <2>3. PICK o \in From(N, i - 1) : o = N[i]
    BY <2>1
  <2> DEFINE g == RemoveObject(f, o)
  <2>4. /\ \E D3 : Good(g, L, D3, From(N, i - 1) \ {o})
        /\ SameNewly(g, f, From(N, i - 1) \ {o}) /\ g.hook_ob = f.hook_ob
    BY <2>2, RemoveObjectKeeps
  <2> HIDE DEF g
  <2>5. Fine(g, From(N, i))
    BY <1>8, <2>1, <2>3, <2>4 DEF SameNewly
  <2>6. g \in Heap
    BY <2>4 DEF Good
  <2>7. QED
    BY <2>3, <2>5, <2>6 DEF g
<1> DEFINE F == [x \in (1 .. l) \X Heap |->
                    IF RemoveObject(x[2], N[x[1]]) \in Heap
                    THEN RemoveObject(x[2], N[x[1]]) ELSE x[2]]
<1> HIDE DEF Fine
<1>9. F \in [(1 .. l) \X Heap -> Heap]
  <2>1. \A x \in (1 .. l) \X Heap :
           (IF RemoveObject(x[2], N[x[1]]) \in Heap
            THEN RemoveObject(x[2], N[x[1]]) ELSE x[2]) \in Heap
    OBVIOUS
  <2>2. QED
    BY <2>1
<1>10. PICK f : f \in Recursion(l, Heap, start, F)
  <2> HIDE DEF F
  <2>1. QED
    BY <1>7, <1>9, RecursionExists
<1>11. /\ f \in [0 .. l -> Heap] /\ f[0] = start
       /\ \A i \in 1 .. l : f[i] = F[<<i, f[i - 1]>>]
  <2> HIDE DEF F
  <2>1. QED
    BY <1>10 DEF Recursion
<1>12. ASSUME NEW i \in 1 .. l
       PROVE  f[i] = IF RemoveObject(f[i - 1], N[i]) \in Heap
                     THEN RemoveObject(f[i - 1], N[i]) ELSE f[i - 1]
  <2>1. i - 1 \in 0 .. l
    OBVIOUS
  <2>2. <<i, f[i - 1]>> \in (1 .. l) \X Heap
    BY <1>11, <2>1
  <2>3. QED
    BY <1>11, <2>2
<1> HIDE DEF F
<1> DEFINE S == {i \in 0 .. l : Fine(f[i], From(N, i))}
<1>13. 0 \in S
  BY <1>6, <1>11
<1>14. ASSUME NEW i \in 0 .. l - 1, i \in S
       PROVE  i + 1 \in S
  <2>1. i + 1 \in 1 .. l /\ i + 1 - 1 = i /\ i + 1 \in 0 .. l
    OBVIOUS
  <2>2. PICK j \in 1 .. l : j = i + 1
    BY <2>1
  <2>3. j - 1 = i /\ Fine(f[j - 1], From(N, j - 1))
    BY <1>14, <2>1, <2>2
  <2>4. Fine(RemoveObject(f[j - 1], N[j]), From(N, j)) /\ RemoveObject(f[j - 1], N[j]) \in Heap
    BY <1>8, <2>3
  <2>5. f[j] = RemoveObject(f[j - 1], N[j])
    BY <1>12, <2>4
  <2>6. QED
    BY <2>1, <2>2, <2>4, <2>5
<1>15. \A i \in 0 .. l : i \in S
  <2> HIDE DEF S
  <2>1. QED
    BY <1>13, <1>14, IntervalInduction
<1>16. ASSUME NEW i \in 1 .. l
       PROVE  f[i] = RemoveObject(f[i - 1], N[i])
  <2>1. i - 1 \in 0 .. l
    OBVIOUS
  <2>2. Fine(f[i - 1], From(N, i - 1))
    BY <1>15, <2>1
  <2>3. RemoveObject(f[i - 1], N[i]) \in Heap
    BY <1>8, <2>2
  <2>4. QED
    BY <1>12, <2>3
<1>17. f = [n \in 0 .. Len(W) |-> IF n = 0 THEN start ELSE RemoveObject(f[n - 1], W[n])]
  <2>1. \A n \in 0 .. l : n = 0 \/ n \in 1 .. l
    OBVIOUS
  <2>2. \A n \in 0 .. l : f[n] = IF n = 0 THEN start ELSE RemoveObject(f[n - 1], N[n])
    BY <1>11, <1>16, <2>1
  <2>3. QED
    BY <1>2, <1>4, <1>11, <2>2
<1>18. after = [n \in 0 .. Len(W) |-> IF n = 0 THEN start ELSE RemoveObject(after[n - 1], W[n])]
  BY <1>17
<1> HIDE DEF after
<1> DEFINE T == {i \in 0 .. l : after[i] = f[i]}
<1>19. 0 \in T
  BY <1>2, <1>4, <1>11, <1>18
<1>20. ASSUME NEW i \in 0 .. l - 1, i \in T
       PROVE  i + 1 \in T
  <2>1. PICK j \in 1 .. l : j = i + 1
    OBVIOUS
  <2>2. j \in 0 .. l /\ j # 0 /\ j - 1 = i
    BY <2>1
  <2>3. after[j] = RemoveObject(after[j - 1], N[j])
    BY <1>2, <1>4, <1>18, <2>2
  <2>4. f[j] = RemoveObject(f[j - 1], N[j])
    BY <1>16
  <2>5. QED
    BY <1>20, <2>1, <2>2, <2>3, <2>4
<1>21. l \in T
  <2> HIDE DEF T
  <2>1. l \in 0 .. l
    OBVIOUS
  <2>2. QED
    BY <1>19, <1>20, <2>1, IntervalInduction
<1>22. HandleNewlyDestructed(h) = f[l] /\ Fine(f[l], From(N, l))
  BY <1>2, <1>4, <1>5, <1>15, <1>21
<1>23. From(N, l) = {}
  BY <1>3, <1>4, FromFacts
<1>24. Fine(HandleNewlyDestructed(h), {})
  BY <1>22, <1>23
<1>25. QED
  BY <1>24 DEF Fine

(* A scan frees an object of the list of destructed objects, or lets it be.*)
LEMMA VictimKeeps ==
    ASSUME NEW h, NEW L, NEW D, NEW P, Good(h, L, D, P), NEW o \in ToSet(D)
    PROVE  LET g == Victim(h, o)
           IN  /\ \E D2 : ToSet(D) \ {o} \subseteq ToSet(D2) /\ Good(g, L, D2, P)
               /\ SameNewly(g, h, P) /\ g.hook_ob = h.hook_ob
<1> DEFINE m == Unlinked(h, o)
           first2 == IF h.destructed_objs = o THEN h.next_all[o] ELSE h.destructed_objs
           num2 == h.num_destructed - 1
           out == [m EXCEPT !.destructed_objs = first2, !.num_destructed = num2]
           g == Victim(h, o)
<1>1. /\ L \in Seq(Obj) /\ D \in Seq(Obj)
      /\ ToSet(L) \subseteq Obj /\ ToSet(D) \subseteq Obj /\ P \subseteq Obj
  BY GoodFacts
<1>2. h \in Heap /\ o \in Obj /\ h.next_all[o] \in Ptr /\ h.ref[o] \in Int
  BY <1>1 DEF Good, Heap
<1>3. CASE h.ref[o] > 1
  <2>1. g = h
    BY <1>3 DEF Victim
  <2> HIDE DEF g
  <2>2. QED
    BY <2>1 DEF SameNewly, g
<1>4. CASE ~(h.ref[o] > 1)
  <2>1. /\ m \in Heap /\ SameRest(m, h)
        /\ \A x \in Obj :
              /\ m.next_all[x] = IF x = h.prev_all[o] THEN h.next_all[o] ELSE h.next_all[x]
              /\ m.prev_all[x] = IF x = h.next_all[o] THEN h.prev_all[o] ELSE h.prev_all[x]
    BY <1>2, UnlinkedFacts
  <2>2. g = Freed(out, o)
    <3> HIDE DEF m
    <3>1. g = Freed([m EXCEPT !.destructed_objs = IF @ = o THEN h.next_all[o] ELSE @,
                              !.num_destructed = @ - 1], o)
      BY <1>4 DEF Victim, m
    <3>2. out = [m EXCEPT !.destructed_objs = IF @ = o THEN h.next_all[o] ELSE @,
                          !.num_destructed = @ - 1]
      BY <2>1 DEF Heap, SameRest
    <3> HIDE DEF g, out
    <3>3. QED
      BY <3>1, <3>2
  <2> HIDE DEF m, g
  <2>3. first2 \in Ptr /\ num2 \in Int
    BY <1>2 DEF Heap
  <2> HIDE DEF first2, num2
  <2>4. /\ out \in Heap /\ out.next_all = m.next_all /\ out.prev_all = m.prev_all
        /\ out.obj_list = h.obj_list /\ out.obj_list_end = h.obj_list_end
        /\ out.num_listed_objs = h.num_listed_objs
        /\ out.ref = h.ref /\ out.blueprints = h.blueprints /\ out.destructed = h.destructed
        /\ out.newly_destructed_objs = h.newly_destructed_objs
        /\ out.num_newly_destructed = h.num_newly_destructed
        /\ out.destructed_objs = first2 /\ out.num_destructed = num2
        /\ out.variable = h.variable /\ out.hook_ob = h.hook_ob
    BY <1>2, <2>1, <2>3 DEF Heap, SameRest
  <2> HIDE DEF out
  <2>5. /\ Chain(h.next_all, h.obj_list, L) /\ Back(h.prev_all, L)
        /\ h.obj_list_end = End(L) /\ h.num_listed_objs = Len(L)
        /\ Chain(h.next_all, h.destructed_objs, D) /\ Back(h.prev_all, D)
        /\ h.num_destructed = Len(D)
        /\ ToSet(L) \cap (ToSet(D) \cup P) = {}
        /\ ToSet(D) \cap P = {} /\ h.destructed = ToSet(D) \cup P
    BY DEF Good, Exact
  <2>6. PICK k \in 1 .. Len(D) : o = D[k]
    BY <1>1, MembersFacts
  <2>7. PICK D2 : D2 = RemoveAt(D, k)
    OBVIOUS
  <2>8. /\ Chain(m.next_all, first2, D2) /\ Back(m.prev_all, D2)
        /\ ToSet(D2) = ToSet(D) \ {o} /\ Len(D2) = Len(D) - 1
    <3>1. PICK next, prev, first :
              next = h.next_all /\ prev = h.prev_all /\ first = h.destructed_objs
      OBVIOUS
    <3>2. PICK next2, prev2 : next2 = m.next_all /\ prev2 = m.prev_all
      OBVIOUS
    <3>3. \A x \in ToSet(D) \ {o} :
              /\ next2[x] = IF x = prev[o] THEN next[o] ELSE next[x]
              /\ prev2[x] = IF x = next[o] THEN prev[o] ELSE prev[x]
      BY <1>1, <2>1, <3>1, <3>2
    <3>4. Chain(next, first, D) /\ Back(prev, D) /\ o = D[k]
      BY <2>5, <2>6, <3>1
    <3>5. /\ Chain(next2, IF first = o THEN next[o] ELSE first, RemoveAt(D, k))
          /\ Back(prev2, RemoveAt(D, k))
          /\ ToSet(RemoveAt(D, k)) = ToSet(D) \ {o} /\ Len(RemoveAt(D, k)) = Len(D) - 1
      BY ONLY <3>3, <3>4, k \in 1 .. Len(D), TakeOut
    <3>6. QED
      BY <2>7, <3>1, <3>2, <3>5 DEF first2
  <2>9. h.next_all[o] \in ToSet(D) \cup {NULL} /\ h.prev_all[o] \in ToSet(D) \cup {NULL}
    BY <2>5, NeighboursFacts
  <2>10. \A x \in ToSet(L) \cup P : /\ m.next_all[x] = h.next_all[x]
                                    /\ m.prev_all[x] = h.prev_all[x]
    BY <1>1, <2>1, <2>5, <2>9, HeapAssumption
  <2>11. Chain(m.next_all, h.obj_list, L) /\ Back(m.prev_all, L)
    BY <1>1, <2>5, <2>10, SameChain, SameBack
  <2>12. Exact(out, L, D2, P \cup {o})
    <3>1. num2 = Len(D2)
      BY <2>5, <2>8 DEF num2
    <3>2. /\ P \cup {o} \subseteq Obj
          /\ ToSet(L) \cap (ToSet(D2) \cup (P \cup {o})) = {}
          /\ ToSet(D2) \cap (P \cup {o}) = {}
          /\ h.destructed = ToSet(D2) \cup (P \cup {o})
      BY <1>1, <1>2, <2>5, <2>8
    <3>3. QED
      BY <2>4, <2>5, <2>8, <2>11, <3>1, <3>2 DEF Exact
  <2>13. Counted(out, ToSet(L) \cup out.destructed)
    <3>1. \A x \in Obj : Named(out, x) = Named(h, x)
      BY <2>4 DEF Named
    <3>2. QED
      BY <2>4, <3>1 DEF Counted, Good
  <2>14. SameNewly(out, h, P)
    BY <2>4, <2>10 DEF SameNewly
  <2>15. PICK P2 : P2 = P \cup {o}
    OBVIOUS
  <2>16. Good(out, L, D2, P2) /\ o \in P2 /\ ~(out.ref[o] > 1) /\ P2 \ {o} = P
    BY <1>4, <2>4, <2>5, <2>12, <2>13, <2>15 DEF Good
  <2> DEFINE f == Freed(out, o)
  <2>17. Good(f, L, D2, P2 \ {o}) /\ SameNewly(f, out, P2) /\ f.hook_ob = out.hook_ob
    BY <2>16, LastFreed
  <2>18. g = f
    BY <2>2
  <2> HIDE DEF f
  <2>19. Good(g, L, D2, P) /\ SameNewly(g, h, P) /\ g.hook_ob = h.hook_ob
    BY <2>4, <2>14, <2>15, <2>16, <2>17, <2>18 DEF SameNewly
  <2>20. QED
    BY <2>8, <2>19 DEF g
<1>5. QED
  BY <1>3, <1>4

LEMMA RemoveDestructedKeeps ==
    ASSUME NEW h, NEW L, NEW D, NEW P, Good(h, L, D, P)
    PROVE  LET g == RemoveDestructed(h)
           IN  /\ \E D2 : Good(g, L, D2, P)
               /\ SameNewly(g, h, P) /\ g.hook_ob = h.hook_ob
<1> DEFINE W == Walk(h, h.destructed_objs)
           start == [h EXCEPT !.dest_last_ref_gone = FALSE]
           after == CHOOSE after : after = [n \in 0 .. Len(W) |->
                        IF n = 0 THEN start ELSE Victim(after[n - 1], W[n])]
           Fine(f, i) == /\ \E D2 : From(D, i) \subseteq ToSet(D2) /\ Good(f, L, D2, P)
                         /\ SameNewly(f, h, P) /\ f.hook_ob = h.hook_ob
<1>1. h \in Heap /\ h.next_all \in [Obj -> Ptr] /\ h.destructed_objs \in Ptr
  BY DEF Good, Heap
<1>2. W = D
  <2>1. Chain(h.next_all, h.destructed_objs, D)
    BY DEF Good, Exact
  <2>2. QED
    BY <1>1, <2>1, WalkFacts
<1>3. D \in Seq(Obj) /\ \A i, j \in 1 .. Len(D) : D[i] = D[j] => i = j
  BY DEF Good, Exact, Chain
<1>4. PICK l \in Nat : l = Len(D)
  BY <1>3, LenProperties
<1>5. RemoveDestructed(h) = IF ~h.dest_last_ref_gone THEN h ELSE after[Len(W)]
  BY DEF RemoveDestructed
<1> HIDE DEF W
<1>6. Fine(start, 0)
  <2>1. start \in Heap
    BY <1>1 DEF Heap
  <2>2. /\ start.newly_destructed_objs = h.newly_destructed_objs
        /\ start.num_newly_destructed = h.num_newly_destructed /\ start.hook_ob = h.hook_ob
        /\ start.next_all = h.next_all /\ start.prev_all = h.prev_all
        /\ start.obj_list = h.obj_list /\ start.obj_list_end = h.obj_list_end
        /\ start.num_listed_objs = h.num_listed_objs
        /\ start.destructed_objs = h.destructed_objs /\ start.num_destructed = h.num_destructed
        /\ start.ref = h.ref /\ start.destructed = h.destructed
        /\ start.blueprints = h.blueprints /\ start.variable = h.variable
    BY <1>1 DEF Heap
  <2> HIDE DEF start
  <2>3. Exact(start, L, D, P)
    BY <2>2 DEF Good, Exact
  <2>4. \A x \in Obj : Named(start, x) = Named(h, x)
    BY <2>2 DEF Named
  <2>5. Good(start, L, D, P) /\ SameNewly(start, h, P)
    BY <2>1, <2>2, <2>3, <2>4 DEF Good, Counted, SameNewly
  <2>6. From(D, 0) = ToSet(D)
    BY <1>3, FromFacts
  <2>7. QED
    BY <2>2, <2>5, <2>6
<1>7. start \in Heap
  BY <1>6 DEF Good
<1> HIDE DEF start
<1>8. ASSUME NEW f, NEW i \in 1 .. l, Fine(f, i - 1)
      PROVE  Fine(Victim(f, D[i]), i) /\ Victim(f, D[i]) \in Heap
  <2>1. D[i] \in From(D, i - 1) /\ From(D, i) = From(D, i - 1) \ {D[i]}
    BY <1>3, <1>4, FromFacts
  <2>2. PICK D2 : From(D, i - 1) \subseteq ToSet(D2) /\ Good(f, L, D2, P)
    BY <1>8
  <2>3. PICK o \in ToSet(D2) : o = D[i]
    BY <2>1, <2>2
  <2> DEFINE g == Victim(f, o)
  <2>4. /\ \E D3 : ToSet(D2) \ {o} \subseteq ToSet(D3) /\ Good(g, L, D3, P)
        /\ SameNewly(g, f, P) /\ g.hook_ob = f.hook_ob
    BY <2>2, VictimKeeps
  <2> HIDE DEF g
  <2>5. Fine(g, i)
    BY <1>8, <2>1, <2>2, <2>3, <2>4 DEF SameNewly
  <2>6. g \in Heap
    BY <2>4 DEF Good
  <2>7. QED
    BY <2>3, <2>5, <2>6 DEF g
<1> DEFINE F == [x \in (1 .. l) \X Heap |->
                    IF Victim(x[2], D[x[1]]) \in Heap
                    THEN Victim(x[2], D[x[1]]) ELSE x[2]]
<1> HIDE DEF Fine
<1>9. F \in [(1 .. l) \X Heap -> Heap]
  <2>1. \A x \in (1 .. l) \X Heap :
           (IF Victim(x[2], D[x[1]]) \in Heap THEN Victim(x[2], D[x[1]]) ELSE x[2]) \in Heap
    OBVIOUS
  <2>2. QED
    BY <2>1
<1>10. PICK f : f \in Recursion(l, Heap, start, F)
  <2> HIDE DEF F
  <2>1. QED
    BY <1>7, <1>9, RecursionExists
<1>11. /\ f \in [0 .. l -> Heap] /\ f[0] = start
       /\ \A i \in 1 .. l : f[i] = F[<<i, f[i - 1]>>]
  <2> HIDE DEF F
  <2>1. QED
    BY <1>10 DEF Recursion
<1>12. ASSUME NEW i \in 1 .. l
       PROVE  f[i] = IF Victim(f[i - 1], D[i]) \in Heap
                     THEN Victim(f[i - 1], D[i]) ELSE f[i - 1]
  <2>1. i - 1 \in 0 .. l
    OBVIOUS
  <2>2. <<i, f[i - 1]>> \in (1 .. l) \X Heap
    BY <1>11, <2>1
  <2>3. QED
    BY <1>11, <2>2
<1> HIDE DEF F
<1> DEFINE S == {i \in 0 .. l : Fine(f[i], i)}
<1>13. 0 \in S
  BY <1>6, <1>11
<1>14. ASSUME NEW i \in 0 .. l - 1, i \in S
       PROVE  i + 1 \in S
  <2>1. PICK j \in 1 .. l : j = i + 1
    OBVIOUS
  <2>2. j \in 0 .. l /\ j - 1 = i /\ Fine(f[j - 1], j - 1)
    BY <1>14, <2>1
  <2>3. Fine(Victim(f[j - 1], D[j]), j) /\ Victim(f[j - 1], D[j]) \in Heap
    BY <1>8, <2>2
  <2>4. f[j] = Victim(f[j - 1], D[j])
    BY <1>12, <2>3
  <2>5. QED
    BY <2>1, <2>2, <2>3, <2>4
<1>15. \A i \in 0 .. l : i \in S
  <2> HIDE DEF S
  <2>1. QED
    BY <1>13, <1>14, IntervalInduction
<1>16. ASSUME NEW i \in 1 .. l
       PROVE  f[i] = Victim(f[i - 1], D[i])
  <2>1. i - 1 \in 0 .. l
    OBVIOUS
  <2>2. Fine(f[i - 1], i - 1)
    BY <1>15, <2>1
  <2>3. Victim(f[i - 1], D[i]) \in Heap
    BY <1>8, <2>2
  <2>4. QED
    BY <1>12, <2>3
<1>17. f = [n \in 0 .. Len(W) |-> IF n = 0 THEN start ELSE Victim(f[n - 1], W[n])]
  <2>1. \A n \in 0 .. l : n = 0 \/ n \in 1 .. l
    OBVIOUS
  <2>2. \A n \in 0 .. l : f[n] = IF n = 0 THEN start ELSE Victim(f[n - 1], D[n])
    BY <1>11, <1>16, <2>1
  <2>3. QED
    BY <1>2, <1>4, <1>11, <2>2
<1>18. after = [n \in 0 .. Len(W) |-> IF n = 0 THEN start ELSE Victim(after[n - 1], W[n])]
  BY <1>17
<1> HIDE DEF after
<1> DEFINE T == {i \in 0 .. l : after[i] = f[i]}
<1>19. 0 \in T
  BY <1>2, <1>4, <1>11, <1>18
<1>20. ASSUME NEW i \in 0 .. l - 1, i \in T
       PROVE  i + 1 \in T
  <2>1. PICK j \in 1 .. l : j = i + 1
    OBVIOUS
  <2>2. j \in 0 .. l /\ j # 0 /\ j - 1 = i
    BY <2>1
  <2>3. after[j] = Victim(after[j - 1], D[j])
    BY <1>2, <1>4, <1>18, <2>2
  <2>4. f[j] = Victim(f[j - 1], D[j])
    BY <1>16
  <2>5. QED
    BY <1>20, <2>1, <2>2, <2>3, <2>4
<1>21. l \in T
  <2> HIDE DEF T
  <2>1. l \in 0 .. l
    OBVIOUS
  <2>2. QED
    BY <1>19, <1>20, <2>1, IntervalInduction
<1>22. CASE h.dest_last_ref_gone
  <2>1. RemoveDestructed(h) = f[l] /\ Fine(f[l], l)
    BY <1>2, <1>4, <1>5, <1>15, <1>21, <1>22
  <2>2. Fine(RemoveDestructed(h), l)
    BY <2>1
  <2>3. QED
    BY <2>2 DEF Fine
<1>23. CASE ~h.dest_last_ref_gone
  <2> DEFINE g == RemoveDestructed(h)
  <2>1. g = h
    BY <1>5, <1>23
  <2> HIDE DEF g
  <2>2. Good(g, L, D, P) /\ SameNewly(g, h, P) /\ g.hook_ob = h.hook_ob
    BY <2>1 DEF SameNewly
  <2>3. QED
    BY <2>2 DEF g
<1>24. QED
  BY <1>22, <1>23

(* Data cleaning forgets names of objects that are destructed but listed.  *)
LEMMA DataCleanedKeeps ==
    ASSUME NEW h, NEW L, NEW D, NEW P, Good(h, L, D, P), NEW S
    PROVE  LET g == DataCleaned(h, S)
           IN  Good(g, L, D, P) /\ SameNewly(g, h, P)
<1> DEFINE cleaned == {v \in S \cap Holder : h.variable[v] \in h.destructed}
           C(o) == {v \in cleaned : h.variable[v] = o}
           left(o) == h.ref[o] - Cardinality(C(o))
           vars2 == [v \in Holder |-> IF v \in cleaned THEN NULL ELSE h.variable[v]]
           ref2 == [o \in Obj |-> left(o)]
           gone2 == {o \in h.destructed : left(o) > 0}
           flag2 == \/ h.dest_last_ref_gone
                    \/ \E o \in Obj : h.ref[o] >= FlagAt /\ left(o) < FlagAt
           g == DataCleaned(h, S)
<1>1. h \in Heap /\ h.ref \in [Obj -> Int] /\ h.destructed \subseteq Obj
  BY DEF Good, Heap
<1>2. g = [h EXCEPT !.variable = vars2, !.ref = ref2, !.destructed = gone2,
                    !.dest_last_ref_gone = flag2]
  BY <1>1 DEF DataCleaned, Heap
<1>3. ASSUME NEW o \in Obj
      PROVE  /\ Cardinality(C(o)) \in Nat
             /\ Cardinality(Vars(vars2, o)) \in Nat
             /\ Cardinality(Vars(h.variable, o)) = Cardinality(C(o)) + Cardinality(Vars(vars2, o))
  <2>1. C(o) \subseteq Vars(h.variable, o) /\ Vars(vars2, o) = Vars(h.variable, o) \ C(o)
    BY HeapAssumption DEF Vars
  <2>2. IsFiniteSet(Vars(h.variable, o))
    BY VarsFacts
  <2>3. IsFiniteSet(C(o)) /\ IsFiniteSet(Vars(vars2, o))
    BY <2>1, <2>2, FS_Subset
  <2>4. Vars(h.variable, o) = C(o) \cup Vars(vars2, o) /\ C(o) \cap Vars(vars2, o) = {}
    BY <2>1
  <2> HIDE DEF C, vars2
  <2>5. Cardinality(C(o)) \in Nat /\ Cardinality(Vars(vars2, o)) \in Nat
    BY <2>3, FS_CardinalityType
  <2>6. Cardinality(C(o) \cup Vars(vars2, o))
           = Cardinality(C(o)) + Cardinality(Vars(vars2, o)) - Cardinality(C(o) \cap Vars(vars2, o))
    BY <2>3, FS_Union
  <2>7. Cardinality({}) = 0
    BY FS_EmptySet
  <2>8. Cardinality(Vars(h.variable, o)) = Cardinality(C(o)) + Cardinality(Vars(vars2, o)) - 0
    BY <2>4, <2>6, <2>7
  <2>9. QED
    BY <2>5, <2>8
<1>4. vars2 \in [Holder -> Ptr]
  <2>1. \A v \in Holder : (IF v \in cleaned THEN NULL ELSE h.variable[v]) \in Ptr
    BY <1>1 DEF Heap, Ptr
  <2>2. QED
    BY <2>1
<1> HIDE DEF C, vars2
<1>5. ref2 \in [Obj -> Int] /\ \A x \in Obj : ref2[x] = h.ref[x] + (0 - Cardinality(C(x)))
  BY <1>1, <1>3
<1>6. gone2 \in SUBSET Obj
  BY <1>1
<1>7. flag2 \in BOOLEAN
  OBVIOUS
<1>8. ASSUME NEW x \in Obj
      PROVE  Named([h EXCEPT !.variable = vars2], x) = Named(h, x) + (0 - Cardinality(C(x)))
  <2> DEFINE f == [h EXCEPT !.variable = vars2]
  <2>1. f.variable = vars2 /\ f.blueprints = h.blueprints /\ f.hook_ob = h.hook_ob
    BY <1>1 DEF Heap
  <2> HIDE DEF f
  <2>2. Named(f, x) = Cardinality(Vars(vars2, x)) + One(x \in h.blueprints) + One(h.hook_ob = x)
    BY <2>1 DEF Named
  <2>3. One(x \in h.blueprints) \in Int /\ One(h.hook_ob = x) \in Int
    BY DEF One
  <2>4. Named(f, x) = Named(h, x) + (0 - Cardinality(C(x)))
    BY <1>3, <2>2, <2>3 DEF Named
  <2>5. QED
    BY <2>4 DEF f
<1>9. gone2 = h.destructed
  <2>1. ASSUME NEW x \in h.destructed
        PROVE  left(x) > 0
    <3>1. x \in Obj /\ x \in ToSet(L) \cup h.destructed
      BY <1>1
    <3>2. h.ref[x] = Named(h, x) + One(x \in ToSet(L) \cup h.destructed)
      BY <3>1 DEF Good, Counted
    <3>3. One(x \in ToSet(L) \cup h.destructed) = 1
      BY <3>1 DEF One
    <3>4. Named(h, x) + (0 - Cardinality(C(x))) >= 0 /\ Named(h, x) \in Int
      BY <1>8, <3>1, NamedFacts, HolderFacts
    <3>5. Cardinality(C(x)) \in Nat
      BY <1>3, <3>1
    <3>6. QED
      BY <3>2, <3>3, <3>4, <3>5
  <2>2. QED
    BY <2>1
<1> HIDE DEF ref2, gone2, flag2, g
<1>10. /\ g \in Heap /\ SameLists(g, h) /\ g.variable = vars2 /\ g.ref = ref2
       /\ g.destructed = gone2 /\ g.blueprints = h.blueprints /\ g.hook_ob = h.hook_ob
  BY <1>1, <1>2, <1>4, <1>5, <1>6, <1>7 DEF Heap, SameLists
<1> DEFINE d == [x \in Obj |-> 0 - Cardinality(C(x))]
<1>11. ASSUME NEW x \in Obj
       PROVE  /\ d[x] \in Int
              /\ g.ref[x] = h.ref[x] + d[x]
              /\ Named(g, x) = Named(h, x) + d[x]
              /\ x \notin ToSet(L) \cup h.destructed => d[x] <= 0
  <2>1. d[x] = 0 - Cardinality(C(x)) /\ Cardinality(C(x)) \in Nat
    BY <1>3
  <2>2. Named(g, x) = Named([h EXCEPT !.variable = vars2], x)
    BY <1>1, <1>10 DEF Named, Heap
  <2> HIDE DEF d
  <2>3. g.ref[x] = h.ref[x] + d[x]
    BY <1>5, <1>10, <2>1
  <2>4. Named(g, x) = Named(h, x) + d[x]
    BY <1>8, <2>1, <2>2
  <2>5. QED
    BY <2>1, <2>3, <2>4
<1> HIDE DEF d
<1>12. Good(g, L, D, P) /\ SameNewly(g, h, P)
  BY <1>9, <1>10, <1>11, NamesKeep
<1>13. QED
  BY <1>12 DEF g

(* process_objects() turns the list.                                       *)
LEMMA RotatedKeeps ==
    ASSUME NEW h, NEW L, NEW D, NEW P, Good(h, L, D, P), h.obj_list # NULL
    PROVE  LET g == Rotated(h)
           IN  /\ \E L2 : ToSet(L2) = ToSet(L) /\ Good(g, L2, D, P)
               /\ SameNewly(g, h, P) /\ h.obj_list \in ToSet(L)
<1> DEFINE o == h.obj_list
           n == h.next_all[o]
           e == h.obj_list_end
           next2 == [h.next_all EXCEPT ![o] = NULL, ![e] = o]
           prev2 == [h.prev_all EXCEPT ![n] = NULL, ![o] = e]
           g == Rotated(h)
<1>1. /\ L \in Seq(Obj) /\ D \in Seq(Obj)
      /\ ToSet(L) \subseteq Obj /\ ToSet(D) \subseteq Obj /\ P \subseteq Obj
  BY GoodFacts
<1>2. h \in Heap
  BY DEF Good
<1>3. /\ Chain(h.next_all, h.obj_list, L) /\ Back(h.prev_all, L)
      /\ h.obj_list_end = End(L) /\ h.num_listed_objs = Len(L)
      /\ Chain(h.next_all, h.destructed_objs, D) /\ Back(h.prev_all, D)
      /\ h.num_destructed = Len(D)
      /\ ToSet(L) \cap (ToSet(D) \cup P) = {}
      /\ ToSet(D) \cap P = {} /\ h.destructed = ToSet(D) \cup P
  BY DEF Good, Exact
<1>4. o \in ToSet(L)
  BY <1>3, NeighboursFacts
<1>5. CASE o = e
  <2>1. g = h
    BY <1>5 DEF Rotated
  <2> HIDE DEF g
  <2>2. QED
    BY <1>4, <2>1 DEF SameNewly, g
<1>6. CASE o # e
  <2>1. Len(L) \in Nat /\ Len(L) # 0 /\ \A i \in 1 .. Len(L) : L[i] \in ToSet(L)
    BY <1>1, <1>3, MembersFacts DEF Chain
  <2>2. e \in ToSet(L) /\ o = L[1] /\ e = L[Len(L)]
    <3>1. Len(L) \in 1 .. Len(L)
      BY <2>1
    <3>2. QED
      BY <1>3, <2>1, <3>1 DEF End, Chain
  <2>3. n \in ToSet(L) /\ n # o
    <3>1. Len(L) # 1
      BY <1>6, <2>2
    <3>2. 1 \in 1 .. Len(L) /\ 2 \in 1 .. Len(L) /\ 1 + 1 = 2
      <4>1. \A l \in Nat : l # 0 /\ l # 1 => 1 \in 1 .. l /\ 2 \in 1 .. l /\ 1 + 1 = 2
        OBVIOUS
      <4>2. QED
        BY <2>1, <3>1, <4>1
    <3>3. n = L[2]
      BY <1>3, <2>2, <3>1, <3>2 DEF Chain
    <3>4. L[1] # L[2]
      BY <1>3, <3>2 DEF Chain
    <3>5. QED
      BY <2>1, <2>2, <3>2, <3>3, <3>4
  <2>4. o \in Obj /\ n \in Obj /\ e \in Obj /\ o \in Ptr /\ n \in Ptr /\ e \in Ptr /\ NULL \in Ptr
    BY <1>1, <1>4, <2>2, <2>3 DEF Ptr
  <2>5. /\ next2 \in [Obj -> Ptr] /\ prev2 \in [Obj -> Ptr]
        /\ \A x \in Obj :
              /\ next2[x] = IF x = o THEN NULL ELSE IF x = e THEN o ELSE h.next_all[x]
              /\ prev2[x] = IF x = o THEN e ELSE IF x = n THEN NULL ELSE h.prev_all[x]
    BY <1>2, <1>6, <2>3, <2>4 DEF Heap
  <2>6. g = [h EXCEPT !.obj_list = n, !.obj_list_end = o,
                      !.prev_all = prev2, !.next_all = next2]
    BY <1>2, <1>6 DEF Rotated, Heap
  <2> HIDE DEF g, next2, prev2, n, e
  <2>7. /\ g \in Heap /\ g.next_all = next2 /\ g.prev_all = prev2
        /\ g.obj_list = n /\ g.obj_list_end = o
        /\ g.num_listed_objs = h.num_listed_objs
        /\ g.ref = h.ref /\ g.blueprints = h.blueprints /\ g.destructed = h.destructed
        /\ g.newly_destructed_objs = h.newly_destructed_objs
        /\ g.num_newly_destructed = h.num_newly_destructed
        /\ g.destructed_objs = h.destructed_objs /\ g.num_destructed = h.num_destructed
        /\ g.variable = h.variable /\ g.hook_ob = h.hook_ob
    BY <1>2, <2>4, <2>5, <2>6 DEF Heap
  <2>8. PICK L2 : /\ Chain(next2, n, L2) /\ Back(prev2, L2)
                  /\ ToSet(L2) = ToSet(L) /\ Len(L2) = Len(L) /\ End(L2) = o
    <3>1. PICK next, prev, first :
              next = h.next_all /\ prev = h.prev_all /\ first = h.obj_list
      OBVIOUS
    <3>2. Chain(next, first, L) /\ Back(prev, L) /\ first # End(L)
      BY <1>3, <1>6, <3>1 DEF e
    <3>3. \A x \in ToSet(L) :
              /\ next2[x] = IF x = first THEN NULL ELSE IF x = End(L) THEN first ELSE next[x]
              /\ prev2[x] = IF x = first THEN End(L)
                            ELSE IF x = next[first] THEN NULL ELSE prev[x]
      BY <1>1, <1>3, <2>5, <3>1 DEF n, e
    <3>4. \E L2 : /\ Chain(next2, next[first], L2) /\ Back(prev2, L2)
                  /\ ToSet(L2) = ToSet(L) /\ Len(L2) = Len(L) /\ End(L2) = first
      BY ONLY <3>2, <3>3, PutLast
    <3>5. QED
      BY <3>1, <3>4 DEF n
  <2>9. \A x \in ToSet(D) \cup P : next2[x] = h.next_all[x] /\ prev2[x] = h.prev_all[x]
    BY <1>1, <1>3, <1>4, <2>2, <2>3, <2>5
  <2>10. Chain(next2, h.destructed_objs, D) /\ Back(prev2, D)
    BY <1>1, <1>3, <2>9, SameChain, SameBack
  <2>11. Exact(g, L2, D, P)
    BY <1>1, <1>3, <2>7, <2>8, <2>10 DEF Exact
  <2>12. Counted(g, ToSet(L2) \cup g.destructed)
    <3>1. \A x \in Obj : Named(g, x) = Named(h, x)
      BY <2>7 DEF Named
    <3>2. QED
      BY <2>7, <2>8, <3>1 DEF Counted, Good
  <2>13. Good(g, L2, D, P) /\ SameNewly(g, h, P)
    BY <2>7, <2>9, <2>11, <2>12 DEF Good, SameNewly
  <2>14. QED
    BY <1>4, <2>8, <2>13 DEF g
<1>7. QED
  BY <1>5, <1>6

-----------------------------------------------------------------------------
(* ----- The invariant --------------------------------------------------- *)
(* The newly destructed objects are N.                                     *)
AllGood(h, L, D, N) ==
    /\ Good(h, L, D, ToSet(N))
    /\ Chain(h.next_all, h.newly_destructed_objs, N)
    /\ h.num_newly_destructed = Len(N)

HeapInv(h) == \E L, D, N : AllGood(h, L, D, N)

LEMMA SameNewlyKeeps ==
    ASSUME NEW g, NEW h, NEW L, NEW D, NEW N, AllGood(h, L, D, N),
           NEW L2, NEW D2, Good(g, L2, D2, ToSet(N)), SameNewly(g, h, ToSet(N))
    PROVE  AllGood(g, L2, D2, N)
<1>1. Chain(h.next_all, h.newly_destructed_objs, N)
  BY DEF AllGood
<1>2. \A x \in ToSet(N) : g.next_all[x] = h.next_all[x]
  BY DEF SameNewly
<1>3. Chain(g.next_all, h.newly_destructed_objs, N)
  <2>1. PICK next, next2 : next = h.next_all /\ next2 = g.next_all
    OBVIOUS
  <2>2. QED
    BY <1>1, <1>2, <2>1, SameChain
<1>4. QED
  BY <1>3 DEF AllGood, SameNewly

LEMMA CleanupStuffKeeps ==
    ASSUME NEW h, NEW L, NEW D, NEW N, AllGood(h, L, D, N)
    PROVE  LET g == CleanupStuff(h)
           IN  /\ \E D2 : AllGood(g, L, D2, << >>)
               /\ g.hook_ob = NULL
<1> DEFINE fr == Freed(h, h.hook_ob)
           m == [fr EXCEPT !.hook_ob = NULL]
           g == CleanupStuff(h)
<1>1. h \in Heap /\ h.hook_ob \in Ptr /\ Good(h, L, D, ToSet(N)) /\ NULL \in Ptr
  BY DEF AllGood, Good, Heap, Ptr
<1>2. m.hook_ob = NULL /\ Good(m, L, D, ToSet(N)) /\ SameNewly(m, h, ToSet(N))
  <2>1. CASE h.hook_ob = NULL
    <3>1. m = h
      BY <1>1, <2>1 DEF Freed, Heap
    <3> HIDE DEF m
    <3>2. QED
      BY <1>1, <2>1, <3>1 DEF SameNewly
  <2>2. CASE h.hook_ob # NULL
    <3>1. PICK o \in Obj : o = h.hook_ob
      BY <1>1, <2>2 DEF Ptr
    <3>2. /\ fr \in Heap /\ SameLists(fr, h)
          /\ fr.variable = h.variable /\ fr.blueprints = h.blueprints
          /\ fr.ref = [h.ref EXCEPT ![o] = @ - 1]
          /\ fr.destructed = IF h.ref[o] = 1 THEN h.destructed \ {o} ELSE h.destructed
      <4>1. LET f == Freed(h, o)
            IN  /\ f \in Heap /\ SameLists(f, h)
                /\ f.variable = h.variable /\ f.blueprints = h.blueprints
                /\ f.hook_ob = h.hook_ob
                /\ f.ref = [h.ref EXCEPT ![o] = @ - 1]
                /\ f.destructed = IF h.ref[o] = 1 THEN h.destructed \ {o} ELSE h.destructed
        BY <1>1, FreedFacts
      <4>2. fr = Freed(h, o)
        BY <3>1
      <4> HIDE DEF fr
      <4>3. QED
        BY <4>1, <4>2
    <3> HIDE DEF fr
    <3>3. /\ m \in Heap /\ SameLists(m, fr) /\ m.hook_ob = NULL
          /\ m.variable = fr.variable /\ m.blueprints = fr.blueprints
          /\ m.ref = fr.ref /\ m.destructed = fr.destructed
      BY <1>1, <3>2 DEF Heap, SameLists
    <3> HIDE DEF m
    <3>4. ASSUME NEW x \in Obj
          PROVE  Named(m, x) = Named(h, x) - One(x = o)
      <4>1. One(m.hook_ob = x) = 0
        BY <3>3, HeapAssumption DEF One
      <4>2. One(h.hook_ob = x) = One(x = o) /\ One(x = o) \in Int /\ One(x \in h.blueprints) \in Int
        BY <3>1 DEF One
      <4>3. Named(m, x) = Cardinality(Vars(h.variable, x)) + One(x \in h.blueprints) + 0
        BY <3>2, <3>3, <4>1 DEF Named
      <4>4. Cardinality(Vars(h.variable, x)) \in Nat
        BY VarsFacts
      <4>5. QED
        BY <4>2, <4>3, <4>4 DEF Named
    <3>5. Named(h, o) > 0
      BY <3>1, NamedFacts, HolderFacts
    <3>6. /\ SameLists(m, h) /\ m.ref = [h.ref EXCEPT ![o] = @ - 1]
          /\ m.destructed = IF h.ref[o] = 1 THEN h.destructed \ {o} ELSE h.destructed
      BY <3>2, <3>3 DEF SameLists
    <3>7. Good(m, L, D, ToSet(N)) /\ SameNewly(m, h, ToSet(N))
      BY <1>1, <3>3, <3>4, <3>5, <3>6, ForgottenKeeps
    <3>8. QED
      BY <3>3, <3>7
  <2>3. QED
    BY <2>1, <2>2
<1>3. g = HandleNewlyDestructed(m)
  BY DEF CleanupStuff
<1> HIDE DEF m, g
<1>4. AllGood(m, L, D, N)
  BY <1>2, SameNewlyKeeps
<1>5. /\ \E D2 : Good(g, L, D2, {})
      /\ g.newly_destructed_objs = NULL /\ g.num_newly_destructed = 0
      /\ g.hook_ob = m.hook_ob
  BY <1>3, <1>4, HandleNewlyKeeps DEF AllGood
<1>6. PICK D2 : Good(g, L, D2, {})
  BY <1>5
<1>7. PICK none : none = << >>
  OBVIOUS
<1>8. none \in Seq(Obj) /\ Len(none) = 0 /\ ToSet(none) = {}
  BY <1>7 DEF ToSet
<1>9. Chain(g.next_all, g.newly_destructed_objs, none)
  BY <1>5, <1>8 DEF Chain
<1>10. AllGood(g, L, D2, none)
  BY <1>5, <1>6, <1>8, <1>9 DEF AllGood
<1>11. QED
  BY <1>2, <1>5, <1>7, <1>10 DEF g

(* The references of who is listed stay above 0, and the live stay alive.  *)
Stay(g, h) == \A x \in Obj : h.ref[x] > 0 => g.ref[x] > 0

LEMMA StayFacts ==
    ASSUME NEW g, NEW h, NEW L, NEW D, NEW P, Good(h, L, D, P),
           NEW L2, NEW D2, NEW P2, Good(g, L2, D2, P2),
           ToSet(L) \cup h.destructed \subseteq ToSet(L2) \cup g.destructed
    PROVE  Stay(g, h)
<1>1. \A x \in Obj : h.ref[x] > 0 => x \in ToSet(L) \cup h.destructed
  BY GoodFacts
<1>2. \A x \in Obj : x \in ToSet(L2) \cup g.destructed => g.ref[x] > 0
  BY GoodFacts
<1>3. QED
  BY <1>1, <1>2 DEF Stay

LEMMA CreateKeeps ==
    ASSUME NEW h, HeapInv(h), NEW o \in Obj, h.ref[o] = 0
    PROVE  HeapInv(Listed(h, o)) /\ Stay(Listed(h, o), h)
<1> DEFINE g == Listed(h, o)
<1>1. PICK L, D, N : AllGood(h, L, D, N)
  BY DEF HeapInv
<1>2. PICK P : P = ToSet(N)
  OBVIOUS
<1>3. Good(h, L, D, P)
  BY <1>1, <1>2 DEF AllGood
<1>4. o \notin ToSet(L) \cup h.destructed
  BY <1>3, GoodFacts
<1>5. PICK L2 : L2 = InsertAt(L, 1, o)
  OBVIOUS
<1>6. /\ Good(g, InsertAt(L, 1, o), D, P) /\ SameNewly(g, h, P)
      /\ g.destructed = h.destructed /\ g.hook_ob = h.hook_ob
      /\ ToSet(InsertAt(L, 1, o)) = ToSet(L) \cup {o}
  BY <1>3, <1>4, ListedKeeps
<1> HIDE DEF g
<1>7. AllGood(g, L2, D, N)
  BY <1>1, <1>2, <1>5, <1>6, SameNewlyKeeps
<1>8. Stay(g, h)
  BY <1>3, <1>6, StayFacts
<1>9. QED
  BY <1>7, <1>8 DEF HeapInv, g

LEMMA DestructKeeps ==
    ASSUME NEW h, HeapInv(h), NEW o \in Live(h)
    PROVE  HeapInv(Destructed(h, o)) /\ Stay(Destructed(h, o), h)
<1> DEFINE g == Destructed(h, o)
<1>1. PICK L, D, N : AllGood(h, L, D, N)
  BY DEF HeapInv
<1>2. PICK P : P = ToSet(N)
  OBVIOUS
<1>3. Good(h, L, D, P) /\ Live(h) = ToSet(L) /\ ToSet(L) \cap P = {} /\ o \in Obj
  <2>1. Good(h, L, D, P)
    BY <1>1, <1>2 DEF AllGood
  <2>2. QED
    BY <2>1, GoodFacts DEF Good, Exact
<1>4. /\ \E L2 : ToSet(L2) = ToSet(L) \ {o} /\ Good(g, L2, D, P \cup {o})
      /\ g.newly_destructed_objs = o
      /\ g.num_newly_destructed = h.num_newly_destructed + 1
      /\ g.next_all[o] = h.newly_destructed_objs
      /\ \A x \in P : g.next_all[x] = h.next_all[x]
      /\ g.destructed = h.destructed \cup {o} /\ g.ref = h.ref
  <2>1. PICK o2 \in ToSet(L) : o2 = o
    BY <1>3
  <2>2. PICK g2 : g2 = Destructed(h, o2)
    OBVIOUS
  <2>3. /\ \E L2 : ToSet(L2) = ToSet(L) \ {o2} /\ Good(g2, L2, D, P \cup {o2})
        /\ g2.newly_destructed_objs = o2
        /\ g2.num_newly_destructed = h.num_newly_destructed + 1
        /\ g2.next_all[o2] = h.newly_destructed_objs
        /\ \A x \in P : g2.next_all[x] = h.next_all[x]
        /\ g2.destructed = h.destructed \cup {o2} /\ g2.ref = h.ref
    BY ONLY <1>3, <2>2, DestructedKeeps
  <2>4. g2 = g
    BY <2>1, <2>2
  <2>5. QED
    BY <2>1, <2>3, <2>4
<1> HIDE DEF g
<1>5. PICK L2 : ToSet(L2) = ToSet(L) \ {o} /\ Good(g, L2, D, P \cup {o})
  BY <1>4
<1>6. PICK N2 : N2 = InsertAt(N, 1, o)
  OBVIOUS
<1>7. /\ Chain(g.next_all, o, N2) /\ ToSet(N2) = P \cup {o} /\ Len(N2) = Len(N) + 1
  <2>1. PICK next, first, next2 :
            next = h.next_all /\ first = h.newly_destructed_objs /\ next2 = g.next_all
    OBVIOUS
  <2>2. Chain(next, first, N)
    BY <1>1, <2>1 DEF AllGood
  <2>3. o \notin ToSet(N)
    BY <1>2, <1>3
  <2>4. next2[o] = first /\ \A x \in ToSet(N) : next2[x] = next[x]
    BY <1>2, <1>4, <2>1
  <2>5. /\ Chain(next2, o, InsertAt(N, 1, o)) /\ ToSet(InsertAt(N, 1, o)) = ToSet(N) \cup {o}
        /\ Len(InsertAt(N, 1, o)) = Len(N) + 1
    BY ONLY <1>3, <2>2, <2>3, <2>4, PutFirst
  <2>6. QED
    BY <1>2, <1>6, <2>1, <2>5
<1>8. AllGood(g, L2, D, N2)
  BY <1>1, <1>4, <1>5, <1>7 DEF AllGood
<1>9. Stay(g, h)
  BY <1>4 DEF Stay
<1>10. QED
  BY <1>8, <1>9 DEF HeapInv, g

LEMMA AssignKeeps ==
    ASSUME NEW h, HeapInv(h), NEW v \in Holder, NEW w \in Live(h) \cup {NULL}
    PROVE  HeapInv(Assigned(h, v, w)) /\ Stay(Assigned(h, v, w), h)
<1> DEFINE g == Assigned(h, v, w)
<1>1. PICK L, D, N : AllGood(h, L, D, N)
  BY DEF HeapInv
<1>2. PICK P : P = ToSet(N)
  OBVIOUS
<1>3. Good(h, L, D, P) /\ Live(h) = ToSet(L)
  <2>1. Good(h, L, D, P)
    BY <1>1, <1>2 DEF AllGood
  <2>2. QED
    BY <2>1, GoodFacts
<1>4. w \in Ptr /\ (w # NULL => w \in ToSet(L) \cup h.destructed)
  BY <1>3 DEF Live, Ptr
<1>5. /\ Good(g, L, D, P) /\ SameNewly(g, h, P)
      /\ g.destructed = h.destructed /\ g.hook_ob = h.hook_ob
      /\ g.next_all = h.next_all
  BY <1>3, <1>4, AssignedKeeps
<1> HIDE DEF g
<1>6. AllGood(g, L, D, N)
  BY <1>1, <1>2, <1>5, SameNewlyKeeps
<1>7. Stay(g, h)
  BY <1>3, <1>5, StayFacts
<1>8. QED
  BY <1>6, <1>7 DEF HeapInv, g

(* A closure is bound to an object.                                        *)
LEMMA BoundKeeps ==
    ASSUME NEW h, NEW L, NEW D, NEW N, AllGood(h, L, D, N), h.hook_ob = NULL,
           NEW o \in ToSet(L)
    PROVE  LET g == [h EXCEPT !.hook_ob = o, !.ref[o] = @ + 1]
           IN  AllGood(g, L, D, N)
<1> DEFINE ref2 == [h.ref EXCEPT ![o] = @ + 1]
           g == [h EXCEPT !.hook_ob = o, !.ref[o] = @ + 1]
<1>1. Good(h, L, D, ToSet(N))
  BY DEF AllGood
<1>2. o \in Obj /\ h \in Heap /\ h.ref \in [Obj -> Int] /\ o \in Ptr
  BY <1>1, GoodFacts DEF Good, Heap, Ptr
<1>3. ref2 \in [Obj -> Int] /\ \A x \in Obj : ref2[x] = h.ref[x] + One(x = o)
  BY <1>2 DEF One
<1>4. g = [h EXCEPT !.hook_ob = o, !.ref = ref2]
  BY <1>2 DEF Heap
<1> HIDE DEF g, ref2
<1>5. /\ g \in Heap /\ SameLists(g, h) /\ g.destructed = h.destructed
      /\ g.variable = h.variable /\ g.blueprints = h.blueprints
      /\ g.hook_ob = o /\ g.ref = ref2
  BY <1>2, <1>3, <1>4 DEF Heap, SameLists
<1> DEFINE d == [x \in Obj |-> One(x = o)]
<1>6. ASSUME NEW x \in Obj
      PROVE  /\ d[x] \in Int
             /\ g.ref[x] = h.ref[x] + d[x]
             /\ Named(g, x) = Named(h, x) + d[x]
             /\ x \notin ToSet(L) \cup h.destructed => d[x] <= 0
  <2>1. d[x] = One(x = o) /\ One(x = o) \in Int /\ (x # o => One(x = o) = 0)
    BY DEF One
  <2>2. One(h.hook_ob = x) = 0 /\ One(g.hook_ob = x) = One(x = o)
    BY <1>5, HeapAssumption DEF One
  <2>3. Cardinality(Vars(h.variable, x)) \in Nat /\ One(x \in h.blueprints) \in Int
    BY VarsFacts DEF One
  <2> HIDE DEF d
  <2>4. Named(g, x) = Named(h, x) + d[x]
    BY <1>5, <2>1, <2>2, <2>3 DEF Named
  <2>5. QED
    BY <1>3, <1>5, <2>1, <2>4
<1> HIDE DEF d
<1>7. Good(g, L, D, ToSet(N)) /\ SameNewly(g, h, ToSet(N))
  BY <1>1, <1>5, <1>6, NamesKeep
<1>8. AllGood(g, L, D, N)
  BY <1>7, SameNewlyKeeps
<1>9. QED
  BY <1>8 DEF g

(* The object at hand is there; the backend's own variables are in order.  *)
AtHand ==
    /\ obj \in Ptr
    /\ pc \in {"reset", "clean_up"} => obj \in Obj /\ heap.ref[obj] > 0
    /\ pc \in {"clean", "rest"} => obj \in Live(heap)

Flags ==
    /\ alarm \in BOOLEAN /\ prevent_object_cleanup \in BOOLEAN
    /\ pc \in Places /\ young \subseteq Obj
    /\ num_last_processed \in Nat /\ did_reset \in BOOLEAN /\ did_swap \in BOOLEAN

IInv == HeapInv(heap) /\ AtHand /\ Flags

LEMMA InitKept == Init => IInv
<1> SUFFICES ASSUME Init PROVE IInv
  OBVIOUS
<1>1. PICK none : none = << >>
  OBVIOUS
<1>2. none \in Seq(Obj) /\ Len(none) = 0 /\ ToSet(none) = {}
  BY <1>1 DEF ToSet
<1>3. NULL \in Ptr /\ [v \in Holder |-> NULL] \in [Holder -> Ptr]
      /\ [o \in Obj |-> NULL] \in [Obj -> Ptr] /\ [o \in Obj |-> 0] \in [Obj -> Int]
  BY DEF Ptr
<1>4. heap \in Heap
  BY <1>3 DEF Init, Heap
<1>5. /\ heap.obj_list = NULL /\ heap.obj_list_end = NULL /\ heap.destructed_objs = NULL
      /\ heap.newly_destructed_objs = NULL /\ heap.num_listed_objs = 0
      /\ heap.num_newly_destructed = 0 /\ heap.num_destructed = 0
      /\ heap.destructed = {} /\ heap.blueprints = {} /\ heap.hook_ob = NULL
      /\ heap.ref = [o \in Obj |-> 0] /\ heap.variable = [v \in Holder |-> NULL]
  BY DEF Init
<1>6. Chain(heap.next_all, NULL, none) /\ Back(heap.prev_all, none) /\ End(none) = NULL
  BY <1>2 DEF Chain, Back, End
<1>7. Exact(heap, none, none, {})
  BY <1>2, <1>5, <1>6 DEF Exact
<1>8. Counted(heap, ToSet(none) \cup heap.destructed)
  <2>1. ASSUME NEW o \in Obj
        PROVE  Named(heap, o) = 0 /\ heap.ref[o] = 0
    <3>1. Vars(heap.variable, o) = {}
      BY <1>5, HeapAssumption DEF Vars
    <3>2. Cardinality({}) = 0
      BY FS_EmptySet
    <3>3. One(o \in heap.blueprints) = 0 /\ One(heap.hook_ob = o) = 0
      BY <1>5, HeapAssumption DEF One
    <3>4. QED
      BY <1>5, <3>1, <3>2, <3>3 DEF Named
  <2>2. \A o \in Obj : One(o \in ToSet(none) \cup heap.destructed) = 0
    BY <1>2, <1>5 DEF One
  <2>3. QED
    BY <2>1, <2>2 DEF Counted
<1>9. AllGood(heap, none, none, none)
  BY <1>2, <1>4, <1>5, <1>6, <1>7, <1>8 DEF AllGood, Good
<1>10. HeapInv(heap)
  BY <1>9 DEF HeapInv
<1>11. AtHand /\ Flags
  BY <1>3 DEF Init, AtHand, Flags, Places
<1>12. QED
  BY <1>10, <1>11 DEF IInv

LEMMA LPCKept ==
    ASSUME IInv, LPC, HeapInv(heap'), Stay(heap', heap), young' \subseteq Obj
    PROVE  IInv'
BY DEF IInv, LPC, AtHand, Flags, Stay, slice

LEMMA CreateKept == ASSUME IInv, NEW o \in Obj, Create(o) PROVE IInv'
<1>1. HeapInv(heap) /\ heap.ref[o] = 0 /\ heap' = Listed(heap, o) /\ LPC
  BY DEF IInv, Create
<1>2. HeapInv(Listed(heap, o)) /\ Stay(Listed(heap, o), heap)
  BY <1>1, CreateKeeps
<1>3. young' \subseteq Obj
  BY DEF IInv, Flags, Create
<1>4. QED
  BY <1>1, <1>2, <1>3, LPCKept

LEMMA DestructKept == ASSUME IInv, NEW o \in Obj, Destruct(o) PROVE IInv'
<1>1. HeapInv(heap) /\ o \in Live(heap) /\ heap' = Destructed(heap, o) /\ LPC
  BY DEF IInv, Destruct
<1>2. HeapInv(Destructed(heap, o)) /\ Stay(Destructed(heap, o), heap)
  BY <1>1, DestructKeeps
<1>3. young' \subseteq Obj
  BY DEF IInv, Flags, Destruct
<1>4. QED
  BY <1>1, <1>2, <1>3, LPCKept

LEMMA AssignKept ==
    ASSUME IInv, NEW v \in Holder, NEW w \in Obj \cup {NULL}, Assign(v, w) PROVE IInv'
<1>1. HeapInv(heap) /\ w \in Live(heap) \cup {NULL} /\ heap' = Assigned(heap, v, w) /\ LPC
  BY DEF IInv, Assign
<1>2. HeapInv(Assigned(heap, v, w)) /\ Stay(Assigned(heap, v, w), heap)
  BY <1>1, AssignKeeps
<1>3. young' \subseteq Obj
  BY DEF IInv, Flags, Assign
<1>4. QED
  BY <1>1, <1>2, <1>3, LPCKept

LEMMA LoseBlueprintKept == ASSUME IInv, NEW o \in Obj, LoseBlueprint(o) PROVE IInv'
<1>1. PICK L, D, N : AllGood(heap, L, D, N)
  BY DEF IInv, HeapInv
<1>2. PICK h : h = WithoutBlueprint(heap, o)
  OBVIOUS
<1>3. Good(heap, L, D, ToSet(N))
  BY <1>1 DEF AllGood
<1>4. Good(h, L, D, ToSet(N)) /\ SameNewly(h, heap, ToSet(N)) /\ h.destructed = heap.destructed
  BY <1>2, <1>3, WithoutBlueprintKeeps
<1>5. AllGood(h, L, D, N)
  BY <1>1, <1>4, SameNewlyKeeps
<1>6. HeapInv(h)
  BY <1>5 DEF HeapInv
<1>7. Stay(h, heap)
  BY <1>3, <1>4, StayFacts
<1>8. heap' = h /\ LPC /\ young' \subseteq Obj
  BY <1>2 DEF IInv, Flags, LoseBlueprint
<1>9. QED
  BY <1>6, <1>7, <1>8, LPCKept

LEMMA MainCleanupKept == ASSUME IInv, MainCleanup PROVE IInv'
<1>1. PICK L, D, N : AllGood(heap, L, D, N)
  BY DEF IInv, HeapInv
<1>2. PICK h : h = CleanupStuff(heap)
  OBVIOUS
<1>3. PICK D2 : AllGood(h, L, D2, << >>)
  BY <1>1, <1>2, CleanupStuffKeeps
<1>4. PICK N2 : N2 = << >>
  OBVIOUS
<1>5. AllGood(h, L, D2, N2) /\ Good(h, L, D2, ToSet(N2))
  BY <1>3, <1>4 DEF AllGood
<1>6. ASSUME NEW S
      PROVE  AllGood(DataCleaned(h, S), L, D2, N2)
  <2>1. Good(DataCleaned(h, S), L, D2, ToSet(N2)) /\ SameNewly(DataCleaned(h, S), h, ToSet(N2))
    BY <1>5, DataCleanedKeeps
  <2>2. QED
    BY <1>5, <2>1, SameNewlyKeeps
<1>7. heap' \in {h, DataCleaned(h, Live(h))}
  BY <1>2 DEF MainCleanup
<1>8. HeapInv(heap')
  BY <1>5, <1>6, <1>7 DEF HeapInv
<1>9. prevent_object_cleanup' \in BOOLEAN
  <2>1. prevent_object_cleanup' = Prevented(h)
    BY <1>2 DEF MainCleanup
  <2>2. PICK few : few = (h.num_listed_objs < h.num_destructed \div 2)
    OBVIOUS
  <2>3. PICK equal : equal = (h.num_listed_objs <= h.num_destructed)
    OBVIOUS
  <2>4. few \in BOOLEAN /\ equal \in BOOLEAN
    BY <2>2, <2>3
  <2>5. Prevented(h) = IF prevent_object_cleanup THEN few ELSE equal
    BY <2>2, <2>3 DEF Prevented
  <2>6. QED
    BY <2>1, <2>4, <2>5
<1>10. QED
  BY <1>8, <1>9 DEF IInv, MainCleanup, AtHand, Flags, slice, Places

LEMMA ProcessObjectsKept == ASSUME IInv, ProcessObjects PROVE IInv'
<1>1. PICK L, D, N : AllGood(heap, L, D, N)
  BY DEF IInv, HeapInv
<1>2. PICK h : h = RemoveDestructed(heap)
  OBVIOUS
<1>3. Good(heap, L, D, ToSet(N))
  BY <1>1 DEF AllGood
<1>4. (\E D2 : Good(h, L, D2, ToSet(N))) /\ SameNewly(h, heap, ToSet(N))
  BY <1>2, <1>3, RemoveDestructedKeeps
<1>5. PICK D2 : Good(h, L, D2, ToSet(N))
  BY <1>4
<1>6. AllGood(h, L, D2, N)
  BY <1>1, <1>4, <1>5, SameNewlyKeeps
<1>7. HeapInv(heap')
  BY <1>2, <1>6 DEF HeapInv, ProcessObjects
<1>8. QED
  BY <1>7 DEF IInv, ProcessObjects, AtHand, Flags, Places

LEMMA VisitKept == ASSUME IInv, Visit PROVE IInv'
<1>1. PICK L, D, N : AllGood(heap, L, D, N)
  BY DEF IInv, HeapInv
<1>2. PICK h : h = Rotated(heap)
  OBVIOUS
<1>3. Good(heap, L, D, ToSet(N)) /\ heap.obj_list # NULL
  BY <1>1 DEF AllGood, Visit, MoreToProcess
<1>4. /\ \E L2 : ToSet(L2) = ToSet(L) /\ Good(h, L2, D, ToSet(N))
      /\ SameNewly(h, heap, ToSet(N)) /\ heap.obj_list \in ToSet(L)
  BY <1>2, <1>3, RotatedKeeps
<1>5. PICK L2 : ToSet(L2) = ToSet(L) /\ Good(h, L2, D, ToSet(N))
  BY <1>4
<1>6. AllGood(h, L2, D, N)
  BY <1>1, <1>4, <1>5, SameNewlyKeeps
<1>7. HeapInv(heap') /\ heap' = h
  BY <1>2, <1>6 DEF HeapInv, Visit
<1>8. obj' \in Live(heap') /\ obj' \in Obj /\ heap'.ref[obj'] > 0
  <2>1. Live(h) = ToSet(L2)
    BY <1>5, GoodFacts
  <2>2. obj' \in Live(h)
    BY <1>4, <1>5, <2>1 DEF Visit
  <2>3. QED
    BY <1>7, <2>2 DEF Live
<1>9. AtHand'
  BY <1>8 DEF AtHand, Ptr
<1>10. Flags'
  <2>1. num_last_processed' \in Nat /\ young' \subseteq Obj
    BY DEF IInv, Visit, Flags
  <2>2. did_reset' \in BOOLEAN /\ pc' \in Places
    BY DEF IInv, Visit, Flags, Places
  <2>3. UNCHANGED <<alarm, prevent_object_cleanup, did_swap>>
    BY DEF Visit
  <2>4. QED
    BY <2>1, <2>2, <2>3 DEF IInv, Flags
<1>11. QED
  BY <1>7, <1>9, <1>10 DEF IInv

LEMMA CleanUpKept == ASSUME IInv, CleanUp PROVE IInv'
<1>1. PICK L, D, N : AllGood(heap, L, D, N)
  BY DEF IInv, HeapInv
<1>2. obj \in ToSet(L) /\ obj \in Obj
  <2>1. obj \in Live(heap)
    BY DEF IInv, AtHand, CleanUp
  <2>2. Good(heap, L, D, ToSet(N))
    BY <1>1 DEF AllGood
  <2>3. Live(heap) = ToSet(L)
    BY <2>2, GoodFacts
  <2>4. QED
    BY <2>1, <2>3 DEF Live
<1>3. PICK h1 : h1 = CleanupStuff(heap)
  OBVIOUS
<1>4. (\E D2 : AllGood(h1, L, D2, << >>)) /\ h1.hook_ob = NULL
  BY <1>1, <1>3, CleanupStuffKeeps
<1>5. PICK D2, N2 : AllGood(h1, L, D2, N2)
  BY <1>4
<1>6. PICK h : h = RemoveDestructed(h1)
  OBVIOUS
<1>7. Good(h1, L, D2, ToSet(N2))
  BY <1>5 DEF AllGood
<1>8. (\E D3 : Good(h, L, D3, ToSet(N2))) /\ SameNewly(h, h1, ToSet(N2)) /\ h.hook_ob = h1.hook_ob
  BY <1>6, <1>7, RemoveDestructedKeeps
<1>9. PICK D3 : Good(h, L, D3, ToSet(N2))
  BY <1>8
<1>10. AllGood(h, L, D3, N2) /\ h.hook_ob = NULL
  BY <1>4, <1>5, <1>8, <1>9, SameNewlyKeeps
<1>11. AllGood([h EXCEPT !.hook_ob = obj, !.ref[obj] = @ + 1], L, D3, N2)
  BY <1>2, <1>10, BoundKeeps
<1>12. heap' \in {h, [h EXCEPT !.hook_ob = obj, !.ref[obj] = @ + 1]}
  BY <1>3, <1>6 DEF CleanUp
<1>13. AllGood(heap', L, D3, N2)
  BY <1>10, <1>11, <1>12
<1>14. HeapInv(heap')
  BY <1>13 DEF HeapInv
<1>15. heap'.ref[obj] > 0
  <2>1. PICK g : g = heap'
    OBVIOUS
  <2>2. Good(g, L, D3, ToSet(N2))
    BY <1>13, <2>1 DEF AllGood
  <2>3. QED
    BY <1>2, <2>1, <2>2, GoodFacts
<1>16. AtHand'
  BY <1>2, <1>15 DEF AtHand, CleanUp, Ptr
<1>17. Flags'
  BY DEF IInv, CleanUp, Flags, Places
<1>18. QED
  BY <1>14, <1>16, <1>17 DEF IInv

LEMMA RestKept == ASSUME IInv, Rest PROVE IInv'
<1>1. PICK L, D, N : AllGood(heap, L, D, N)
  BY DEF IInv, HeapInv
<1>2. Good(heap, L, D, ToSet(N))
  BY <1>1 DEF AllGood
<1>3. ASSUME NEW o
      PROVE  HeapInv(DataCleaned(WithoutBlueprint(heap, o), {obj}))
  <2>1. PICK h1 : h1 = WithoutBlueprint(heap, o)
    OBVIOUS
  <2>2. Good(h1, L, D, ToSet(N)) /\ SameNewly(h1, heap, ToSet(N))
    BY <1>2, <2>1, WithoutBlueprintKeeps
  <2>3. AllGood(h1, L, D, N)
    BY <1>1, <2>2, SameNewlyKeeps
  <2>4. PICK h : h = DataCleaned(h1, {obj})
    OBVIOUS
  <2>5. Good(h, L, D, ToSet(N)) /\ SameNewly(h, h1, ToSet(N))
    BY <2>2, <2>4, DataCleanedKeeps
  <2>6. AllGood(h, L, D, N)
    BY <2>3, <2>5, SameNewlyKeeps
  <2>7. QED
    BY <2>1, <2>4, <2>6 DEF HeapInv
<1>4. HeapInv(heap')
  <2>1. CASE heap' = heap
    BY <2>1 DEF IInv
  <2>2. CASE \E o \in Outdated(heap) : heap' = DataCleaned(WithoutBlueprint(heap, o), {obj})
    BY <1>3, <2>2
  <2>3. QED
    BY <2>1, <2>2 DEF Rest
<1>5. QED
  BY <1>4 DEF IInv, Rest, AtHand, Flags, Places

LEMMA ReturnKept == ASSUME IInv, Return PROVE IInv'
<1>1. heap' = heap /\ obj' = obj /\ pc' = AfterCall(obj) /\ obj \in Obj /\ heap.ref[obj] > 0
  BY DEF IInv, AtHand, Return
<1>2. pc' \in {"loop", "rest"} /\ (pc' = "rest" => obj \in Live(heap))
  BY <1>1 DEF AfterCall, Live
<1>3. QED
  BY <1>1, <1>2 DEF IInv, AtHand, Flags, Return, slice, Places

LEMMA NextKept == ASSUME IInv, [Next]_vars PROVE IInv'
<1>1. CASE Alarm
  BY <1>1 DEF IInv, Alarm, AtHand, Flags, slice
<1>2. CASE NoTimedEvents
  BY <1>2 DEF IInv, NoTimedEvents, AtHand, Flags, slice, Places
<1>3. CASE EndOfPass
  BY <1>3 DEF IInv, EndOfPass, AtHand, Flags, slice, Places, Ptr
<1>4. CASE NoCleanUp
  BY <1>4 DEF IInv, NoCleanUp, AtHand, Flags, slice, Places
<1>5. CASE Error
  BY <1>5 DEF IInv, Error, AtHand, Flags, slice, Places
<1>6. CASE UNCHANGED vars
  BY <1>6 DEF IInv, AtHand, Flags, slice, vars
<1>7. CASE MainCleanup
  BY <1>7, MainCleanupKept
<1>8. CASE ProcessObjects
  BY <1>8, ProcessObjectsKept
<1>9. CASE Visit
  BY <1>9, VisitKept
<1>10. CASE Return
  BY <1>10, ReturnKept
<1>11. CASE CleanUp
  BY <1>11, CleanUpKept
<1>12. CASE Rest
  BY <1>12, RestKept
<1>13. CASE \E o \in Obj : Create(o) \/ Destruct(o) \/ LoseBlueprint(o)
  BY <1>13, CreateKept, DestructKept, LoseBlueprintKept
<1>14. CASE \E v \in Holder, w \in Obj \cup {NULL} : Assign(v, w)
  BY <1>14, AssignKept
<1>15. QED
  BY <1>1, <1>2, <1>3, <1>4, <1>5, <1>6, <1>7, <1>8, <1>9, <1>10, <1>11, <1>12, <1>13,
     <1>14 DEF Next, Driver

(* The inductive invariant holds in all states that can be reached.        *)
THEOREM Invariance == Spec => []IInv
<1>1. Init => IInv
  BY InitKept
<1>2. IInv /\ [Next]_vars => IInv'
  BY NextKept
<1>3. QED
  BY <1>1, <1>2, PTL DEF Spec

-----------------------------------------------------------------------------
(* ----- What the invariant says of the lists and the references --------- *)
(* A list that is a chain is what its walk shows.                          *)
LEMMA ChainShown ==
    ASSUME heap \in Heap, NEW first \in Ptr, NEW w, Chain(heap.next_all, first, w)
    PROVE  /\ Walk(heap, first) = w
           /\ IsListOf(first, ToSet(w), Len(w))
           /\ Len(w) \in 0 .. Cardinality(Obj)
<1>1. PICK next : next = heap.next_all
  OBVIOUS
<1>2. Chain(next, first, w) /\ next \in [Obj -> Ptr]
  BY <1>1 DEF Heap
<1>3. Walk(heap, first) = w
  BY <1>1, <1>2, WalkFacts
<1>4. w \in Seq(Obj) /\ Len(w) = Cardinality(ToSet(w)) /\ Len(w) \in 0 .. Cardinality(Obj)
  BY <1>2, LenCounts, HeapAssumption DEF Chain
<1>5. ASSUME w # << >>
      PROVE  next[Last(w)] = NULL
  <2>1. Len(w) \in 1 .. Len(w)
    BY <1>4, <1>5, EmptySeq, LenProperties
  <2>2. QED
    BY <1>2, <2>1 DEF Chain, Last
<1>6. QED
  BY <1>1, <1>3, <1>4, <1>5 DEF IsListOf

LEMMA BackShown ==
    ASSUME NEW first, NEW w \in Seq(Obj), Walk(heap, first) = w, Back(heap.prev_all, w)
    PROVE  BackLinked(first)
<1>1. DOMAIN w = 1 .. Len(w)
  BY MembersFacts
<1>2. QED
  BY <1>1 DEF BackLinked, Back

LEMMA ListsHold == ASSUME HeapInv(heap) PROVE ListsExact
<1>1. PICK L, D, N : AllGood(heap, L, D, N)
  BY DEF HeapInv
<1>2. PICK P : P = ToSet(N)
  OBVIOUS
<1>3. Good(heap, L, D, P) /\ Live(heap) = ToSet(L) /\ L \in Seq(Obj) /\ D \in Seq(Obj)
  BY <1>1, <1>2, GoodFacts DEF AllGood
<1>4. /\ heap \in Heap
      /\ heap.obj_list \in Ptr /\ heap.destructed_objs \in Ptr
      /\ heap.newly_destructed_objs \in Ptr
  BY <1>3 DEF Good, Heap
<1>5. /\ Chain(heap.next_all, heap.obj_list, L) /\ Back(heap.prev_all, L)
      /\ heap.obj_list_end = End(L) /\ heap.num_listed_objs = Len(L)
      /\ Chain(heap.next_all, heap.destructed_objs, D) /\ Back(heap.prev_all, D)
      /\ heap.num_destructed = Len(D)
      /\ ToSet(D) \cap P = {} /\ heap.destructed = ToSet(D) \cup P
  BY <1>3 DEF Good, Exact
<1>6. Chain(heap.next_all, heap.newly_destructed_objs, N) /\ heap.num_newly_destructed = Len(N)
  BY <1>1 DEF AllGood
<1>7. Walk(heap, heap.obj_list) = L /\ IsListOf(heap.obj_list, ToSet(L), Len(L))
  BY <1>4, <1>5, ChainShown
<1>8. Walk(heap, heap.destructed_objs) = D /\ IsListOf(heap.destructed_objs, ToSet(D), Len(D))
  BY <1>4, <1>5, ChainShown
<1>9. /\ Walk(heap, heap.newly_destructed_objs) = N
      /\ IsListOf(heap.newly_destructed_objs, P, Len(N))
  BY <1>2, <1>4, <1>6, ChainShown
<1>10. BackLinked(heap.obj_list) /\ BackLinked(heap.destructed_objs)
  BY <1>3, <1>5, <1>7, <1>8, BackShown
<1>11. heap.obj_list_end = IF heap.obj_list = NULL THEN NULL ELSE Last(L)
  <2>1. heap.obj_list = NULL <=> Len(L) = 0
    <3>1. Len(L) \in Nat /\ \A i \in 1 .. Len(L) : L[i] \in Obj
      BY <1>3, MembersFacts
    <3>2. Len(L) # 0 => 1 \in 1 .. Len(L)
      BY <3>1
    <3>3. QED
      BY <1>5, <3>1, <3>2, HeapAssumption DEF Chain
  <2>2. QED
    BY <1>5, <2>1 DEF End, Last
<1>12. heap.destructed \ P = ToSet(D) /\ P \subseteq heap.destructed
  BY <1>5
<1>13. ToSet(Walk(heap, heap.newly_destructed_objs)) = P
  BY <1>2, <1>9
<1>14. QED
  BY <1>3, <1>5, <1>6, <1>7, <1>8, <1>9, <1>10, <1>11, <1>12, <1>13 DEF ListsExact

LEMMA RefsHold == ASSUME HeapInv(heap) PROVE RefsExact
<1>1. PICK L, D, N : AllGood(heap, L, D, N)
  BY DEF HeapInv
<1>2. Good(heap, L, D, ToSet(N))
  BY <1>1 DEF AllGood
<1>3. /\ heap \in Heap /\ Counted(heap, ToSet(L) \cup heap.destructed)
      /\ heap.obj_list \in Ptr /\ heap.destructed_objs \in Ptr
      /\ heap.newly_destructed_objs \in Ptr
  BY <1>2 DEF Good, Heap
<1>4. /\ Chain(heap.next_all, heap.obj_list, L)
      /\ Chain(heap.next_all, heap.destructed_objs, D)
      /\ Chain(heap.next_all, heap.newly_destructed_objs, N)
      /\ heap.destructed = ToSet(D) \cup ToSet(N)
  BY <1>1, <1>2 DEF AllGood, Good, Exact
<1>5. /\ Walk(heap, heap.obj_list) = L /\ Walk(heap, heap.destructed_objs) = D
      /\ Walk(heap, heap.newly_destructed_objs) = N
  BY <1>3, <1>4, ChainShown
<1>6. SUFFICES ASSUME NEW o \in Obj
               PROVE  heap.ref[o] = Cardinality({v \in Holder : heap.variable[v] = o})
                          + (IF o \in heap.blueprints THEN 1 ELSE 0)
                          + (IF heap.hook_ob = o THEN 1 ELSE 0)
                          + (IF \E first \in {heap.obj_list, heap.newly_destructed_objs,
                                              heap.destructed_objs} :
                                   o \in ToSet(Walk(heap, first)) THEN 1 ELSE 0)
  BY DEF RefsExact
<1>7. (\E first \in {heap.obj_list, heap.newly_destructed_objs, heap.destructed_objs} :
          o \in ToSet(Walk(heap, first)))
        <=> o \in ToSet(L) \cup heap.destructed
  BY <1>4, <1>5
<1>8. heap.ref[o] = Named(heap, o) + One(o \in ToSet(L) \cup heap.destructed)
  BY <1>3 DEF Counted
<1>9. QED
  BY <1>7, <1>8 DEF Named, Vars, One

LEMMA TypesHold == ASSUME IInv PROVE TypeOK
<1>1. PICK L, D, N : AllGood(heap, L, D, N)
  BY DEF IInv, HeapInv
<1>2. Good(heap, L, D, ToSet(N))
  BY <1>1 DEF AllGood
<1>3. heap \in Heap
  BY <1>2 DEF Good
<1>4. /\ heap.obj_list \in Ptr /\ heap.destructed_objs \in Ptr
      /\ heap.newly_destructed_objs \in Ptr
  BY <1>3 DEF Heap
<1>5. /\ heap.num_listed_objs \in 0 .. Cardinality(Obj)
      /\ heap.num_destructed \in 0 .. Cardinality(Obj)
      /\ heap.num_newly_destructed \in 0 .. Cardinality(Obj)
  BY <1>1, <1>2, <1>3, <1>4, ChainShown DEF AllGood, Good, Exact
<1>6. heap.ref \in [Obj -> 0 .. Cardinality(Holder) + 3]
  <2>1. \A o \in Obj : heap.ref[o] \in 0 .. Cardinality(Holder) + 3
    BY <1>2, GoodFacts
  <2>2. heap.ref \in [Obj -> Int]
    BY <1>3 DEF Heap
  <2>3. QED
    BY <2>1, <2>2
<1>7. heap \in [next_all : [Obj -> Obj \cup {NULL}],
                prev_all : [Obj -> Obj \cup {NULL}],
                obj_list : Obj \cup {NULL}, obj_list_end : Obj \cup {NULL},
                newly_destructed_objs : Obj \cup {NULL},
                destructed_objs : Obj \cup {NULL},
                num_listed_objs : 0 .. Cardinality(Obj),
                num_newly_destructed : 0 .. Cardinality(Obj),
                num_destructed : 0 .. Cardinality(Obj),
                ref : [Obj -> 0 .. Cardinality(Holder) + 3],
                destructed : SUBSET Obj, blueprints : SUBSET Blueprint,
                variable : [Holder -> Obj \cup {NULL}],
                hook_ob : Obj \cup {NULL}, dest_last_ref_gone : BOOLEAN]
  BY <1>3, <1>5, <1>6 DEF Heap, Ptr
<1>8. obj \in Obj \cup {NULL}
  BY DEF IInv, AtHand, Ptr
<1>9. QED
  BY <1>7, <1>8 DEF IInv, Flags, TypeOK

-----------------------------------------------------------------------------
(* The heap keeps its shape, with no more references to an object than the *)
(* variables and the three other places that can hold one, and pc and the  *)
(* slice of time of process_objects() their ranges.                        *)
THEOREM TypeCorrectness == Spec => []TypeOK
BY Invariance, TypesHold, PTL

(* Whatever reset(), clean_up() and other code create and destruct while   *)
(* process_objects() turns the list of all objects round, it holds exactly *)
(* the live objects, the lists of destructed objects the others, each      *)
(* once, with the links back, the end and the counters that belong to it.  *)
THEOREM ListsStayExact == Spec => []ListsExact
<1>1. IInv => ListsExact
  BY ListsHold DEF IInv
<1>2. QED
  BY <1>1, Invariance, PTL

(* Through destruct(), remove_object(), data cleaning and the hook's       *)
(* closures the reference count of every object is the number of places    *)
(* that name it, with one for its list: nothing is freed early or leaks.   *)
THEOREM RefsStayExact == Spec => []RefsExact
<1>1. IInv => RefsExact
  BY RefsHold DEF IInv
<1>2. QED
  BY <1>1, Invariance, PTL

(* After reset() and clean_up(), which may destruct the object they are    *)
(* called in, process_objects() goes on with it only while it lives, and   *)
(* never touches the memory of one that was freed.                         *)
THEOREM ObjIsAtHand == Spec => []ObjAtHand
<1>1. IInv => ObjAtHand
  BY DEF IInv, AtHand, ObjAtHand
<1>2. QED
  BY <1>1, Invariance, PTL
=============================================================================
