----------------------------- MODULE CallOutProofs -----------------------------
(***************************************************************************)
(* Proofs about CallOut, for any objects and owners, any limit of pending  *)
(* calls and any delays.                                                   *)
(***************************************************************************)
EXTENDS CallOut, Induction

(* Seconds until a call is due, by its history.                            *)
TimeLeft(c) == c.wait + c.lost - c.skew

(* What DeltasKeepTime says of neighbours: each delta is the step from the *)
(* time of the call before.                                                *)
Steps(list) ==
    \A i \in 1 .. Len(list) :
        list[i].delta = TimeLeft(list[i]) - (IF i = 1 THEN 0 ELSE TimeLeft(list[i - 1]))

Sorted(list) == \A i \in 2 .. Len(list) : list[i].delta >= 0

Exact(list) == list \in Seq(Calls) /\ Steps(list) /\ Sorted(list)

(* A call with another delta.                                              *)
Retimed(c, delta) == [c EXCEPT !.delta = delta]

-----------------------------------------------------------------------------
LEMMA RetimedFacts ==
    ASSUME NEW c \in Calls, NEW delta \in Int
    PROVE  /\ Retimed(c, delta) \in Calls
           /\ Retimed(c, delta).ob = c.ob /\ Retimed(c, delta).delta = delta
           /\ TimeLeft(Retimed(c, delta)) = TimeLeft(c)
BY DEF Calls, Retimed, TimeLeft

LEMMA CallFacts ==
    ASSUME NEW list \in Seq(Calls)
    PROVE  /\ Len(list) \in Nat
           /\ DOMAIN list = 1 .. Len(list)
           /\ \A i \in 1 .. Len(list) :
                 /\ list[i] \in Calls
                 /\ list[i].ob \in Obj /\ list[i].delta \in Int
                 /\ TimeLeft(list[i]) \in Int
                 /\ TimeLeft(list[i]) <= list[i].wait + list[i].lost
<1>1. Len(list) \in Nat /\ DOMAIN list = 1 .. Len(list)
  BY LenProperties
<1>2. ASSUME NEW i \in 1 .. Len(list)
      PROVE  list[i] \in Calls
  BY ElementOfSeq
<1>3. ASSUME NEW c \in Calls
      PROVE  /\ c.ob \in Obj /\ c.delta \in Int
             /\ TimeLeft(c) \in Int /\ TimeLeft(c) <= c.wait + c.lost
  BY DEF Calls, TimeLeft
<1>4. QED
  BY <1>1, <1>2, <1>3

(* What is left of a delay, position by position.                          *)
LEMMA LeftFacts ==
    ASSUME NEW list \in Seq(Calls), NEW delay \in Int
    PROVE  /\ Left(list, delay, 1) = delay
           /\ \A i \in 1 .. Len(list) + 1 : Left(list, delay, i) \in Int
           /\ \A i \in 1 .. Len(list) :
                 Left(list, delay, i + 1) =
                    Left(list, delay, i) - (IF list[i].delta >= 0 THEN list[i].delta ELSE 0)
<1> DEFINE n == Len(list)
           e(i) == IF list[i].delta >= 0 THEN list[i].delta ELSE 0
           d == [i \in 1 .. n |-> - e(i)]
           f == CHOOSE f : f = [i \in 0 .. n |-> IF i = 0 THEN delay ELSE f[i - 1] - e(i)]
<1>1. n \in Nat /\ (\A i \in 1 .. n : e(i) \in Int) /\ d \in [1 .. n -> Int]
  BY CallFacts
<1>2. \A i \in 1 .. n + 1 : Left(list, delay, i) = f[i - 1]
  BY DEF Left
<1> HIDE DEF e
<1>3. PICK g \in [0 .. n -> Int] : g[0] = delay /\ \A i \in 1 .. n : g[i] = g[i - 1] + d[i]
  <2> HIDE DEF d, n
  <2>1. QED
    BY <1>1, RunningSumExists
<1>4. g = [i \in 0 .. n |-> IF i = 0 THEN delay ELSE g[i - 1] - e(i)]
  <2>1. ASSUME NEW i \in 1 .. n
        PROVE  g[i] = g[i - 1] - e(i)
    <3>1. i - 1 \in 0 .. n /\ d[i] = - e(i)
      BY <1>1
    <3>2. g[i - 1] \in Int /\ e(i) \in Int
      BY <1>1, <3>1
    <3>3. QED
      BY <1>3, <3>1, <3>2
  <2> HIDE DEF d
  <2>2. QED
    BY <1>1, <1>3, <2>1
<1>5. f = [i \in 0 .. n |-> IF i = 0 THEN delay ELSE f[i - 1] - e(i)]
  BY <1>4
<1> HIDE DEF f
<1>6. f[0] = delay /\ \A i \in 1 .. n : f[i] = f[i - 1] - e(i)
  BY <1>1, <1>5
<1>7. \A i \in 0 .. n : f[i] \in Int
  <2>1. \A i \in 1 .. n : f[i] = f[i - 1] + d[i]
    BY <1>1, <1>5, <1>6
  <2> HIDE DEF d, n
  <2>2. QED
    BY <1>1, <1>6, <2>1, RunningSumFacts
<1>8. \A i \in 1 .. n + 1 : Left(list, delay, i) \in Int
  BY <1>1, <1>2, <1>7
<1>9. ASSUME NEW i \in 1 .. n
       PROVE  Left(list, delay, i + 1) = Left(list, delay, i) - e(i)
  <2>1. i + 1 \in 1 .. n + 1 /\ i \in 1 .. n + 1 /\ i + 1 - 1 = i
    BY <1>1
  <2>2. QED
    BY <1>2, <1>6, <2>1
<1>10. Left(list, delay, 1) = delay
  BY <1>1, <1>2, <1>6
<1>11. QED
  BY <1>8, <1>9, <1>10 DEF e

(* The spot of a new call: everything before it is due by then, the call   *)
(* at the spot is not.                                                     *)
LEMMA SpotFacts ==
    ASSUME NEW list \in Seq(Calls), NEW delay \in Int
    PROVE  /\ Spot(list, delay) \in 1 .. Len(list) + 1
           /\ Spot(list, delay) <= Len(list) =>
                 list[Spot(list, delay)].delta > Left(list, delay, Spot(list, delay))
           /\ \A j \in 1 .. Spot(list, delay) - 1 : list[j].delta <= Left(list, delay, j)
<1> DEFINE n == Len(list)
           T == {i \in 1 .. n + 1 : i > n \/ list[i].delta > Left(list, delay, i)}
<1>1. n \in Nat /\ \A i \in 1 .. n : list[i].delta \in Int
  BY CallFacts
<1>2. \A i \in 1 .. n + 1 : Left(list, delay, i) \in Int
  BY LeftFacts
<1>3. n + 1 \in T /\ T \in SUBSET Nat
  BY <1>1
<1>4. Spot(list, delay) = Min(T)
  BY DEF Spot
<1>5. Min(T) \in T /\ \A m \in T : Min(T) <= m
  <2> HIDE DEF T
  <2>1. QED
    BY <1>3, MinFacts
<1>6. ASSUME NEW j \in 1 .. Min(T) - 1
      PROVE  list[j].delta <= Left(list, delay, j)
  <2>1. j \in 1 .. n /\ j \notin T
    BY <1>1, <1>5
  <2>2. QED
    BY <1>1, <1>2, <2>1
<1>7. QED
  BY <1>1, <1>4, <1>5, <1>6

(* Beyond the first call, what is left of a delay is the time from the     *)
(* call before: that is how insert_call() comes to relative times.         *)
LEMMA LeftIsStep ==
    ASSUME NEW list, Exact(list), NEW delay \in Int
    PROVE  \A i \in 2 .. Len(list) + 1 :
              Left(list, delay, i) = delay - Overdue(list) - TimeLeft(list[i - 1])
<1> DEFINE n == Len(list)
           S == {i \in Nat : Left(list, delay, i) = delay - Overdue(list) - TimeLeft(list[i - 1])}
<1>1. /\ n \in Nat
      /\ \A i \in 1 .. n : list[i].delta \in Int /\ TimeLeft(list[i]) \in Int
  BY CallFacts DEF Exact
<1>2. /\ Left(list, delay, 1) = delay
      /\ \A i \in 1 .. n : Left(list, delay, i + 1) =
             Left(list, delay, i) - (IF list[i].delta >= 0 THEN list[i].delta ELSE 0)
  BY LeftFacts DEF Exact
<1>3. /\ \A i \in 1 .. n : list[i].delta =
             TimeLeft(list[i]) - (IF i = 1 THEN 0 ELSE TimeLeft(list[i - 1]))
      /\ \A i \in 2 .. n : list[i].delta >= 0
  BY DEF Exact, Steps, Sorted
<1> SUFFICES ASSUME n >= 1 PROVE \A i \in 2 .. n + 1 : i \in S
  BY <1>1
<1>4. Overdue(list) \in Nat
      /\ Overdue(list) = IF list[1].delta < 0 THEN - list[1].delta ELSE 0
  <2>1. list # << >>
    BY <1>1
  <2>2. QED
    BY <1>1, <2>1 DEF Overdue
<1>5. 2 \in S
  <2>1. Left(list, delay, 2) = delay - (IF list[1].delta >= 0 THEN list[1].delta ELSE 0)
    BY <1>1, <1>2
  <2>2. list[1].delta = TimeLeft(list[1])
    BY <1>1, <1>3
  <2>3. QED
    BY <1>1, <1>4, <2>1, <2>2
<1>6. ASSUME NEW i \in 2 .. n + 1 - 1, i \in S
      PROVE  i + 1 \in S
  <2>1. i \in 1 .. n /\ i \in 2 .. n /\ i - 1 \in 1 .. n /\ i + 1 - 1 = i /\ i # 1
    BY <1>1
  <2>2. Left(list, delay, i + 1) = Left(list, delay, i) - list[i].delta
    BY <1>1, <1>2, <1>3, <2>1
  <2>3. list[i].delta = TimeLeft(list[i]) - TimeLeft(list[i - 1])
    BY <1>3, <2>1
  <2>4. Left(list, delay, i) = delay - Overdue(list) - TimeLeft(list[i - 1])
    BY <1>6
  <2>5. /\ Overdue(list) \in Int /\ list[i].delta \in Int
        /\ TimeLeft(list[i]) \in Int /\ TimeLeft(list[i - 1]) \in Int
    BY <1>1, <1>4, <2>1
  <2>6. Left(list, delay, i + 1) = delay - Overdue(list) - TimeLeft(list[i])
    BY <2>2, <2>3, <2>4, <2>5
  <2>7. QED
    BY <2>1, <2>6
<1> HIDE DEF S, n
<1>7. PICK m \in Nat : m = n + 1
  BY <1>1
<1>8. \A i \in 2 .. m - 1 : i \in S => i + 1 \in S
  BY <1>1, <1>6, <1>7
<1>9. \A i \in 2 .. m : i \in S
  BY <1>5, <1>8, IntervalInduction
<1>10. QED
  BY <1>7, <1>9

(* The list with a new call in it, position by position.                   *)
LEMMA NewCallFacts ==
    ASSUME NEW list \in Seq(Calls), NEW ob \in Obj, NEW delay \in Int
    PROVE  LET i == Spot(list, delay)
               left == Left(list, delay, i)
               c == [ob |-> ob, delta |-> left, wait |-> delay,
                     skew |-> Overdue(list), lost |-> 0]
               new == NewCall(list, ob, delay)
           IN  /\ c \in Calls
               /\ new \in Seq(Calls) /\ Len(new) = Len(list) + 1
               /\ \A j \in 1 .. Len(list) + 1 :
                     new[j] = IF j < i THEN list[j] ELSE IF j = i THEN c
                              ELSE IF j = i + 1 THEN Retimed(list[i], list[i].delta - left)
                              ELSE list[j - 1]
<1> DEFINE n == Len(list)
           i == Spot(list, delay)
           left == Left(list, delay, i)
           cop == [ob |-> ob, delta |-> delay, wait |-> delay,
                   skew |-> Overdue(list), lost |-> 0]
           c == [ob |-> ob, delta |-> left, wait |-> delay,
                 skew |-> Overdue(list), lost |-> 0]
           rest == IF i > n THEN list ELSE [list EXCEPT ![i].delta = @ - left]
           new == NewCall(list, ob, delay)
<1>1. /\ n \in Nat /\ DOMAIN list = 1 .. n
      /\ \A j \in 1 .. n : list[j] \in Calls /\ list[j].delta \in Int
  BY CallFacts
<1>2. i \in 1 .. n + 1
  BY SpotFacts
<1>3. left \in Int
  BY <1>2, LeftFacts
<1>4. Overdue(list) \in Nat
  BY <1>1 DEF Overdue
<1> HIDE DEF i, left
<1>5. c \in Calls
  BY <1>3, <1>4 DEF Calls
<1>6. /\ rest \in Seq(Calls) /\ Len(rest) = n
      /\ \A j \in 1 .. n :
            rest[j] = IF j = i THEN Retimed(list[i], list[i].delta - left) ELSE list[j]
  <2>1. CASE i > n
    BY <1>1, <1>2, <2>1
  <2>2. CASE i \in 1 .. n
    <3>1. rest = [list EXCEPT ![i] = Retimed(list[i], list[i].delta - left)]
      BY <1>1, <2>2 DEF Retimed
    <3>2. Retimed(list[i], list[i].delta - left) \in Calls
      <4>1. list[i].delta - left \in Int
        BY <1>1, <1>3, <2>2
      <4>2. QED
        BY <1>1, <2>2, <4>1, RetimedFacts
    <3> HIDE DEF rest
    <3>3. rest \in Seq(Calls) /\ Len(rest) = n
      BY <1>1, <2>2, <3>1, <3>2, ExceptSeq
    <3>4. QED
      BY <1>1, <2>2, <3>1, <3>3
  <2>3. QED
    BY <1>1, <1>2, <2>1, <2>2
<1>7. new = InsertAt(rest, i, c)
  <2>1. new = InsertAt(rest, i, [cop EXCEPT !.delta = left])
    BY DEF NewCall, insert_call, i, left
  <2>2. [cop EXCEPT !.delta = left] = c
    OBVIOUS
  <2>3. QED
    BY <2>1, <2>2
<1>8. i \in 1 .. Len(rest) + 1
  BY <1>2, <1>6
<1> HIDE DEF rest, cop, c, new
<1>9. /\ new \in Seq(Calls) /\ Len(new) = n + 1
      /\ \A j \in 1 .. n + 1 :
            new[j] = IF j < i THEN rest[j] ELSE IF j = i THEN c ELSE rest[j - 1]
  <2> DEFINE t == InsertAt(rest, i, c)
  <2>1. /\ t \in Seq(Calls) /\ Len(t) = Len(rest) + 1
        /\ \A j \in 1 .. Len(rest) + 1 :
              t[j] = IF j < i THEN rest[j] ELSE IF j = i THEN c ELSE rest[j - 1]
    BY <1>5, <1>6, <1>8, InsertAtFacts
  <2> HIDE DEF t
  <2>2. QED
    BY <1>6, <1>7, <2>1 DEF t
<1>10. ASSUME NEW j \in 1 .. n + 1
       PROVE  new[j] = IF j < i THEN list[j] ELSE IF j = i THEN c
                       ELSE IF j = i + 1 THEN Retimed(list[i], list[i].delta - left)
                       ELSE list[j - 1]
  <2>1. CASE j < i
    <3>1. j \in 1 .. n
      BY <1>1, <1>2, <2>1
    <3>2. QED
      BY <1>2, <1>6, <1>9, <2>1, <3>1
  <2>2. CASE j = i
    BY <1>2, <1>9, <2>2
  <2>3. CASE j > i
    <3>1. j - 1 \in 1 .. n /\ (j = i + 1 <=> j - 1 = i)
      BY <1>1, <1>2, <2>3
    <3>2. QED
      BY <1>2, <1>6, <1>9, <2>3, <3>1
  <2>4. QED
    BY <1>1, <1>2, <2>1, <2>2, <2>3
<1>11. QED
  BY <1>5, <1>9, <1>10 DEF c, i, left, new

(* A new call keeps the list exact: it goes between calls, and takes its   *)
(* share of the delta of the call behind it.                               *)
LEMMA NewCallKeeps ==
    ASSUME NEW list, Exact(list), NEW ob \in Obj, NEW delay \in Nat
    PROVE  Exact(NewCall(list, ob, delay)) /\ Len(NewCall(list, ob, delay)) = Len(list) + 1
<1> DEFINE n == Len(list)
           i == Spot(list, delay)
           left == Left(list, delay, i)
           c == [ob |-> ob, delta |-> left, wait |-> delay,
                 skew |-> Overdue(list), lost |-> 0]
           new == NewCall(list, ob, delay)
           Before(j) == IF j = 1 THEN 0 ELSE TimeLeft(list[j - 1])
<1>1. /\ n \in Nat
      /\ \A j \in 1 .. n : list[j] \in Calls /\ list[j].delta \in Int /\ TimeLeft(list[j]) \in Int
  BY CallFacts DEF Exact
<1>2. /\ c \in Calls /\ new \in Seq(Calls) /\ Len(new) = n + 1
      /\ \A j \in 1 .. n + 1 :
            new[j] = IF j < i THEN list[j] ELSE IF j = i THEN c
                     ELSE IF j = i + 1 THEN Retimed(list[i], list[i].delta - left)
                     ELSE list[j - 1]
  <2>1. list \in Seq(Calls) /\ delay \in Int
    BY DEF Exact
  <2>2. QED
    BY <2>1, NewCallFacts
<1>3. /\ i \in 1 .. n + 1
      /\ i <= n => list[i].delta > left
      /\ \A j \in 1 .. i - 1 : list[j].delta <= Left(list, delay, j)
  <2>1. list \in Seq(Calls) /\ delay \in Int
    BY DEF Exact
  <2>2. QED
    BY <2>1, SpotFacts
<1>4. /\ Left(list, delay, 1) = delay
      /\ \A j \in 1 .. n + 1 : Left(list, delay, j) \in Int
      /\ \A j \in 1 .. n :
            Left(list, delay, j + 1) =
               Left(list, delay, j) - (IF list[j].delta >= 0 THEN list[j].delta ELSE 0)
  BY LeftFacts DEF Exact
<1>5. /\ \A j \in 1 .. n : list[j].delta = TimeLeft(list[j]) - Before(j)
      /\ \A j \in 2 .. n : list[j].delta >= 0
  BY DEF Exact, Steps, Sorted
<1>6. left \in Int
  BY <1>3, <1>4
<1>7. Overdue(list) \in Nat /\ (list[1].delta >= 0 \/ n = 0 => Overdue(list) = 0)
  BY <1>1 DEF Overdue, Exact
<1>8. TimeLeft(c) = delay - Overdue(list)
  BY <1>7 DEF TimeLeft
<1>9. left = TimeLeft(c) - Before(i)
  <2>1. CASE i = 1
    <3>1. left = delay
      BY <1>4, <2>1
    <3>2. n = 0 \/ list[1].delta >= 0
      BY <1>1, <1>3, <2>1, <3>1
    <3>3. QED
      BY <1>7, <1>8, <2>1, <3>1, <3>2
  <2>2. CASE i \in 2 .. n + 1
    <3>1. left = delay - Overdue(list) - TimeLeft(list[i - 1])
      BY <2>2, LeftIsStep
    <3>2. QED
      BY <1>8, <2>2, <3>1
  <2>3. QED
    BY <1>1, <1>3, <2>1, <2>2
<1>10. i # 1 => left >= 0
  <2> SUFFICES ASSUME i # 1 PROVE left >= 0
    OBVIOUS
  <2> DEFINE h == i - 1
  <2>1. h \in 1 .. i - 1 /\ h \in 1 .. n /\ h + 1 = i
    BY <1>1, <1>3
  <2>2. left = Left(list, delay, h) - (IF list[h].delta >= 0 THEN list[h].delta ELSE 0)
    BY <1>4, <2>1
  <2>3. list[h].delta <= Left(list, delay, h) /\ list[h].delta \in Int /\ Left(list, delay, h) \in Int
    BY <1>1, <1>3, <1>4, <2>1
  <2>4. CASE list[h].delta >= 0
    BY <2>2, <2>3, <2>4
  <2>5. CASE list[h].delta < 0
    <3>1. h = 1
      BY <1>5, <2>1, <2>3, <2>5
    <3>2. QED
      BY <1>4, <2>2, <2>3, <2>5, <3>1
  <2>6. QED
    BY <2>3, <2>4, <2>5
<1> HIDE DEF i, left, c, new, n
<1>11. ASSUME NEW j \in 1 .. n + 1
       PROVE  /\ new[j].delta = TimeLeft(new[j]) - (IF j = 1 THEN 0 ELSE TimeLeft(new[j - 1]))
              /\ j # 1 => new[j].delta >= 0
  <2>1. CASE j < i
    <3>1. j \in 1 .. n /\ new[j] = list[j]
      BY <1>1, <1>2, <1>3, <2>1
    <3>2. j # 1 => j - 1 \in 1 .. n + 1 /\ new[j - 1] = list[j - 1]
      BY <1>1, <1>2, <1>3, <2>1
    <3>3. j # 1 => j \in 2 .. n
      BY <1>1, <3>1
    <3>4. QED
      BY <1>5, <3>1, <3>2, <3>3
  <2>2. CASE j = i
    <3>1. new[j] = c
      BY <1>2, <2>2
    <3>2. j # 1 => new[j - 1] = list[j - 1]
      BY <1>1, <1>2, <1>3, <2>2
    <3>3. c.delta = left
      BY DEF c
    <3>4. QED
      BY <1>9, <1>10, <2>2, <3>1, <3>2, <3>3
  <2>3. CASE j = i + 1
    <3>1. i \in 1 .. n /\ new[j] = Retimed(list[i], list[i].delta - left) /\ j # 1 /\ j - 1 = i
      BY <1>1, <1>2, <1>3, <2>3
    <3>2. new[i] = c
      BY <1>2, <1>3
    <3>3. list[i].delta - left \in Int /\ list[i].delta - left > 0
      BY <1>1, <1>3, <1>6, <3>1
    <3>4. new[j].delta = list[i].delta - left /\ TimeLeft(new[j]) = TimeLeft(list[i])
      <4>1. PICK e \in Int : e = list[i].delta - left
        BY <3>3
      <4>2. list[i] \in Calls
        BY <1>1, <3>1
      <4>3. QED
        BY <3>1, <4>1, <4>2, RetimedFacts
    <3>5. TimeLeft(c) \in Int /\ Before(i) \in Int
      <4>1. i = 1 \/ i - 1 \in 1 .. n
        BY <1>1, <3>1
      <4>2. QED
        BY <1>1, <1>7, <1>8, <4>1
    <3>6. list[i].delta = TimeLeft(list[i]) - Before(i)
      BY <1>5, <3>1
    <3>7. TimeLeft(list[i]) \in Int
      BY <1>1, <3>1
    <3> HIDE DEF Before
    <3>8. new[j].delta = TimeLeft(new[j]) - TimeLeft(c)
      BY <1>9, <3>4, <3>5, <3>6, <3>7
    <3>9. QED
      BY <3>1, <3>2, <3>3, <3>4, <3>8
  <2>4. CASE j > i + 1
    <3> DEFINE h == j - 1
    <3>1. h \in 2 .. n /\ h \in 1 .. n /\ h # 1 /\ h > i /\ j # 1 /\ new[j] = list[h]
      BY <1>1, <1>2, <1>3, <2>4
    <3>2. TimeLeft(new[h]) = TimeLeft(list[h - 1])
      <4>1. h \in 1 .. n + 1
        BY <1>1, <3>1
      <4>2. CASE h = i + 1
        <5>1. i \in 1 .. n /\ h - 1 = i /\ new[h] = Retimed(list[i], list[i].delta - left)
          BY <1>1, <1>2, <1>3, <3>1, <4>1, <4>2
        <5>2. list[i].delta - left \in Int
          BY <1>1, <1>6, <5>1
        <5>3. QED
          BY <1>1, <5>1, <5>2, RetimedFacts
      <4>3. CASE h # i + 1
        <5>1. ~(h < i) /\ h # i
          BY <1>1, <1>3, <3>1
        <5>2. QED
          BY <1>2, <4>1, <4>3, <5>1
      <4>4. QED
        BY <4>2, <4>3
    <3>3. list[h].delta = TimeLeft(list[h]) - TimeLeft(list[h - 1]) /\ list[h].delta >= 0
      BY <1>5, <3>1
    <3>4. QED
      BY <3>1, <3>2, <3>3
  <2>5. QED
    BY <1>1, <1>3, <2>1, <2>2, <2>3, <2>4
<1>12. Steps(new) /\ Sorted(new)
  <2>1. \A j \in 2 .. n + 1 : j \in 1 .. n + 1 /\ j # 1
    BY <1>1
  <2>2. QED
    BY <1>2, <1>11, <2>1 DEF Steps, Sorted
<1>13. QED
  BY <1>2, <1>12 DEF Exact, new, n

(* The list without call i, position by position.                          *)
LEMMA UnchainedFacts ==
    ASSUME NEW list \in Seq(Calls), NEW i \in 1 .. Len(list)
    PROVE  /\ Unchained(list, i) \in Seq(Calls)
           /\ Len(Unchained(list, i)) = Len(list) - 1
           /\ \A j \in 1 .. Len(list) - 1 :
                 Unchained(list, i)[j] =
                    IF j < i THEN list[j]
                    ELSE IF j = i THEN Retimed(list[i + 1], list[i + 1].delta + list[i].delta)
                    ELSE list[j + 1]
<1> DEFINE n == Len(list)
           r == Retimed(list[i + 1], list[i + 1].delta + list[i].delta)
           rest == IF i < n THEN [list EXCEPT ![i + 1].delta = @ + list[i].delta] ELSE list
<1>1. /\ n \in Nat /\ DOMAIN list = 1 .. n
      /\ \A j \in 1 .. n : list[j] \in Calls /\ list[j].delta \in Int
  BY CallFacts
<1>2. /\ rest \in Seq(Calls) /\ Len(rest) = n
      /\ \A j \in 1 .. n : rest[j] = IF j = i + 1 THEN r ELSE list[j]
  <2>1. CASE i >= n
    BY <1>1, <2>1
  <2>2. CASE i < n
    <3>1. i + 1 \in 1 .. n
      BY <1>1, <2>2
    <3>2. rest = [list EXCEPT ![i + 1] = r]
      BY <1>1, <2>2, <3>1 DEF Retimed
    <3>3. r \in Calls
      <4>1. PICK d \in Int : d = list[i + 1].delta + list[i].delta
        BY <1>1, <3>1
      <4>2. QED
        BY <1>1, <3>1, <4>1, RetimedFacts
    <3> HIDE DEF rest, r
    <3>4. rest \in Seq(Calls) /\ Len(rest) = n
      BY <1>1, <3>1, <3>2, <3>3, ExceptSeq
    <3>5. QED
      BY <1>1, <3>1, <3>2, <3>4
  <2>3. QED
    BY <1>1, <2>1, <2>2
<1> HIDE DEF rest
<1>3. /\ RemoveAt(rest, i) \in Seq(Calls) /\ Len(RemoveAt(rest, i)) = Len(rest) - 1
      /\ \A j \in 1 .. Len(rest) - 1 :
            RemoveAt(rest, i)[j] = IF j < i THEN rest[j] ELSE rest[j + 1]
  <2>1. i \in 1 .. Len(rest)
    BY <1>2
  <2>2. QED
    BY <1>2, <2>1, RemoveAtFacts
<1>4. Unchained(list, i) = RemoveAt(rest, i)
  BY DEF Unchained, rest
<1>5. ASSUME NEW j \in 1 .. n - 1
      PROVE  Unchained(list, i)[j] = IF j < i THEN list[j] ELSE IF j = i THEN r ELSE list[j + 1]
  <2> HIDE DEF r
  <2>1. j \in 1 .. n /\ j + 1 \in 1 .. n /\ (j + 1 = i + 1 <=> j = i)
    BY <1>1
  <2>2. QED
    BY <1>2, <1>3, <1>4, <2>1
<1>6. QED
  BY <1>2, <1>3, <1>4, <1>5

(* A call that leaves keeps the list exact.                                *)
LEMMA UnchainedKeeps ==
    ASSUME NEW list, Exact(list), NEW i \in 1 .. Len(list)
    PROVE  Exact(Unchained(list, i)) /\ Len(Unchained(list, i)) = Len(list) - 1
<1> DEFINE n == Len(list)
           new == Unchained(list, i)
<1>1. /\ n \in Nat /\ i \in 1 .. n /\ list \in Seq(Calls)
      /\ \A j \in 1 .. n : list[j] \in Calls /\ list[j].delta \in Int /\ TimeLeft(list[j]) \in Int
  BY CallFacts DEF Exact
<1>2. /\ new \in Seq(Calls) /\ Len(new) = n - 1
      /\ \A j \in 1 .. n - 1 :
            new[j] = IF j < i THEN list[j]
                     ELSE IF j = i THEN Retimed(list[i + 1], list[i + 1].delta + list[i].delta)
                     ELSE list[j + 1]
  BY <1>1, UnchainedFacts
<1>3. /\ \A j \in 1 .. n : list[j].delta =
             TimeLeft(list[j]) - (IF j = 1 THEN 0 ELSE TimeLeft(list[j - 1]))
      /\ \A j \in 2 .. n : list[j].delta >= 0
  BY DEF Exact, Steps, Sorted
<1> HIDE DEF new, n
<1>4. ASSUME NEW j \in 1 .. n - 1
      PROVE  /\ TimeLeft(new[j]) = TimeLeft(list[IF j < i THEN j ELSE j + 1])
             /\ new[j].delta = IF j = i THEN list[j].delta + list[j + 1].delta
                               ELSE list[IF j < i THEN j ELSE j + 1].delta
  <2>1. j \in 1 .. n /\ j + 1 \in 1 .. n
    BY <1>1
  <2>2. CASE j = i
    <3>1. PICK d \in Int : d = list[i + 1].delta + list[i].delta
      BY <1>1, <2>1, <2>2
    <3>2. PICK b \in Calls : b = list[i + 1] /\ new[j] = Retimed(b, d)
      BY <1>1, <1>2, <2>1, <2>2, <3>1
    <3>3. new[j].delta = d /\ TimeLeft(new[j]) = TimeLeft(list[i + 1])
      <4>1. Retimed(b, d).delta = d /\ TimeLeft(Retimed(b, d)) = TimeLeft(b)
        BY RetimedFacts
      <4>2. QED
        BY <3>2, <4>1
    <3>4. d = list[j].delta + list[j + 1].delta
      BY <1>1, <2>1, <2>2, <3>1
    <3>5. QED
      BY <2>2, <3>3, <3>4
  <2>3. CASE j # i
    BY <1>2, <2>3
  <2>4. QED
    BY <2>2, <2>3
<1>5. ASSUME NEW j \in 1 .. n - 1
      PROVE  /\ new[j].delta = TimeLeft(new[j]) - (IF j = 1 THEN 0 ELSE TimeLeft(new[j - 1]))
             /\ j # 1 => new[j].delta >= 0
  <2>1. j \in 1 .. n /\ j + 1 \in 1 .. n /\ j + 1 \in 2 .. n /\ j + 1 - 1 = j /\ j + 1 # 1
        /\ (j # 1 => j - 1 \in 1 .. n - 1 /\ j \in 2 .. n)
    BY <1>1
  <2>2. CASE j < i
    <3>1. new[j].delta = list[j].delta /\ TimeLeft(new[j]) = TimeLeft(list[j])
      BY <1>1, <1>4, <2>2
    <3>2. j # 1 => TimeLeft(new[j - 1]) = TimeLeft(list[j - 1])
      BY <1>1, <1>4, <2>1, <2>2
    <3>3. QED
      BY <1>3, <2>1, <3>1, <3>2
  <2>3. CASE j = i
    <3>1. new[j].delta = list[j].delta + list[j + 1].delta
          /\ TimeLeft(new[j]) = TimeLeft(list[j + 1])
      BY <1>1, <1>4, <2>3
    <3>2. j # 1 => TimeLeft(new[j - 1]) = TimeLeft(list[j - 1])
      BY <1>1, <1>4, <2>1, <2>3
    <3>3. /\ list[j].delta = TimeLeft(list[j]) - (IF j = 1 THEN 0 ELSE TimeLeft(list[j - 1]))
          /\ list[j + 1].delta = TimeLeft(list[j + 1]) - TimeLeft(list[j])
          /\ list[j + 1].delta >= 0 /\ (j # 1 => list[j].delta >= 0)
      BY <1>3, <2>1
    <3>4. /\ list[j].delta \in Int /\ list[j + 1].delta \in Int
          /\ TimeLeft(list[j]) \in Int /\ TimeLeft(list[j + 1]) \in Int
          /\ (j # 1 => TimeLeft(list[j - 1]) \in Int)
      <4>1. j # 1 => j - 1 \in 1 .. n
        BY <1>1, <2>1
      <4>2. QED
        BY <1>1, <2>1, <4>1
    <3>5. QED
      BY <3>1, <3>2, <3>3, <3>4
  <2>4. CASE j > i
    <3>1. new[j].delta = list[j + 1].delta /\ TimeLeft(new[j]) = TimeLeft(list[j + 1])
      BY <1>1, <1>4, <2>4
    <3>2. j # 1 /\ TimeLeft(new[j - 1]) = TimeLeft(list[j])
      <4>1. j # 1 /\ ~(j - 1 < i) /\ j - 1 + 1 = j
        BY <1>1, <2>4
      <4>2. QED
        BY <1>4, <2>1, <4>1
    <3>3. list[j + 1].delta = TimeLeft(list[j + 1]) - TimeLeft(list[j]) /\ list[j + 1].delta >= 0
      BY <1>3, <2>1
    <3>4. QED
      BY <3>1, <3>2, <3>3
  <2>5. QED
    BY <1>1, <2>1, <2>2, <2>3, <2>4
<1>6. Steps(new) /\ Sorted(new)
  <2>1. \A j \in 2 .. n - 1 : j \in 1 .. n - 1 /\ j # 1
    BY <1>1
  <2>2. QED
    BY <1>2, <1>5, <2>1 DEF Steps, Sorted
<1>7. QED
  BY <1>2, <1>6 DEF Exact, new, n

-----------------------------------------------------------------------------
(* The stale calls among the first k.                                      *)
Struck(list, k) == Cardinality(Stale(list) \cap (1 .. k))

LEMMA StruckFacts ==
    ASSUME NEW list, Len(list) \in Nat, DOMAIN list = 1 .. Len(list)
    PROVE  /\ Struck(list, 0) = 0
           /\ \A k \in Nat : Struck(list, k) \in Nat
           /\ \A k \in 0 .. Len(list) - 1 :
                 Struck(list, k + 1) =
                    IF k + 1 \in Stale(list) THEN Struck(list, k) + 1 ELSE Struck(list, k)
           /\ Struck(list, Len(list)) = Cardinality(Stale(list))
<1> DEFINE n == Len(list)
           U(k) == Stale(list) \cap (1 .. k)
<1>1. Stale(list) \subseteq 1 .. n
  BY DEF Stale
<1>2. ASSUME NEW k \in Nat
      PROVE  IsFiniteSet(U(k)) /\ Cardinality(U(k)) \in Nat
  <2>1. IsFiniteSet(1 .. k)
    BY FS_Interval
  <2>2. IsFiniteSet(U(k))
    BY <2>1, FS_Subset
  <2>3. QED
    BY <2>2, FS_CardinalityType
<1>3. U(0) = {}
  OBVIOUS
<1>4. ASSUME NEW k \in 0 .. n - 1
      PROVE  Struck(list, k + 1) =
                IF k + 1 \in Stale(list) THEN Struck(list, k) + 1 ELSE Struck(list, k)
  <2>1. k \in Nat
    OBVIOUS
  <2>2. CASE k + 1 \in Stale(list)
    <3>1. U(k + 1) = U(k) \cup {k + 1} /\ k + 1 \notin U(k)
      BY <1>1, <2>2
    <3>2. Cardinality(U(k) \cup {k + 1}) = Cardinality(U(k)) + 1
      BY <1>2, <2>1, <3>1, FS_AddElement
    <3>3. QED
      BY <2>2, <3>1, <3>2 DEF Struck
  <2>3. CASE k + 1 \notin Stale(list)
    <3>1. U(k + 1) = U(k)
      BY <1>1, <2>3
    <3>2. QED
      BY <2>3, <3>1 DEF Struck
  <2>4. QED
    BY <2>2, <2>3
<1>5. U(n) = Stale(list)
  BY <1>1
<1>6. QED
  BY <1>2, <1>3, <1>4, <1>5, FS_EmptySet DEF Struck

(* Stale calls do not outnumber the positions they stand at.               *)
LEMMA StruckBounds ==
    ASSUME NEW list, Len(list) \in Nat, DOMAIN list = 1 .. Len(list),
           NEW k \in 0 .. Len(list), NEW i \in 0 .. k
    PROVE  Struck(list, i) <= Struck(list, k) /\ Struck(list, k) - Struck(list, i) <= k - i
<1> DEFINE n == Len(list)
           D(m) == Struck(list, m)
           S == {m \in Nat : D(i) <= D(m) /\ D(m) - D(i) <= m - i}
<1>1. /\ \A m \in Nat : D(m) \in Nat
      /\ \A m \in 0 .. n - 1 : D(m + 1) = IF m + 1 \in Stale(list) THEN D(m) + 1 ELSE D(m)
  BY StruckFacts
<1>2. i \in Nat /\ k \in Nat /\ i \in S
  <2>1. i \in Nat /\ k \in Nat
    OBVIOUS
  <2>2. D(i) \in Nat
    BY <1>1, <2>1
  <2>3. D(i) <= D(i) /\ D(i) - D(i) <= i - i
    BY <2>1, <2>2
  <2> HIDE DEF D
  <2>4. QED
    BY <2>1, <2>3
<1>3. ASSUME NEW m \in i .. k - 1, m \in S
      PROVE  m + 1 \in S
  <2>1. m \in Nat /\ m + 1 \in Nat /\ D(m) \in Nat /\ D(i) \in Nat
    <3>1. m \in Nat /\ m + 1 \in Nat
      OBVIOUS
    <3> HIDE DEF D
    <3>2. QED
      BY <1>1, <1>2, <3>1
  <2>2. D(m + 1) = D(m) + 1 \/ D(m + 1) = D(m)
    <3>1. m \in 0 .. n - 1
      OBVIOUS
    <3>2. QED
      BY <1>1, <3>1
  <2>3. QED
    BY <1>3, <2>1, <2>2
<1> HIDE DEF S
<1>4. \A m \in i .. k : m \in S
  BY <1>2, <1>3, IntervalInduction
<1>5. k \in S
  BY <1>4
<1>6. QED
  BY <1>5 DEF S

(* The list l with k calls examined: every call that is not stale, or not  *)
(* examined yet, has moved forward by the stale calls examined before it.  *)
Position(list, k, i) == i - Struck(list, IF i <= k THEN i ELSE k)

Examined(list, k, l) ==
    /\ Exact(l) /\ Len(l) = Len(list) - Struck(list, k)
    /\ \A i \in 1 .. Len(list) :
          i > k \/ i \notin Stale(list) =>
             /\ Position(list, k, i) \in 1 .. Len(l)
             /\ l[Position(list, k, i)].ob = list[i].ob
             /\ TimeLeft(l[Position(list, k, i)]) = TimeLeft(list[i])

LEMMA NothingExamined ==
    ASSUME NEW list, Exact(list)
    PROVE  Examined(list, 0, list)
<1>1. Len(list) \in Nat /\ DOMAIN list = 1 .. Len(list)
  BY CallFacts DEF Exact
<1>2. Struck(list, 0) = 0
  BY <1>1, StruckFacts
<1>3. \A i \in 1 .. Len(list) : Position(list, 0, i) = i
  BY <1>1, <1>2 DEF Position
<1>4. QED
  BY <1>1, <1>2, <1>3 DEF Examined

(* One round of the loop of remove_stale_call_outs().                      *)
LEMMA ExamineOne ==
    ASSUME NEW list, Exact(list), NEW k \in 1 .. Len(list),
           NEW l, Examined(list, k - 1, l)
    PROVE  /\ k \in Stale(list) =>
                 /\ Len(l) - (Len(list) - k) \in 1 .. Len(l)
                 /\ Examined(list, k, Unchained(l, Len(l) - (Len(list) - k)))
           /\ k \notin Stale(list) => Examined(list, k, l)
<1> DEFINE n == Len(list)
           h == k - 1
           p == Len(l) - (n - k)
           u == Unchained(l, p)
           D(m) == Struck(list, m)
<1>1. n \in Nat /\ DOMAIN list = 1 .. n /\ list \in Seq(Calls)
  BY CallFacts DEF Exact
<1>2. h \in 0 .. n - 1 /\ h + 1 = k /\ k \in Nat /\ h \in Nat
  BY <1>1
<1>3. /\ D(h) \in Nat /\ D(k) \in Nat
      /\ D(k) = IF k \in Stale(list) THEN D(h) + 1 ELSE D(h)
  BY <1>1, <1>2, StruckFacts
<1>4. Exact(l) /\ l \in Seq(Calls) /\ Len(l) = n - D(h) /\ Len(l) \in Nat
  BY CallFacts DEF Examined, Exact
<1>5. ASSUME NEW i \in 1 .. n, i > h \/ i \notin Stale(list)
      PROVE  /\ Position(list, h, i) \in 1 .. Len(l)
             /\ l[Position(list, h, i)].ob = list[i].ob
             /\ TimeLeft(l[Position(list, h, i)]) = TimeLeft(list[i])
  BY <1>5 DEF Examined
<1>6. Position(list, h, k) = p /\ p = k - D(h) /\ p \in 1 .. Len(l)
  <2>1. p = k - D(h)
    BY <1>1, <1>2, <1>3, <1>4
  <2>2. ~(k <= h) /\ k > h
    BY <1>2
  <2>3. Position(list, h, k) = k - D(h)
    BY <2>2 DEF Position
  <2>4. QED
    BY <1>5, <2>1, <2>2, <2>3
<1>7. ASSUME k \notin Stale(list)
      PROVE  Examined(list, k, l)
  <2>1. ASSUME NEW i \in 1 .. n, i > k \/ i \notin Stale(list)
        PROVE  /\ Position(list, k, i) = Position(list, h, i)
               /\ i > h \/ i \notin Stale(list)
    <3>1. CASE i = k
      BY <1>2, <1>3, <1>7, <3>1 DEF Position
    <3>2. CASE i > k
      BY <1>2, <1>3, <1>7, <3>2 DEF Position
    <3>3. CASE i < k
      BY <1>2, <2>1, <3>3 DEF Position
    <3>4. QED
      BY <1>2, <3>1, <3>2, <3>3
  <2>2. QED
    BY <1>3, <1>4, <1>5, <1>7, <2>1 DEF Examined
<1>8. ASSUME k \in Stale(list)
      PROVE  Examined(list, k, u)
  <2>1. Exact(u) /\ Len(u) = Len(l) - 1
    BY <1>4, <1>6, UnchainedKeeps
  <2>2. \A j \in 1 .. Len(l) - 1 :
           u[j] = IF j < p THEN l[j]
                  ELSE IF j = p THEN Retimed(l[p + 1], l[p + 1].delta + l[p].delta)
                  ELSE l[j + 1]
    BY <1>4, <1>6, UnchainedFacts
  <2>3. \A j \in 1 .. Len(l) : l[j] \in Calls /\ l[j].delta \in Int
    BY <1>4, CallFacts
  <2> HIDE DEF p, u
  <2>4. ASSUME NEW j \in 1 .. Len(l) - 1
        PROVE  LET q == IF j < p THEN j ELSE j + 1
               IN  u[j].ob = l[q].ob /\ TimeLeft(u[j]) = TimeLeft(l[q])
    <3>1. CASE j = p
      <4>1. p + 1 \in 1 .. Len(l)
        BY <1>4, <3>1
      <4>2. PICK b \in Calls, d \in Int : b = l[p + 1] /\ d = b.delta + l[p].delta
        <5>1. l[p + 1] \in Calls /\ l[p + 1].delta \in Int /\ l[p].delta \in Int
          BY <1>6, <2>3, <4>1
        <5>2. l[p + 1].delta + l[p].delta \in Int
          BY <5>1
        <5>3. QED
          BY <5>1, <5>2
      <4>3. u[j] = Retimed(b, d)
        BY <2>2, <3>1, <4>2
      <4>4. Retimed(b, d).ob = b.ob /\ TimeLeft(Retimed(b, d)) = TimeLeft(b)
        BY RetimedFacts
      <4>5. QED
        BY <3>1, <4>2, <4>3, <4>4
    <3>2. CASE j # p
      <4>1. u[j] = l[IF j < p THEN j ELSE j + 1]
        BY <2>2, <3>2
      <4>2. QED
        BY <4>1
    <3>3. QED
      BY <3>1, <3>2
  <2>5. ASSUME NEW i \in 1 .. n, i > k \/ i \notin Stale(list)
        PROVE  /\ Position(list, k, i) \in 1 .. Len(u)
               /\ u[Position(list, k, i)].ob = list[i].ob
               /\ TimeLeft(u[Position(list, k, i)]) = TimeLeft(list[i])
    <3> DEFINE q == Position(list, h, i)
               j == Position(list, k, i)
    <3>1. i > h \/ i \notin Stale(list)
      BY <1>2, <2>5
    <3>2. q \in 1 .. Len(l) /\ l[q].ob = list[i].ob /\ TimeLeft(l[q]) = TimeLeft(list[i])
      BY <1>5, <3>1
    <3>3. i # k
      BY <1>8, <2>5
    <3>4. CASE i > k
      <4>1. q = i - D(h) /\ j = i - D(k)
        BY <1>2, <3>4 DEF Position
      <4>2. j \in 1 .. Len(l) - 1 /\ q = j + 1 /\ ~(j < p)
        <5>1. D(k) = D(h) + 1 /\ D(h) \in Int /\ Len(l) \in Int /\ k \in Int
          BY <1>2, <1>3, <1>4, <1>8
        <5>2. q \in 1 .. Len(l) /\ p >= 1 /\ p = k - D(h)
          BY <1>4, <1>6, <3>2
        <5> HIDE DEF q, j, D
        <5>3. QED
          BY <3>4, <4>1, <5>1, <5>2
      <4>3. QED
        BY <1>4, <2>1, <2>4, <3>2, <4>2
    <3>5. CASE i < k
      <4>1. q = i - D(i) /\ j = i - D(i)
        BY <1>2, <3>5 DEF Position
      <4>2. D(h) - D(i) <= h - i /\ D(i) \in Nat
        <5>1. i \in 0 .. h /\ h \in 0 .. n /\ i \in Nat
          BY <1>1, <1>2, <3>5
        <5>2. QED
          BY <1>1, <5>1, StruckBounds, StruckFacts
      <4>3. j \in 1 .. Len(l) - 1 /\ q = j /\ j < p
        <5>1. /\ h \in Int /\ k \in Int /\ i \in Int /\ D(h) \in Int /\ D(i) \in Int
              /\ i <= h /\ h = k - 1 /\ p = k - D(h)
          BY <1>1, <1>2, <1>3, <1>4, <1>6, <3>5, <4>2
        <5>2. p <= Len(l) /\ p \in Int /\ Len(l) \in Int /\ q \in 1 .. Len(l)
          BY <1>4, <1>6, <3>2
        <5> HIDE DEF q, j, D
        <5>3. QED
          BY <4>1, <4>2, <5>1, <5>2
      <4>4. QED
        BY <1>4, <2>1, <2>4, <3>2, <4>3
    <3>6. QED
      BY <1>2, <3>3, <3>4, <3>5
  <2>6. Len(u) = n - D(k)
    BY <1>1, <1>3, <1>4, <1>8, <2>1
  <2>7. QED
    BY <2>1, <2>5, <2>6 DEF Examined
<1>9. QED
  BY <1>6, <1>7, <1>8

(* The walk is well-defined, and examines everything.                      *)
LEMMA WithoutStaleFacts ==
    ASSUME NEW list, Exact(list)
    PROVE  Examined(list, Len(list), WithoutStale(list))
<1> DEFINE n == Len(list)
           Round(i, l) == IF i \in Stale(list) THEN Unchained(l, Len(l) - (n - i)) ELSE l
           f == CHOOSE f : f = [i \in 0 .. n |-> IF i = 0 THEN list ELSE Round(i, f[i - 1])]
<1>1. n \in Nat /\ list \in Seq(Calls)
  BY CallFacts DEF Exact
<1>2. ASSUME NEW i \in 1 .. n, NEW l, Examined(list, i - 1, l)
      PROVE  /\ Examined(list, i, Round(i, l))
             /\ i \in Stale(list) => Len(l) - (n - i) \in 1 .. Len(l)
  BY <1>2, ExamineOne
<1>3. Examined(list, 0, list)
  BY NothingExamined
<1>4. \E g : g = [i \in 0 .. n |-> IF i = 0 THEN list ELSE Round(i, g[i - 1])]
  <2> DEFINE V == Seq(Calls)
             Guarded(i, l) == IF i \in Stale(list) /\ Len(l) - (n - i) \in 1 .. Len(l)
                              THEN Unchained(l, Len(l) - (n - i)) ELSE l
  <2>1. \A i \in 1 .. n, l \in V : Guarded(i, l) \in V
    <3> SUFFICES ASSUME NEW i \in 1 .. n, NEW l \in V PROVE Guarded(i, l) \in V
      OBVIOUS
    <3>1. CASE i \in Stale(list) /\ Len(l) - (n - i) \in 1 .. Len(l)
      <4>1. Unchained(l, Len(l) - (n - i)) \in V
        BY <3>1, UnchainedFacts
      <4>2. QED
        BY <3>1, <4>1
    <3>2. CASE ~(i \in Stale(list) /\ Len(l) - (n - i) \in 1 .. Len(l))
      BY <3>2
    <3>3. QED
      BY <3>1, <3>2
  <2>2. PICK F : F = [x \in (1 .. n) \X V |-> Guarded(x[1], x[2])]
    OBVIOUS
  <2> HIDE DEF Guarded, V
  <2>3. F \in [(1 .. n) \X V -> V]
    BY <2>1, <2>2
  <2>4. list \in V
    BY <1>1 DEF V
  <2>5. PICK g : g \in Recursion(n, V, list, F)
    <3> HIDE DEF n
    <3>1. QED
      BY <1>1, <2>3, <2>4, RecursionExists
  <2>6. /\ g \in [0 .. n -> V] /\ g[0] = list
        /\ \A i \in 1 .. n : g[i] = F[<<i, g[i - 1]>>]
    BY <2>5 DEF Recursion
  <2>7. ASSUME NEW i \in 1 .. n
        PROVE  g[i] = Guarded(i, g[i - 1])
    <3>1. i - 1 \in 0 .. n
      BY <1>1
    <3>2. g[i - 1] \in V
      BY <2>6, <3>1
    <3>3. QED
      BY <2>2, <2>6, <3>2
  <2> DEFINE S == {k \in Nat : Examined(list, k, g[k])}
  <2>8. ASSUME NEW i \in 1 .. n, i - 1 \in S
        PROVE  g[i] = Round(i, g[i - 1]) /\ i \in S
    <3>1. /\ Examined(list, i, Round(i, g[i - 1]))
          /\ i \in Stale(list) => Len(g[i - 1]) - (n - i) \in 1 .. Len(g[i - 1])
      BY <1>2, <2>8
    <3>2. g[i] = Round(i, g[i - 1])
      BY <2>7, <3>1 DEF Guarded
    <3> HIDE DEF Round
    <3>3. QED
      BY <1>1, <3>1, <3>2
  <2>9. \A k \in 0 .. n : k \in S
    <3>1. 0 \in S
      BY <1>3, <2>6
    <3>2. ASSUME NEW k \in 0 .. n - 1, k \in S
          PROVE  k + 1 \in S
      <4>1. k + 1 \in 1 .. n /\ k + 1 - 1 = k
        BY <1>1
      <4>2. QED
        BY <2>8, <3>2, <4>1
    <3> HIDE DEF S, n
    <3>3. QED
      BY <1>1, <3>1, <3>2, IntervalInduction
  <2>10. \A i \in 1 .. n : g[i] = Round(i, g[i - 1])
    <3> SUFFICES ASSUME NEW i \in 1 .. n PROVE g[i] = Round(i, g[i - 1])
      OBVIOUS
    <3>1. i - 1 \in 0 .. n
      BY <1>1
    <3>2. QED
      BY <2>8, <2>9, <3>1
  <2> HIDE DEF Round
  <2>11. g = [i \in 0 .. n |-> IF i = 0 THEN list ELSE Round(i, g[i - 1])]
    BY <1>1, <2>6, <2>10
  <2>12. QED
    BY <2>11
<1>5. WithoutStale(list) = f[n]
  BY DEF WithoutStale
<1> HIDE DEF Round
<1>6. f = [i \in 0 .. n |-> IF i = 0 THEN list ELSE Round(i, f[i - 1])]
  BY <1>4
<1> HIDE DEF f
<1>7. f[0] = list /\ \A i \in 1 .. n : f[i] = Round(i, f[i - 1])
  BY <1>1, <1>6
<1> DEFINE S == {k \in Nat : Examined(list, k, f[k])}
<1>8. 0 \in S
  BY <1>3, <1>7
<1>9. ASSUME NEW k \in 0 .. n - 1, k \in S
      PROVE  k + 1 \in S
  <2>1. k + 1 \in 1 .. n /\ k + 1 - 1 = k /\ k + 1 \in Nat
    BY <1>1
  <2>2. Examined(list, k + 1 - 1, f[k])
    BY <1>9, <2>1
  <2>3. Examined(list, k + 1, Round(k + 1, f[k]))
    BY <1>2, <2>1, <2>2
  <2>4. QED
    BY <1>7, <2>1, <2>3
<1>10. \A k \in 0 .. n : k \in S
  <2> HIDE DEF S, n
  <2>1. QED
    BY <1>1, <1>8, <1>9, IntervalInduction
<1>11. QED
  BY <1>1, <1>5, <1>10

-----------------------------------------------------------------------------
(* Seconds until call i is due, by the list, are those by its history.     *)
LEMMA DueInFacts ==
    ASSUME NEW list, Exact(list)
    PROVE  \A i \in 1 .. Len(list) : DueIn(list, i) = TimeLeft(list[i])
<1> DEFINE n == Len(list)
           e(i) == list[i].delta
           d == [i \in 1 .. n |-> e(i)]
           f == CHOOSE f : f = [i \in 0 .. n |-> IF i = 0 THEN 0 ELSE f[i - 1] + e(i)]
<1>1. /\ n \in Nat /\ d \in [1 .. n -> Int]
      /\ \A i \in 1 .. n : d[i] = e(i) /\ TimeLeft(list[i]) \in Int
  BY CallFacts DEF Exact
<1>2. \A i \in 0 .. n : DueIn(list, i) = f[i]
  BY DEF DueIn
<1> HIDE DEF e
<1>3. PICK g \in [0 .. n -> Int] : g[0] = 0 /\ \A i \in 1 .. n : g[i] = g[i - 1] + d[i]
  <2> HIDE DEF d, n
  <2>1. PICK z \in Int : z = 0
    OBVIOUS
  <2>2. QED
    BY <1>1, <2>1, RunningSumExists
<1>4. g = [i \in 0 .. n |-> IF i = 0 THEN 0 ELSE g[i - 1] + e(i)]
  <2> HIDE DEF d
  <2>1. QED
    BY <1>1, <1>3
<1>5. f = [i \in 0 .. n |-> IF i = 0 THEN 0 ELSE f[i - 1] + e(i)]
  BY <1>4
<1> HIDE DEF f
<1>6. f[0] = 0 /\ \A i \in 1 .. n : f[i] = f[i - 1] + e(i)
  BY <1>1, <1>5
<1>7. \A i \in 1 .. n :
         list[i].delta =
            TimeLeft(list[i]) - (IF i = 1 THEN 0 ELSE TimeLeft(list[i - 1]))
  BY DEF Exact, Steps
<1> USE DEF e
<1> DEFINE S == {i \in Nat : f[i] = TimeLeft(list[i])}
<1> SUFFICES ASSUME n >= 1 PROVE \A i \in 1 .. n : i \in S
  BY <1>1, <1>2
<1>8. 1 \in S
  <2>1. f[1] = 0 + list[1].delta /\ list[1].delta = TimeLeft(list[1])
    BY <1>1, <1>6, <1>7
  <2>2. QED
    BY <1>1, <2>1
<1>9. ASSUME NEW i \in 1 .. n - 1, i \in S
      PROVE  i + 1 \in S
  <2>1. i + 1 \in 1 .. n /\ i \in 1 .. n /\ i + 1 - 1 = i /\ i + 1 # 1 /\ i + 1 \in Nat
    BY <1>1
  <2>2. list[i + 1].delta = TimeLeft(list[i + 1]) - TimeLeft(list[i])
    BY <1>7, <2>1
  <2>3. f[i + 1] = TimeLeft(list[i]) + list[i + 1].delta
    BY <1>6, <1>9, <2>1
  <2>4. f[i + 1] = TimeLeft(list[i + 1])
    BY <1>1, <2>1, <2>2, <2>3
  <2>5. QED
    BY <2>1, <2>4
<1>10. QED
  <2> HIDE DEF S, n
  <2>1. QED
    BY <1>1, <1>8, <1>9, IntervalInduction

(* Nothing is due before the first call.                                   *)
LEMMA FirstIsNext ==
    ASSUME NEW list, Exact(list)
    PROVE  \A i \in 1 .. Len(list) : list[1].delta <= TimeLeft(list[i])
<1> DEFINE n == Len(list)
           S == {i \in Nat : list[1].delta <= TimeLeft(list[i])}
<1>1. /\ n \in Nat
      /\ \A i \in 1 .. n : list[i].delta \in Int /\ TimeLeft(list[i]) \in Int
  BY CallFacts DEF Exact
<1>2. /\ \A i \in 1 .. n : list[i].delta =
             TimeLeft(list[i]) - (IF i = 1 THEN 0 ELSE TimeLeft(list[i - 1]))
      /\ \A i \in 2 .. n : list[i].delta >= 0
  BY DEF Exact, Steps, Sorted
<1> SUFFICES ASSUME n >= 1 PROVE \A i \in 1 .. n : i \in S
  BY <1>1
<1>3. 1 \in S
  BY <1>1, <1>2
<1>4. ASSUME NEW i \in 1 .. n - 1, i \in S
      PROVE  i + 1 \in S
  <2>1. i + 1 \in 1 .. n /\ i \in 1 .. n /\ i + 1 \in 2 .. n /\ i + 1 - 1 = i /\ i + 1 # 1
    BY <1>1
  <2>2. list[i + 1].delta = TimeLeft(list[i + 1]) - TimeLeft(list[i]) /\ list[i + 1].delta >= 0
    BY <1>2, <2>1
  <2>3. TimeLeft(list[i]) <= TimeLeft(list[i + 1])
    BY <1>1, <2>1, <2>2
  <2>4. list[1].delta <= TimeLeft(list[i]) /\ list[1].delta \in Int
    BY <1>1, <1>4
  <2>5. QED
    BY <1>1, <2>1, <2>3, <2>4
<1>5. QED
  <2> HIDE DEF S, n
  <2>1. QED
    BY <1>1, <1>3, <1>4, IntervalInduction

-----------------------------------------------------------------------------
(* A user whose call has failed in this second is disabled, and is not the *)
(* user whose call runs.                                                   *)
Resting ==
    /\ \A u \in failed : u \in called /\ call_out_cost[u] < 0
    /\ pc = "run" => called_object \in Obj /\ Owner[called_object] \in called \ failed

OtherTypes ==
    /\ timed \in BOOLEAN /\ destructed \subseteq Obj /\ pc \in Places
    /\ called_object \in Obj \cup {NULL}
    /\ eval_cost \in 0 .. EvalLimit + 1
    /\ called \subseteq User /\ failed \subseteq User
    /\ call_out_cost \in [User -> -1 .. EvalLimit]

IInv == OtherTypes /\ Counted /\ Exact(call_list) /\ Resting

LEMMA InitIInv == Init => IInv
<1> SUFFICES ASSUME Init PROVE IInv
  OBVIOUS
<1> USE BoundsAssumption DEF Init
<1>1. OtherTypes
  <2>1. 0 \in 0 .. EvalLimit + 1 /\ 0 \in -1 .. EvalLimit
    OBVIOUS
  <2>2. QED
    BY <2>1 DEF OtherTypes, Places
<1>2. Counted
  BY DEF Counted
<1>3. Exact(call_list)
  BY DEF Exact, Steps, Sorted
<1>4. Resting
  BY DEF Resting
<1>5. QED
  BY <1>1, <1>2, <1>3, <1>4 DEF IInv

(* What the list owes to the operations on it.                             *)
LEMMA ListKept ==
    ASSUME IInv
    PROVE  /\ num_callouts = Len(call_list) /\ num_callouts \in Nat /\ num_callouts <= max_callouts
           /\ \A ob \in Obj, delay \in Nat :
                 /\ Exact(NewCall(call_list, ob, delay))
                 /\ Len(NewCall(call_list, ob, delay)) = num_callouts + 1
           /\ \A i \in DOMAIN call_list :
                 /\ i \in 1 .. num_callouts
                 /\ Exact(Unchained(call_list, i))
                 /\ Len(Unchained(call_list, i)) = num_callouts - 1
           /\ SomethingDue => First \in Obj /\ 1 \in DOMAIN call_list
<1>1. /\ Exact(call_list) /\ num_callouts = Len(call_list) /\ num_callouts <= max_callouts
      /\ call_list \in Seq(Calls)
  BY DEF IInv, Counted, Exact
<1>2. /\ Len(call_list) \in Nat /\ DOMAIN call_list = 1 .. Len(call_list)
      /\ \A i \in 1 .. Len(call_list) : call_list[i].ob \in Obj
  BY <1>1, CallFacts
<1>3. SomethingDue => First \in Obj /\ 1 \in DOMAIN call_list
  <2> SUFFICES ASSUME SomethingDue PROVE 1 \in 1 .. Len(call_list)
    BY <1>2 DEF First
  <2>1. call_list # << >>
    BY DEF SomethingDue
  <2>2. QED
    BY <1>1, <1>2, <2>1, EmptySeq
<1>4. QED
  BY <1>1, <1>2, <1>3, NewCallKeeps, UnchainedKeeps

(* The first cycle of the driver loses the time, all others tick: the      *)
(* first delta stands for all of them.                                     *)
LEMMA TickKeeps ==
    ASSUME Exact(call_list), NEW d \in Nat, StartCycle(d)
    PROVE  /\ Exact(call_list') /\ Len(call_list') = Len(call_list)
           /\ \A i \in 1 .. Len(call_list) :
                 /\ call_list'[i].ob = call_list[i].ob
                 /\ TimeLeft(call_list'[i]) =
                       IF timed THEN TimeLeft(call_list[i]) - d ELSE TimeLeft(call_list[i])
<1> DEFINE n == Len(call_list)
           e(i) == IF timed /\ i = 1 THEN d ELSE 0
           t == IF timed THEN 0 ELSE d
<1>1. /\ n \in Nat /\ DOMAIN call_list = 1 .. n
      /\ \A i \in 1 .. n : /\ call_list[i] \in Calls
                           /\ call_list[i].delta \in Int /\ TimeLeft(call_list[i]) \in Int
  BY CallFacts DEF Exact
<1>2. call_list' = [i \in 1 .. n |-> [call_list[i] EXCEPT
                       !.wait = @ - d,
                       !.lost = IF timed THEN @ ELSE @ + d,
                       !.delta = IF timed /\ i = 1 THEN @ - d ELSE @]]
  BY <1>1 DEF StartCycle
<1>3. ASSUME NEW i \in 1 .. n
      PROVE  /\ call_list'[i] \in Calls /\ call_list'[i].ob = call_list[i].ob
             /\ call_list'[i].delta = call_list[i].delta - e(i)
             /\ TimeLeft(call_list'[i]) = TimeLeft(call_list[i]) + t - d
  <2> DEFINE c == call_list[i]
             k == call_list'[i]
  <2>1. /\ c = [ob |-> c.ob, delta |-> c.delta, wait |-> c.wait,
                 skew |-> c.skew, lost |-> c.lost]
        /\ c.ob \in Obj /\ c.delta \in Int /\ c.wait \in Int /\ c.skew \in Nat /\ c.lost \in Nat
    BY <1>1 DEF Calls
  <2>2. k = [c EXCEPT !.wait = @ - d,
                      !.lost = IF timed THEN @ ELSE @ + d,
                      !.delta = IF timed /\ i = 1 THEN @ - d ELSE @]
    BY <1>2
  <2> HIDE DEF c, k
  <2>3. k = [ob |-> c.ob, delta |-> IF timed /\ i = 1 THEN c.delta - d ELSE c.delta,
             wait |-> c.wait - d, skew |-> c.skew,
             lost |-> IF timed THEN c.lost ELSE c.lost + d]
    BY <2>1, <2>2
  <2>4. /\ k.ob = c.ob /\ k.delta = c.delta - e(i) /\ k.wait = c.wait - d
        /\ k.skew = c.skew /\ k.lost = c.lost + t
    BY <2>1, <2>3
  <2>5. k \in Calls
    BY <2>1, <2>3 DEF Calls
  <2>6. TimeLeft(k) = TimeLeft(c) + t - d
    BY <2>1, <2>4 DEF TimeLeft
  <2>7. QED
    BY <2>4, <2>5, <2>6 DEF c, k
<1>4. call_list' \in Seq(Calls) /\ Len(call_list') = n
  <2>1. call_list' = [i \in 1 .. n |-> call_list'[i]]
    BY <1>2
  <2>2. QED
    BY <1>1, <1>3, <2>1, IsASeq
<1>5. /\ \A i \in 1 .. n : call_list[i].delta =
             TimeLeft(call_list[i]) - (IF i = 1 THEN 0 ELSE TimeLeft(call_list[i - 1]))
      /\ \A i \in 2 .. n : call_list[i].delta >= 0
  BY DEF Exact, Steps, Sorted
<1>6. Sorted(call_list')
  <2>1. ASSUME NEW i \in 2 .. n
        PROVE  call_list'[i].delta >= 0
    BY <1>1, <1>3, <1>5
  <2>2. QED
    BY <1>4, <2>1 DEF Sorted
<1>7. Steps(call_list')
  <2>1. ASSUME NEW i \in 1 .. n
        PROVE  call_list'[i].delta =
                  TimeLeft(call_list'[i]) - (IF i = 1 THEN 0 ELSE TimeLeft(call_list'[i - 1]))
    <3>1. CASE i = 1
      <4>1. call_list[i].delta = TimeLeft(call_list[i])
        BY <1>1, <1>5, <3>1
      <4>2. (e(i) = d /\ t = 0) \/ (e(i) = 0 /\ t = d)
        BY <3>1
      <4>3. QED
        BY <1>1, <1>3, <3>1, <4>1, <4>2
    <3>2. CASE i # 1
      <4>1. i - 1 \in 1 .. n /\ e(i) = 0
        BY <1>1, <3>2
      <4>2. /\ call_list'[i].delta = call_list[i].delta
            /\ TimeLeft(call_list'[i]) = TimeLeft(call_list[i]) + t - d
            /\ TimeLeft(call_list'[i - 1]) = TimeLeft(call_list[i - 1]) + t - d
        BY <1>1, <1>3, <4>1
      <4>3. call_list[i].delta = TimeLeft(call_list[i]) - TimeLeft(call_list[i - 1])
        BY <1>5, <3>2
      <4>4. TimeLeft(call_list[i]) \in Int /\ TimeLeft(call_list[i - 1]) \in Int /\ t \in Int
        BY <1>1, <4>1
      <4>5. QED
        BY <3>2, <4>2, <4>3, <4>4
    <3>3. QED
      BY <3>1, <3>2
  <2>2. QED
    BY <1>4, <2>1 DEF Steps
<1>8. QED
  BY <1>1, <1>3, <1>4, <1>6, <1>7 DEF Exact

(* What remove_stale_call_outs() leaves.                                   *)
LEMMA PurgeKeeps ==
    ASSUME IInv
    PROVE  /\ Exact(WithoutStale(call_list))
           /\ Cardinality(Stale(call_list)) \in Nat
           /\ Len(WithoutStale(call_list)) = num_callouts - Cardinality(Stale(call_list))
<1>1. Exact(call_list) /\ Len(call_list) = num_callouts
  BY DEF IInv, Counted
<1>2. Examined(call_list, Len(call_list), WithoutStale(call_list))
  BY <1>1, WithoutStaleFacts
<1>3. Len(call_list) \in Nat /\ DOMAIN call_list = 1 .. Len(call_list)
  BY <1>1, CallFacts DEF Exact
<1>4. /\ Struck(call_list, Len(call_list)) \in Nat
      /\ Struck(call_list, Len(call_list)) = Cardinality(Stale(call_list))
  BY <1>3, StruckFacts
<1>5. QED
  BY <1>1, <1>2, <1>4 DEF Examined

LEMMA NextIInv == IInv /\ [Next]_vars => IInv'
<1> SUFFICES ASSUME IInv, [Next]_vars PROVE IInv'
  OBVIOUS
<1> USE NullAssumption, OwnerAssumption, BoundsAssumption
<1>1. OtherTypes /\ Exact(call_list) /\ Resting /\ Counted
  BY DEF IInv
<1>2. /\ num_callouts = Len(call_list) /\ num_callouts \in Nat /\ num_callouts <= max_callouts
      /\ \A ob \in Obj, delay \in Nat :
            /\ Exact(NewCall(call_list, ob, delay))
            /\ Len(NewCall(call_list, ob, delay)) = num_callouts + 1
      /\ \A i \in DOMAIN call_list :
            /\ i \in 1 .. num_callouts
            /\ Exact(Unchained(call_list, i))
            /\ Len(Unchained(call_list, i)) = num_callouts - 1
      /\ SomethingDue => First \in Obj /\ 1 \in DOMAIN call_list
  BY ListKept
<1>3. ASSUME PaysForEfun, pc' = pc, called_object' = called_object, UNCHANGED uservars,
             timed' = timed, destructed' \subseteq Obj
      PROVE  OtherTypes' /\ Resting'
  <2>1. eval_cost' \in 0 .. EvalLimit + 1
    BY <1>1, <1>3 DEF OtherTypes, PaysForEfun
  <2>2. QED
    BY <1>1, <1>3, <2>1 DEF OtherTypes, Resting, uservars
<1>4. ASSUME UNCHANGED listvars
      PROVE  Exact(call_list') /\ Counted'
  BY <1>1, <1>4 DEF listvars, Counted
<1>5. CASE UNCHANGED vars
  BY <1>1, <1>4, <1>5 DEF vars, uservars, OtherTypes, Resting, IInv
<1>6. ASSUME NEW ob \in Obj, NEW delay \in 0 .. MaxDelay, v_call_out(ob, delay)
      PROVE  IInv'
  <2>1. OtherTypes' /\ Resting'
    BY <1>1, <1>3, <1>6 DEF v_call_out, OtherTypes
  <2>2. Exact(call_list') /\ Counted'
    <3>1. /\ call_list' = NewCall(call_list, ob, delay) /\ num_callouts' = num_callouts + 1
          /\ num_callouts < max_callouts /\ delay \in Nat
      BY <1>6 DEF v_call_out
    <3>2. QED
      BY <1>2, <3>1 DEF Counted
  <2>3. QED
    BY <2>1, <2>2 DEF IInv
<1>7. ASSUME NEW i \in DOMAIN call_list, remove_call_out(i)
      PROVE  IInv'
  <2>1. OtherTypes' /\ Resting'
    BY <1>1, <1>3, <1>7 DEF remove_call_out, OtherTypes
  <2>2. Exact(call_list') /\ Counted'
    <3>1. call_list' = Unchained(call_list, i) /\ num_callouts' = num_callouts - 1
      BY <1>7 DEF remove_call_out
    <3>2. QED
      BY <1>2, <3>1 DEF Counted
  <2>3. QED
    BY <2>1, <2>2 DEF IInv
<1>8. CASE remove_stale_call_outs
  <2>1. OtherTypes' /\ Resting'
    BY <1>1, <1>3, <1>8 DEF remove_stale_call_outs, OtherTypes
  <2>2. Exact(call_list') /\ Counted'
    <3>1. /\ call_list' = WithoutStale(call_list)
          /\ num_callouts' = num_callouts - Cardinality(Stale(call_list))
      BY <1>8 DEF remove_stale_call_outs
    <3>2. QED
      BY <1>2, <3>1, PurgeKeeps DEF Counted
  <2>3. QED
    BY <2>1, <2>2 DEF IInv
<1>9. ASSUME NEW ob \in Obj, Destruct(ob)
      PROVE  IInv'
  <2>1. OtherTypes' /\ Resting'
    BY <1>1, <1>3, <1>9 DEF Destruct, OtherTypes
  <2>2. QED
    BY <1>4, <1>9, <2>1 DEF Destruct, IInv
<1>10. ASSUME NEW d \in 0 .. MaxStep, StartCycle(d)
       PROVE  IInv'
  <2>1. OtherTypes' /\ Resting'
    BY <1>1, <1>10 DEF StartCycle, OtherTypes, Resting, Places
  <2>2. Exact(call_list') /\ Len(call_list') = Len(call_list)
    BY <1>1, <1>10, TickKeeps
  <2>3. Counted'
    BY <1>1, <1>10, <2>2 DEF StartCycle, Counted
  <2>4. QED
    BY <2>1, <2>2, <2>3 DEF IInv
<1>11. CASE StartPass \/ EndPass
  BY <1>1, <1>4, <1>11
     DEF StartPass, EndPass, uservars, OtherTypes, Resting, Places, IInv
<1>12. CASE Discard
  <2>1. OtherTypes' /\ Resting'
    BY <1>1, <1>12 DEF Discard, uservars, OtherTypes, Resting
  <2>2. Exact(call_list') /\ Counted'
    BY <1>2, <1>12 DEF Discard, Popped, Counted
  <2>3. QED
    BY <2>1, <2>2 DEF IInv
<1>13. CASE Reschedule
  <2>1. OtherTypes' /\ Resting'
    BY <1>1, <1>13 DEF Reschedule, uservars, OtherTypes, Resting
  <2>2. /\ First \in Obj /\ Exact(Popped) /\ Len(Popped) = num_callouts - 1
        /\ call_list' = NewCall(Popped, First, 1) /\ num_callouts' = num_callouts
    BY <1>2, <1>13 DEF Reschedule, Popped
  <2>3. Exact(call_list') /\ Len(call_list') = num_callouts - 1 + 1
    BY <2>2, NewCallKeeps
  <2>4. Counted'
    BY <1>2, <2>2, <2>3 DEF Counted
  <2>5. QED
    BY <2>1, <2>3, <2>4 DEF IInv
<1>14. CASE Call
  <2>1. First \in Obj /\ Owner[First] \in User
    BY <1>2, <1>14 DEF Call
  <2>2. call_out_cost[Owner[First]] \in -1 .. EvalLimit
    BY <1>1, <2>1 DEF OtherTypes
  <2>3. eval_cost' \in 0 .. EvalLimit + 1
    BY <1>14, <2>2 DEF Call, Disabled
  <2>4. OtherTypes'
    BY <1>1, <1>14, <2>1, <2>3 DEF Call, OtherTypes, Places
  <2>5. Owner[First] \notin failed
    BY <1>1, <1>14 DEF Call, Disabled, Resting
  <2>6. Resting'
    BY <1>1, <1>14, <2>1, <2>5 DEF Call, Resting
  <2>7. Exact(call_list') /\ Counted'
    BY <1>2, <1>14 DEF Call, Popped, Counted
  <2>8. QED
    BY <2>4, <2>6, <2>7 DEF IInv
<1>15. CASE Return
  <2>1. called_object \in Obj /\ Owner[called_object] \in called \ failed
    BY <1>1, <1>15 DEF Return, Resting
  <2>2. eval_cost \in -1 .. EvalLimit
    BY <1>1, <1>15 DEF Return, OtherTypes
  <2>3. OtherTypes'
    BY <1>1, <1>15, <2>2 DEF Return, OtherTypes, Places
  <2>4. Resting'
    BY <1>1, <1>15, <2>1 DEF Return, Resting, OtherTypes
  <2>5. QED
    BY <1>4, <1>15, <2>3, <2>4 DEF Return, IInv
<1>16. CASE CallbackError
  <2>1. called_object \in Obj /\ Owner[called_object] \in called \ failed
    BY <1>1, <1>16 DEF CallbackError, Resting
  <2>2. -1 \in -1 .. EvalLimit
    OBVIOUS
  <2>3. OtherTypes'
    BY <1>1, <1>16, <2>1, <2>2 DEF CallbackError, OtherTypes, Places
  <2>4. Resting'
    BY <1>1, <1>16, <2>1 DEF CallbackError, Resting, OtherTypes
  <2>5. QED
    BY <1>4, <1>16, <2>3, <2>4 DEF CallbackError, IInv
<1>17. QED
  BY <1>5, <1>6, <1>7, <1>8, <1>9, <1>10, <1>11, <1>12, <1>13, <1>14, <1>15, <1>16 DEF Next

-----------------------------------------------------------------------------
(* The inductive invariant: the list is exact, the counter counts it, and  *)
(* who has failed rests.                                                   *)
THEOREM Invariance == Spec => []IInv
<1>1. QED
  BY InitIInv, NextIInv, PTL DEF Spec

(* Every variable of the call_outs keeps its type: deltas, counters and    *)
(* evaluation costs stay in their ranges.                                  *)
THEOREM TypeCorrectness == Spec => []TypeOK
<1>1. IInv => TypeOK
  BY ListKept DEF IInv, OtherTypes, TypeOK, Exact
<1>2. QED
  BY <1>1, Invariance, PTL

(* The list is what insert_call(), call_out() and find_call_out() take it  *)
(* for, whatever calls are asked for, withdrawn and made in whatever       *)
(* order: the counter counts it and stays within the limit, only the first *)
(* call can be overdue, and the deltas before a call add up to its time.   *)
THEOREM ListIsExact == Spec => []QueueExact
<1>1. ASSUME IInv
      PROVE  QueueExact
  <2>1. /\ Exact(call_list) /\ Len(call_list) \in Nat
        /\ DOMAIN call_list = 1 .. Len(call_list)
    BY <1>1, CallFacts DEF IInv, Exact
  <2>2. OnlyFirstOverdue
    BY <2>1 DEF Exact, Sorted, OnlyFirstOverdue
  <2>3. DeltasKeepTime
    BY <2>1, DueInFacts DEF DeltasKeepTime, TimeLeft
  <2>4. QED
    BY <1>1, <2>2, <2>3 DEF IInv, QueueExact
<1>2. QED
  BY <1>1, Invariance, PTL

(* When call_out() ends its pass, every call that is still in the list is  *)
(* due later.                                                              *)
THEOREM PassIsComplete == Spec => NothingLeftBehind
<1>1. ASSUME IInv, EndPass
      PROVE  \A i \in DOMAIN call_list : call_list[i].wait + call_list[i].lost > 0
  <2> SUFFICES ASSUME NEW i \in DOMAIN call_list
               PROVE  call_list[i].wait + call_list[i].lost > 0
    OBVIOUS
  <2>1. /\ Exact(call_list) /\ call_list \in Seq(Calls)
        /\ Len(call_list) \in Nat /\ DOMAIN call_list = 1 .. Len(call_list)
    BY <1>1, CallFacts DEF IInv, Exact
  <2>2. i \in 1 .. Len(call_list) /\ 1 \in 1 .. Len(call_list) /\ call_list # << >>
    BY <2>1
  <2>3. call_list[1].delta > 0 /\ call_list[1].delta \in Int
    BY <1>1, <2>1, <2>2, CallFacts DEF EndPass, SomethingDue
  <2>4. call_list[1].delta <= TimeLeft(call_list[i])
    BY <2>1, <2>2, FirstIsNext
  <2>5. /\ TimeLeft(call_list[i]) \in Int
        /\ TimeLeft(call_list[i]) <= call_list[i].wait + call_list[i].lost
        /\ call_list[i] \in Calls
    BY <2>1, <2>2, CallFacts
  <2>6. QED
    BY <2>3, <2>4, <2>5 DEF Calls
<1>2. QED
  BY <1>1, Invariance, PTL DEF NothingLeftBehind

(* Once a call of a user has failed, none of that user's calls is made     *)
(* until the clock has moved: neither what the other calls of the pass     *)
(* return nor what they cost enables the user again.                       *)
THEOREM FailureDisables == Spec => FailedUserRests
<1>1. ASSUME IInv, Call
      PROVE  Owner[First] \notin failed
  BY <1>1 DEF IInv, Resting, Call, Disabled
<1>2. QED
  BY <1>1, Invariance, PTL DEF FailedUserRests

-----------------------------------------------------------------------------
(* ----- The queue of due times ------------------------------------------ *)
Slots == [ob : Obj, at : Int]

Slot(c) == [ob |-> c.ob, at |-> TimeLeft(c)]

Timed(list) == [i \in 1 .. Len(list) |-> Slot(list[i])]

LEMMA TimedFacts ==
    ASSUME NEW list, Exact(list)
    PROVE  /\ Timed(list) \in Seq(Slots) /\ Len(Timed(list)) = Len(list) /\ Len(list) \in Nat
           /\ \A i \in 1 .. Len(list) : /\ Timed(list)[i] = Slot(list[i])
                                        /\ Timed(list)[i].at = TimeLeft(list[i])
                                        /\ Timed(list)[i].ob = list[i].ob
                                        /\ Timed(list)[i] \in Slots
<1>1. /\ Len(list) \in Nat
      /\ \A i \in 1 .. Len(list) : list[i].ob \in Obj /\ TimeLeft(list[i]) \in Int
  BY CallFacts DEF Exact
<1>2. \A i \in 1 .. Len(list) : Slot(list[i]) \in Slots
  BY <1>1 DEF Slot, Slots
<1>3. Timed(list) \in [1 .. Len(list) -> Slots]
  BY <1>2 DEF Timed
<1>4. Timed(list) \in Seq(Slots) /\ Len(Timed(list)) = Len(list)
  BY <1>1, <1>2, IsASeq DEF Timed
<1>5. QED
  BY <1>1, <1>2, <1>4 DEF Timed, Slot

(* Two sequences are equal if they are so position by position.            *)
LEMMA SameSlots ==
    ASSUME NEW s \in Seq(Slots), NEW t \in Seq(Slots), Len(s) = Len(t),
           \A i \in 1 .. Len(s) : s[i] = t[i]
    PROVE  s = t
BY SeqEqual

(* The list is that queue, its deltas added up.                            *)
LEMMA ListIsTimed ==
    ASSUME NEW list, Exact(list)
    PROVE  [i \in DOMAIN list |-> [ob |-> list[i].ob, at |-> DueIn(list, i)]] = Timed(list)
<1>1. DOMAIN list = 1 .. Len(list)
  BY CallFacts DEF Exact
<1>2. \A i \in 1 .. Len(list) : DueIn(list, i) = TimeLeft(list[i])
  BY DueInFacts
<1>3. QED
  BY <1>1, <1>2 DEF Timed, Slot

(* A call that leaves leaves the queue.                                    *)
LEMMA UnchainedTimed ==
    ASSUME NEW list, Exact(list), NEW i \in 1 .. Len(list)
    PROVE  Timed(Unchained(list, i)) = RemoveAt(Timed(list), i)
<1> DEFINE n == Len(list)
           u == Unchained(list, i)
           r == RemoveAt(Timed(list), i)
<1>1. /\ n \in Nat /\ list \in Seq(Calls)
      /\ \A j \in 1 .. n : list[j] \in Calls /\ list[j].delta \in Int
  BY CallFacts DEF Exact
<1>2. /\ Exact(u) /\ Len(u) = n - 1
      /\ \A j \in 1 .. n - 1 :
            u[j] = IF j < i THEN list[j]
                   ELSE IF j = i THEN Retimed(list[i + 1], list[i + 1].delta + list[i].delta)
                   ELSE list[j + 1]
  BY <1>1, UnchainedKeeps, UnchainedFacts
<1>3. /\ Timed(list) \in Seq(Slots) /\ Len(Timed(list)) = n
      /\ \A j \in 1 .. n : Timed(list)[j] = Slot(list[j])
  BY TimedFacts
<1>4. /\ r \in Seq(Slots) /\ Len(r) = n - 1
      /\ \A j \in 1 .. n - 1 : r[j] = IF j < i THEN Timed(list)[j] ELSE Timed(list)[j + 1]
  <2>1. i \in 1 .. Len(Timed(list))
    BY <1>3
  <2>2. /\ r \in Seq(Slots) /\ Len(r) = Len(Timed(list)) - 1
        /\ \A j \in 1 .. Len(Timed(list)) - 1 :
              r[j] = IF j < i THEN Timed(list)[j] ELSE Timed(list)[j + 1]
    BY <1>3, <2>1, RemoveAtFacts
  <2> HIDE DEF r
  <2>3. QED
    BY <1>3, <2>2
<1>5. /\ Timed(u) \in Seq(Slots) /\ Len(Timed(u)) = n - 1
      /\ \A j \in 1 .. n - 1 : Timed(u)[j] = Slot(u[j])
  BY <1>2, TimedFacts
<1> HIDE DEF r, u
<1>6. ASSUME NEW j \in 1 .. n - 1
      PROVE  Timed(u)[j] = r[j]
  <2>1. j \in 1 .. n /\ j + 1 \in 1 .. n
    BY <1>1
  <2>2. CASE j = i
    <3>1. PICK b \in Calls, d \in Int : b = list[i + 1] /\ d = b.delta + list[i].delta
      BY <1>1, <2>1, <2>2
    <3>2. u[j] = Retimed(b, d)
      BY <1>2, <2>2, <3>1
    <3>3. Retimed(b, d).ob = b.ob /\ TimeLeft(Retimed(b, d)) = TimeLeft(b)
      BY RetimedFacts
    <3>4. Slot(u[j]) = Slot(list[j + 1])
      BY <2>2, <3>1, <3>2, <3>3 DEF Slot
    <3>5. QED
      BY <1>3, <1>4, <1>5, <2>1, <2>2, <3>4
  <2>3. CASE j # i
    BY <1>2, <1>3, <1>4, <1>5, <2>1, <2>3
  <2>4. QED
    BY <2>2, <2>3
<1>7. QED
  BY <1>4, <1>5, <1>6, SameSlots DEF r, u

(* A new call stands where its time puts it, counted from the time of an   *)
(* overdue head.                                                           *)
LEMMA NewCallTimed ==
    ASSUME NEW list, Exact(list), NEW ob \in Obj, NEW delay \in Nat
    PROVE  Timed(NewCall(list, ob, delay)) = Queue!Queued(Timed(list), ob, delay)
<1> DEFINE n == Len(list)
           q == Timed(list)
           i == Spot(list, delay)
           left == Left(list, delay, i)
           c == [ob |-> ob, delta |-> left, wait |-> delay,
                 skew |-> Overdue(list), lost |-> 0]
           new == NewCall(list, ob, delay)
           at == Queue!Given(q, delay)
<1>1. /\ n \in Nat /\ list \in Seq(Calls) /\ delay \in Int
      /\ \A j \in 1 .. n : list[j] \in Calls /\ list[j].delta \in Int /\ TimeLeft(list[j]) \in Int
  BY CallFacts DEF Exact
<1>2. /\ q \in Seq(Slots) /\ Len(q) = n
      /\ \A j \in 1 .. n : q[j] = Slot(list[j]) /\ q[j].at = TimeLeft(list[j])
  BY TimedFacts
<1>3. /\ \A j \in 1 .. n : list[j].delta =
             TimeLeft(list[j]) - (IF j = 1 THEN 0 ELSE TimeLeft(list[j - 1]))
      /\ \A j \in 2 .. n : list[j].delta >= 0
  BY DEF Exact, Steps, Sorted
<1>4. n >= 1 => list[1].delta = TimeLeft(list[1]) /\ list[1].delta \in Int
  BY <1>1, <1>3
<1>5. /\ Overdue(list) \in Nat
      /\ Overdue(list) = IF n >= 1 /\ list[1].delta < 0 THEN - list[1].delta ELSE 0
  <2>1. list # << >> <=> n >= 1
    BY <1>1, EmptySeq
  <2>2. QED
    BY <1>4, <2>1 DEF Overdue
<1>6. at = delay - Overdue(list) /\ at \in Int
  <2>1. q # << >> <=> n >= 1
    BY <1>1, <1>2, EmptySeq
  <2>2. n >= 1 => q[1].at = list[1].delta
    BY <1>1, <1>2, <1>4
  <2> HIDE DEF q
  <2>3. QED
    BY <1>1, <1>4, <1>5, <2>1, <2>2 DEF Queue!Given
<1>7. \A j \in 1 .. n : list[j].delta > Left(list, delay, j) <=> q[j].at > at
  <2> SUFFICES ASSUME NEW j \in 1 .. n
               PROVE  list[j].delta > Left(list, delay, j) <=> TimeLeft(list[j]) > delay - Overdue(list)
    BY <1>2, <1>6
  <2>1. CASE j = 1
    <3>1. Left(list, delay, 1) = delay
      BY <1>1, LeftFacts
    <3>2. QED
      BY <1>1, <1>4, <1>5, <2>1, <3>1
  <2>2. CASE j # 1
    <3>1. j \in 2 .. n + 1 /\ j - 1 \in 1 .. n
      BY <1>1, <2>2
    <3>2. Left(list, delay, j) = delay - Overdue(list) - TimeLeft(list[j - 1])
      BY <1>1, <3>1, LeftIsStep
    <3>3. list[j].delta = TimeLeft(list[j]) - TimeLeft(list[j - 1])
      BY <1>3, <2>2
    <3>4. TimeLeft(list[j]) \in Int /\ TimeLeft(list[j - 1]) \in Int
      BY <1>1, <3>1
    <3>5. Overdue(list) \in Int /\ delay \in Int
      BY <1>1, <1>5
    <3>6. QED
      BY <3>2, <3>3, <3>4, <3>5
  <2>3. QED
    BY <2>1, <2>2
<1>8. i = Queue!Place(q, at)
  <2> HIDE DEF q, at
  <2>1. {j \in 1 .. n + 1 : j > n \/ list[j].delta > Left(list, delay, j)}
        = {j \in 1 .. n + 1 : j > n \/ q[j].at > at}
    BY <1>1, <1>7
  <2>2. QED
    BY <1>2, <2>1 DEF Spot, Queue!Place, Min, Queue!Min
<1>9. i \in 1 .. n + 1 /\ left \in Int
  <2>1. i \in 1 .. n + 1
    BY <1>1, SpotFacts
  <2>2. QED
    BY <1>1, <2>1, LeftFacts
<1>10. Slot(c) = [ob |-> ob, at |-> at] /\ Slot(c) \in Slots
  BY <1>1, <1>5, <1>6 DEF Slot, TimeLeft, Slots
<1> DEFINE r == InsertAt(q, i, Slot(c))
<1>11. Queue!Queued(q, ob, delay) = r
  <2>1. Queue!Queued(q, ob, delay) =
           InsertAt(q, Queue!Place(q, at), [ob |-> ob, at |-> at])
    BY DEF Queue!Queued, Queue!InsertAt, InsertAt
  <2> HIDE DEF q, i, c, at
  <2>2. QED
    BY <1>8, <1>10, <2>1
<1>12. /\ r \in Seq(Slots) /\ Len(r) = n + 1
       /\ \A j \in 1 .. n + 1 : r[j] = IF j < i THEN q[j] ELSE IF j = i THEN Slot(c) ELSE q[j - 1]
  <2> HIDE DEF i, c, q
  <2>1. i \in 1 .. Len(q) + 1
    BY <1>2, <1>9
  <2>2. PICK slot \in Slots : slot = Slot(c)
    BY <1>10
  <2>3. /\ InsertAt(q, i, slot) \in Seq(Slots) /\ Len(InsertAt(q, i, slot)) = Len(q) + 1
        /\ \A j \in 1 .. Len(q) + 1 :
              InsertAt(q, i, slot)[j] = IF j < i THEN q[j] ELSE IF j = i THEN slot ELSE q[j - 1]
    BY <1>2, <2>1, InsertAtFacts
  <2>4. QED
    BY <1>2, <2>2, <2>3
<1>13. /\ Exact(new) /\ Len(new) = n + 1
       /\ \A j \in 1 .. n + 1 :
             new[j] = IF j < i THEN list[j] ELSE IF j = i THEN c
                      ELSE IF j = i + 1 THEN Retimed(list[i], list[i].delta - left)
                      ELSE list[j - 1]
  BY <1>1, NewCallKeeps, NewCallFacts
<1>14. /\ Timed(new) \in Seq(Slots) /\ Len(Timed(new)) = n + 1
       /\ \A j \in 1 .. n + 1 : Timed(new)[j] = Slot(new[j])
  BY <1>13, TimedFacts
<1> HIDE DEF i, left, c, q, r, new, at
<1>15. ASSUME NEW j \in 1 .. n + 1
       PROVE  Timed(new)[j] = r[j]
  <2>1. CASE j < i
    <3>1. j \in 1 .. n
      BY <1>1, <1>9, <2>1
    <3>2. QED
      BY <1>2, <1>12, <1>13, <1>14, <2>1, <3>1
  <2>2. CASE j = i
    BY <1>12, <1>13, <1>14, <2>2
  <2>3. CASE j = i + 1
    <3>1. i \in 1 .. n /\ j - 1 = i /\ ~(j < i) /\ j # i
      BY <1>1, <1>9, <2>3
    <3>2. PICK b \in Calls, d \in Int : b = list[i] /\ d = b.delta - left
      BY <1>1, <1>9, <3>1
    <3>3. new[j] = Retimed(b, d)
      BY <1>13, <2>3, <3>1, <3>2
    <3>4. Retimed(b, d).ob = b.ob /\ TimeLeft(Retimed(b, d)) = TimeLeft(b)
      BY RetimedFacts
    <3>5. Slot(new[j]) = Slot(list[i])
      BY <3>2, <3>3, <3>4 DEF Slot
    <3>6. QED
      BY <1>2, <1>12, <1>14, <3>1, <3>5
  <2>4. CASE j > i + 1
    <3>1. j - 1 \in 1 .. n /\ ~(j < i) /\ j # i /\ j # i + 1
      BY <1>1, <1>9, <2>4
    <3>2. QED
      BY <1>2, <1>12, <1>13, <1>14, <3>1
  <2>5. QED
    BY <1>1, <1>9, <2>1, <2>2, <2>3, <2>4
<1>16. Timed(new) = r
  BY <1>12, <1>14, <1>15, SameSlots
<1>17. QED
  BY <1>11, <1>16 DEF new, q

(* The call that is due is the first of the queue.                         *)
LEMMA PoppedTimed ==
    ASSUME IInv, SomethingDue
    PROVE  /\ Timed(call_list) # << >> /\ Timed(call_list)[1].at <= 0
           /\ Timed(call_list)[1].ob = First
           /\ Exact(Popped) /\ Timed(Popped) = Tail(Timed(call_list))
<1> DEFINE q == Timed(call_list)
           n == Len(call_list)
<1>1. /\ Exact(call_list) /\ 1 \in DOMAIN call_list /\ DOMAIN call_list = 1 .. n
      /\ n \in Nat /\ Exact(Popped)
  BY ListKept, CallFacts DEF IInv, Exact, Popped
<1>2. 1 \in 1 .. n
  BY <1>1
<1>3. /\ q \in Seq(Slots) /\ Len(q) = n /\ q[1].ob = First /\ q[1].at = TimeLeft(call_list[1])
  BY <1>1, <1>2, TimedFacts DEF First
<1>4. Timed(Popped) = RemoveAt(q, 1)
  BY <1>1, <1>2, UnchainedTimed DEF Popped
<1> HIDE DEF q
<1>5. q # << >>
  BY <1>2, <1>3, EmptySeq
<1>6. RemoveAt(q, 1) = Tail(q)
  <2> DEFINE r == RemoveAt(q, 1)
             t == Tail(q)
  <2>1. 1 \in 1 .. Len(q)
    BY <1>2, <1>3
  <2>2. /\ r \in Seq(Slots) /\ Len(r) = Len(q) - 1
        /\ \A j \in 1 .. Len(q) - 1 : r[j] = IF j < 1 THEN q[j] ELSE q[j + 1]
    BY <1>3, <2>1, RemoveAtFacts
  <2>3. /\ t \in Seq(Slots) /\ Len(t) = Len(q) - 1
        /\ \A j \in 1 .. Len(t) : t[j] = q[j + 1]
    BY <1>3, <1>5, HeadTailProperties
  <2> HIDE DEF r, t
  <2>4. \A j \in 1 .. Len(r) : r[j] = t[j]
    BY <1>1, <1>3, <2>2, <2>3
  <2>5. r = t
    BY <2>2, <2>3, <2>4, SameSlots
  <2>6. QED
    BY <2>5 DEF r, t
<1>7. TimeLeft(call_list[1]) <= 0
  <2>1. /\ call_list[1].delta =
              TimeLeft(call_list[1]) - (IF 1 = 1 THEN 0 ELSE TimeLeft(call_list[1 - 1]))
        /\ call_list \in Seq(Calls)
    BY <1>1, <1>2 DEF Exact, Steps
  <2>2. TimeLeft(call_list[1]) \in Int
    BY <1>2, <2>1, CallFacts
  <2>3. call_list[1].delta = TimeLeft(call_list[1])
    BY <2>1, <2>2
  <2>4. QED
    BY <2>3 DEF SomethingDue
<1>8. QED
  BY <1>1, <1>3, <1>4, <1>5, <1>6, <1>7 DEF q

(* A cycle moves every call by the time it took.                           *)
LEMMA TickTimed ==
    ASSUME Exact(call_list), NEW d \in Nat, StartCycle(d)
    PROVE  /\ Exact(call_list')
           /\ Timed(call_list') =
                 IF timed
                 THEN [i \in DOMAIN Timed(call_list) |-> [Timed(call_list)[i] EXCEPT !.at = @ - d]]
                 ELSE Timed(call_list)
<1> DEFINE n == Len(call_list)
           q == Timed(call_list)
<1>1. /\ Exact(call_list') /\ Len(call_list') = n
      /\ \A i \in 1 .. n :
            /\ call_list'[i].ob = call_list[i].ob
            /\ TimeLeft(call_list'[i]) =
                  IF timed THEN TimeLeft(call_list[i]) - d ELSE TimeLeft(call_list[i])
  BY TickKeeps
<1>2. DOMAIN q = 1 .. n
  BY DEF Timed
<1>3. CASE ~timed
  BY <1>1, <1>3 DEF Timed, Slot
<1>4. CASE timed
  <2>1. ASSUME NEW i \in 1 .. n
        PROVE  Slot(call_list'[i]) = [q[i] EXCEPT !.at = @ - d]
    <3>1. q[i] = [ob |-> call_list[i].ob, at |-> TimeLeft(call_list[i])]
      BY DEF Timed, Slot
    <3> HIDE DEF q
    <3>2. [q[i] EXCEPT !.at = @ - d] = [ob |-> call_list[i].ob, at |-> TimeLeft(call_list[i]) - d]
      BY <3>1
    <3>3. QED
      BY <1>1, <1>4, <3>2 DEF Slot
  <2>2. Timed(call_list') = [i \in 1 .. n |-> Slot(call_list'[i])]
    BY <1>1 DEF Timed
  <2> HIDE DEF q
  <2>3. Timed(call_list') = [i \in DOMAIN q |-> [q[i] EXCEPT !.at = @ - d]]
    BY <1>2, <2>1, <2>2
  <2>4. QED
    BY <1>1, <1>4, <2>3 DEF q
<1>5. QED
  BY <1>3, <1>4

(* Calls of destructed objects are struck off, the others move forward.    *)
LEMMA PurgeTimed ==
    ASSUME NEW list, Exact(list)
    PROVE  LET q == Timed(list)
               r == Timed(WithoutStale(list))
               Off(k) == Queue!Struck(q, destructed, k)
           IN  /\ Exact(WithoutStale(list)) /\ r \in Seq(Slots)
               /\ Len(r) = Len(q) - Off(Len(q))
               /\ \A i \in DOMAIN q : q[i].ob \notin destructed => r[i - Off(i)] = q[i]
<1> DEFINE n == Len(list)
           q == Timed(list)
           w == WithoutStale(list)
           r == Timed(w)
           Off(k) == Queue!Struck(q, destructed, k)
<1>1. n \in Nat /\ DOMAIN list = 1 .. n
  BY CallFacts DEF Exact
<1>2. /\ Len(q) = n /\ DOMAIN q = 1 .. n
      /\ \A i \in 1 .. n : q[i] = Slot(list[i]) /\ q[i].ob = list[i].ob
  BY TimedFacts DEF Timed
<1>3. Examined(list, n, w)
  BY WithoutStaleFacts
<1>4. Exact(w) /\ Len(w) = n - Struck(list, n)
  BY <1>3 DEF Examined
<1>5. /\ r \in Seq(Slots) /\ Len(r) = Len(w)
      /\ \A i \in 1 .. Len(w) : r[i] = Slot(w[i])
  BY <1>4, TimedFacts
<1> HIDE DEF q, r, w
<1>6. ASSUME NEW k \in Nat
      PROVE  Off(k) = Struck(list, k)
  <2> DEFINE A == {i \in DOMAIN q : i <= k /\ q[i].ob \in destructed}
             B == Stale(list) \cap (1 .. k)
  <2>1. ASSUME NEW i PROVE i \in A <=> i \in B
    <3>1. i \in B <=> i \in 1 .. n /\ list[i].ob \in destructed /\ i \in 1 .. k
      BY <1>1 DEF Stale
    <3>2. i \in A <=> i \in 1 .. n /\ i <= k /\ q[i].ob \in destructed
      BY <1>2
    <3>3. i \in 1 .. n => (i <= k <=> i \in 1 .. k) /\ q[i].ob = list[i].ob
      BY <1>1, <1>2
    <3>4. QED
      BY <3>1, <3>2, <3>3
  <2>2. A = B
    BY <2>1
  <2>3. \A S : Queue!Cardinality(S) = Cardinality(S)
    BY DEF Queue!Cardinality, Cardinality
  <2>4. QED
    BY <2>2, <2>3 DEF Struck, Queue!Struck
<1> HIDE DEF Off
<1>7. ASSUME NEW i \in 1 .. n, q[i].ob \notin destructed
      PROVE  r[i - Off(i)] = q[i]
  <2>1. i \notin Stale(list)
    BY <1>2, <1>7 DEF Stale
  <2>2. Position(list, n, i) = i - Off(i)
    <3>1. i \in Nat /\ i <= n
      BY <1>1
    <3>2. QED
      BY <1>6, <3>1 DEF Position
  <2> DEFINE p == Position(list, n, i)
  <2>3. p \in 1 .. Len(w) /\ w[p].ob = list[i].ob /\ TimeLeft(w[p]) = TimeLeft(list[i])
    BY <1>3, <2>1 DEF Examined
  <2> HIDE DEF p
  <2>4. Slot(w[p]) = Slot(list[i])
    BY <2>3 DEF Slot
  <2>5. r[p] = q[i]
    BY <1>2, <1>5, <2>3, <2>4
  <2>6. QED
    BY <2>2, <2>5 DEF p
<1>8. Len(r) = Len(q) - Off(Len(q))
  BY <1>1, <1>2, <1>4, <1>5, <1>6
<1>9. QED
  BY <1>2, <1>4, <1>5, <1>7, <1>8 DEF q, r, w, Off

(* Every step of the call_outs is a step of the queue, or none at all.     *)
LEMMA StepIsQueueStep ==
    ASSUME IInv, [Next]_vars
    PROVE  [Queue!Next]_Queue!qvars
<1> DEFINE q == [i \in DOMAIN call_list |->
                    [ob |-> call_list[i].ob, at |-> DueIn(call_list, i)]]
           T == Timed(call_list)
<1>1. /\ Exact(call_list) /\ num_callouts = Len(call_list)
      /\ Len(call_list) \in Nat /\ DOMAIN call_list = 1 .. Len(call_list)
  BY CallFacts DEF IInv, Counted, Exact
<1>2. q = T /\ Len(T) = Len(call_list) /\ DOMAIN T = DOMAIN call_list
  BY <1>1, ListIsTimed, TimedFacts DEF Timed
<1>3. ASSUME Exact(call_list')
      PROVE  q' = Timed(call_list')
  BY <1>3, ListIsTimed
<1>4. Queue!qvars = <<q, timed>>
  BY DEF Queue!qvars
<1>5. ASSUME UNCHANGED <<call_list, timed>>
      PROVE  UNCHANGED Queue!qvars
  BY <1>5 DEF Queue!qvars
<1>6. CASE UNCHANGED vars
  BY <1>5, <1>6 DEF vars, listvars
<1>7. ASSUME NEW ob \in Obj, NEW delay \in 0 .. MaxDelay, v_call_out(ob, delay)
      PROVE  Queue!Next
  <2>1. /\ delay \in Nat /\ call_list' = NewCall(call_list, ob, delay)
        /\ num_callouts < max_callouts /\ timed' = timed
    BY <1>7, BoundsAssumption DEF v_call_out
  <2>2. Exact(call_list') /\ Timed(call_list') = Queue!Queued(T, ob, delay)
    BY <1>1, <2>1, NewCallKeeps, NewCallTimed
  <2>3. Len(q) < max_callouts /\ q' = Queue!Queued(q, ob, delay)
    BY <1>1, <1>2, <1>3, <2>1, <2>2
  <2>4. Queue!Ask(ob, delay)
    BY <2>1, <2>3 DEF Queue!Ask
  <2>5. QED
    BY <2>4 DEF Queue!Next
<1>8. ASSUME NEW i \in DOMAIN call_list, remove_call_out(i)
      PROVE  Queue!Next
  <2>1. i \in 1 .. Len(call_list) /\ call_list' = Unchained(call_list, i) /\ timed' = timed
    BY <1>1, <1>8 DEF remove_call_out
  <2>2. Exact(call_list') /\ Timed(call_list') = RemoveAt(T, i)
    BY <1>1, <2>1, UnchainedKeeps, UnchainedTimed
  <2>3. q' = RemoveAt(q, i) /\ i \in DOMAIN q
    BY <1>2, <1>3, <2>2
  <2>4. Queue!Withdraw(i)
    BY <2>1, <2>3 DEF Queue!Withdraw, Queue!RemoveAt, RemoveAt
  <2>5. QED
    BY <2>3, <2>4 DEF Queue!Next
<1>9. ASSUME remove_stale_call_outs
      PROVE  Queue!Next
  <2> DEFINE r == Timed(call_list')
  <2>1. call_list' = WithoutStale(call_list) /\ timed' = timed /\ destructed \subseteq Obj
    BY <1>9 DEF remove_stale_call_outs, IInv, OtherTypes
  <2>2. /\ Exact(call_list') /\ r \in Seq(Slots)
        /\ Len(r) = Len(q) - Queue!Struck(q, destructed, Len(q))
        /\ \A i \in DOMAIN q : q[i].ob \notin destructed => r[i - Queue!Struck(q, destructed, i)] = q[i]
    BY <1>1, <1>2, <2>1, PurgeTimed
  <2>3. q' = r
    BY <1>3, <2>2
  <2>4. PICK dead \in SUBSET Obj : dead = destructed
    BY <2>1
  <2>5. Queue!Purge(dead)
    BY <2>1, <2>2, <2>3, <2>4 DEF Queue!Purge, Slots
  <2>6. QED
    BY <2>5 DEF Queue!Next
<1>10. ASSUME NEW ob \in Obj, Destruct(ob)
       PROVE  UNCHANGED Queue!qvars
  BY <1>5, <1>10 DEF Destruct, listvars
<1>11. ASSUME NEW d \in 0 .. MaxStep, StartCycle(d)
       PROVE  Queue!Next
  <2>1. d \in Nat /\ timed' = TRUE
    <3>1. d \in Nat
      BY BoundsAssumption
    <3>2. timed' = TRUE
      BY <1>11 DEF StartCycle
    <3>3. QED
      BY <3>1, <3>2
  <2>2. /\ Exact(call_list')
        /\ Timed(call_list') = IF timed THEN [i \in DOMAIN T |-> [T[i] EXCEPT !.at = @ - d]] ELSE T
    BY <1>1, <1>11, <2>1, TickTimed
  <2>3. q' = IF timed THEN [i \in DOMAIN q |-> [q[i] EXCEPT !.at = @ - d]] ELSE q
    BY <1>2, <1>3, <2>2
  <2>4. Queue!Tick(d)
    BY <2>1, <2>3 DEF Queue!Tick
  <2>5. QED
    BY <2>4 DEF Queue!Next
<1>12. ASSUME StartPass \/ EndPass \/ Return \/ CallbackError
       PROVE  UNCHANGED Queue!qvars
  BY <1>5, <1>12 DEF StartPass, EndPass, Return, CallbackError, listvars
<1>13. ASSUME Discard \/ Call
       PROVE  Queue!Next
  <2>1. SomethingDue /\ call_list' = Popped /\ timed' = timed
    BY <1>13 DEF Discard, Call
  <2>2. T # << >> /\ T[1].at <= 0 /\ Exact(call_list') /\ Timed(call_list') = Tail(T)
    BY <2>1, PoppedTimed
  <2>3. q # << >> /\ q[1].at <= 0 /\ q' = Tail(q)
    BY <1>2, <1>3, <2>2
  <2>4. Queue!Fire
    BY <2>1, <2>3 DEF Queue!Fire
  <2>5. QED
    BY <2>4 DEF Queue!Next
<1>14. ASSUME Reschedule
       PROVE  Queue!Next
  <2>1. SomethingDue /\ call_list' = NewCall(Popped, First, 1) /\ timed' = timed /\ First \in Obj
    BY <1>14, ListKept DEF Reschedule
  <2>2. /\ T # << >> /\ T[1].at <= 0 /\ T[1].ob = First
        /\ Exact(Popped) /\ Timed(Popped) = Tail(T)
    BY <2>1, PoppedTimed
  <2>3. Exact(call_list') /\ Timed(call_list') = Queue!Queued(Tail(T), First, 1)
    <3>1. PICK one \in Nat : one = 1
      OBVIOUS
    <3>2. QED
      BY <2>1, <2>2, <3>1, NewCallKeeps, NewCallTimed
  <2>4. q # << >> /\ q[1].at <= 0 /\ q' = Queue!Queued(Tail(q), q[1].ob, 1)
    BY <1>2, <1>3, <2>2, <2>3
  <2>5. Queue!PutOff
    BY <2>1, <2>4 DEF Queue!PutOff
  <2>6. QED
    BY <2>5 DEF Queue!Next
<1>15. QED
  BY <1>6, <1>7, <1>8, <1>9, <1>10, <1>11, <1>12, <1>13, <1>14 DEF Next

(* The list with its relative times implements a queue of due times: no    *)
(* insertion, removal, purge or tick changes the order of the calls or the *)
(* time of any other call.                                                 *)
THEOREM QueueImplemented == Spec => ImplementsQueue
<1>1. Init => Queue!Init
  <2> SUFFICES ASSUME Init PROVE Queue!Init
    OBVIOUS
  <2>1. call_list = << >> /\ timed = FALSE
    BY DEF Init
  <2>2. Exact(call_list) /\ Len(call_list) = 0
    BY <2>1 DEF Exact, Steps, Sorted
  <2>3. Timed(call_list) \in Seq(Slots) /\ Len(Timed(call_list)) = 0
    BY <2>2, TimedFacts
  <2>4. Timed(call_list) = << >>
    BY <2>3, EmptySeq
  <2>5. QED
    BY <2>1, <2>2, <2>4, ListIsTimed DEF Queue!Init
<1>2. IInv /\ [Next]_vars => [Queue!Next]_Queue!qvars
  BY StepIsQueueStep
<1>3. QED
  BY <1>1, <1>2, Invariance, PTL DEF Spec, ImplementsQueue, Queue!Spec
=============================================================================
