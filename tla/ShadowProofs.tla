----------------------------- MODULE ShadowProofs -----------------------------
(***************************************************************************)
(* Proofs about Shadow, for any set of objects, provided that              *)
(* query_allow_shadow() does no more than destruct objects.                *)
(***************************************************************************)
EXTENDS Shadow, Induction

Discreet == MasterMay \subseteq {"destruct"}

(* The types of what the links depend on. *)
LinkType ==
    /\ o_shadow \subseteq Obj /\ ip \subseteq Obj /\ destructed \subseteq Obj
    /\ shadowing \in [Obj -> Ptr] /\ shadowed_by \in [Obj -> Ptr]
    /\ super \in [Obj -> Ptr]
    /\ asking \in Seq(Obj \X Obj)
    /\ victim \in Ptr

(* What validate_shadowing() has found still holds when the answer comes.  *)
StillValid ==
    /\ Len(asking) <= 1
    /\ \A i \in 1 .. Len(asking) : MayAsk(asking[i][1], asking[i][2])

(* destruct() walks only after it has cut the links of its object.         *)
VictimCut ==
    pc = "walk" =>
        /\ victim \in Obj
        /\ shadowing[victim] = NULL /\ shadowed_by[victim] = NULL
        /\ \A y \in Obj : super[y] # victim

(* The inductive invariant. *)
LinkInv ==
    /\ LinkType
    /\ Mutual
    /\ Anchored
    /\ Grounded
    /\ ShadowsOutside
    /\ Forgotten
    /\ StillValid
    /\ VictimCut

-----------------------------------------------------------------------------
(* Where every walk along a link ends, End is the last object of the walk. *)
LEMMA EndIsLast ==
    ASSUME NEW link \in [Obj -> Ptr], Ends(link), NEW o \in Obj
    PROVE  End(link, o) \in Along(link, o) /\ link[End(link, o)] = NULL
<1>1. o \in Along(link, o)
  BY DEF Along
<1>2. PICK x \in Along(link, o) : link[x] \notin Along(link, o)
  BY <1>1 DEF Ends, Along
<1>3. link[x] = NULL
  <2> SUFFICES ASSUME link[x] # NULL
               PROVE  link[x] \in Along(link, o)
    BY <1>2
  <2>1. x \in Obj /\ link[x] \in Obj
    BY <1>2 DEF Along, Ptr
  <2>2. ASSUME NEW S \in SUBSET Obj,
               o \in S, \A y \in S : link[y] \in S \cup {NULL}
        PROVE  link[x] \in S
    <3>1. x \in S
      BY <1>2, <2>2 DEF Along
    <3>2. QED
      BY <2>2, <3>1
  <2>3. QED
    BY <2>1, <2>2 DEF Along
<1>4. QED
  BY <1>2, <1>3 DEF End

(* Cutting an object out of its chain keeps the chains in order, and who   *)
(* had no neighbour on a side does not get one.                            *)
LEMMA LeavingKeepsChains ==
    ASSUME LinkInv, NEW ob \in Obj,
           shadowing' = ShadowingWithout(ob), shadowed_by' = ShadowedByWithout(ob)
    PROVE  /\ shadowing' \in [Obj -> Ptr] /\ shadowed_by' \in [Obj -> Ptr]
           /\ Mutual'
           /\ Grounded'
           /\ shadowing'[ob] = NULL /\ shadowed_by'[ob] = NULL
           /\ \A x \in Obj : shadowing[x] = NULL => shadowing'[x] = NULL
           /\ \A x \in Obj : shadowed_by[x] = NULL => shadowed_by'[x] = NULL
<1> USE NullAssumption
<1>1. /\ shadowing \in [Obj -> Ptr] /\ shadowed_by \in [Obj -> Ptr]
      /\ Mutual /\ Ends(shadowing) /\ Ends(shadowed_by)
  BY DEF LinkInv, LinkType, Grounded
<1>2. shadowing' \in [Obj -> Ptr] /\ shadowed_by' \in [Obj -> Ptr]
  BY <1>1 DEF ShadowingWithout, ShadowedByWithout, Ptr
<1>3. \A x \in Obj :
        /\ shadowing'[x] = IF x = ob THEN NULL
                           ELSE IF x = shadowed_by[ob] THEN shadowing[ob]
                           ELSE shadowing[x]
        /\ shadowed_by'[x] = IF x = ob THEN NULL
                             ELSE IF x = shadowing[ob] THEN shadowed_by[ob]
                             ELSE shadowed_by[x]
  BY DEF ShadowingWithout, ShadowedByWithout
<1>4. shadowing[ob] # ob /\ shadowed_by[ob] # ob
  <2>1. PICK x \in {ob} : shadowing[x] \notin {ob}
    BY <1>1 DEF Ends
  <2>2. PICK y \in {ob} : shadowed_by[y] \notin {ob}
    BY <1>1 DEF Ends
  <2>3. QED
    BY <2>1, <2>2
<1>5. Mutual'
  <2> SUFFICES ASSUME NEW x \in Obj, NEW y \in Obj
               PROVE  shadowing'[x] = y <=> shadowed_by'[y] = x
    BY DEF Mutual
  <2>1. /\ shadowing[x] = y <=> shadowed_by[y] = x
        /\ shadowing[ob] = y <=> shadowed_by[y] = ob
        /\ shadowing[x] = ob <=> shadowed_by[ob] = x
    BY <1>1 DEF Mutual
  <2>2. QED
    BY <1>3, <1>4, <2>1
<1>6. Ends(shadowing)'
  <2> SUFFICES ASSUME NEW S \in SUBSET Obj, S # {}
               PROVE  \E x \in S : shadowing'[x] \notin S
    BY DEF Ends
  <2>1. CASE ob \in S
    BY <1>3, <2>1
  <2>2. CASE ob \notin S /\ shadowing[ob] \in S
    <3>1. PICK m \in S \cup {ob} : shadowing[m] \notin S \cup {ob}
      BY <1>1 DEF Ends
    <3>2. m # ob /\ m # shadowed_by[ob]
      BY <1>1, <2>2, <3>1 DEF Mutual
    <3>3. QED
      BY <1>3, <3>1, <3>2
  <2>3. CASE ob \notin S /\ shadowing[ob] \notin S
    <3>1. PICK k \in S : shadowing[k] \notin S
      BY <1>1 DEF Ends
    <3>2. QED
      BY <1>3, <2>3, <3>1
  <2>4. QED
    BY <2>1, <2>2, <2>3
<1>7. Ends(shadowed_by)'
  <2> SUFFICES ASSUME NEW S \in SUBSET Obj, S # {}
               PROVE  \E x \in S : shadowed_by'[x] \notin S
    BY DEF Ends
  <2>1. CASE ob \in S
    BY <1>3, <2>1
  <2>2. CASE ob \notin S /\ shadowed_by[ob] \in S
    <3>1. PICK m \in S \cup {ob} : shadowed_by[m] \notin S \cup {ob}
      BY <1>1 DEF Ends
    <3>2. m # ob /\ m # shadowing[ob]
      BY <1>1, <2>2, <3>1 DEF Mutual
    <3>3. QED
      BY <1>3, <3>1, <3>2
  <2>3. CASE ob \notin S /\ shadowed_by[ob] \notin S
    <3>1. PICK k \in S : shadowed_by[k] \notin S
      BY <1>1 DEF Ends
    <3>2. QED
      BY <1>3, <2>3, <3>1
  <2>4. QED
    BY <2>1, <2>2, <2>3
<1>8. \A x \in Obj : /\ shadowing[x] = NULL => shadowing'[x] = NULL
                     /\ shadowed_by[x] = NULL => shadowed_by'[x] = NULL
  BY <1>1, <1>3 DEF Mutual
<1>9. QED
  BY <1>2, <1>3, <1>5, <1>6, <1>7, <1>8 DEF Grounded

(* Who still has the sentence after check_shadow_sent().                   *)
LEMMA CheckedAnchors ==
    ASSUME Anchored, NEW S,
           o_shadow' = Checked(S),
           \A x \in Obj : shadowing'[x] # NULL \/ shadowed_by'[x] # NULL \/ x \in ip'
                             => x \in o_shadow
    PROVE  Anchored'
BY DEF Anchored, Checked

-----------------------------------------------------------------------------
(* At most one call of query_allow_shadow() is in progress.                *)
LEMMA OneIsAsked ==
    ASSUME LinkInv, asking # << >>
    PROVE  Len(asking) = 1
<1>1. asking \in Seq(Obj \X Obj) /\ Len(asking) <= 1
  BY DEF LinkInv, LinkType, StillValid
<1>2. Len(asking) \in Nat \ {0}
  BY <1>1, EmptySeq
<1>3. \A n \in Nat \ {0} : n <= 1 => n = 1
  OBVIOUS
<1>4. QED
  BY <1>1, <1>2, <1>3, Zenon

(* The chain that AllowShadow enters: its end is not the new shadow.       *)
LEMMA ShadowedIsFree ==
    ASSUME LinkInv, asking # << >>
    PROVE  /\ Cob \in Obj /\ Asked \in Obj
           /\ MayAsk(Cob, Asked)
           /\ Shadowed \in Obj /\ shadowed_by[Shadowed] = NULL
           /\ Shadowed # Cob
<1> USE NullAssumption
<1>1. Len(asking) = 1
  BY OneIsAsked
<1>2. asking[1] \in Obj \X Obj
  BY <1>1 DEF LinkInv, LinkType
<1>3. Cob \in Obj /\ Asked \in Obj /\ MayAsk(Cob, Asked)
  BY <1>1, <1>2 DEF Cob, Asked, LinkInv, StillValid
<1>4. Shadowed \in Along(shadowed_by, Asked) /\ shadowed_by[Shadowed] = NULL
  BY <1>3, EndIsLast DEF LinkInv, LinkType, Grounded, Shadowed
<1>5. Asked \in Obj \ {Cob}
  BY <1>3 DEF MayAsk
<1>6. \A y \in Obj : shadowed_by[y] \in (Obj \ {Cob}) \cup {NULL}
  BY <1>3 DEF LinkInv, LinkType, Ptr, Mutual, MayAsk
<1>7. Shadowed \in Obj \ {Cob}
  <2>1. Obj \ {Cob} \in SUBSET Obj
    OBVIOUS
  <2>2. Along(shadowed_by, Asked) \subseteq Obj \ {Cob}
    BY <1>5, <1>6, <2>1 DEF Along
  <2>3. QED
    BY <1>4, <2>2
<1>8. QED
  BY <1>3, <1>4, <1>7

LEMMA AllowKeeps ==
    ASSUME LinkInv, AllowShadow
    PROVE  LinkInv'
<1> USE NullAssumption
<1> DEFINE t == Shadowed
           c == Cob
<1>1. asking # << >> /\ c \in Live /\ Asked \in Live
  BY DEF AllowShadow
<1>2. /\ c \in Obj /\ Asked \in Obj /\ t \in Obj
      /\ MayAsk(c, Asked) /\ shadowed_by[t] = NULL /\ t # c
  BY <1>1, ShadowedIsFree
<1>3. /\ shadowing \in [Obj -> Ptr] /\ shadowed_by \in [Obj -> Ptr]
      /\ Mutual /\ Ends(shadowing) /\ Ends(shadowed_by)
  BY DEF LinkInv, LinkType, Grounded
<1>4. \A x \in Obj : /\ shadowing'[x] = IF x = c THEN t ELSE shadowing[x]
                     /\ shadowed_by'[x] = IF x = t THEN c ELSE shadowed_by[x]
  BY <1>2, <1>3 DEF AllowShadow
<1>5. shadowing[c] = NULL /\ shadowed_by[c] = NULL /\ super[c] = NULL
  BY <1>2 DEF MayAsk
<1>6. Len(asking) = 1
  BY <1>1, OneIsAsked
<1>7. LinkType'
  <2>1. asking' \in Seq(Obj \X Obj)
    BY <1>6 DEF AllowShadow, Answered, LinkInv, LinkType
  <2>2. shadowing' \in [Obj -> Ptr] /\ shadowed_by' \in [Obj -> Ptr]
    BY <1>2, <1>3 DEF AllowShadow, Ptr
  <2>3. QED
    BY <1>2, <2>1, <2>2 DEF AllowShadow, LinkInv, LinkType, walk
<1>8. Mutual'
  <2> SUFFICES ASSUME NEW x \in Obj, NEW y \in Obj
               PROVE  shadowing'[x] = y <=> shadowed_by'[y] = x
    BY DEF Mutual
  <2>1. /\ shadowing[x] = y <=> shadowed_by[y] = x
        /\ shadowing[c] = y <=> shadowed_by[y] = c
        /\ shadowing[x] = t <=> shadowed_by[t] = x
    BY <1>2, <1>3 DEF Mutual
  <2>2. QED
    BY <1>2, <1>4, <1>5, <2>1
<1>9. Ends(shadowing)'
  <2> SUFFICES ASSUME NEW S \in SUBSET Obj, S # {}
               PROVE  \E x \in S : shadowing'[x] \notin S
    BY DEF Ends
  <2>1. CASE S = {c}
    BY <1>2, <1>4, <2>1
  <2>2. CASE S # {c}
    <3>1. PICK k \in S \ {c} : shadowing[k] \notin S \ {c}
      <4>1. S \ {c} # {}
        BY <2>2
      <4>2. QED
        BY <1>3, <4>1 DEF Ends
    <3>2. shadowing[k] # c
      BY <1>2, <1>3, <1>5 DEF Mutual
    <3>3. QED
      BY <1>4, <3>1, <3>2
  <2>3. QED
    BY <2>1, <2>2
<1>10. Ends(shadowed_by)'
  <2> SUFFICES ASSUME NEW S \in SUBSET Obj, S # {}
               PROVE  \E x \in S : shadowed_by'[x] \notin S
    BY DEF Ends
  <2>1. PICK k \in S : shadowed_by[k] \notin S
    BY <1>3 DEF Ends
  <2>2. QED
    BY <1>2, <1>4, <1>5, <2>1
<1>11. Anchored'
  <2> SUFFICES ASSUME NEW x \in Obj,
                      shadowing'[x] # NULL \/ shadowed_by'[x] # NULL \/ x \in ip'
               PROVE  x \in o_shadow'
    BY DEF Anchored
  <2>1. o_shadow' = o_shadow \cup {c, Asked} /\ ip' = ip
    BY DEF AllowShadow
  <2>2. CASE x # t
    BY <1>2, <1>4, <2>1, <2>2 DEF LinkInv, Anchored
  <2>3. CASE x = t /\ t # Asked
    <3>1. shadowing[t] # NULL
      <4>1. Along(shadowed_by, Asked) \subseteq
               {Asked} \cup {y \in Obj : shadowing[y] # NULL}
        <5> DEFINE S == {Asked} \cup {y \in Obj : shadowing[y] # NULL}
        <5>1. S \in SUBSET Obj /\ Asked \in S
          BY <1>2
        <5>2. \A y \in S : shadowed_by[y] \in S \cup {NULL}
          BY <1>3, <5>1 DEF Mutual, Ptr
        <5>3. QED
          BY <5>1, <5>2 DEF Along
      <4>2. t \in Along(shadowed_by, Asked)
        BY <1>2, <1>3, EndIsLast DEF Shadowed
      <4>3. QED
        BY <2>3, <4>1, <4>2
    <3>2. QED
      BY <1>2, <2>1, <2>3, <3>1 DEF LinkInv, Anchored
  <2>4. QED
    BY <2>1, <2>2, <2>3
<1>12. ShadowsOutside'
  BY <1>4, <1>5 DEF AllowShadow, LinkInv, ShadowsOutside
<1>13. Forgotten'
  <2>1. t \notin destructed
    <3>1. CASE t = Asked
      BY <1>1, <3>1 DEF Live
    <3>2. CASE t # Asked
      <4>1. Along(shadowed_by, Asked) \subseteq Live
        <5>1. Live \in SUBSET Obj /\ Asked \in Live
          BY <1>1 DEF Live
        <5>2. \A y \in Live : shadowed_by[y] \in Live \cup {NULL}
          BY <1>3 DEF Live, LinkInv, Forgotten, Ptr
        <5>3. QED
          BY <5>1, <5>2 DEF Along
      <4>2. t \in Along(shadowed_by, Asked)
        BY <1>2, <1>3, EndIsLast DEF Shadowed
      <4>3. QED
        BY <4>1, <4>2 DEF Live
    <3>3. QED
      BY <3>1, <3>2
  <2>2. c \notin destructed
    BY <1>1 DEF Live
  <2>3. destructed' = destructed /\ super' = super /\ destructed \subseteq Obj
    BY DEF AllowShadow, LinkInv, LinkType
  <2>4. QED
    BY <1>2, <1>4, <2>1, <2>2, <2>3 DEF LinkInv, Forgotten
<1>14. StillValid'
  <2>1. Len(asking') = 0
    BY <1>6 DEF AllowShadow, Answered, LinkInv, LinkType
  <2>2. QED
    BY <2>1 DEF StillValid
<1>15. VictimCut'
  BY DEF AllowShadow, walk, VictimCut
<1>16. QED
  BY <1>7, <1>8, <1>9, <1>10, <1>11, <1>12, <1>13, <1>14, <1>15
     DEF LinkInv, Grounded

-----------------------------------------------------------------------------
(* What unshadow(), replace_program() and destruct() have in common: the   *)
(* object leaves its chain, and of the rest only sentences change.         *)
LEMMA LeavingKeeps ==
    ASSUME LinkInv, NEW ob \in Obj,
           shadowing' = ShadowingWithout(ob), shadowed_by' = ShadowedByWithout(ob),
           UNCHANGED <<ip, super, destructed, asking>>
    PROVE  Mutual' /\ Grounded' /\ ShadowsOutside' /\ Forgotten' /\ StillValid'
<1> USE NullAssumption
<1>1. /\ Mutual' /\ Grounded'
      /\ shadowing' \in [Obj -> Ptr] /\ shadowed_by' \in [Obj -> Ptr]
      /\ \A x \in Obj : shadowing[x] = NULL => shadowing'[x] = NULL
      /\ \A x \in Obj : shadowed_by[x] = NULL => shadowed_by'[x] = NULL
  BY LeavingKeepsChains
<1>2. ShadowsOutside'
  BY <1>1 DEF LinkInv, ShadowsOutside
<1>3. Forgotten'
  <2> SUFFICES ASSUME NEW x \in destructed
               PROVE  /\ shadowing'[x] = NULL /\ shadowed_by'[x] = NULL
                      /\ super[x] = NULL
                      /\ \A y \in Obj :
                            x \notin {shadowing'[y], shadowed_by'[y], super[y]}
    BY DEF Forgotten
  <2>1. x \in Obj /\ super[x] = NULL /\ \A y \in Obj : x # super[y]
    BY DEF LinkInv, LinkType, Forgotten
  <2>2. shadowing'[x] = NULL /\ shadowed_by'[x] = NULL
    BY <1>1, <2>1 DEF LinkInv, Forgotten
  <2>3. \A y \in Obj : shadowing'[y] # x /\ shadowed_by'[y] # x
    BY <1>1, <2>1, <2>2 DEF Mutual
  <2>4. QED
    BY <2>1, <2>2, <2>3
<1>4. StillValid'
  <2>1. \A c, o \in Obj : MayAsk(c, o) => MayAsk(c, o)'
    BY <1>1 DEF MayAsk
  <2>2. \A i \in 1 .. Len(asking) : asking[i][1] \in Obj /\ asking[i][2] \in Obj
    BY DEF LinkInv, LinkType
  <2>3. QED
    BY <2>1, <2>2 DEF LinkInv, StillValid
<1>5. QED
  BY <1>1, <1>2, <1>3, <1>4

(* The objects whose sentence is checked are those that may have lost a    *)
(* use for it; for who is linked or connected it stays.                    *)
LEMMA CheckingKeeps ==
    ASSUME LinkInv, NEW S, o_shadow' = Checked(S), ip' = ip,
           \A x \in Obj : shadowing[x] = NULL => shadowing'[x] = NULL,
           \A x \in Obj : shadowed_by[x] = NULL => shadowed_by'[x] = NULL
    PROVE  Anchored' /\ o_shadow' \subseteq Obj
<1>1. \A x \in Obj : shadowing'[x] # NULL \/ shadowed_by'[x] # NULL \/ x \in ip'
                        => x \in o_shadow
  BY DEF LinkInv, Anchored
<1>2. Anchored'
  BY <1>1, CheckedAnchors DEF LinkInv
<1>3. QED
  BY <1>2 DEF Checked, LinkInv, LinkType

LEMMA UnshadowKeeps ==
    ASSUME LinkInv, NEW ob \in Obj, Unshadow(ob)
    PROVE  LinkInv'
<1>1. /\ shadowing' = ShadowingWithout(ob) /\ shadowed_by' = ShadowedByWithout(ob)
      /\ UNCHANGED <<ip, super, destructed, asking, pc, victim>>
      /\ pc = "lpc"
  BY DEF Unshadow, LPC, walk
<1>2. /\ shadowing' \in [Obj -> Ptr] /\ shadowed_by' \in [Obj -> Ptr]
      /\ \A x \in Obj : shadowing[x] = NULL => shadowing'[x] = NULL
      /\ \A x \in Obj : shadowed_by[x] = NULL => shadowed_by'[x] = NULL
  BY <1>1, LeavingKeepsChains
<1>3. Mutual' /\ Grounded' /\ ShadowsOutside' /\ Forgotten' /\ StillValid'
  BY <1>1, LeavingKeeps
<1>4. PICK S : o_shadow' = Checked(S)
  BY DEF Unshadow
<1>5. Anchored' /\ o_shadow' \subseteq Obj
  BY <1>1, <1>2, <1>4, CheckingKeeps
<1>6. LinkType'
  BY <1>1, <1>2, <1>5 DEF LinkInv, LinkType
<1>7. VictimCut'
  BY <1>1 DEF VictimCut
<1>8. QED
  BY <1>3, <1>5, <1>6, <1>7 DEF LinkInv

LEMMA ReplaceProgramKeeps ==
    ASSUME LinkInv, NEW ob \in Obj, ReplaceProgram(ob)
    PROVE  LinkInv'
<1>1. /\ shadowing' = ShadowingWithout(ob) /\ shadowed_by' = ShadowedByWithout(ob)
      /\ UNCHANGED <<o_shadow, ip, super, destructed, asking, pc, victim>>
      /\ pc = "lpc"
  BY DEF ReplaceProgram, walk
<1>2. /\ shadowing' \in [Obj -> Ptr] /\ shadowed_by' \in [Obj -> Ptr]
      /\ \A x \in Obj : shadowing[x] = NULL => shadowing'[x] = NULL
      /\ \A x \in Obj : shadowed_by[x] = NULL => shadowed_by'[x] = NULL
  BY <1>1, LeavingKeepsChains
<1>3. Mutual' /\ Grounded' /\ ShadowsOutside' /\ Forgotten' /\ StillValid'
  BY <1>1, LeavingKeeps
<1>4. Anchored'
  BY <1>1, <1>2 DEF LinkInv, Anchored
<1>5. LinkType'
  BY <1>1, <1>2 DEF LinkInv, LinkType
<1>6. VictimCut'
  BY <1>1 DEF VictimCut
<1>7. QED
  BY <1>3, <1>4, <1>5, <1>6 DEF LinkInv

LEMMA DestructKeeps ==
    ASSUME LinkInv, NEW ob \in Obj, Destruct(ob)
    PROVE  LinkInv'
<1>1. /\ shadowing' = ShadowingWithout(ob) /\ shadowed_by' = ShadowedByWithout(ob)
      /\ UNCHANGED <<ip, super, destructed, asking>>
      /\ victim' = ob
      /\ \A x \in Obj : super[x] # ob
  BY DEF Destruct
<1>2. /\ shadowing' \in [Obj -> Ptr] /\ shadowed_by' \in [Obj -> Ptr]
      /\ shadowing'[ob] = NULL /\ shadowed_by'[ob] = NULL
      /\ \A x \in Obj : shadowing[x] = NULL => shadowing'[x] = NULL
      /\ \A x \in Obj : shadowed_by[x] = NULL => shadowed_by'[x] = NULL
  BY <1>1, LeavingKeepsChains
<1>3. Mutual' /\ Grounded' /\ ShadowsOutside' /\ Forgotten' /\ StillValid'
  BY <1>1, LeavingKeeps
<1>4. PICK S : o_shadow' = Checked(S)
  BY DEF Destruct
<1>5. Anchored' /\ o_shadow' \subseteq Obj
  BY <1>1, <1>2, <1>4, CheckingKeeps
<1>6. LinkType'
  BY <1>1, <1>2, <1>5 DEF LinkInv, LinkType, Ptr
<1>7. VictimCut'
  BY <1>1, <1>2 DEF VictimCut
<1>8. QED
  BY <1>3, <1>5, <1>6, <1>7 DEF LinkInv

(* At the end of destruct() nothing refers to the victim any more.         *)
LEMMA DestructEndKeeps ==
    ASSUME LinkInv, DestructEnd
    PROVE  LinkInv'
<1> USE NullAssumption
<1>1. /\ pc = "walk"
      /\ UNCHANGED <<shadowing, shadowed_by, ip, asking>>
      /\ o_shadow' = Checked({victim})
      /\ super' = [super EXCEPT ![victim] = NULL]
      /\ destructed' = destructed \cup {victim}
      /\ pc' = "lpc" /\ victim' = NULL
  BY DEF DestructEnd
<1>2. /\ victim \in Obj
      /\ shadowing[victim] = NULL /\ shadowed_by[victim] = NULL
      /\ \A y \in Obj : super[y] # victim
  BY <1>1 DEF LinkInv, VictimCut
<1>3. Anchored' /\ o_shadow' \subseteq Obj
  BY <1>1, CheckingKeeps
<1>4. LinkType'
  BY <1>1, <1>2, <1>3 DEF LinkInv, LinkType, Ptr
<1>5. Mutual' /\ Grounded'
  BY <1>1 DEF LinkInv, Mutual, Grounded, Ends
<1>6. \A y \in Obj : super'[y] = IF y = victim THEN NULL ELSE super[y]
  BY <1>1 DEF LinkInv, LinkType
<1>7. ShadowsOutside'
  BY <1>1, <1>6 DEF LinkInv, ShadowsOutside
<1>8. Forgotten'
  <2> SUFFICES ASSUME NEW x \in destructed \cup {victim}
               PROVE  /\ shadowing[x] = NULL /\ shadowed_by[x] = NULL
                      /\ super'[x] = NULL
                      /\ \A y \in Obj :
                            x \notin {shadowing[y], shadowed_by[y], super'[y]}
    BY <1>1 DEF Forgotten
  <2>1. CASE x = victim
    <3>1. \A y \in Obj : shadowing[y] # x /\ shadowed_by[y] # x
      BY <1>2, <2>1 DEF LinkInv, LinkType, Mutual
    <3>2. QED
      BY <1>2, <1>6, <2>1, <3>1
  <2>2. CASE x \in destructed
    <3>1. x \in Obj
      BY <2>2 DEF LinkInv, LinkType
    <3>2. QED
      BY <1>6, <2>2, <3>1 DEF LinkInv, Forgotten
  <2>3. QED
    BY <2>1, <2>2
<1>9. StillValid'
  <2>1. \A c, o \in Obj : MayAsk(c, o) => MayAsk(c, o)'
    BY <1>1, <1>6 DEF MayAsk
  <2>2. \A i \in 1 .. Len(asking) : asking[i][1] \in Obj /\ asking[i][2] \in Obj
    BY DEF LinkInv, LinkType
  <2>3. QED
    BY <1>1, <2>1, <2>2 DEF LinkInv, StillValid
<1>10. VictimCut'
  BY <1>1 DEF VictimCut
<1>11. QED
  BY <1>3, <1>4, <1>5, <1>7, <1>8, <1>9, <1>10 DEF LinkInv

-----------------------------------------------------------------------------
(* While the master object answers it starts no other shadow() and moves   *)
(* nothing.                                                                *)
LEMMA AskToShadowKeeps ==
    ASSUME Discreet, LinkInv, NEW cob \in Obj, NEW ob \in Obj, AskToShadow(cob, ob)
    PROVE  LinkInv'
<1>1. /\ asking = << >> /\ MayAsk(cob, ob)
      /\ asking' = Append(asking, <<cob, ob>>)
      /\ UNCHANGED <<links, ip, super, destructed, walk>>
  BY DEF AskToShadow, LPC, Discreet
<1>2. asking' = <<<<cob, ob>>>>
  BY <1>1
<1>3. asking' \in Seq(Obj \X Obj)
  BY <1>2
<1>4. StillValid'
  BY <1>1, <1>2 DEF StillValid, MayAsk, links
<1>5. LinkType'
  BY <1>1, <1>3 DEF LinkInv, LinkType, links, walk
<1>6. Mutual' /\ Anchored' /\ Grounded' /\ ShadowsOutside' /\ Forgotten' /\ VictimCut'
  BY <1>1 DEF LinkInv, Mutual, Anchored, Grounded, Ends, ShadowsOutside,
              Forgotten, VictimCut, links, walk
<1>7. QED
  BY <1>4, <1>5, <1>6 DEF LinkInv

LEMMA DenyShadowKeeps ==
    ASSUME LinkInv, DenyShadow
    PROVE  LinkInv'
<1>1. /\ asking # << >> /\ asking' = Answered
      /\ UNCHANGED <<links, ip, super, destructed, walk>>
  BY DEF DenyShadow
<1>2. asking' = << >>
  <2>1. Len(asking) - 1 = 0
    BY <1>1, OneIsAsked
  <2>2. SubSeq(asking, 1, 0) = << >>
    BY SubSeqEmpty
  <2>3. QED
    BY <1>1, <2>1, <2>2, Zenon DEF Answered
<1>3. StillValid'
  BY <1>2 DEF StillValid
<1>4. LinkType'
  BY <1>1, <1>2 DEF LinkInv, LinkType, links, walk
<1>5. Mutual' /\ Anchored' /\ Grounded' /\ ShadowsOutside' /\ Forgotten' /\ VictimCut'
  BY <1>1 DEF LinkInv, Mutual, Anchored, Grounded, Ends, ShadowsOutside,
              Forgotten, VictimCut, links, walk
<1>6. QED
  BY <1>3, <1>4, <1>5 DEF LinkInv

(* The steps that change nothing the invariant is about.                   *)
LEMMA OthersKeep ==
    ASSUME LinkInv,
           UNCHANGED <<o_shadow, shadowing, shadowed_by, ip, super,
                       destructed, asking, pc, victim>>
    PROVE  LinkInv'
BY DEF LinkInv, LinkType, Mutual, Anchored, Grounded, Ends, ShadowsOutside,
       Forgotten, StillValid, MayAsk, VictimCut

(* The address of a freed object is as good as new: nothing refers to it.  *)
LEMMA RecycleKeeps ==
    ASSUME LinkInv, NEW ob \in Obj, Recycle(ob)
    PROVE  LinkInv'
<1>1. /\ pc = "lpc" /\ asking = << >> /\ ob \in destructed
      /\ o_shadow' = o_shadow \ {ob} /\ ip' = ip \ {ob}
      /\ destructed' = destructed \ {ob}
      /\ UNCHANGED <<shadowing, shadowed_by, super, asking, pc, victim>>
  BY DEF Recycle, walk
<1>2. shadowing[ob] = NULL /\ shadowed_by[ob] = NULL
  BY <1>1 DEF LinkInv, Forgotten
<1>3. Anchored'
  BY <1>1, <1>2 DEF LinkInv, Anchored
<1>4. Forgotten'
  BY <1>1 DEF LinkInv, Forgotten
<1>5. Mutual' /\ Grounded' /\ ShadowsOutside' /\ StillValid' /\ VictimCut'
  BY <1>1 DEF LinkInv, Mutual, Grounded, Ends, ShadowsOutside,
              StillValid, MayAsk, VictimCut
<1>6. LinkType'
  BY <1>1 DEF LinkInv, LinkType
<1>7. QED
  BY <1>3, <1>4, <1>5, <1>6 DEF LinkInv

LEMMA set_environmentKeeps ==
    ASSUME Discreet, LinkInv, NEW item \in Obj, NEW dest \in Ptr,
           set_environment(item, dest)
    PROVE  LinkInv'
<1> USE NullAssumption
<1>1. /\ pc = "lpc" /\ asking = << >> /\ item \in Live /\ dest \in Live \cup {NULL}
      /\ shadowing[item] = NULL
      /\ super' = [super EXCEPT ![item] = dest]
      /\ UNCHANGED <<o_shadow, shadowing, shadowed_by, ip, destructed,
                      asking, pc, victim>>
  BY DEF set_environment, LPC, Discreet, MayMove, links, walk
<1>2. \A y \in Obj : super'[y] = IF y = item THEN dest ELSE super[y]
  BY <1>1 DEF LinkInv, LinkType
<1>3. ShadowsOutside'
  BY <1>1, <1>2 DEF LinkInv, ShadowsOutside
<1>4. Forgotten'
  <2> SUFFICES ASSUME NEW x \in destructed
               PROVE  super'[x] = NULL /\ \A y \in Obj : super'[y] # x
    BY <1>1 DEF Forgotten, LinkInv
  <2>1. x \in Obj /\ x # item /\ x # dest
    BY <1>1 DEF Live, LinkInv, LinkType
  <2>2. QED
    BY <1>2, <2>1 DEF LinkInv, Forgotten
<1>5. StillValid'
  <2>1. asking' = << >>
    BY <1>1
  <2>2. QED
    BY <2>1 DEF StillValid
<1>6. LinkType'
  BY <1>1 DEF LinkInv, LinkType
<1>7. Mutual' /\ Anchored' /\ Grounded' /\ VictimCut'
  BY <1>1 DEF LinkInv, Mutual, Anchored, Grounded, Ends, VictimCut
<1>8. QED
  BY <1>3, <1>4, <1>5, <1>6, <1>7 DEF LinkInv

(* Connections come and go: the sentence of an object is there as long as  *)
(* it is used.                                                             *)
LEMMA ConnectionsKeep ==
    ASSUME LinkInv, NEW ob \in Obj,
           \/ Connect(ob)
           \/ Disconnect(ob)
           \/ \E obfrom \in Obj : Exec(ob, obfrom)
    PROVE  LinkInv'
<1>1. /\ pc = "lpc"
      /\ UNCHANGED <<shadowing, shadowed_by, super, destructed, asking, pc, victim>>
  BY DEF Connect, Disconnect, Exec, LPC, walk
<1>2. Anchored' /\ o_shadow' \subseteq Obj /\ ip' \subseteq Obj
  BY <1>1 DEF Connect, Disconnect, Exec, Checked, LinkInv, LinkType, Anchored
<1>3. Mutual' /\ Grounded' /\ ShadowsOutside' /\ Forgotten' /\ StillValid' /\ VictimCut'
  BY <1>1 DEF LinkInv, Mutual, Grounded, Ends, ShadowsOutside, Forgotten,
              StillValid, MayAsk, VictimCut
<1>4. LinkType'
  BY <1>1, <1>2 DEF LinkInv, LinkType
<1>5. QED
  BY <1>2, <1>3, <1>4 DEF LinkInv

-----------------------------------------------------------------------------
LEMMA LinkInvInit == Init => LinkInv
<1> SUFFICES ASSUME Init PROVE LinkInv
  OBVIOUS
<1> USE NullAssumption
<1>1. asking = << >> /\ asking \in Seq(Obj \X Obj)
  BY DEF Init
<1>2. LinkType
  BY <1>1 DEF Init, LinkType, Ptr
<1>3. StillValid
  BY <1>1 DEF StillValid
<1>4. Grounded
  BY DEF Init, Grounded, Ends
<1>5. QED
  BY <1>2, <1>3, <1>4
     DEF Init, LinkInv, Mutual, Anchored, ShadowsOutside, Forgotten, VictimCut

LEMMA LinkInvStep ==
    ASSUME Discreet, LinkInv, [Next]_vars
    PROVE  LinkInv'
<1>1. CASE \E cob, ob \in Obj : AskToShadow(cob, ob)
  BY <1>1, AskToShadowKeeps
<1>2. CASE AllowShadow
  BY <1>2, AllowKeeps
<1>3. CASE DenyShadow
  BY <1>3, DenyShadowKeeps
<1>4. CASE \E ob \in Obj : Unshadow(ob)
  BY <1>4, UnshadowKeeps
<1>5. CASE \E ob \in Obj : ReplaceProgram(ob)
  BY <1>5, ReplaceProgramKeeps
<1>6. CASE \E ob \in Obj : Destruct(ob)
  BY <1>6, DestructKeeps
<1>7. CASE DestructWalk
  BY <1>7, OthersKeep DEF DestructWalk, links
<1>8. CASE DestructEnd
  BY <1>8, DestructEndKeeps
<1>9. CASE \E ob \in Obj : Recycle(ob)
  BY <1>9, RecycleKeeps
<1>10. CASE \E item \in Obj, dest \in Ptr : set_environment(item, dest)
  BY <1>10, set_environmentKeeps
<1>11. CASE \E cur, p \in Obj : AddAction(cur, p)
  BY <1>11, OthersKeep DEF AddAction, links, walk
<1>12. CASE \E cur, p \in Obj : RemoveAction(cur, p)
  BY <1>12, OthersKeep DEF RemoveAction, links, walk
<1>13. CASE \E ob \in Obj : Connect(ob)
  BY <1>13, ConnectionsKeep
<1>14. CASE \E ob \in Obj : Disconnect(ob)
  BY <1>14, ConnectionsKeep
<1>15. CASE \E ob, obfrom \in Obj : Exec(ob, obfrom)
  BY <1>15, ConnectionsKeep
<1>16. CASE UNCHANGED vars
  BY <1>16, OthersKeep DEF vars, links, walk
<1>17. QED
  BY <1>1, <1>2, <1>3, <1>4, <1>5, <1>6, <1>7, <1>8, <1>9, <1>10, <1>11,
     <1>12, <1>13, <1>14, <1>15, <1>16 DEF Next

(* The invariant of all executions in which the master object, asked       *)
(* whether an object may be shadowed, at most destructs objects.           *)
THEOREM LinksInvariant ==
    ASSUME Discreet
    PROVE  Spec => []LinkInv
<1>1. LinkInv /\ [Next]_vars => LinkInv'
  BY LinkInvStep
<1>2. QED
  BY LinkInvInit, <1>1, PTL DEF Spec

(* A chain of shadows is a double linked list in every state, also while   *)
(* destruct() is at work: no destruct(), unshadow() or replace_program()   *)
(* leaves half a link.                                                     *)
THEOREM LinksMutual ==
    ASSUME Discreet
    PROVE  Spec => []Mutual
<1>1. LinkInv => Mutual
  BY DEF LinkInv
<1>2. QED
  BY <1>1, LinksInvariant, PTL

(* The driver's loops along a chain, in either direction, come to an end.  *)
THEOREM ChainsEnd ==
    ASSUME Discreet
    PROVE  Spec => []Grounded
<1>1. LinkInv => Grounded
  BY DEF LinkInv
<1>2. QED
  BY <1>1, LinksInvariant, PTL

(* check_shadow_sent() never takes the sentence of an object that is       *)
(* linked or connected.                                                    *)
THEOREM SentencesStay ==
    ASSUME Discreet
    PROVE  Spec => []Anchored
<1>1. LinkInv => Anchored
  BY DEF LinkInv
<1>2. QED
  BY <1>1, LinksInvariant, PTL

(* No environment comes to a shadow, neither before nor after the master   *)
(* object has allowed it.                                                  *)
THEOREM ShadowsStayOutside ==
    ASSUME Discreet
    PROVE  Spec => []ShadowsOutside
<1>1. LinkInv => ShadowsOutside
  BY DEF LinkInv
<1>2. QED
  BY <1>1, LinksInvariant, PTL

(* No link and no environment leads to a destructed object, though objects *)
(* may be destructed between the tests of shadow() and its effect.         *)
THEOREM DestructedForgotten ==
    ASSUME Discreet
    PROVE  Spec => []Forgotten
<1>1. LinkInv => Forgotten
  BY DEF LinkInv
<1>2. QED
  BY <1>1, LinksInvariant, PTL

-----------------------------------------------------------------------------
(* ----- Sentences --------------------------------------------------------- *)
(* What is appended is one element more.                                   *)
LEMMA AppendedSet ==
    ASSUME NEW A, NEW s \in Seq(A), NEW a \in A
    PROVE  Append(s, a) \in Seq(A) /\ ToSet(Append(s, a)) = ToSet(s) \cup {a}
<1>1. /\ Append(s, a) \in Seq(A) /\ Len(Append(s, a)) = Len(s) + 1 /\ Len(s) \in Nat
      /\ \A i \in 1 .. Len(s) : Append(s, a)[i] = s[i]
      /\ Append(s, a)[Len(s) + 1] = a
  BY AppendProperties, LenProperties
<1>2. DOMAIN Append(s, a) = 1 .. Len(s) + 1 /\ DOMAIN s = 1 .. Len(s)
  BY <1>1, LenProperties
<1>3. 1 .. Len(s) + 1 = 1 .. Len(s) \cup {Len(s) + 1}
  BY <1>1
<1>4. QED
  BY <1>1, <1>2, <1>3 DEF ToSet

(* A walk along a list of sentences keeps just the ones it should.         *)
LEMMA KeptFacts ==
    ASSUME NEW list \in Seq(Action), NEW T
    PROVE  /\ Kept(list, T) \in Seq(Action)
           /\ ToSet(Kept(list, T)) = ToSet(list) \cap T
<1> DEFINE n == Len(list)
           F == [x \in (1 .. n) \X Seq(Action) |->
                    IF list[x[1]] \in T THEN Append(x[2], list[x[1]]) ELSE x[2]]
           f == CHOOSE f : f = [i \in 0 .. n |->
                   IF i = 0 THEN << >>
                   ELSE IF list[i] \in T THEN Append(f[i - 1], list[i]) ELSE f[i - 1]]
<1>1. n \in Nat /\ DOMAIN list = 1 .. n /\ \A i \in 1 .. n : list[i] \in Action
  BY LenProperties, ElementOfSeq
<1>2. Kept(list, T) = f[n]
  BY DEF Kept
<1>3. F \in [(1 .. n) \X Seq(Action) -> Seq(Action)]
  <2>1. ASSUME NEW x \in (1 .. n) \X Seq(Action)
        PROVE  (IF list[x[1]] \in T THEN Append(x[2], list[x[1]]) ELSE x[2]) \in Seq(Action)
    <3>1. x[1] \in 1 .. n /\ x[2] \in Seq(Action)
      OBVIOUS
    <3>2. QED
      BY <1>1, <3>1, AppendedSet
  <2>2. QED
    BY <2>1
<1>4. << >> \in Seq(Action)
  OBVIOUS
<1>5. PICK g : g \in Recursion(n, Seq(Action), << >>, F)
  <2> HIDE DEF n, F
  <2>1. QED
    BY <1>1, <1>3, <1>4, RecursionExists
<1>6. /\ g \in [0 .. n -> Seq(Action)] /\ g[0] = << >>
      /\ \A i \in 1 .. n : g[i] = F[<<i, g[i - 1]>>]
  <2> HIDE DEF n, F
  <2>1. QED
    BY <1>5 DEF Recursion
<1>7. ASSUME NEW i \in 1 .. n
      PROVE  /\ i - 1 \in 0 .. n /\ g[i - 1] \in Seq(Action)
             /\ g[i] = IF list[i] \in T THEN Append(g[i - 1], list[i]) ELSE g[i - 1]
  <2>1. i - 1 \in 0 .. n
    BY <1>1
  <2>2. <<i, g[i - 1]>> \in (1 .. n) \X Seq(Action)
    BY <1>6, <2>1
  <2>3. QED
    BY <1>6, <2>1, <2>2
<1>8. g = [i \in 0 .. n |->
             IF i = 0 THEN << >>
             ELSE IF list[i] \in T THEN Append(g[i - 1], list[i]) ELSE g[i - 1]]
  <2> HIDE DEF F
  <2>1. \A i \in 0 .. n : i = 0 \/ i \in 1 .. n
    BY <1>1
  <2>2. QED
    BY <1>6, <1>7, <2>1
<1>9. f = [i \in 0 .. n |->
             IF i = 0 THEN << >>
             ELSE IF list[i] \in T THEN Append(f[i - 1], list[i]) ELSE f[i - 1]]
  BY <1>8
<1> HIDE DEF f, F
<1> DEFINE Seen(i) == {list[j] : j \in 1 .. i}
           S == {i \in 0 .. n : f[i] \in Seq(Action) /\ ToSet(f[i]) = Seen(i) \cap T}
<1>10. 0 \in S
  <2>1. f[0] = << >> /\ ToSet(<< >>) = {} /\ Seen(0) = {}
    BY <1>1, <1>9 DEF ToSet
  <2>2. 0 \in 0 .. n
    BY <1>1
  <2> HIDE DEF n, Seen
  <2>3. QED
    BY <1>4, <2>1, <2>2
<1>11. ASSUME NEW i \in 0 .. n - 1, i \in S
       PROVE  i + 1 \in S
  <2>1. i + 1 \in 0 .. n /\ i + 1 # 0 /\ i + 1 - 1 = i /\ i + 1 \in 1 .. n
    BY <1>1
  <2>2. f[i + 1] = IF list[i + 1] \in T THEN Append(f[i], list[i + 1]) ELSE f[i]
    <3>1. PICK j \in 0 .. n : j = i + 1
      BY <2>1
    <3>2. f[j] = IF j = 0 THEN << >>
                 ELSE IF list[j] \in T THEN Append(f[j - 1], list[j]) ELSE f[j - 1]
      BY <1>9
    <3>3. QED
      BY <2>1, <3>1, <3>2
  <2>3. 1 .. i + 1 = 1 .. i \cup {i + 1}
    BY <2>1
  <2>4. Seen(i + 1) = Seen(i) \cup {list[i + 1]}
    BY <2>3
  <2>5. list[i + 1] \in Action /\ f[i] \in Seq(Action) /\ ToSet(f[i]) = Seen(i) \cap T
    BY <1>1, <1>11, <2>1
  <2>6. CASE list[i + 1] \in T
    <3>1. f[i + 1] \in Seq(Action) /\ ToSet(f[i + 1]) = ToSet(f[i]) \cup {list[i + 1]}
      BY <2>2, <2>5, <2>6, AppendedSet
    <3>2. QED
      BY <2>1, <2>4, <2>5, <2>6, <3>1
  <2>7. CASE list[i + 1] \notin T
    BY <2>1, <2>2, <2>4, <2>5, <2>7
  <2>8. QED
    BY <2>6, <2>7
<1>12. n \in S
  <2> HIDE DEF S, n
  <2>1. 0 \in Nat /\ 0 .. n = 0 .. n
    OBVIOUS
  <2>2. \A i \in 0 .. n : i \in S
    BY <1>1, <1>10, <1>11, IntervalInduction
  <2>3. QED
    BY <1>1, <2>2
<1>13. Seen(n) = ToSet(list)
  BY <1>1 DEF ToSet
<1>14. QED
  BY <1>2, <1>12, <1>13

(* A list without some of the actions.                                     *)
LEMMA WithoutFacts ==
    ASSUME NEW list \in Seq(Action), NEW o
    PROVE  /\ WithoutActionsOf(list, o) \in Seq(Action)
           /\ ToSet(WithoutActionsOf(list, o)) = {a \in ToSet(list) : a.ob # o}
           /\ WithoutShadowActionsOf(list, o) \in Seq(Action)
           /\ ToSet(WithoutShadowActionsOf(list, o)) \subseteq ToSet(list)
<1>1. ToSet(list) \subseteq Action
  BY ElementOfSeq, LenProperties DEF ToSet
<1>2. QED
  BY <1>1, KeptFacts DEF WithoutActionsOf, WithoutShadowActionsOf

LEMMA WithoutShadowActionsFacts ==
    ASSUME sent \in [Obj -> Seq(Action)], NEW s, NEW target
    PROVE  /\ WithoutShadowActions(s, target) \in [Obj -> Seq(Action)]
           /\ \A h \in Obj : ToSet(WithoutShadowActions(s, target)[h]) \subseteq ToSet(sent[h])
<1>1. \A h \in Obj : sent[h] \in Seq(Action)
  OBVIOUS
<1>2. \A h \in Obj :
         /\ WithoutShadowActionsOf(sent[h], s) \in Seq(Action)
         /\ ToSet(WithoutShadowActionsOf(sent[h], s)) \subseteq ToSet(sent[h])
  BY <1>1, WithoutFacts
<1>3. QED
  BY <1>1, <1>2 DEF WithoutShadowActions

(* Parts of a sequence put together.                                       *)
LEMMA JoinedSet ==
    ASSUME NEW A, NEW s \in Seq(A), NEW t \in Seq(A)
    PROVE  s \o t \in Seq(A) /\ ToSet(s \o t) = ToSet(s) \cup ToSet(t)
<1>1. /\ s \o t \in Seq(A) /\ Len(s \o t) = Len(s) + Len(t)
      /\ \A i \in 1 .. Len(s) + Len(t) :
            (s \o t)[i] = IF i <= Len(s) THEN s[i] ELSE t[i - Len(s)]
  BY ConcatProperties
<1>2. /\ Len(s) \in Nat /\ Len(t) \in Nat
      /\ DOMAIN (s \o t) = 1 .. Len(s) + Len(t)
      /\ DOMAIN s = 1 .. Len(s) /\ DOMAIN t = 1 .. Len(t)
  BY <1>1, LenProperties
<1>3. \A i \in 1 .. Len(s) : i \in 1 .. Len(s) + Len(t) /\ (s \o t)[i] = s[i]
  BY <1>1, <1>2
<1>4. \A i \in 1 .. Len(t) :
         Len(s) + i \in 1 .. Len(s) + Len(t) /\ (s \o t)[Len(s) + i] = t[i]
  BY <1>1, <1>2
<1>5. \A i \in 1 .. Len(s) + Len(t) :
         \/ i \in 1 .. Len(s) /\ (s \o t)[i] = s[i]
         \/ i - Len(s) \in 1 .. Len(t) /\ (s \o t)[i] = t[i - Len(s)]
  BY <1>1, <1>2
<1>6. ToSet(s) \subseteq ToSet(s \o t)
  BY <1>2, <1>3 DEF ToSet
<1>7. ToSet(t) \subseteq ToSet(s \o t)
  BY <1>2, <1>4 DEF ToSet
<1>8. ToSet(s \o t) \subseteq ToSet(s) \cup ToSet(t)
  BY <1>2, <1>5 DEF ToSet
<1>9. QED
  BY <1>1, <1>6, <1>7, <1>8

(* Who leaves his environment keeps his own actions, those of the objects  *)
(* inside of him and of others that are not near, and what is put down to  *)
(* his shadow.                                                             *)
LEMMA WithoutEnvironmentFacts ==
    ASSUME NEW item \in Obj, sent \in [Obj -> Seq(Action)]
    PROVE  /\ WithoutEnvironment(item) \in Seq(Action)
           /\ ToSet(WithoutEnvironment(item)) \subseteq
                 {a \in ToSet(sent[item]) :
                     \/ a.ob = shadowed_by[item]
                     \/ a.ob # super[item] /\ (a.ob = item \/ super[a.ob] # super[item])}
<1> DEFINE list == sent[item]
           n == Len(list)
           runs == {k \in 0 .. n : \A i \in 1 .. k : list[i].ob = shadowed_by[item]}
           k == IF item \in o_shadow THEN Max(runs) ELSE 0
           T == {a \in Action : /\ a.ob # super[item]
                                /\ a.ob = item \/ super[a.ob] # super[item]}
           head == SubSeq(list, 1, k)
           rest == SubSeq(list, k + 1, n)
<1>1. list \in Seq(Action) /\ n \in Nat /\ DOMAIN list = 1 .. n
      /\ \A i \in 1 .. n : list[i] \in Action
  BY LenProperties, ElementOfSeq
<1>2. k \in 0 .. n /\ \A i \in 1 .. k : list[i].ob = shadowed_by[item]
  <2>1. 0 \in runs /\ runs \in SUBSET (0 .. n)
    BY <1>1
  <2>2. Max(runs) \in runs
    BY <1>1, <2>1, MaxFacts
  <2>3. QED
    BY <1>1, <2>2
<1>3. WithoutEnvironment(item) = head \o Kept(rest, T)
  BY DEF WithoutEnvironment
<1> HIDE DEF k, T
<1>4. /\ head \in Seq(Action) /\ Len(head) = k
      /\ \A i \in 1 .. k : head[i] = list[i]
  <2>1. 1 \in 1 .. n + 1 /\ k \in 0 .. n
    BY <1>1, <1>2
  <2>2. /\ head \in Seq(Action)
        /\ Len(head) = (IF 1 <= k THEN k - 1 + 1 ELSE 0)
        /\ \A i \in 1 .. k - 1 + 1 : head[i] = list[1 + i - 1]
    BY <1>1, <2>1, SubSeqProperties
  <2>3. QED
    BY <1>1, <1>2, <2>2
<1>5. /\ rest \in Seq(Action) /\ Len(rest) = n - k
      /\ \A i \in 1 .. n - k : rest[i] = list[k + i]
  <2>1. k + 1 \in 1 .. n + 1 /\ n \in k .. n
    BY <1>1, <1>2
  <2>2. /\ rest \in Seq(Action)
        /\ Len(rest) = (IF k + 1 <= n THEN n - (k + 1) + 1 ELSE 0)
        /\ \A i \in 1 .. n - (k + 1) + 1 : rest[i] = list[k + 1 + i - 1]
    BY <1>1, <1>2, <2>1, SubSeqProperties
  <2>3. Len(rest) = n - k
    <3> HIDE DEF n, rest
    <3>1. QED
      BY <1>1, <1>2, <2>2
  <2>4. ASSUME NEW i \in 1 .. n - k
        PROVE  rest[i] = list[k + i]
    <3> HIDE DEF n, rest, list
    <3>1. k + 1 + i - 1 = k + i /\ i \in 1 .. n - (k + 1) + 1
      BY <1>1, <1>2
    <3>2. QED
      BY <2>2, <3>1
  <2>5. QED
    BY <2>2, <2>3, <2>4
<1>6. ToSet(head) \subseteq {a \in ToSet(list) : a.ob = shadowed_by[item]}
  <2>1. DOMAIN head = 1 .. k
    BY <1>4, LenProperties
  <2>2. \A i \in 1 .. k : i \in 1 .. n
    BY <1>1, <1>2
  <2>3. QED
    BY <1>1, <1>2, <1>4, <2>1, <2>2 DEF ToSet
<1>7. ToSet(rest) \subseteq ToSet(list)
  <2>1. DOMAIN rest = 1 .. n - k
    BY <1>5, LenProperties
  <2>2. \A i \in 1 .. n - k : k + i \in 1 .. n
    BY <1>1, <1>2
  <2>3. QED
    BY <1>1, <1>5, <2>1, <2>2 DEF ToSet
<1>8. Kept(rest, T) \in Seq(Action) /\ ToSet(Kept(rest, T)) = ToSet(rest) \cap T
  BY <1>5, KeptFacts
<1>9. /\ WithoutEnvironment(item) \in Seq(Action)
      /\ ToSet(WithoutEnvironment(item)) = ToSet(head) \cup ToSet(Kept(rest, T))
  <2> HIDE DEF head, rest
  <2>1. QED
    BY <1>3, <1>4, <1>8, JoinedSet
<1>10. QED
  <2> HIDE DEF head, rest, list
  <2>1. \A a \in T : a.ob # super[item] /\ (a.ob = item \/ super[a.ob] # super[item])
    BY DEF T
  <2>2. QED
    BY <1>6, <1>7, <1>8, <1>9, <2>1 DEF list

-----------------------------------------------------------------------------
(* ----- Actions and what they are near to --------------------------------- *)
(* The types of what the links do not depend on.                           *)
OtherTypes ==
    /\ sent \in [Obj -> Seq(Action)]
    /\ asking \in Seq({q \in Shadower \X Obj : q[1] # q[2]})
    /\ pc \in {"lpc", "walk"} /\ walker \in Ptr /\ above \subseteq Obj

(* Who shadows is a Shadower, and what surrounds is a Container.           *)
Roles ==
    /\ \A x \in Obj : shadowing[x] # NULL => x \in Shadower
    /\ \A x \in Obj : super[x] \in Container \cup {NULL}

NearInv == \A h \in Live : \A a \in ToSet(sent[h]) : Near(a.ob, h)

LEMMA NearIsNear ==
    ASSUME sent \in [Obj -> Seq(Action)]
    PROVE  NearInv <=> ActionsNear
BY DEF NearInv, ActionsNear, ToSet, Live

(* Sentences are only removed and nobody moves.                            *)
LEMMA NearKept ==
    ASSUME NearInv, destructed \subseteq destructed', UNCHANGED super,
           \A h \in Obj : ToSet(sent'[h]) \subseteq ToSet(sent[h])
    PROVE  NearInv'
BY DEF NearInv, Live, Near

(* At the end of destruct() the neighbours lose the actions of the victim, *)
(* and nobody is inside of it any more.                                    *)
LEMMA NearWithout ==
    ASSUME LinkInv, OtherTypes, NearInv, DestructEnd
    PROVE  NearInv'
<1> USE NullAssumption
<1>1. /\ victim \in Obj /\ \A y \in Obj : super[y] # victim
      /\ sent \in [Obj -> Seq(Action)] /\ super \in [Obj -> Ptr]
  BY DEF LinkInv, LinkType, VictimCut, OtherTypes, DestructEnd
<1>2. \A x \in Obj : super'[x] = IF x = victim THEN NULL ELSE super[x]
  BY <1>1 DEF DestructEnd
<1>3. \A h \in Obj :
         sent'[h] = IF super[victim] # NULL /\ (h = super[victim] \/ super[h] = super[victim])
                    THEN WithoutActionsOf(sent[h], victim) ELSE sent[h]
  BY DEF DestructEnd
<1>4. Live' = Live \ {victim}
  BY DEF DestructEnd, Live
<1> SUFFICES ASSUME NEW h \in Live \ {victim}, NEW a \in ToSet(sent'[h])
             PROVE  Near(a.ob, h)'
  BY <1>4 DEF NearInv
<1>5. h \in Obj /\ sent[h] \in Seq(Action)
  BY <1>1 DEF Live
<1>6. /\ a \in ToSet(sent[h])
      /\ super[victim] # NULL /\ (h = super[victim] \/ super[h] = super[victim])
            => a.ob # victim
  BY <1>3, <1>5, WithoutFacts
<1>7. Near(a.ob, h)
  BY <1>6 DEF NearInv
<1>8. a.ob \in Obj
  <2>1. a \in Action
    BY <1>5, <1>6, ElementOfSeq, LenProperties DEF ToSet
  <2>2. QED
    BY <2>1 DEF Action
<1>9. a.ob # victim
  BY <1>1, <1>5, <1>6, <1>7 DEF Near
<1>10. super'[h] = super[h] /\ super'[a.ob] = super[a.ob]
  BY <1>2, <1>5, <1>8, <1>9
<1>11. QED
  BY <1>7, <1>10 DEF Near

(* set_environment(): the actions of who leaves are removed from who stays *)
(* and those of who stays from him; the shadow sentence misleads the walk  *)
(* along his list only if what shadows him is also around him.             *)
LEMMA NearMoved ==
    ASSUME Shadower \cap Container = {}, LinkInv, OtherTypes, Roles, NearInv,
           NEW item \in Obj, NEW dest \in Ptr, set_environment(item, dest)
    PROVE  NearInv'
<1> USE NullAssumption
<1>1. /\ sent \in [Obj -> Seq(Action)] /\ super \in [Obj -> Ptr]
      /\ shadowed_by \in [Obj -> Ptr]
  BY DEF LinkInv, LinkType, OtherTypes
<1>2. \A x \in Obj : super'[x] = IF x = item THEN dest ELSE super[x]
  BY <1>1 DEF set_environment
<1>3. Live' = Live
  BY DEF set_environment, Live
<1> SUFFICES ASSUME NEW h \in Live, NEW a \in ToSet(sent'[h])
             PROVE  Near(a.ob, h)'
  BY <1>3 DEF NearInv
<1>4. h \in Obj /\ sent[h] \in Seq(Action)
  BY <1>1 DEF Live
<1>5. /\ super[item] = NULL => sent'[h] = sent[h]
      /\ super[item] # NULL =>
            sent'[h] = IF h = item THEN WithoutEnvironment(item)
                       ELSE IF h = super[item] \/ super[h] = super[item]
                       THEN WithoutActionsOf(sent[h], item) ELSE sent[h]
  BY <1>4 DEF set_environment, Left
<1>6. a \in ToSet(sent[h])
  BY <1>1, <1>4, <1>5, WithoutFacts, WithoutEnvironmentFacts
<1>7. Near(a.ob, h)
  BY <1>6 DEF NearInv
<1>8. a.ob \in Obj
  <2>1. a \in Action
    BY <1>4, <1>6, ElementOfSeq, LenProperties DEF ToSet
  <2>2. QED
    BY <2>1 DEF Action
<1>9. CASE h # item
  <2>1. super'[h] = super[h]
    BY <1>2, <1>4, <1>9
  <2>2. CASE a.ob # item
    BY <1>2, <1>7, <1>8, <2>1, <2>2 DEF Near
  <2>3. CASE a.ob = item
    <3>1. ~(super[item] # NULL /\ (h = super[item] \/ super[h] = super[item]))
      BY <1>4, <1>5, <1>9, <2>3, WithoutFacts
    <3>2. super[h] = item
      BY <1>1, <1>4, <1>7, <1>9, <2>3, <3>1 DEF Near
    <3>3. QED
      BY <2>1, <2>3, <3>2 DEF Near
  <2>4. QED
    BY <2>2, <2>3
<1>10. CASE h = item
  <2>1. a.ob = item \/ super[a.ob] = item
    <3>1. CASE super[item] = NULL
      BY <1>7, <1>8, <1>10, <3>1 DEF Near
    <3>2. CASE super[item] # NULL
      <4>1. \/ a.ob = shadowed_by[item]
            \/ a.ob # super[item] /\ (a.ob = item \/ super[a.ob] # super[item])
        BY <1>1, <1>5, <1>10, <3>2, WithoutEnvironmentFacts
      <4>2. CASE a.ob = shadowed_by[item]
        <5>1. shadowing[a.ob] = item
          BY <1>8, <4>2 DEF LinkInv, Mutual
        <5>2. a.ob \in Shadower /\ super[a.ob] = NULL
          BY <1>8, <5>1 DEF Roles, LinkInv, ShadowsOutside
        <5>3. a.ob # super[item]
          BY <3>2, <5>2 DEF Roles
        <5>4. QED
          BY <1>7, <1>10, <3>2, <5>2, <5>3 DEF Near
      <4>3. CASE a.ob # super[item] /\ (a.ob = item \/ super[a.ob] # super[item])
        BY <1>7, <1>10, <4>3 DEF Near
      <4>4. QED
        BY <4>1, <4>2, <4>3
    <3>3. QED
      BY <3>1, <3>2
  <2>2. super[a.ob] = item /\ a.ob # item => super'[a.ob] = item
    BY <1>2, <1>8
  <2>3. QED
    BY <1>10, <2>1, <2>2 DEF Near
<1>11. QED
  BY <1>9, <1>10

(* A new action comes to a player from something near.                     *)
LEMMA AddActionStep ==
    ASSUME LinkInv, OtherTypes, NEW cur \in Obj, NEW p \in Obj, AddAction(cur, p)
    PROVE  sent' \in [Obj -> Seq(Action)] /\ (NearInv => NearInv')
<1> DEFINE ob == End(shadowing, cur)
           a == [ob |-> ob, shadow_ob |-> IF shadowing[cur] # NULL THEN cur ELSE NULL]
<1>1. sent \in [Obj -> Seq(Action)] /\ shadowing \in [Obj -> Ptr] /\ Ends(shadowing)
  BY DEF LinkInv, LinkType, Grounded, OtherTypes
<1>2. ob \in Obj
  BY <1>1, EndIsLast DEF Along
<1>3. a \in Action
  BY <1>2 DEF Action, Ptr
<1>4. Near(ob, p) /\ sent' = [sent EXCEPT ![p] = <<a>> \o @]
      /\ UNCHANGED <<super, destructed>>
  BY DEF AddAction
<1>5. sent[p] \in Seq(Action) /\ <<a>> \in Seq(Action)
  <2> HIDE DEF a
  <2>1. QED
    BY <1>1, <1>3
<1> HIDE DEF a
<1>6. ToSet(<<a>>) = {a}
  <2>1. DOMAIN <<a>> = {1} /\ <<a>>[1] = a
    OBVIOUS
  <2>2. QED
    BY <2>1 DEF ToSet
<1>7. /\ <<a>> \o sent[p] \in Seq(Action)
      /\ ToSet(<<a>> \o sent[p]) = {a} \cup ToSet(sent[p])
  <2>1. PICK f, g : f = <<a>> /\ g = sent[p]
    OBVIOUS
  <2>2. f \in Seq(Action) /\ g \in Seq(Action) /\ ToSet(f) = {a}
    BY <1>5, <1>6, <2>1
  <2>3. f \o g \in Seq(Action) /\ ToSet(f \o g) = ToSet(f) \cup ToSet(g)
    BY <2>2, JoinedSet
  <2>4. QED
    BY <2>1, <2>2, <2>3
<1>8. \A h \in Obj : sent'[h] = IF h = p THEN <<a>> \o sent[p] ELSE sent[h]
  BY <1>1, <1>4
<1>9. sent' \in [Obj -> Seq(Action)]
  BY <1>1, <1>4, <1>7
<1>10. ASSUME NearInv
       PROVE  NearInv'
  <2> SUFFICES ASSUME NEW h \in Live, NEW b \in ToSet(sent'[h])
               PROVE  Near(b.ob, h)
    BY <1>4 DEF NearInv, Live, Near
  <2>1. h \in Obj
    BY DEF Live
  <2>2. CASE b \in ToSet(sent[h])
    BY <1>10, <2>2 DEF NearInv
  <2>3. CASE b \notin ToSet(sent[h])
    <3>1. h = p /\ b = a
      BY <1>7, <1>8, <2>1, <2>3
    <3>2. a.ob = ob
      BY DEF a
    <3>3. QED
      BY <1>4, <3>1, <3>2
  <2>4. QED
    BY <2>2, <2>3
<1>11. QED
  BY <1>9, <1>10

(* A new object has no actions.                                            *)
LEMMA NearRecycled ==
    ASSUME OtherTypes, NearInv, NEW ob \in Obj, Recycle(ob)
    PROVE  sent' \in [Obj -> Seq(Action)] /\ NearInv'
<1>1. << >> \in Seq(Action) /\ ToSet(<< >>) = {}
  BY DEF ToSet
<1>2. /\ sent \in [Obj -> Seq(Action)] /\ sent' = [sent EXCEPT ![ob] = << >>]
      /\ destructed' = destructed \ {ob} /\ super' = super
  BY DEF OtherTypes, Recycle
<1>3. sent' \in [Obj -> Seq(Action)]
  BY <1>1, <1>2
<1>4. \A h \in Obj : sent'[h] = IF h = ob THEN << >> ELSE sent[h]
  BY <1>2
<1>5. \A h \in Live' : h = ob \/ h \in Live
  BY <1>2 DEF Live
<1>6. NearInv'
  BY <1>1, <1>2, <1>4, <1>5 DEF NearInv, Near, Live
<1>7. QED
  BY <1>3, <1>6

(* Sentences are only taken away.                                          *)
SentencesShrink ==
    /\ sent' \in [Obj -> Seq(Action)]
    /\ \A h \in Obj : ToSet(sent'[h]) \subseteq ToSet(sent[h])

LEMMA SentencesSame ==
    ASSUME OtherTypes, UNCHANGED sent
    PROVE  SentencesShrink
BY DEF OtherTypes, SentencesShrink

LEMMA DestructsShrink ==
    ASSUME OtherTypes,
           \/ \E ob \in Obj : Unshadow(ob)
           \/ \E ob \in Obj : Destruct(ob)
           \/ DestructWalk
           \/ DestructEnd
    PROVE  SentencesShrink
<1>1. sent \in [Obj -> Seq(Action)]
  BY DEF OtherTypes
<1>2. ASSUME NEW s, NEW target, sent' = WithoutShadowActions(s, target)
      PROVE  SentencesShrink
  BY <1>1, <1>2, WithoutShadowActionsFacts DEF SentencesShrink
<1>3. ASSUME NEW ob \in Obj, Unshadow(ob) \/ Destruct(ob)
      PROVE  SentencesShrink
  BY <1>2, <1>3, SentencesSame DEF Unshadow, Destruct
<1>4. CASE DestructWalk
  BY <1>2, <1>4 DEF DestructWalk
<1>5. CASE DestructEnd
  <2>1. sent' = [h \in Obj |->
                  IF super[victim] # NULL /\ (h = super[victim] \/ super[h] = super[victim])
                  THEN WithoutActionsOf(sent[h], victim) ELSE sent[h]]
    BY <1>5 DEF DestructEnd
  <2>2. \A h \in Obj :
           /\ sent[h] \in Seq(Action)
           /\ WithoutActionsOf(sent[h], victim) \in Seq(Action)
           /\ ToSet(WithoutActionsOf(sent[h], victim)) \subseteq ToSet(sent[h])
    BY <1>1, WithoutFacts
  <2>3. QED
    BY <2>1, <2>2 DEF SentencesShrink
<1>6. QED
  BY <1>3, <1>4, <1>5

LEMMA RemoveActionShrinks ==
    ASSUME OtherTypes, NEW cur \in Obj, NEW p \in Obj, RemoveAction(cur, p)
    PROVE  SentencesShrink
<1> DEFINE T == {a \in Action : \/ a.ob # End(shadowing, cur)
                                \/ shadowing[cur] # NULL /\ a.shadow_ob # cur}
<1>1. sent \in [Obj -> Seq(Action)] /\ sent' = [sent EXCEPT ![p] = Kept(@, T)]
  BY DEF OtherTypes, RemoveAction
<1> HIDE DEF T
<1>2. sent[p] \in Seq(Action)
  BY <1>1
<1>3. Kept(sent[p], T) \in Seq(Action) /\ ToSet(Kept(sent[p], T)) \subseteq ToSet(sent[p])
  BY <1>2, KeptFacts
<1>4. QED
  BY <1>1, <1>3 DEF SentencesShrink

LEMMA set_environmentShrinks ==
    ASSUME OtherTypes, NEW item \in Obj, NEW dest \in Ptr, set_environment(item, dest)
    PROVE  SentencesShrink
<1>1. sent \in [Obj -> Seq(Action)]
  BY DEF OtherTypes
<1>2. CASE super[item] = NULL
  BY <1>2, SentencesSame DEF set_environment
<1>3. CASE super[item] # NULL
  <2>1. sent' = Left(item)
    BY <1>3 DEF set_environment
  <2>2. \A h \in Obj :
           /\ sent[h] \in Seq(Action)
           /\ WithoutActionsOf(sent[h], item) \in Seq(Action)
           /\ ToSet(WithoutActionsOf(sent[h], item)) \subseteq ToSet(sent[h])
    BY <1>1, WithoutFacts
  <2>3. /\ WithoutEnvironment(item) \in Seq(Action)
        /\ ToSet(WithoutEnvironment(item)) \subseteq ToSet(sent[item])
    BY <1>1, WithoutEnvironmentFacts
  <2>4. QED
    BY <2>1, <2>2, <2>3 DEF SentencesShrink, Left
<1>4. QED
  BY <1>2, <1>3

(* What the question of shadow() needs of the stack of questions.          *)
AskedPairs == {q \in Shadower \X Obj : q[1] # q[2]}

LEMMA AnsweredTyped ==
    ASSUME LinkInv, OtherTypes, asking # << >>
    PROVE  /\ Answered \in Seq(AskedPairs)
           /\ Cob \in Shadower
<1>1. Len(asking) = 1
  BY OneIsAsked
<1>2. asking \in Seq(AskedPairs)
  BY DEF OtherTypes, AskedPairs
<1>3. asking[1] \in AskedPairs
  BY <1>1, <1>2, ElementOfSeq
<1>4. Answered = << >>
  <2>1. Len(asking) - 1 = 0
    BY <1>1
  <2>2. SubSeq(asking, 1, 0) = << >>
    BY SubSeqEmpty
  <2>3. QED
    BY <2>1, <2>2, Zenon DEF Answered
<1>5. QED
  BY <1>1, <1>3, <1>4 DEF Cob, AskedPairs

LEMMA OtherTypesStep ==
    ASSUME Discreet, LinkInv, OtherTypes, [Next]_vars
    PROVE  OtherTypes'
<1> USE NullAssumption
<1>1. CASE \E cob, ob \in Obj : AskToShadow(cob, ob)
  <2>1. PICK cob, ob \in Obj : AskToShadow(cob, ob)
    BY <1>1
  <2>2. <<cob, ob>> \in AskedPairs /\ asking \in Seq(AskedPairs)
    BY <2>1 DEF AskToShadow, MayAsk, OtherTypes, AskedPairs
  <2>3. asking' = Append(asking, <<cob, ob>>)
    BY <2>1 DEF AskToShadow
  <2>4. asking' \in Seq(AskedPairs)
    <3>1. asking = << >>
      BY <2>1 DEF AskToShadow, LPC, Discreet
    <3>2. asking' = <<<<cob, ob>>>>
      BY <2>3, <3>1
    <3>3. QED
      BY <2>2, <3>2
  <2>5. QED
    BY <2>1, <2>4 DEF AskToShadow, OtherTypes, walk, AskedPairs
<1>2. CASE AllowShadow \/ DenyShadow
  <2>1. asking' \in Seq(AskedPairs)
    BY <1>2, AnsweredTyped DEF AllowShadow, DenyShadow
  <2>2. QED
    BY <1>2, <2>1 DEF AllowShadow, DenyShadow, OtherTypes, walk, AskedPairs
<1>3. CASE \/ \E ob \in Obj : Unshadow(ob)
           \/ \E ob \in Obj : Destruct(ob)
           \/ DestructWalk
           \/ DestructEnd
  <2>1. sent' \in [Obj -> Seq(Action)]
    BY <1>3, DestructsShrink DEF SentencesShrink
  <2>2. asking' = asking
    BY <1>3 DEF Unshadow, Destruct, DestructWalk, DestructEnd
  <2>3. pc' \in {"lpc", "walk"}
    BY <1>3 DEF Unshadow, Destruct, DestructWalk, DestructEnd, walk, OtherTypes
  <2>4. walker' \in Ptr /\ above' \subseteq Obj
    <3>1. CASE \E ob \in Obj : Unshadow(ob)
      BY <3>1 DEF Unshadow, walk, OtherTypes
    <3>2. CASE \E ob \in Obj : Destruct(ob)
      BY <3>2 DEF Destruct, Along, LinkInv, LinkType
    <3>3. CASE DestructWalk
      <4>1. walker \in Obj
        BY <3>3 DEF DestructWalk, OtherTypes, Ptr
      <4>2. FirstSentence(walker) \in Ptr
        <5>1. sent'[walker] # << >> => sent'[walker][1] \in Action
          <6>1. sent'[walker] \in Seq(Action)
            BY <2>1, <4>1
          <6>2. sent'[walker] # << >> => Len(sent'[walker]) \in Nat \ {0}
            BY <6>1, EmptySeq, LenProperties
          <6>3. QED
            BY <6>1, <6>2, ElementOfSeq
        <5>2. QED
          BY <4>1, <5>1 DEF FirstSentence, Action, Ptr, LinkInv, LinkType
      <4>3. QED
        BY <3>3, <4>2 DEF DestructWalk, OtherTypes
    <3>4. CASE DestructEnd
      BY <3>4 DEF DestructEnd, Ptr
    <3>5. QED
      BY <1>3, <3>1, <3>2, <3>3, <3>4
  <2>5. QED
    BY <2>1, <2>2, <2>3, <2>4 DEF OtherTypes
<1>4. CASE \E ob \in Obj : ReplaceProgram(ob)
  BY <1>4 DEF ReplaceProgram, OtherTypes, walk
<1>5. CASE \E ob \in Obj : Recycle(ob)
  <2>1. << >> \in Seq(Action)
    OBVIOUS
  <2>2. QED
    BY <1>5, <2>1 DEF Recycle, OtherTypes, walk
<1>6. CASE \E item \in Obj, dest \in Ptr : set_environment(item, dest)
  <2>1. sent' \in [Obj -> Seq(Action)]
    BY <1>6, set_environmentShrinks DEF SentencesShrink
  <2>2. QED
    BY <1>6, <2>1 DEF set_environment, OtherTypes, walk
<1>7. CASE \E cur, p \in Obj : AddAction(cur, p)
  <2>1. sent' \in [Obj -> Seq(Action)]
    BY <1>7, AddActionStep
  <2>2. QED
    BY <1>7, <2>1 DEF AddAction, OtherTypes, walk
<1>8. CASE \E cur, p \in Obj : RemoveAction(cur, p)
  <2>1. sent' \in [Obj -> Seq(Action)]
    BY <1>8, RemoveActionShrinks DEF SentencesShrink
  <2>2. QED
    BY <1>8, <2>1 DEF RemoveAction, OtherTypes, walk
<1>9. CASE \/ \E ob \in Obj : Connect(ob)
           \/ \E ob \in Obj : Disconnect(ob)
           \/ \E ob, obfrom \in Obj : Exec(ob, obfrom)
  BY <1>9 DEF Connect, Disconnect, Exec, OtherTypes, walk
<1>10. CASE UNCHANGED vars
  BY <1>10 DEF vars, OtherTypes, walk
<1>11. QED
  BY <1>1, <1>2, <1>3, <1>4, <1>5, <1>6, <1>7, <1>8, <1>9, <1>10 DEF Next

(* Links are made by those who may shadow, and moves lead into containers. *)
LEMMA RolesStep ==
    ASSUME Discreet, LinkInv, OtherTypes, Roles, [Next]_vars
    PROVE  Roles'
<1> USE NullAssumption
<1>1. shadowing \in [Obj -> Ptr] /\ super \in [Obj -> Ptr]
  BY DEF LinkInv, LinkType
<1>2. ASSUME NEW ob \in Obj, shadowing' = ShadowingWithout(ob),
             shadowed_by' = ShadowedByWithout(ob), super' = super
      PROVE  Roles'
  <2>1. \A x \in Obj : shadowing[x] = NULL => shadowing'[x] = NULL
    BY <1>2, LeavingKeepsChains
  <2>2. QED
    BY <1>2, <2>1 DEF Roles
<1>3. CASE \/ \E ob \in Obj : Unshadow(ob)
           \/ \E ob \in Obj : ReplaceProgram(ob)
           \/ \E ob \in Obj : Destruct(ob)
  BY <1>2, <1>3 DEF Unshadow, ReplaceProgram, Destruct
<1>4. CASE AllowShadow
  <2>1. asking # << >> /\ shadowing' = [shadowing EXCEPT ![Cob] = Shadowed] /\ super' = super
    BY <1>4 DEF AllowShadow
  <2>2. Cob \in Shadower
    BY <2>1, AnsweredTyped
  <2>3. \A x \in Obj : x = Cob \/ shadowing'[x] = shadowing[x]
    BY <1>1, <2>1
  <2>4. QED
    BY <2>1, <2>2, <2>3 DEF Roles
<1>5. CASE DestructEnd
  <2>1. shadowing' = shadowing /\ super' = [super EXCEPT ![victim] = NULL]
    BY <1>5 DEF DestructEnd
  <2>2. QED
    BY <1>1, <2>1 DEF Roles
<1>6. CASE \E item \in Obj, dest \in Ptr : set_environment(item, dest)
  BY <1>1, <1>6 DEF set_environment, Roles, links
<1>7. CASE UNCHANGED <<shadowing, super>>
  BY <1>7 DEF Roles
<1>8. QED
  BY <1>3, <1>4, <1>5, <1>6, <1>7
     DEF Next, AskToShadow, DenyShadow, DestructWalk, Recycle, AddAction, RemoveAction,
         Connect, Disconnect, Exec, vars, links

LEMMA NearStep ==
    ASSUME Discreet, Shadower \cap Container = {},
           LinkInv, OtherTypes, Roles, NearInv, [Next]_vars
    PROVE  NearInv'
<1>1. CASE \/ \E ob \in Obj : Unshadow(ob)
           \/ \E ob \in Obj : Destruct(ob)
           \/ DestructWalk
  <2>1. SentencesShrink /\ UNCHANGED <<super, destructed>>
    BY <1>1, DestructsShrink DEF Unshadow, Destruct, DestructWalk
  <2>2. QED
    BY <2>1, NearKept DEF SentencesShrink
<1>2. CASE DestructEnd
  BY <1>2, NearWithout
<1>3. CASE \E ob \in Obj : Recycle(ob)
  BY <1>3, NearRecycled
<1>4. CASE \E item \in Obj, dest \in Ptr : set_environment(item, dest)
  BY <1>4, NearMoved
<1>5. CASE \E cur, p \in Obj : AddAction(cur, p)
  BY <1>5, AddActionStep
<1>6. CASE \E cur, p \in Obj : RemoveAction(cur, p)
  <2>1. SentencesShrink /\ UNCHANGED <<super, destructed>>
    BY <1>6, RemoveActionShrinks DEF RemoveAction
  <2>2. QED
    BY <2>1, NearKept DEF SentencesShrink
<1>7. CASE UNCHANGED <<sent, super, destructed>>
  BY <1>7, NearKept
<1>8. QED
  BY <1>1, <1>2, <1>3, <1>4, <1>5, <1>6, <1>7
     DEF Next, AskToShadow, AllowShadow, DenyShadow, ReplaceProgram, Connect, Disconnect,
         Exec, vars, links

LEMMA SentInvInit == Init => OtherTypes /\ Roles /\ NearInv
<1> SUFFICES ASSUME Init PROVE OtherTypes /\ Roles /\ NearInv
  OBVIOUS
<1>1. << >> \in Seq(Action) /\ ToSet(<< >>) = {} /\ << >> \in Seq(AskedPairs)
  BY DEF ToSet
<1>2. OtherTypes
  BY <1>1 DEF Init, OtherTypes, Ptr, AskedPairs
<1>3. QED
  BY <1>1, <1>2 DEF Init, Roles, NearInv, Live

LEMMA SentInvariant ==
    ASSUME Discreet
    PROVE  Spec => [](OtherTypes /\ Roles)
<1>1. LinkInv /\ OtherTypes /\ Roles /\ [Next]_vars => (OtherTypes /\ Roles)'
  BY OtherTypesStep, RolesStep
<1>2. QED
  BY SentInvInit, <1>1, LinksInvariant, PTL DEF Spec

(* The variables have their types: what O_GET_SHADOW() reads is an object  *)
(* or nothing, and the object that an action is put down to exists.        *)
THEOREM TypeCorrectness ==
    ASSUME Discreet
    PROVE  Spec => []TypeOK
<1>1. LinkInv /\ OtherTypes => TypeOK
  BY DEF LinkInv, LinkType, OtherTypes, TypeOK
<1>2. QED
  BY <1>1, LinksInvariant, SentInvariant, PTL

(* Whoever moves, unshadows or is destructed: the actions an object has    *)
(* are those of what is near, if no object shadows what is inside of it.   *)
THEOREM ActionsStayNear ==
    ASSUME Discreet, Shadower \cap Container = {}
    PROVE  Spec => []ActionsNear
<1>1. LinkInv /\ OtherTypes /\ Roles /\ NearInv /\ [Next]_vars => NearInv'
  BY NearStep
<1>2. OtherTypes /\ NearInv => ActionsNear
  BY NearIsNear DEF OtherTypes
<1>3. QED
  BY SentInvInit, <1>1, <1>2, LinksInvariant, SentInvariant, PTL DEF Spec

-----------------------------------------------------------------------------
(* ----- Piles ----------------------------------------------------------- *)
(* An object with its shadows, from the bottom up to the last.             *)
Pile(up, down, s) ==
    /\ s \in Seq(Obj) /\ Len(s) > 1
    /\ \A i, j \in 1 .. Len(s) : s[i] = s[j] => i = j
    /\ down[s[1]] = NULL /\ up[s[Len(s)]] = NULL
    /\ \A i \in 1 .. Len(s) - 1 : up[s[i]] = s[i + 1]

Piles(up, down) == {s \in Seq(Obj) : Pile(up, down, s)}

(* Links of which one leads back where the other comes from.               *)
Paired(up, down) ==
    /\ up \in [Obj -> Ptr] /\ down \in [Obj -> Ptr]
    /\ \A x, y \in Obj : down[x] = y <=> up[y] = x

(* What is known of a pile, up and down.                                   *)
Shape(up, down, s) ==
    /\ s \in Seq(Obj) /\ Len(s) \in Nat /\ Len(s) > 1 /\ ToSet(s) \subseteq Obj
    /\ 1 \in 1 .. Len(s) /\ Len(s) \in 1 .. Len(s)
    /\ ToSet(s) = {s[i] : i \in 1 .. Len(s)}
    /\ \A i, j \in 1 .. Len(s) : s[i] = s[j] => i = j
    /\ \A i \in 1 .. Len(s) :
          /\ s[i] \in Obj /\ s[i] \in ToSet(s)
          /\ up[s[i]] = IF i = Len(s) THEN NULL ELSE s[i + 1]
          /\ down[s[i]] = IF i = 1 THEN NULL ELSE s[i - 1]
          /\ up[s[i]] # NULL \/ down[s[i]] # NULL
    /\ \A x \in ToSet(s) : \E i \in 1 .. Len(s) : s[i] = x

LEMMA PileFacts ==
    ASSUME NEW up, NEW down, Paired(up, down), NEW s, Pile(up, down, s)
    PROVE  Shape(up, down, s)
<1> USE NullAssumption
<1>1. s \in Seq(Obj) /\ Len(s) > 1
  BY DEF Pile
<1>2. PICK n \in Nat : n = Len(s)
  BY <1>1, LenProperties
<1>3. DOMAIN s = 1 .. n /\ \A i \in 1 .. n : s[i] \in Obj
  BY <1>1, <1>2, LenProperties, ElementOfSeq
<1>4. ToSet(s) = {s[i] : i \in 1 .. n}
  BY <1>3 DEF ToSet
<1>5. n > 1 /\ 1 \in 1 .. n /\ n \in 1 .. n
  BY <1>1, <1>2
<1>6. /\ \A i, j \in 1 .. n : s[i] = s[j] => i = j
      /\ down[s[1]] = NULL /\ up[s[n]] = NULL
      /\ \A i \in 1 .. n - 1 : up[s[i]] = s[i + 1]
  BY <1>2 DEF Pile
<1>7. ASSUME NEW i \in 1 .. n
      PROVE  /\ up[s[i]] = IF i = n THEN NULL ELSE s[i + 1]
             /\ down[s[i]] = IF i = 1 THEN NULL ELSE s[i - 1]
             /\ up[s[i]] # NULL \/ down[s[i]] # NULL
  <2>1. i # n => i \in 1 .. n - 1 /\ i + 1 \in 1 .. n
    OBVIOUS
  <2>2. i # 1 => i - 1 \in 1 .. n - 1 /\ i - 1 \in 1 .. n /\ i - 1 + 1 = i
    OBVIOUS
  <2>3. up[s[i]] = IF i = n THEN NULL ELSE s[i + 1]
    BY <1>6, <2>1
  <2>4. down[s[i]] = IF i = 1 THEN NULL ELSE s[i - 1]
    <3>1. CASE i = 1
      BY <1>6, <3>1
    <3>2. CASE i # 1
      <4>1. up[s[i - 1]] = s[i]
        BY <1>6, <2>2, <3>2
      <4>2. s[i] \in Obj /\ s[i - 1] \in Obj
        BY <1>3, <2>2, <3>2
      <4>3. QED
        BY <3>2, <4>1, <4>2 DEF Paired
    <3>3. QED
      BY <3>1, <3>2
  <2>5. i # n => s[i + 1] # NULL
    BY <1>3, <2>1
  <2>6. i # 1 => s[i - 1] # NULL
    BY <1>3, <2>2
  <2>7. i # n \/ i # 1
    BY <1>5
  <2>8. QED
    BY <2>3, <2>4, <2>5, <2>6, <2>7
<1>8. ToSet(s) \subseteq Obj
  BY <1>3, <1>4
<1>9. QED
  BY <1>1, <1>2, <1>3, <1>4, <1>5, <1>6, <1>7, <1>8 DEF Shape

(* Piles with the same bottom are the same, as far as the first goes.      *)
LEMMA PileWithin ==
    ASSUME NEW up, NEW down, Paired(up, down), NEW s, Pile(up, down, s),
           NEW t, Pile(up, down, t), s[1] = t[1]
    PROVE  \A i \in 1 .. Len(s) : i \in 1 .. Len(t) /\ t[i] = s[i]
<1> USE NullAssumption
<1> DEFINE S == {i \in 1 .. Len(s) : i \in 1 .. Len(t) /\ t[i] = s[i]}
<1>0. Shape(up, down, s) /\ Shape(up, down, t)
  BY PileFacts
<1>1. PICK n \in Nat : n = Len(s) /\ n > 1
  BY <1>0 DEF Shape
<1>2. PICK m \in Nat : m = Len(t) /\ m > 1
  BY <1>0 DEF Shape
<1>3. 1 \in S
  BY <1>1, <1>2
<1>4. ASSUME NEW i \in 1 .. n - 1, i \in S
      PROVE  i + 1 \in S
  <2>1. i \in 1 .. n /\ i # n /\ i + 1 \in 1 .. n
    OBVIOUS
  <2>2. up[s[i]] = s[i + 1] /\ s[i + 1] # NULL
    BY <1>0, <1>1, <2>1 DEF Shape
  <2>3. i \in 1 .. m /\ up[t[i]] = IF i = m THEN NULL ELSE t[i + 1]
    BY <1>0, <1>2, <1>4 DEF Shape
  <2>4. t[i] = s[i]
    BY <1>4
  <2>5. i # m /\ t[i + 1] = s[i + 1]
    BY <2>2, <2>3, <2>4
  <2>6. i + 1 \in 1 .. m
    BY <2>3, <2>5
  <2>7. QED
    BY <1>1, <1>2, <2>1, <2>5, <2>6
<1>5. \A i \in 1 .. n : i \in S
  <2> HIDE DEF S
  <2>1. 1 \in Nat
    OBVIOUS
  <2>2. QED
    BY <1>3, <1>4, <2>1, IntervalInduction
<1>6. QED
  BY <1>1, <1>5

LEMMA SameBottom ==
    ASSUME NEW up, NEW down, Paired(up, down), NEW s, Pile(up, down, s),
           NEW t, Pile(up, down, t), s[1] = t[1]
    PROVE  s = t
<1>1. \A i \in 1 .. Len(s) : i \in 1 .. Len(t) /\ t[i] = s[i]
  BY PileWithin
<1>2. \A i \in 1 .. Len(t) : i \in 1 .. Len(s) /\ s[i] = t[i]
  BY PileWithin
<1>3. Len(s) \in Nat /\ Len(t) \in Nat /\ Len(s) \in 1 .. Len(s) /\ Len(t) \in 1 .. Len(t)
      /\ s \in Seq(Obj) /\ t \in Seq(Obj)
  BY PileFacts DEF Shape
<1>4. Len(s) = Len(t)
  <2>1. Len(s) \in 1 .. Len(t) /\ Len(t) \in 1 .. Len(s)
    BY <1>1, <1>2, <1>3
  <2>2. QED
    BY <1>3, <2>1
<1>5. QED
  BY <1>1, <1>3, <1>4, SeqEqual

(* Piles do not touch.                                                     *)
LEMMA PilesApart ==
    ASSUME NEW up, NEW down, Paired(up, down), NEW s, Pile(up, down, s),
           NEW t, Pile(up, down, t), NEW x \in ToSet(s), x \in ToSet(t)
    PROVE  s = t
<1> USE NullAssumption
<1> DEFINE T == {i \in 1 .. Len(s) : s[i] \in ToSet(t)}
<1>0. Shape(up, down, s) /\ Shape(up, down, t)
  BY PileFacts
<1>1. PICK n \in Nat : n = Len(s)
  BY <1>0 DEF Shape
<1>2. PICK m \in Nat : m = Len(t)
  BY <1>0 DEF Shape
<1>3. T \in SUBSET Nat /\ T # {}
  <2>1. PICK i \in 1 .. n : s[i] = x
    BY <1>0, <1>1 DEF Shape
  <2>2. i \in T
    BY <1>1, <2>1
  <2>3. QED
    BY <1>1, <2>2
<1>4. PICK i \in T : \A k \in T : i <= k
  <2> HIDE DEF T
  <2>1. QED
    BY <1>3, LeastNumber
<1>5. i \in 1 .. n /\ s[i] \in ToSet(t)
  BY <1>1
<1>6. PICK j \in 1 .. m : t[j] = s[i]
  BY <1>0, <1>2, <1>5 DEF Shape
<1>7. /\ down[s[i]] = IF i = 1 THEN NULL ELSE s[i - 1]
      /\ down[t[j]] = IF j = 1 THEN NULL ELSE t[j - 1]
  BY <1>0, <1>1, <1>2, <1>5 DEF Shape
<1>8. i # 1 => i - 1 \in 1 .. n /\ ~(i <= i - 1)
  BY <1>5
<1>9. j # 1 => j - 1 \in 1 .. m
  OBVIOUS
<1>10. i = 1
  <2> SUFFICES ASSUME i # 1 PROVE FALSE
    OBVIOUS
  <2>1. s[i - 1] # NULL
    BY <1>0, <1>1, <1>8 DEF Shape
  <2>2. j # 1 /\ t[j - 1] = s[i - 1]
    BY <1>6, <1>7, <2>1
  <2>3. s[i - 1] \in ToSet(t)
    BY <1>0, <1>2, <1>9, <2>2 DEF Shape
  <2>4. i - 1 \in T
    BY <1>1, <1>8, <2>3
  <2>5. QED
    BY <1>4, <1>8, <2>4
<1>11. j = 1
  <2> SUFFICES ASSUME j # 1 PROVE FALSE
    OBVIOUS
  <2>1. t[j - 1] # NULL
    BY <1>0, <1>2, <1>9 DEF Shape
  <2>2. QED
    BY <1>6, <1>7, <1>10, <2>1
<1>12. s[1] = t[1]
  BY <1>6, <1>10, <1>11
<1>13. QED
  BY <1>12, SameBottom

(* A piece of a chain, going up.                                           *)
Segment(up, s) ==
    /\ s \in Seq(Obj) /\ Len(s) > 0
    /\ \A i \in 1 .. Len(s) - 1 : up[s[i]] = s[i + 1]

(* From the bottom on nobody is met twice.                                 *)
LEMMA MetOnce ==
    ASSUME NEW up, NEW down, Paired(up, down), NEW s, Segment(up, s), down[s[1]] = NULL
    PROVE  \A i, j \in 1 .. Len(s) : s[i] = s[j] => i = j
<1> USE NullAssumption
<1>1. PICK n \in Nat : n = Len(s)
  BY LenProperties DEF Segment
<1>2. \A i \in 1 .. n : s[i] \in Obj
  BY <1>1, ElementOfSeq DEF Segment
<1>3. ASSUME NEW i \in 1 .. n, i # 1
      PROVE  i - 1 \in 1 .. n /\ down[s[i]] = s[i - 1] /\ down[s[i]] # NULL
  <2>1. i - 1 \in 1 .. n /\ i - 1 \in 1 .. n - 1 /\ i - 1 + 1 = i
    BY <1>3
  <2>2. up[s[i - 1]] = s[i]
    BY <1>1, <2>1 DEF Segment
  <2>3. s[i] \in Obj /\ s[i - 1] \in Obj
    BY <1>2, <2>1
  <2>4. QED
    BY <2>1, <2>2, <2>3 DEF Paired
<1> DEFINE T == {i \in 1 .. n : \E j \in 1 .. n : s[i] = s[j] /\ i < j}
<1>4. T = {}
  <2> SUFFICES ASSUME T # {} PROVE FALSE
    OBVIOUS
  <2>1. PICK i \in T : \A k \in T : i <= k
    <3>1. T \in SUBSET Nat
      OBVIOUS
    <3> HIDE DEF T
    <3>2. QED
      BY <3>1, LeastNumber
  <2>2. PICK j \in 1 .. n : s[i] = s[j] /\ i < j
    OBVIOUS
  <2>3. i \in 1 .. n /\ j # 1
    BY <2>2
  <2>4. j - 1 \in 1 .. n /\ down[s[j]] = s[j - 1] /\ down[s[j]] # NULL
    BY <1>3, <2>3
  <2>5. i # 1
    BY <2>2, <2>4
  <2>6. i - 1 \in 1 .. n /\ down[s[i]] = s[i - 1]
    BY <1>3, <2>3, <2>5
  <2>7. s[i - 1] = s[j - 1] /\ i - 1 < j - 1
    BY <2>2, <2>4, <2>6
  <2>8. i - 1 \in T
    BY <2>4, <2>6, <2>7
  <2>9. i <= i - 1
    BY <2>1, <2>8
  <2>10. QED
    BY <2>3, <2>9
<1>5. \A i, j \in 1 .. n : s[i] = s[j] => ~(i < j) /\ ~(j < i)
  BY <1>4
<1>6. QED
  BY <1>1, <1>5

(* Whoever is linked is in a pile: a walk down ends, and so does one up.   *)
LEMMA PileThrough ==
    ASSUME NEW up, NEW down, Paired(up, down), Ends(up), Ends(down),
           NEW o \in Obj, up[o] # NULL \/ down[o] # NULL
    PROVE  \E s : Pile(up, down, s) /\ o \in ToSet(s)
<1> USE NullAssumption
<1>1. ASSUME NEW s, Segment(up, s)
      PROVE  /\ Len(s) \in Nat /\ 1 \in 1 .. Len(s) /\ Len(s) \in 1 .. Len(s)
             /\ s \in Seq(Obj) /\ ToSet(s) = {s[i] : i \in 1 .. Len(s)}
             /\ \A i \in 1 .. Len(s) : s[i] \in Obj
  <2>1. s \in Seq(Obj) /\ Len(s) > 0 /\ Len(s) \in Nat /\ DOMAIN s = 1 .. Len(s)
    BY <1>1, LenProperties DEF Segment
  <2>2. \A i \in 1 .. Len(s) : s[i] \in Obj
    BY <2>1, ElementOfSeq
  <2>3. QED
    BY <2>1, <2>2 DEF ToSet
<1> DEFINE D == {x \in Obj : \E s : Segment(up, s) /\ s[1] = x /\ o \in ToSet(s)}
<1>2. o \in D
  <2>1. <<o>> \in Seq(Obj) /\ Len(<<o>>) = 1 /\ <<o>>[1] = o /\ DOMAIN <<o>> = 1 .. 1
    OBVIOUS
  <2>2. Segment(up, <<o>>) /\ o \in ToSet(<<o>>)
    BY <2>1 DEF Segment, ToSet
  <2>3. QED
    BY <2>1, <2>2
<1>3. PICK x \in D : down[x] \notin D
  BY <1>2 DEF Ends
<1>4. down[x] = NULL
  <2> SUFFICES ASSUME down[x] # NULL PROVE FALSE
    OBVIOUS
  <2>1. PICK y \in Obj : y = down[x] /\ up[y] = x
    BY DEF Paired, Ptr
  <2>2. PICK s : Segment(up, s) /\ s[1] = x /\ o \in ToSet(s)
    OBVIOUS
  <2>3. PICK n \in Nat : n = Len(s) /\ n > 0
    BY <1>1, <2>2 DEF Segment
  <2>4. PICK w : w = <<y>> \o s
    OBVIOUS
  <2>5. /\ w \in Seq(Obj) /\ Len(w) = n + 1 /\ w[1] = y
        /\ \A i \in 2 .. n + 1 : w[i] = s[i - 1]
    <3>1. <<y>> \in Seq(Obj) /\ Len(<<y>>) = 1 /\ <<y>>[1] = y
      OBVIOUS
    <3>2. /\ w \in Seq(Obj) /\ Len(w) = 1 + n
          /\ \A i \in 1 .. 1 + n : w[i] = IF i <= 1 THEN <<y>>[i] ELSE s[i - 1]
      <4>1. /\ <<y>> \o s \in Seq(Obj) /\ Len(<<y>> \o s) = Len(<<y>>) + Len(s)
            /\ \A i \in 1 .. Len(<<y>>) + Len(s) :
                  (<<y>> \o s)[i] = IF i <= Len(<<y>>) THEN <<y>>[i] ELSE s[i - Len(<<y>>)]
        BY <1>1, <2>2, <3>1, ConcatProperties
      <4>2. QED
        BY <2>3, <2>4, <3>1, <4>1
    <3>3. QED
      BY <3>1, <3>2
  <2>6. Segment(up, w)
    <3>1. ASSUME NEW i \in 1 .. n
          PROVE  up[w[i]] = w[i + 1]
      <4>1. w[i + 1] = s[i]
        BY <2>5
      <4>2. CASE i = 1
        BY <2>1, <2>2, <2>5, <4>1, <4>2
      <4>3. CASE i # 1
        <5>1. w[i] = s[i - 1] /\ i - 1 \in 1 .. n - 1 /\ i - 1 + 1 = i
          BY <2>5, <4>3
        <5>2. up[s[i - 1]] = s[i]
          BY <2>2, <2>3, <5>1 DEF Segment
        <5>3. QED
          BY <4>1, <5>1, <5>2
      <4>4. QED
        BY <4>2, <4>3
    <3>2. QED
      BY <2>5, <3>1 DEF Segment
  <2>7. o \in ToSet(w)
    <3>1. PICK i \in 1 .. n : s[i] = o
      BY <1>1, <2>2, <2>3
    <3>2. w[i + 1] = o /\ i + 1 \in 1 .. n + 1
      BY <2>5, <3>1
    <3>3. QED
      BY <1>1, <2>5, <2>6, <3>2
  <2>8. QED
    BY <1>3, <2>1, <2>5, <2>6, <2>7
<1> DEFINE U == {z \in Obj : \E s : /\ Segment(up, s) /\ o \in ToSet(s)
                                    /\ down[s[1]] = NULL /\ s[Len(s)] = z}
<1>5. U # {}
  <2>1. PICK s : Segment(up, s) /\ s[1] = x /\ o \in ToSet(s)
    BY <1>3
  <2>2. s[Len(s)] \in Obj
    BY <1>1, <2>1
  <2>3. QED
    BY <1>4, <2>1, <2>2
<1>6. PICK z \in U : up[z] \notin U
  BY <1>5 DEF Ends
<1>7. PICK s : Segment(up, s) /\ o \in ToSet(s) /\ down[s[1]] = NULL /\ s[Len(s)] = z
  BY <1>6
<1>8. PICK n \in Nat : n = Len(s) /\ n > 0
  BY <1>1, <1>7 DEF Segment
<1>9. up[z] = NULL
  <2> SUFFICES ASSUME up[z] # NULL PROVE FALSE
    OBVIOUS
  <2>1. PICK y \in Obj : y = up[z]
    BY DEF Paired, Ptr
  <2>2. PICK w : w = Append(s, y)
    OBVIOUS
  <2>3. /\ w \in Seq(Obj) /\ Len(w) = n + 1 /\ w[n + 1] = y
        /\ \A i \in 1 .. n : w[i] = s[i]
    BY <1>1, <1>7, <1>8, <2>2, AppendProperties
  <2>4. Segment(up, w)
    <3>1. ASSUME NEW i \in 1 .. n
          PROVE  up[w[i]] = w[i + 1]
      <4>1. CASE i = n
        BY <1>7, <1>8, <2>1, <2>3, <4>1
      <4>2. CASE i # n
        <5>1. i \in 1 .. n - 1 /\ i + 1 \in 1 .. n
          BY <4>2
        <5>2. up[s[i]] = s[i + 1]
          BY <1>7, <1>8, <5>1 DEF Segment
        <5>3. QED
          BY <2>3, <5>1, <5>2
      <4>3. QED
        BY <4>1, <4>2
    <3>2. QED
      BY <2>3, <3>1 DEF Segment
  <2>5. o \in ToSet(w)
    <3>1. PICK i \in 1 .. n : s[i] = o
      BY <1>1, <1>7, <1>8
    <3>2. w[i] = o /\ i \in 1 .. n + 1
      BY <2>3, <3>1
    <3>3. QED
      BY <1>1, <2>3, <2>4, <3>2
  <2>6. w[1] = s[1] /\ w[Len(w)] = y
    BY <1>8, <2>3
  <2>7. QED
    BY <1>6, <1>7, <2>1, <2>4, <2>5, <2>6
<1>10. n > 1
  <2> SUFFICES ASSUME n = 1 PROVE FALSE
    BY <1>8
  <2>1. ToSet(s) = {s[i] : i \in 1 .. 1}
    BY <1>1, <1>7, <1>8
  <2>2. o = s[1]
    <3>1. o \in {s[i] : i \in 1 .. 1}
      BY <1>7, <2>1
    <3>2. \A i \in 1 .. 1 : i = 1
      OBVIOUS
    <3>3. QED
      BY <3>1, <3>2
  <2>3. s[1] = z
    BY <1>7, <1>8
  <2>4. QED
    BY <1>7, <1>9, <2>2, <2>3
<1>11. \A i, j \in 1 .. Len(s) : s[i] = s[j] => i = j
  BY <1>7, MetOnce
<1>12. Pile(up, down, s)
  BY <1>7, <1>8, <1>9, <1>10, <1>11 DEF Pile, Segment
<1>13. QED
  BY <1>7, <1>12

(* Going up a pile one meets all of it.                                    *)
LEMMA AlongPile ==
    ASSUME NEW up, NEW down, Paired(up, down), NEW s, Pile(up, down, s)
    PROVE  Along(up, s[1]) = ToSet(s)
<1> USE NullAssumption
<1>0. Shape(up, down, s)
  BY PileFacts
<1>1. PICK n \in Nat : n = Len(s) /\ n > 1
  BY <1>0 DEF Shape
<1>2. Along(up, s[1]) \subseteq ToSet(s)
  <2>1. ToSet(s) \in SUBSET Obj /\ s[1] \in ToSet(s)
    BY <1>0 DEF Shape
  <2>2. \A x \in ToSet(s) : up[x] \in ToSet(s) \cup {NULL}
    <3>1. ASSUME NEW i \in 1 .. n
          PROVE  up[s[i]] \in ToSet(s) \cup {NULL}
      <4>1. i # n => i + 1 \in 1 .. n
        OBVIOUS
      <4>2. QED
        BY <1>0, <1>1, <4>1 DEF Shape
    <3>2. QED
      BY <1>0, <1>1, <3>1 DEF Shape
  <2>3. QED
    BY <2>1, <2>2 DEF Along
<1>3. ASSUME NEW S \in SUBSET Obj, s[1] \in S, \A y \in S : up[y] \in S \cup {NULL}
      PROVE  ToSet(s) \subseteq S
  <2> DEFINE T == {i \in 1 .. n : s[i] \in S}
  <2>1. 1 \in T
    BY <1>1, <1>3
  <2>2. ASSUME NEW i \in 1 .. n - 1, i \in T
        PROVE  i + 1 \in T
    <3>1. i \in 1 .. n /\ i # n /\ i + 1 \in 1 .. n
      OBVIOUS
    <3>2. up[s[i]] = s[i + 1] /\ s[i + 1] # NULL
      BY <1>0, <1>1, <3>1 DEF Shape
    <3>3. QED
      BY <1>3, <2>2, <3>1, <3>2
  <2>3. \A i \in 1 .. n : i \in T
    <3> HIDE DEF T
    <3>1. 1 \in Nat
      OBVIOUS
    <3>2. QED
      BY <2>1, <2>2, <3>1, IntervalInduction
  <2>4. QED
    BY <1>0, <1>1, <2>3 DEF Shape
<1>4. ToSet(s) \subseteq Along(up, s[1])
  <2>1. ToSet(s) \subseteq Obj
    BY <1>0 DEF Shape
  <2>2. QED
    BY <1>3, <2>1 DEF Along
<1>5. QED
  BY <1>2, <1>4

(* The mapping finds the pile on an object.                                *)
LEMMA StackIsPile ==
    ASSUME NEW up, NEW down, Paired(up, down), NEW s, Pile(up, down, s)
    PROVE  Stack(up, s[1]) = s
<1> USE NullAssumption
<1>0. Shape(up, down, s)
  BY PileFacts
<1>1. PICK n \in Nat : n = Len(s) /\ n > 1
  BY <1>0 DEF Shape
<1>2. Along(up, s[1]) = ToSet(s)
  BY AlongPile
<1>3. Cardinality(Along(up, s[1])) = n
  BY <1>0, <1>1, <1>2, LenIsCardinality DEF Shape
<1>4. \A k \in 1 .. n : s[k] = IF k = 1 THEN s[1] ELSE up[s[k - 1]]
  <2>1. ASSUME NEW k \in 1 .. n, k # 1
        PROVE  s[k] = up[s[k - 1]]
    <3>1. k - 1 \in 1 .. n /\ k - 1 # n /\ k - 1 + 1 = k
      BY <2>1
    <3>2. QED
      BY <1>0, <1>1, <3>1 DEF Shape
  <2>2. QED
    BY <2>1
<1>5. PICK m : m = CHOOSE g : g = [k \in 1 .. n |-> IF k = 1 THEN s[1] ELSE up[g[k - 1]]]
  OBVIOUS
<1>6. Following(n, s[1], up, m) /\ \A k \in 1 .. n : m[k] = s[k]
  <2>1. Follows(n, s[1], up, s)
    BY <1>4 DEF Follows
  <2>2. \E g : Following(n, s[1], up, g)
    BY <2>1, FollowingExists
  <2>3. Following(n, s[1], up, m)
    BY ONLY <1>5, <2>2 DEF Following
  <2>4. QED
    BY <2>1, <2>3, FollowingIs
<1>7. DOMAIN m = 1 .. n /\ m = [k \in 1 .. n |-> m[k]]
  BY <1>6 DEF Following
<1>8. s = [k \in 1 .. n |-> s[k]]
  BY <1>0, <1>1, LenProperties DEF Shape
<1>9. m = s
  BY <1>6, <1>7, <1>8
<1>10. Stack(up, s[1]) = m
  BY <1>3, <1>5 DEF Stack
<1>11. QED
  BY <1>9, <1>10

Bottoms(up, down) == {x \in Obj : down[x] = NULL /\ up[x] # NULL}

LEMMA StacksArePiles ==
    ASSUME NEW up, NEW down, Paired(up, down), Ends(up), Ends(down)
    PROVE  {Stack(up, o) : o \in Bottoms(up, down)} = Piles(up, down)
<1> USE NullAssumption
<1>1. ASSUME NEW o \in Bottoms(up, down)
      PROVE  Stack(up, o) \in Piles(up, down)
  <2>1. o \in Obj /\ down[o] = NULL /\ up[o] # NULL
    BY DEF Bottoms
  <2>2. PICK s : Pile(up, down, s) /\ o \in ToSet(s)
    BY <2>1, PileThrough
  <2>3. Shape(up, down, s)
    BY <2>2, PileFacts
  <2>4. PICK i \in 1 .. Len(s) : s[i] = o
    BY <2>2, <2>3 DEF Shape
  <2>5. i = 1
    <3> SUFFICES ASSUME i # 1 PROVE FALSE
      OBVIOUS
    <3>1. i - 1 \in 1 .. Len(s)
      BY <2>3 DEF Shape
    <3>2. down[o] = s[i - 1] /\ s[i - 1] \in Obj
      BY <2>3, <2>4, <3>1 DEF Shape
    <3>3. QED
      BY <2>1, <3>2
  <2>6. Stack(up, s[1]) = s
    BY <2>2, StackIsPile
  <2>7. QED
    BY <2>2, <2>3, <2>4, <2>5, <2>6 DEF Piles, Shape
<1>2. ASSUME NEW s \in Piles(up, down)
      PROVE  \E o \in Bottoms(up, down) : s = Stack(up, o)
  <2>1. Pile(up, down, s)
    BY DEF Piles
  <2>2. Shape(up, down, s) /\ Stack(up, s[1]) = s
    BY <2>1, PileFacts, StackIsPile
  <2>3. s[1] \in Bottoms(up, down)
    BY <2>2 DEF Shape, Bottoms
  <2>4. QED
    BY <2>2, <2>3
<1>3. QED
  BY <1>1, <1>2

-----------------------------------------------------------------------------
(* ----- What becomes of piles ------------------------------------------- *)
(* The objects of D are linked with each other only, in the piles of S.    *)
Settled(up, down, D, S) ==
    /\ \A s \in S : Pile(up, down, s) /\ ToSet(s) \subseteq D
    /\ \A x \in D : (up[x] = NULL /\ down[x] = NULL) \/ \E s \in S : x \in ToSet(s)

SameOutside(up, down, up2, down2, D) ==
    \A x \in Obj \ D : up2[x] = up[x] /\ down2[x] = down[x]

(* Old piles go and new ones come where links have changed, and all others *)
(* are as before.                                                          *)
LEMMA PilesChange ==
    ASSUME NEW up, NEW down, Paired(up, down), NEW up2, NEW down2, Paired(up2, down2),
           NEW D, SameOutside(up, down, up2, down2, D),
           NEW Old, Settled(up, down, D, Old), NEW New, Settled(up2, down2, D, New)
    PROVE  Piles(up2, down2) = (Piles(up, down) \ Old) \cup New
<1> USE DEF Settled, SameOutside
<1>1. ASSUME NEW s, Pile(up, down, s)
      PROVE  Shape(up, down, s)
  BY <1>1, PileFacts
<1>2. ASSUME NEW s, Pile(up2, down2, s)
      PROVE  Shape(up2, down2, s)
  BY <1>2, PileFacts
<1>3. ASSUME NEW s, Pile(up, down, s), s \notin Old
      PROVE  Pile(up2, down2, s)
  <2>1. ToSet(s) \cap D = {}
    <3> SUFFICES ASSUME NEW x \in ToSet(s), x \in D PROVE FALSE
      OBVIOUS
    <3>1. up[x] # NULL \/ down[x] # NULL
      BY <1>1, <1>3 DEF Shape
    <3>2. PICK t \in Old : x \in ToSet(t)
      BY <3>1
    <3>3. s = t
      BY <1>3, <3>2, PilesApart
    <3>4. QED
      BY <1>3, <3>2, <3>3
  <2>2. \A i \in 1 .. Len(s) : up2[s[i]] = up[s[i]] /\ down2[s[i]] = down[s[i]]
    BY <1>1, <1>3, <2>1 DEF Shape
  <2>3. /\ 1 \in 1 .. Len(s) /\ Len(s) \in 1 .. Len(s)
        /\ \A i \in 1 .. Len(s) - 1 : i \in 1 .. Len(s)
    BY <1>1, <1>3 DEF Shape
  <2>4. QED
    BY <1>3, <2>2, <2>3 DEF Pile
<1>4. ASSUME NEW s, Pile(up2, down2, s), s \notin New
      PROVE  Pile(up, down, s) /\ s \notin Old
  <2>1. ToSet(s) \cap D = {}
    <3> SUFFICES ASSUME NEW x \in ToSet(s), x \in D PROVE FALSE
      OBVIOUS
    <3>1. up2[x] # NULL \/ down2[x] # NULL
      BY <1>2, <1>4 DEF Shape
    <3>2. PICK t \in New : x \in ToSet(t)
      BY <3>1
    <3>3. s = t
      BY <1>4, <3>2, PilesApart
    <3>4. QED
      BY <1>4, <3>2, <3>3
  <2>2. \A i \in 1 .. Len(s) : up2[s[i]] = up[s[i]] /\ down2[s[i]] = down[s[i]]
    BY <1>2, <1>4, <2>1 DEF Shape
  <2>3. /\ 1 \in 1 .. Len(s) /\ Len(s) \in 1 .. Len(s) /\ s[1] \in ToSet(s)
        /\ \A i \in 1 .. Len(s) - 1 : i \in 1 .. Len(s)
    BY <1>2, <1>4 DEF Shape
  <2>4. Pile(up, down, s)
    BY <1>4, <2>2, <2>3 DEF Pile
  <2>5. s \notin Old
    BY <2>1, <2>3
  <2>6. QED
    BY <2>4, <2>5
<1>5. \A s : s \in Piles(up, down) <=> Pile(up, down, s)
  BY DEF Piles, Pile
<1>6. \A s : s \in Piles(up2, down2) <=> Pile(up2, down2, s)
  BY DEF Piles, Pile
<1>7. QED
  BY <1>3, <1>4, <1>5, <1>6

(* One of them leaves.                                                     *)
LEMMA PileWithout ==
    ASSUME NEW up, NEW down, Paired(up, down), NEW up2, NEW down2, Paired(up2, down2),
           NEW s, Pile(up, down, s), NEW k \in 1 .. Len(s), NEW ob, ob = s[k],
           \A x \in Obj : up2[x] = IF x = ob THEN NULL
                                   ELSE IF x = down[ob] THEN up[ob] ELSE up[x],
           \A x \in Obj : down2[x] = IF x = ob THEN NULL
                                     ELSE IF x = up[ob] THEN down[ob] ELSE down[x]
    PROVE  Piles(up2, down2) =
              (Piles(up, down) \ {s}) \cup IF Len(RemoveAt(s, k)) > 1 THEN {RemoveAt(s, k)} ELSE {}
<1> USE NullAssumption
<1>1. Shape(up, down, s)
  BY PileFacts
<1>2. PICK n \in Nat : n = Len(s) /\ n > 1 /\ s \in Seq(Obj)
  BY <1>1 DEF Shape
<1>3. PICK r : r = RemoveAt(s, k)
  OBVIOUS
<1>4. /\ r \in Seq(Obj) /\ Len(r) = n - 1
      /\ \A j \in 1 .. n - 1 : r[j] = IF j < k THEN s[j] ELSE s[j + 1]
  BY <1>2, <1>3, RemoveAtFacts
<1>5. /\ \A i, j \in 1 .. n : s[i] = s[j] => i = j
      /\ \A i \in 1 .. n : /\ s[i] \in Obj /\ s[i] \in ToSet(s)
                           /\ up[s[i]] = IF i = n THEN NULL ELSE s[i + 1]
                           /\ down[s[i]] = IF i = 1 THEN NULL ELSE s[i - 1]
      /\ \A x \in ToSet(s) : \E i \in 1 .. n : s[i] = x
  BY <1>1, <1>2 DEF Shape
<1>6. k \in 1 .. n /\ up[ob] = (IF k = n THEN NULL ELSE s[k + 1])
      /\ down[ob] = IF k = 1 THEN NULL ELSE s[k - 1]
  BY <1>2, <1>5
<1>7. ASSUME NEW i \in 1 .. n, i # k
      PROVE  /\ s[i] = down[ob] <=> i = k - 1
             /\ s[i] = up[ob] <=> i = k + 1
             /\ s[i] # ob /\ s[i] \in Obj
  <2>1. /\ k # 1 => k - 1 \in 1 .. n
        /\ k # n => k + 1 \in 1 .. n
        /\ i = k - 1 => k # 1
        /\ i = k + 1 => k # n
    BY <1>6
  <2>2. s[i] = down[ob] <=> i = k - 1
    <3>1. CASE k = 1
      BY <1>5, <1>6, <2>1, <3>1
    <3>2. CASE k # 1
      BY <1>5, <1>6, <2>1, <3>2
    <3>3. QED
      BY <3>1, <3>2
  <2>3. s[i] = up[ob] <=> i = k + 1
    <3>1. CASE k = n
      BY <1>5, <1>6, <2>1, <3>1
    <3>2. CASE k # n
      <4>1. up[ob] = s[k + 1] /\ k + 1 \in 1 .. n
        BY <1>6, <2>1, <3>2
      <4>2. QED
        BY <1>5, <4>1
    <3>3. QED
      BY <3>1, <3>2
  <2>4. s[i] # ob
    BY <1>5, <1>6, <1>7
  <2>5. QED
    BY <1>5, <2>2, <2>3, <2>4
<1>8. ASSUME NEW i \in 1 .. n, i # k
      PROVE  /\ up2[s[i]] = IF i = k - 1 THEN IF k = n THEN NULL ELSE s[k + 1]
                            ELSE IF i = n THEN NULL ELSE s[i + 1]
             /\ down2[s[i]] = IF i = k + 1 THEN IF k = 1 THEN NULL ELSE s[k - 1]
                              ELSE IF i = 1 THEN NULL ELSE s[i - 1]
  <2>1. /\ up2[s[i]] = IF i = k - 1 THEN up[ob] ELSE up[s[i]]
        /\ down2[s[i]] = IF i = k + 1 THEN down[ob] ELSE down[s[i]]
    BY <1>7, <1>8
  <2>2. QED
    BY <1>5, <1>6, <2>1
<1>9. ASSUME n - 1 > 1
      PROVE  Pile(up2, down2, r)
  <2>1. \A i, j \in 1 .. n - 1 : r[i] = r[j] => i = j
    <3> SUFFICES ASSUME NEW i \in 1 .. n - 1, NEW j \in 1 .. n - 1, r[i] = r[j]
                 PROVE  i = j
      OBVIOUS
    <3>1. PICK a \in 1 .. n, b \in 1 .. n :
             /\ a = (IF i < k THEN i ELSE i + 1) /\ b = IF j < k THEN j ELSE j + 1
      OBVIOUS
    <3>2. s[a] = s[b]
      BY <1>4, <3>1
    <3>3. a = b
      BY <1>5, <3>2
    <3>4. QED
      BY <1>6, <3>1, <3>3
  <2>2. down2[r[1]] = NULL
    <3>1. CASE k = 1
      <4>1. r[1] = s[2] /\ 2 \in 1 .. n /\ 2 # k /\ 2 = k + 1
        BY <1>2, <1>4, <1>9, <3>1
      <4>2. QED
        BY <1>8, <3>1, <4>1
    <3>2. CASE k # 1
      <4>1. r[1] = s[1] /\ 1 \in 1 .. n /\ 1 # k + 1
        BY <1>2, <1>4, <1>6, <1>9, <3>2
      <4>2. QED
        BY <1>8, <3>2, <4>1
    <3>3. QED
      BY <3>1, <3>2
  <2>3. up2[r[n - 1]] = NULL
    <3>1. CASE k = n
      <4>1. r[n - 1] = s[n - 1] /\ n - 1 \in 1 .. n /\ n - 1 # k /\ n - 1 = k - 1
        BY <1>2, <1>4, <1>9, <3>1
      <4>2. QED
        BY <1>8, <3>1, <4>1
    <3>2. CASE k # n
      <4>1. ~(n - 1 < k) /\ n - 1 \in 1 .. n - 1 /\ n - 1 + 1 = n /\ n \in 1 .. n /\ n # k - 1
        BY <1>2, <1>6, <1>9, <3>2
      <4>2. r[n - 1] = s[n]
        BY <1>4, <4>1
      <4>3. QED
        BY <1>8, <3>2, <4>1, <4>2
    <3>3. QED
      BY <3>1, <3>2
  <2>4. ASSUME NEW j \in 1 .. n - 2
        PROVE  up2[r[j]] = r[j + 1]
    <3>1. j \in 1 .. n - 1 /\ j + 1 \in 1 .. n - 1 /\ j \in 1 .. n /\ j + 1 \in 1 .. n
      OBVIOUS
    <3>2. CASE j = k - 1
      <4>1. j < k /\ ~(j + 1 < k) /\ j + 1 + 1 = k + 1 /\ j # k /\ k # n
        BY <1>6, <3>2
      <4>2. r[j] = s[j] /\ r[j + 1] = s[k + 1]
        BY <1>4, <3>1, <4>1
      <4>3. QED
        BY <1>8, <3>1, <3>2, <4>1, <4>2
    <3>3. CASE j < k - 1
      <4>1. j < k /\ j + 1 < k /\ j # k /\ j # k - 1 /\ j # n
        BY <1>6, <3>3
      <4>2. r[j] = s[j] /\ r[j + 1] = s[j + 1]
        BY <1>4, <3>1, <4>1
      <4>3. QED
        BY <1>8, <3>1, <4>1, <4>2
    <3>4. CASE j > k - 1
      <4>1. ~(j < k) /\ ~(j + 1 < k) /\ j + 1 # k /\ j + 1 # k - 1 /\ j + 1 # n
        BY <1>6, <3>4
      <4>2. r[j] = s[j + 1] /\ r[j + 1] = s[j + 1 + 1]
        BY <1>4, <3>1, <4>1
      <4>3. QED
        BY <1>8, <3>1, <4>1, <4>2
    <3>5. QED
      BY <1>6, <3>2, <3>3, <3>4
  <2>5. Len(r) > 1 /\ Len(r) - 1 = n - 2
    BY <1>4, <1>9
  <2>6. QED
    BY <1>4, <2>1, <2>2, <2>3, <2>4, <2>5 DEF Pile
<1>10. PICK New : New = IF n - 1 > 1 THEN {r} ELSE {}
  OBVIOUS
<1>11. ToSet(r) = {r[j] : j \in 1 .. n - 1}
  BY <1>2, <1>4, LenProperties DEF ToSet
<1>12. ToSet(r) \subseteq ToSet(s)
  <2>1. ASSUME NEW j \in 1 .. n - 1
        PROVE  r[j] \in ToSet(s)
    <3>1. j \in 1 .. n /\ j + 1 \in 1 .. n
      OBVIOUS
    <3>2. QED
      BY <1>4, <1>5, <3>1
  <2>2. QED
    BY <1>11, <2>1
<1>13. ASSUME NEW i \in 1 .. n
       PROVE  (up2[s[i]] = NULL /\ down2[s[i]] = NULL) \/ \E t \in New : s[i] \in ToSet(t)
  <2>1. CASE i = k
    BY <1>5, <2>1
  <2>2. CASE i # k /\ ~(n - 1 > 1)
    <3>1. n = 2
      BY <1>2, <2>2
    <3>2. CASE i = 1
      <4>1. k = 2
        BY <1>6, <2>2, <3>1, <3>2
      <4>2. QED
        BY <1>8, <2>2, <3>1, <3>2, <4>1
    <3>3. CASE i = 2
      <4>1. k = 1
        BY <1>6, <2>2, <3>1, <3>3
      <4>2. QED
        BY <1>8, <2>2, <3>1, <3>3, <4>1
    <3>4. QED
      BY <3>1, <3>2, <3>3
  <2>3. CASE i # k /\ n - 1 > 1
    <3>1. PICK j \in 1 .. n - 1 : j = IF i < k THEN i ELSE i - 1
      BY <1>6, <2>3
    <3>2. (j < k /\ j = i) \/ (~(j < k) /\ j + 1 = i)
      BY <1>6, <2>3, <3>1
    <3>3. r[j] = s[i]
      BY <1>4, <3>2
    <3>4. QED
      BY <1>10, <1>11, <2>3, <3>3
  <2>4. QED
    BY <2>1, <2>2, <2>3
<1>14. ASSUME NEW x \in Obj \ ToSet(s)
       PROVE  up2[x] = up[x] /\ down2[x] = down[x]
  <2>1. ob \in ToSet(s) /\ x # NULL
    BY <1>5, <1>6
  <2>2. down[ob] \in ToSet(s) \cup {NULL}
    <3>1. k # 1 => k - 1 \in 1 .. n
      BY <1>6
    <3>2. QED
      BY <1>5, <1>6, <3>1
  <2>3. up[ob] \in ToSet(s) \cup {NULL}
    <3>1. k # n => k + 1 \in 1 .. n
      BY <1>6
    <3>2. QED
      BY <1>5, <1>6, <3>1
  <2>4. QED
    BY <2>1, <2>2, <2>3
<1>15. PICK D, Old : D = ToSet(s) /\ Old = {s}
  OBVIOUS
<1>16. SameOutside(up, down, up2, down2, D)
  BY <1>14, <1>15 DEF SameOutside
<1>17. Settled(up, down, D, Old)
  BY <1>15 DEF Settled
<1>18. Settled(up2, down2, D, New)
  <2>1. \A t \in New : Pile(up2, down2, t) /\ ToSet(t) \subseteq D
    BY <1>9, <1>10, <1>12, <1>15
  <2>2. \A x \in D : (up2[x] = NULL /\ down2[x] = NULL) \/ \E t \in New : x \in ToSet(t)
    <3>1. TAKE x \in D
    <3>2. PICK i \in 1 .. n : s[i] = x
      BY <1>5, <1>15
    <3>3. QED
      BY <1>13, <3>2
  <2>3. QED
    BY <2>1, <2>2 DEF Settled
<1>19. Piles(up2, down2) = (Piles(up, down) \ Old) \cup New
  BY <1>16, <1>17, <1>18, PilesChange
<1>20. New = IF Len(RemoveAt(s, k)) > 1 THEN {RemoveAt(s, k)} ELSE {}
  BY <1>3, <1>4, <1>10
<1>21. QED
  BY <1>15, <1>19, <1>20

(* One comes on top.                                                       *)
LEMMA PileOnTop ==
    ASSUME NEW up, NEW down, Paired(up, down), NEW up2, NEW down2, Paired(up2, down2),
           NEW s, Pile(up, down, s), NEW c \in Obj, up[c] = NULL, down[c] = NULL,
           NEW t, t = s[Len(s)],
           \A x \in Obj : up2[x] = IF x = t THEN c ELSE up[x],
           \A x \in Obj : down2[x] = IF x = c THEN t ELSE down[x]
    PROVE  Piles(up2, down2) = (Piles(up, down) \ {s}) \cup {Append(s, c)}
<1> USE NullAssumption
<1>1. Shape(up, down, s)
  BY PileFacts
<1>2. PICK n \in Nat : n = Len(s) /\ n > 1 /\ s \in Seq(Obj)
  BY <1>1 DEF Shape
<1>3. PICK w : w = Append(s, c)
  OBVIOUS
<1>4. /\ w \in Seq(Obj) /\ Len(w) = n + 1 /\ w[n + 1] = c
      /\ \A i \in 1 .. n : w[i] = s[i]
  BY <1>2, <1>3, AppendProperties
<1>5. /\ \A i, j \in 1 .. n : s[i] = s[j] => i = j
      /\ \A i \in 1 .. n : /\ s[i] \in Obj /\ s[i] \in ToSet(s)
                           /\ up[s[i]] = IF i = n THEN NULL ELSE s[i + 1]
                           /\ down[s[i]] = IF i = 1 THEN NULL ELSE s[i - 1]
                           /\ up[s[i]] # NULL \/ down[s[i]] # NULL
      /\ \A x \in ToSet(s) : \E i \in 1 .. n : s[i] = x
      /\ n \in 1 .. n /\ 1 \in 1 .. n
  BY <1>1, <1>2 DEF Shape
<1>6. /\ \A i \in 1 .. n : s[i] # c /\ (s[i] = t <=> i = n)
      /\ c # t
  BY <1>2, <1>5
<1>7. Pile(up2, down2, w)
  <2>1. \A i, j \in 1 .. n + 1 : w[i] = w[j] => i = j
    <3>1. \A i \in 1 .. n + 1 : i \in 1 .. n \/ i = n + 1
      OBVIOUS
    <3>2. QED
      BY <1>4, <1>5, <1>6, <3>1
  <2>2. down2[w[1]] = NULL
    BY <1>4, <1>5, <1>6
  <2>3. up2[w[n + 1]] = NULL
    BY <1>4, <1>6
  <2>4. ASSUME NEW i \in 1 .. n
        PROVE  up2[w[i]] = w[i + 1]
    <3>1. CASE i = n
      BY <1>4, <1>5, <1>6, <3>1
    <3>2. CASE i # n
      <4>1. i + 1 \in 1 .. n
        BY <3>2
      <4>2. w[i] = s[i] /\ w[i + 1] = s[i + 1]
        BY <1>4, <4>1
      <4>3. up2[s[i]] = up[s[i]] /\ up[s[i]] = s[i + 1]
        BY <1>5, <1>6, <3>2
      <4>4. QED
        BY <4>2, <4>3
    <3>3. QED
      BY <3>1, <3>2
  <2>5. Len(w) > 1 /\ Len(w) - 1 = n
    BY <1>2, <1>4
  <2>6. QED
    BY <1>4, <2>1, <2>2, <2>3, <2>4, <2>5 DEF Pile
<1>8. ToSet(w) = ToSet(s) \cup {c}
  <2>1. ToSet(w) = {w[i] : i \in 1 .. n + 1} /\ ToSet(s) = {s[i] : i \in 1 .. n}
    BY <1>2, <1>4, LenProperties DEF ToSet
  <2>2. \A i \in 1 .. n + 1 : i \in 1 .. n \/ i = n + 1
    OBVIOUS
  <2>3. n + 1 \in 1 .. n + 1 /\ \A i \in 1 .. n : i \in 1 .. n + 1
    OBVIOUS
  <2>4. QED
    BY <1>4, <2>1, <2>2, <2>3
<1>9. PICK D, Old, New : D = ToSet(s) \cup {c} /\ Old = {s} /\ New = {w}
  OBVIOUS
<1>10. SameOutside(up, down, up2, down2, D)
  <2>1. t \in D /\ c \in D
    BY <1>2, <1>5, <1>9
  <2>2. QED
    BY <2>1 DEF SameOutside
<1>11. Settled(up, down, D, Old)
  BY <1>9 DEF Settled
<1>12. Settled(up2, down2, D, New)
  BY <1>7, <1>8, <1>9 DEF Settled
<1>13. Piles(up2, down2) = (Piles(up, down) \ Old) \cup New
  BY <1>10, <1>11, <1>12, PilesChange
<1>14. QED
  BY <1>3, <1>9, <1>13

(* Two make a new one.                                                     *)
LEMMA PileBegun ==
    ASSUME NEW up, NEW down, Paired(up, down), NEW up2, NEW down2, Paired(up2, down2),
           NEW c \in Obj, up[c] = NULL, down[c] = NULL,
           NEW t \in Obj, up[t] = NULL, down[t] = NULL, c # t,
           \A x \in Obj : up2[x] = IF x = t THEN c ELSE up[x],
           \A x \in Obj : down2[x] = IF x = c THEN t ELSE down[x]
    PROVE  Piles(up2, down2) = Piles(up, down) \cup {<<t, c>>}
<1>1. PICK w : w = <<t, c>>
  OBVIOUS
<1>2. w \in Seq(Obj) /\ Len(w) = 2 /\ w[1] = t /\ w[2] = c
  BY <1>1
<1>3. \A i \in 1 .. 2 : i = 1 \/ i = 2
  OBVIOUS
<1>4. Pile(up2, down2, w)
  <2>1. \A i, j \in 1 .. Len(w) : w[i] = w[j] => i = j
    BY <1>2, <1>3
  <2>2. \A i \in 1 .. Len(w) - 1 : i = 1
    BY <1>2
  <2>3. up2[w[1]] = w[2] /\ up2[w[2]] = NULL /\ down2[w[1]] = NULL
    BY <1>2
  <2>4. QED
    BY <1>2, <2>1, <2>2, <2>3 DEF Pile
<1>5. ToSet(w) = {t, c}
  <2>1. ToSet(w) = {w[i] : i \in 1 .. 2}
    BY <1>2, LenProperties DEF ToSet
  <2>2. QED
    BY <1>2, <1>3, <2>1
<1>6. PICK D, Old, New : D = {t, c} /\ Old = {} /\ New = {w}
  OBVIOUS
<1>7. SameOutside(up, down, up2, down2, D) /\ Settled(up, down, D, Old)
  BY <1>6 DEF SameOutside, Settled
<1>8. Settled(up2, down2, D, New)
  BY <1>4, <1>5, <1>6 DEF Settled
<1>9. Piles(up2, down2) = (Piles(up, down) \ Old) \cup New
  BY <1>7, <1>8, PilesChange
<1>10. QED
  BY <1>1, <1>6, <1>9

-----------------------------------------------------------------------------
(* ----- The steps ------------------------------------------------------- *)
Mapped == {Stack(shadowed_by, o) :
             o \in {x \in Obj : shadowing[x] = NULL /\ shadowed_by[x] # NULL}}

LEMMA LinksArePaired ==
    ASSUME LinkInv
    PROVE  /\ Paired(shadowed_by, shadowing) /\ Ends(shadowed_by) /\ Ends(shadowing)
           /\ Mapped = Piles(shadowed_by, shadowing)
<1>1. Paired(shadowed_by, shadowing) /\ Ends(shadowed_by) /\ Ends(shadowing)
  BY DEF LinkInv, LinkType, Mutual, Grounded, Paired
<1>2. Mapped = {Stack(shadowed_by, o) : o \in Bottoms(shadowed_by, shadowing)}
  BY DEF Mapped, Bottoms
<1>3. QED
  BY <1>1, <1>2, StacksArePiles

LEMMA LinksArePairedNext ==
    ASSUME LinkInv'
    PROVE  /\ Paired(shadowed_by', shadowing')
           /\ Mapped' = Piles(shadowed_by', shadowing')
<1>1. Paired(shadowed_by', shadowing') /\ Ends(shadowed_by') /\ Ends(shadowing')
  BY DEF LinkInv, LinkType, Mutual, Grounded, Paired, Ends, Ptr
<1>2. Mapped' = {Stack(shadowed_by', o) : o \in Bottoms(shadowed_by', shadowing')}
  BY DEF Mapped, Bottoms, Stack, Along
<1>3. QED
  BY <1>1, <1>2, StacksArePiles

(* Who leaves a chain is taken out of the stack.                           *)
LEMMA LeavingTakesOut ==
    ASSUME LinkInv, LinkInv', NEW ob \in Obj,
           shadowing' = ShadowingWithout(ob), shadowed_by' = ShadowedByWithout(ob)
    PROVE  Stacks!TakeOut(ob) \/ Mapped' = Mapped
<1> USE NullAssumption
<1>1. /\ Paired(shadowed_by, shadowing) /\ Ends(shadowed_by) /\ Ends(shadowing)
      /\ Mapped = Piles(shadowed_by, shadowing)
  BY LinksArePaired
<1>2. Paired(shadowed_by', shadowing') /\ Mapped' = Piles(shadowed_by', shadowing')
  BY LinksArePairedNext
<1>3. \A x \in Obj : shadowing'[x] = IF x = ob THEN NULL
                                     ELSE IF x = shadowed_by[ob] THEN shadowing[ob]
                                     ELSE shadowing[x]
  BY DEF ShadowingWithout
<1>4. \A x \in Obj : shadowed_by'[x] = IF x = ob THEN NULL
                                       ELSE IF x = shadowing[ob] THEN shadowed_by[ob]
                                       ELSE shadowed_by[x]
  BY DEF ShadowedByWithout
<1>5. CASE shadowing[ob] = NULL /\ shadowed_by[ob] = NULL
  <2>1. /\ shadowing \in [Obj -> Ptr] /\ shadowed_by \in [Obj -> Ptr]
        /\ shadowing' \in [Obj -> Ptr] /\ shadowed_by' \in [Obj -> Ptr]
    BY <1>1, <1>2 DEF Paired
  <2>2. \A x \in Obj : shadowing'[x] = shadowing[x] /\ shadowed_by'[x] = shadowed_by[x]
    BY <1>3, <1>4, <1>5
  <2>3. shadowing' = shadowing /\ shadowed_by' = shadowed_by
    BY <2>1, <2>2
  <2>4. QED
    BY <1>1, <1>2, <2>3
<1>6. CASE shadowed_by[ob] # NULL \/ shadowing[ob] # NULL
  <2>1. PICK s : Pile(shadowed_by, shadowing, s) /\ ob \in ToSet(s)
    BY <1>1, <1>6, PileThrough
  <2>2. s \in Mapped
    BY <1>1, <2>1 DEF Piles, Pile
  <2>3. PICK k \in 1 .. Len(s) : s[k] = ob
    BY <1>1, <2>1, PileFacts DEF Shape
  <2>4. Piles(shadowed_by', shadowing') =
           (Piles(shadowed_by, shadowing) \ {s})
              \cup IF Len(RemoveAt(s, k)) > 1 THEN {RemoveAt(s, k)} ELSE {}
    BY <1>1, <1>2, <1>3, <1>4, <2>1, <2>3, PileWithout
  <2>5. Mapped' = (Mapped \ {s}) \cup IF Len(RemoveAt(s, k)) > 1 THEN {RemoveAt(s, k)} ELSE {}
    BY <1>1, <1>2, <2>4
  <2>6. \E t \in Mapped : \E i \in 1 .. Len(t) :
           /\ t[i] = ob
           /\ Mapped' = (Mapped \ {t}) \cup IF Len(RemoveAt(t, i)) > 1 THEN {RemoveAt(t, i)} ELSE {}
    BY <2>2, <2>3, <2>5
  <2>7. QED
    BY <2>6 DEF Stacks!TakeOut, Stacks!RemoveAt, RemoveAt, Mapped
<1>7. QED
  BY <1>5, <1>6

(* Who comes to shadow an object is put on top of its stack.               *)
LEMMA AllowPuts ==
    ASSUME LinkInv, LinkInv', AllowShadow
    PROVE  \E c, o \in Obj : Stacks!Put(c, o)
<1> USE NullAssumption
<1>1. /\ Paired(shadowed_by, shadowing) /\ Ends(shadowed_by) /\ Ends(shadowing)
      /\ Mapped = Piles(shadowed_by, shadowing)
  BY LinksArePaired
<1>2. Paired(shadowed_by', shadowing') /\ Mapped' = Piles(shadowed_by', shadowing')
  BY LinksArePairedNext
<1>3. asking # << >> /\ shadowing' = [shadowing EXCEPT ![Cob] = Shadowed]
      /\ shadowed_by' = [shadowed_by EXCEPT ![Shadowed] = Cob]
  BY DEF AllowShadow
<1>4. PICK c \in Obj, o \in Obj, t \in Obj : c = Cob /\ o = Asked /\ t = Shadowed
  BY <1>3, ShadowedIsFree
<1>5. /\ shadowing[c] = NULL /\ shadowed_by[c] = NULL /\ shadowing[o] = NULL /\ o # c
      /\ shadowed_by[t] = NULL /\ t # c
  BY <1>3, <1>4, ShadowedIsFree DEF MayAsk
<1>6. \A x \in Obj : shadowed_by'[x] = IF x = t THEN c ELSE shadowed_by[x]
  BY <1>1, <1>3, <1>4 DEF Paired
<1>7. \A x \in Obj : shadowing'[x] = IF x = c THEN t ELSE shadowing[x]
  BY <1>1, <1>3, <1>4 DEF Paired
<1>8. t \in Along(shadowed_by, o)
  BY <1>1, <1>4, EndIsLast DEF Shadowed, Paired
<1>9. ASSUME NEW x, \E s \in Mapped : x \in ToSet(s)
      PROVE  shadowed_by[x] # NULL \/ shadowing[x] # NULL
  <2>1. PICK s : Pile(shadowed_by, shadowing, s) /\ x \in ToSet(s)
    BY <1>1, <1>9 DEF Piles
  <2>2. QED
    BY <1>1, <2>1, PileFacts DEF Shape
<1>10. ~ \E s \in Mapped : c \in ToSet(s)
  BY <1>5, <1>9
<1>11. CASE shadowed_by[o] = NULL
  <2>1. t = o
    <3>1. Along(shadowed_by, o) \subseteq {o}
      BY <1>11 DEF Along
    <3>2. QED
      BY <1>8, <3>1
  <2>2. Piles(shadowed_by', shadowing') = Piles(shadowed_by, shadowing) \cup {<<t, c>>}
    BY <1>1, <1>2, <1>5, <1>6, <1>7, <1>11, <2>1, PileBegun
  <2>3. Mapped' = Mapped \cup {<<o, c>>}
    BY <1>1, <1>2, <2>1, <2>2
  <2>4. ~ \E s \in Mapped : o \in ToSet(s)
    BY <1>5, <1>9, <1>11
  <2>5. Stacks!Put(c, o)
    BY <1>5, <1>10, <2>3, <2>4 DEF Stacks!Put, Stacks!InStack, Stacks!ToSet, ToSet, Mapped
  <2>6. QED
    BY <2>5
<1>12. CASE shadowed_by[o] # NULL
  <2>1. PICK s : Pile(shadowed_by, shadowing, s) /\ o \in ToSet(s)
    BY <1>1, <1>12, PileThrough
  <2>2. Shape(shadowed_by, shadowing, s)
    BY <1>1, <2>1, PileFacts
  <2>3. s[1] = o
    <3>1. PICK i \in 1 .. Len(s) : s[i] = o
      BY <2>1, <2>2 DEF Shape
    <3>2. i # 1 => i - 1 \in 1 .. Len(s)
      BY <2>2 DEF Shape
    <3>3. i # 1 => shadowing[o] = s[i - 1] /\ s[i - 1] \in Obj
      BY <2>2, <3>1, <3>2 DEF Shape
    <3>4. QED
      BY <1>5, <3>1, <3>3
  <2>4. t = s[Len(s)]
    <3>1. t \in ToSet(s)
      BY <1>1, <1>8, <2>1, <2>3, AlongPile
    <3>2. PICK i \in 1 .. Len(s) : s[i] = t
      BY <2>2, <3>1 DEF Shape
    <3>3. i # Len(s) => i + 1 \in 1 .. Len(s)
      BY <2>2 DEF Shape
    <3>4. i # Len(s) => shadowed_by[t] = s[i + 1] /\ s[i + 1] \in Obj
      BY <2>2, <3>2, <3>3 DEF Shape
    <3>5. QED
      BY <1>5, <3>2, <3>4
  <2>5. Piles(shadowed_by', shadowing') =
           (Piles(shadowed_by, shadowing) \ {s}) \cup {Append(s, c)}
    BY <1>1, <1>2, <1>5, <1>6, <1>7, <2>1, <2>4, PileOnTop
  <2>6. s \in Mapped /\ Mapped' = (Mapped \ {s}) \cup {Append(s, c)}
    BY <1>1, <1>2, <2>1, <2>5 DEF Piles, Pile
  <2>7. \E u \in Mapped : u[1] = o /\ Mapped' = (Mapped \ {u}) \cup {Append(u, c)}
    BY <2>3, <2>6
  <2>8. Stacks!Put(c, o)
    BY <1>5, <1>10, <2>7 DEF Stacks!Put, Stacks!InStack, Stacks!ToSet, ToSet, Mapped
  <2>9. QED
    BY <2>8
<1>13. QED
  BY <1>11, <1>12

LEMMA StepIsStackStep ==
    ASSUME LinkInv, LinkInv', [Next]_vars
    PROVE  Stacks!Next \/ Mapped' = Mapped
<1>1. CASE AllowShadow
  <2>1. PICK c, o \in Obj : Stacks!Put(c, o)
    BY <1>1, AllowPuts
  <2>2. QED
    BY <2>1 DEF Stacks!Next
<1>2. CASE \/ \E ob \in Obj : Unshadow(ob)
           \/ \E ob \in Obj : ReplaceProgram(ob)
           \/ \E ob \in Obj : Destruct(ob)
  <2>1. PICK ob \in Obj : shadowing' = ShadowingWithout(ob) /\ shadowed_by' = ShadowedByWithout(ob)
    BY <1>2 DEF Unshadow, ReplaceProgram, Destruct
  <2>2. Stacks!TakeOut(ob) \/ Mapped' = Mapped
    BY <2>1, LeavingTakesOut
  <2>3. QED
    BY <2>2 DEF Stacks!Next
<1>3. CASE UNCHANGED <<shadowing, shadowed_by>>
  <2>1. Mapped' = Mapped
    BY <1>3 DEF Mapped, Stack, Along
  <2>2. QED
    BY <2>1
<1>4. QED
  BY <1>1, <1>2, <1>3
     DEF Next, AskToShadow, DenyShadow, DestructWalk, DestructEnd, Recycle, set_environment,
         AddAction, RemoveAction, Connect, Disconnect, Exec, vars, links

LEMMA InitIsStacksInit == Init => Stacks!Init
<1> SUFFICES ASSUME Init PROVE Stacks!Init
  OBVIOUS
<1>1. \A x \in Obj : shadowed_by[x] = NULL
  BY DEF Init
<1>2. QED
  BY <1>1 DEF Stacks!Init

(* The double links implement stacks of shadows: shadow() enters on top    *)
(* and nowhere else, unshadow(), replace_program() and destruct() take out *)
(* their object only, and the others keep their order.                     *)
THEOREM StacksImplemented ==
    ASSUME Discreet
    PROVE  Spec => ImplementsStacks
<1>1. Init => Stacks!Init
  BY InitIsStacksInit
<1>2. LinkInv /\ [Next]_vars => LinkInv'
  BY LinkInvStep
<1>3. LinkInv /\ LinkInv' /\ [Next]_vars => [Stacks!Next]_Stacks!svars
  BY StepIsStackStep DEF Stacks!svars, Mapped
<1>4. QED
  BY <1>1, <1>3, LinksInvariant, PTL DEF Spec, ImplementsStacks, Stacks!Spec
=============================================================================
