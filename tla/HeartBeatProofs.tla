--------------------------- MODULE HeartBeatProofs ---------------------------
(***************************************************************************)
(* Proofs about HeartBeat, for any finite set of objects, any interval and *)
(* any number of players.                                                  *)
(***************************************************************************)
EXTENDS HeartBeat, Induction

(* The types of the list's variables. *)
ListType ==
    /\ hb_list \in Ptr /\ next_hb \in Ptr
    /\ nodes \subseteq Obj /\ flag \subseteq Obj
    /\ next \in [Obj -> Ptr] /\ prev \in [Obj -> Ptr]
    /\ since \in [Obj -> Ages]
    /\ num_hb_objs \in Nat

ListInv == ListType /\ Linked /\ Grounded /\ Registered

-----------------------------------------------------------------------------
(* Adding and removing a node change the cardinality by one. *)
LEMMA NodesFinite ==
    ASSUME nodes \subseteq Obj
    PROVE  /\ IsFiniteSet(nodes)
           /\ Cardinality(nodes) \in Nat
           /\ Cardinality(nodes) = 0 <=> nodes = {}
           /\ \A n \in nodes : Cardinality(nodes \ {n}) = Cardinality(nodes) - 1
           /\ \A n : n \notin nodes =>
                  Cardinality(nodes \cup {n}) = Cardinality(nodes) + 1
<1>1. IsFiniteSet(nodes)
  BY ObjAssumption, FS_Subset
<1>2. QED
  BY <1>1, FS_CardinalityType, FS_EmptySet, FS_AddElement, FS_RemoveElement

(* With something registered, the loop has a node at hand. *)
LEMMA ThisIsNode ==
    ASSUME ListInv, num_hb_objs # 0
    PROVE  This \in nodes
<1>1. nodes # {}
  BY NodesFinite DEF ListInv, ListType, Registered
<1>2. QED
  BY <1>1 DEF ListInv, Linked, This

(* No node is its own successor: {n} would be a cycle. *)
LEMMA NoSelfLoop ==
    ASSUME ListInv, NEW n \in nodes
    PROVE  next[n] # n
<1>1. PICK m \in {n} : prev[m] \notin {n}
  BY DEF ListInv, Grounded
<1>2. QED
  BY <1>1, NullAssumption DEF ListInv, ListType, Linked

(* Taking out a node keeps the list in order, provided that next_hb does   *)
(* not stay at the node.                                                   *)
LEMMA UnlinkKeepsList ==
    ASSUME ListInv, NEW n \in nodes, Unlink(n),
           next_hb' \in (nodes \ {n}) \cup {NULL}
    PROVE  ListInv'
<1> USE NullAssumption
<1>1. n \in Obj
  BY DEF ListInv, ListType
<1>2. ListType'
  <2>1. num_hb_objs - 1 \in Nat
    BY NodesFinite DEF ListInv, ListType, Registered
  <2>2. NextWithout(n) \in [Obj -> Ptr] /\ PrevWithout(n) \in [Obj -> Ptr]
    BY <1>1 DEF ListInv, ListType, NextWithout, PrevWithout, Ptr
  <2>3. since' \in [Obj -> Ages]
    BY <1>1, IntervalAssumption DEF ListInv, ListType, Unlink, Ages
  <2>4. QED
    BY <1>1, <2>1, <2>2, <2>3 DEF ListInv, ListType, Unlink, Ptr
<1>3. Grounded'
  <2> SUFFICES ASSUME NEW S \in SUBSET (nodes \ {n}), S # {}
               PROVE  \E m \in S : prev'[m] \notin S
    BY DEF Grounded, Unlink
  <2>1. \A m \in S : prev'[m] = IF m = next[n] THEN prev[n] ELSE prev[m]
    BY DEF Unlink, PrevWithout, ListInv, ListType
  <2>2. \A m \in nodes : prev[m] = n => m = next[n]
    BY <1>1 DEF ListInv, ListType, Linked
  <2>3. PICK m \in S \cup {n} : prev[m] \notin S \cup {n}
    BY DEF ListInv, Grounded
  <2>4. PICK k \in S : prev[k] \notin S
    BY DEF ListInv, Grounded
  <2>5. CASE m # n
    BY <2>1, <2>3, <2>5, next[n] \in nodes => prev[next[n]] = n
       DEF ListInv, ListType, Linked
  <2>6. CASE m = n /\ next[n] \in S
    BY <2>1, <2>3, <2>6
  <2>7. CASE next[n] \notin S
    BY <2>1, <2>4, <2>7
  <2>8. QED
    BY <2>5, <2>6, <2>7
<1>4. next[n] # n
  BY NoSelfLoop
<1>5. Linked'
  <2>1. next' = NextWithout(n) /\ prev' = PrevWithout(n) /\ nodes' = nodes \ {n}
        /\ hb_list' = (IF n = hb_list THEN next[n] ELSE hb_list)
    BY DEF Unlink
  <2>2. \A m \in nodes' : /\ next'[m] = IF m = prev[n] THEN next[n] ELSE next[m]
                          /\ prev'[m] = IF m = next[n] THEN prev[n] ELSE prev[m]
    BY <2>1 DEF NextWithout, PrevWithout, ListInv, ListType
  <2>3. nodes \subseteq Obj /\ Linked
    BY DEF ListInv, ListType
  <2>4. \A m \in nodes' : next'[m] # NULL => next'[m] \in nodes' /\ prev'[next'[m]] = m
    BY <2>1, <2>2, <2>3 DEF Linked
  <2>5. \A m \in nodes' : prev'[m] # NULL => prev'[m] \in nodes' /\ next'[prev'[m]] = m
    BY <2>1, <2>2, <2>3 DEF Linked
  <2>6. \A m \in nodes' : prev'[m] = NULL <=> m = hb_list'
    BY <2>1, <2>2, <2>3 DEF Linked
  <2>7. hb_list' \in nodes' \cup {NULL}
    BY <2>1, <2>3, <1>4 DEF Linked
  <2>8. hb_list' = NULL <=> nodes' = {}
    <3>1. nodes' # {} => \E m \in nodes' : prev'[m] \notin nodes'
      BY <1>3 DEF Grounded
    <3>2. QED
      BY <3>1, <2>5, <2>6, <2>7
  <2>9. QED
    BY <2>1, <2>4, <2>5, <2>6, <2>7, <2>8 DEF Linked
<1>6. Registered'
  BY NodesFinite DEF ListInv, ListType, Registered, Unlink
<1>7. QED
  BY <1>2, <1>5, <1>3, <1>6 DEF ListInv

(* set_heart_beat(FALSE) takes out the node and moves next_hb past it.     *)
LEMMA RemoveKeepsList ==
    ASSUME ListInv, NEW n \in nodes, RemoveNode(n)
    PROVE  ListInv'
<1>1. next_hb' \in (nodes \ {n}) \cup {NULL}
  BY NoSelfLoop DEF ListInv, ListType, Linked, RemoveNode
<1>2. QED
  BY <1>1, UnlinkKeepsList DEF RemoveNode

(* set_heart_beat(TRUE) links a new node in, at the head or before next_hb *)
(* in the middle, and the list stays in order.                             *)
LEMMA AddKeepsList ==
    ASSUME ListInv, NEW ob \in Obj, ob \notin nodes, AddNode(ob)
    PROVE  ListInv'
<1> USE NullAssumption
<1>1. ListType'
  <2>1. next' \in [Obj -> Ptr] /\ prev' \in [Obj -> Ptr]
        /\ hb_list' \in Ptr /\ next_hb' \in Ptr
    <3>1. CASE NextIsFirst
      BY <3>1 DEF ListInv, ListType, AddNode, InsertAtHead, Ptr
    <3>2. CASE ~NextIsFirst
      BY <3>2 DEF ListInv, ListType, AddNode, InsertBeforeNext, Ptr, NextIsFirst
    <3>3. QED
      BY <3>1, <3>2
  <2>2. since' \in [Obj -> Ages]
    BY IntervalAssumption DEF ListInv, ListType, AddNode, Ages
  <2>3. QED
    BY <2>1, <2>2 DEF ListInv, ListType, AddNode
<1>2. Linked'
  <2>1. nodes' = nodes \cup {ob} /\ nodes \subseteq Obj /\ Linked
    BY DEF AddNode, ListInv, ListType
  <2>2. CASE NextIsFirst
    <3>1. /\ hb_list' = ob
          /\ next_hb' = (IF next_hb = NULL THEN hb_list ELSE next_hb)
          /\ \A m \in nodes : next'[m] = next[m]
          /\ next'[ob] = hb_list
          /\ prev'[ob] = NULL
          /\ \A m \in nodes : prev'[m] = IF m = hb_list THEN ob ELSE prev[m]
      BY <2>1, <2>2 DEF AddNode, InsertAtHead, ListInv, ListType
    <3>2. QED
      BY <2>1, <3>1 DEF Linked
  <2>3. CASE ~NextIsFirst
    <3>1. /\ hb_list' = hb_list /\ next_hb' = next_hb
          /\ next_hb \in nodes /\ prev[next_hb] \in nodes /\ nodes # {}
          /\ next'[ob] = next_hb
          /\ prev'[ob] = prev[next_hb]
          /\ \A m \in nodes : next'[m] = IF m = prev[next_hb] THEN ob ELSE next[m]
          /\ \A m \in nodes : prev'[m] = IF m = next_hb THEN ob ELSE prev[m]
      BY <2>1, <2>3
         DEF AddNode, InsertBeforeNext, NextIsFirst, ListInv, ListType, Linked
    <3>2. QED
      BY <2>1, <3>1 DEF Linked
  <2>4. QED
    BY <2>2, <2>3
<1>3. Registered'
  BY NodesFinite DEF ListInv, ListType, Registered, AddNode
<1>4. Grounded'
  <2> SUFFICES ASSUME NEW S \in SUBSET (nodes \cup {ob}), S # {}
               PROVE  \E m \in S : prev'[m] \notin S
    BY DEF Grounded, AddNode
  <2>1. nodes \subseteq Obj /\ Linked /\ Grounded
    BY DEF ListInv, ListType
  <2>2. CASE S \subseteq {ob}
    <3>1. prev'[ob] # ob
      BY <2>1 DEF AddNode, InsertAtHead, InsertBeforeNext, NextIsFirst, ListInv,
                  ListType, Linked
    <3>2. QED
      BY <2>2, <3>1
  <2>3. CASE ~(S \subseteq {ob})
    <3>1. PICK k \in S \ {ob} : prev[k] \notin S \ {ob}
      BY <2>1, <2>3 DEF Grounded
    <3>2. prev[k] \notin S
      BY <2>1, <3>1 DEF Linked
    <3>3. CASE NextIsFirst
      <4>1. /\ \A m \in nodes : prev'[m] = IF m = hb_list THEN ob ELSE prev[m]
            /\ prev'[ob] = NULL
        BY <2>1, <3>3 DEF AddNode, InsertAtHead, ListInv, ListType
      <4>2. QED
        BY <2>1, <3>1, <3>2, <4>1
    <3>4. CASE ~NextIsFirst
      <4>1. /\ \A m \in nodes : prev'[m] = IF m = next_hb THEN ob ELSE prev[m]
            /\ prev'[ob] = prev[next_hb]
        BY <2>1, <3>4 DEF AddNode, InsertBeforeNext, NextIsFirst, ListInv, ListType, Linked
      <4>2. QED
        BY <2>1, <3>1, <3>2, <4>1
    <3>5. QED
      BY <3>3, <3>4
  <2>4. QED
    BY <2>2, <2>3
<1>5. QED
  BY <1>1, <1>2, <1>3, <1>4 DEF ListInv

(* Whatever set_heart_beat() is called with, the list stays in order; a    *)
(* node it allocates starts with age 0, the others keep theirs, and only   *)
(* the object itself can join or leave.                                    *)
LEMMA SetHeartBeatKeepsList ==
    ASSUME ListInv, NEW ob \in Obj, NEW to \in BOOLEAN, set_heart_beat(ob, to)
    PROVE  /\ ListInv'
           /\ \A n \in nodes' : since'[n] = since[n] \/ since'[n] = 0
           /\ \A n \in nodes' : n \notin nodes => n = ob /\ since'[n] = 0
           /\ ob \notin destructed /\ ~to => ob \notin nodes'
           /\ ob \in destructed => nodes' = nodes
<1>0. flag = nodes /\ nodes \subseteq Obj /\ since \in [Obj -> Ages]
  BY DEF ListInv, ListType, Registered
<1>1. CASE UNCHANGED listvars /\ (ob \in destructed \/ (ob \in flag) = to)
  <2>1. ListInv'
    BY <1>1 DEF listvars, ListInv, ListType, Linked, Grounded, Registered
  <2>2. nodes' = nodes /\ since' = since
    BY <1>1 DEF listvars
  <2>3. ob \notin destructed /\ ~to => ob \notin nodes
    BY <1>0, <1>1
  <2>4. QED
    BY <2>1, <2>2, <2>3
<1>2. CASE to /\ ob \notin destructed \cup flag /\ AddNode(ob)
  <2>1. ListInv'
    BY <1>0, <1>2, AddKeepsList
  <2>2. QED
    BY <1>0, <1>2, <2>1 DEF AddNode
<1>3. CASE ~to /\ ob \in flag \ destructed /\ RemoveNode(ob)
  <2>1. ListInv'
    BY <1>0, <1>3, RemoveKeepsList
  <2>2. QED
    BY <1>0, <1>3, <2>1 DEF RemoveNode, Unlink
<1>4. QED
  BY <1>1, <1>2, <1>3 DEF set_heart_beat

-----------------------------------------------------------------------------
(* The driver starts with an empty list, which satisfies the invariant. *)
LEMMA InitIInv == Init => IInv
<1> SUFFICES ASSUME Init PROVE IInv
  OBVIOUS
<1>1. TypeOK
  <2>1. 0 \in Ages /\ heart_beat_interval \in Ages
    BY IntervalAssumption DEF Ages
  <2>2. since \in [Obj -> Ages] /\ quiet \in [Obj -> Ages]
    BY <2>1 DEF Init
  <2>3. next \in [Obj -> Ptr] /\ prev \in [Obj -> Ptr]
    BY DEF Init, Ptr
  <2>4. QED
    BY <2>2, <2>3 DEF Init, TypeOK, Ptr, Places
<1>2. Linked /\ Grounded /\ NoneDestructed /\ BlameOnlyInRound /\ ServedSince
      /\ CulpritKnown
  BY DEF Init, Linked, Grounded, NoneDestructed, BlameOnlyInRound, ServedSince,
         CulpritKnown
<1>3. Registered
  BY FS_EmptySet DEF Init, Registered
<1>4. QED
  BY <1>1, <1>2, <1>3 DEF IInv

(* A call of set_heart_beat() cannot break what concerns age and           *)
(* destruction either.                                                     *)
LEMMA SetHeartBeatKeepsRest ==
    ASSUME IInv, NEW ob \in Obj, NEW to \in BOOLEAN, set_heart_beat(ob, to),
           quiet' = quiet
    PROVE  /\ ListInv'
           /\ ServedSince'
           /\ nodes' \cap destructed = {}
           /\ ~to => nodes' \cap (destructed \cup {ob}) = {}
<1>1. ListInv
  BY DEF IInv, TypeOK, ListInv, ListType
<1>2. /\ ListInv'
      /\ \A n \in nodes' : since'[n] = since[n] \/ since'[n] = 0
      /\ \A n \in nodes' : n \notin nodes => n = ob /\ since'[n] = 0
      /\ ob \notin destructed /\ ~to => ob \notin nodes'
      /\ ob \in destructed => nodes' = nodes
  BY <1>1, SetHeartBeatKeepsList
<1>3. ServedSince'
  <2>1. \A n \in nodes' : n \in Obj /\ quiet[n] \in Ages
    BY <1>2 DEF ListInv, ListType, IInv, TypeOK
  <2>2. QED
    BY <1>2, <2>1, IntervalAssumption DEF ServedSince, IInv, Ages
<1>4. nodes' \cap destructed = {}
  BY <1>2 DEF IInv, NoneDestructed
<1>5. ~to => nodes' \cap (destructed \cup {ob}) = {}
  BY <1>2, <1>4
<1>6. QED
  BY <1>2, <1>3, <1>4, <1>5

(* No step of the driver breaks the invariant: one case per action. *)
LEMMA NextIInv == IInv /\ [Next]_vars => IInv'
<1> SUFFICES ASSUME IInv, [Next]_vars PROVE IInv'
  OBVIOUS
<1> USE NullAssumption, IntervalAssumption
<1>0. ListInv
  BY DEF IInv, TypeOK, ListInv, ListType
<1>1. CASE UNCHANGED vars
  BY <1>1 DEF vars, listvars, errorvars, IInv, TypeOK, Linked, Grounded, Registered,
              NoneDestructed, BlameOnlyInRound, ServedSince, CulpritKnown
<1>2. CASE Alarm
  BY <1>2 DEF Alarm, listvars, errorvars, IInv, TypeOK, Linked, Grounded, Registered,
              NoneDestructed, BlameOnlyInRound, ServedSince, CulpritKnown
<1>3. ASSUME NEW ob \in Obj, NEW to \in BOOLEAN, SetHeartBeat(ob, to)
      PROVE  IInv'
  <2>1. ListInv' /\ ServedSince' /\ nodes' \cap destructed = {}
    BY <1>3, SetHeartBeatKeepsRest DEF SetHeartBeat
  <2>2. QED
    BY <1>3, <2>1 DEF SetHeartBeat, errorvars, IInv, TypeOK, ListInv, ListType,
                      NoneDestructed, BlameOnlyInRound, CulpritKnown
<1>4. ASSUME NEW ob \in Obj, Destruct(ob)
      PROVE  IInv'
  <2>1. ListInv' /\ ServedSince' /\ nodes' \cap (destructed \cup {ob}) = {}
    BY <1>4, SetHeartBeatKeepsRest DEF Destruct
  <2>2. QED
    BY <1>4, <2>1 DEF Destruct, errorvars, IInv, TypeOK, ListInv, ListType,
                      NoneDestructed, BlameOnlyInRound, CulpritKnown
<1>5. ASSUME NEW ob \in Obj, Recycle(ob)
      PROVE  IInv'
  <2>1. TypeOK' /\ ServedSince'
    BY <1>5 DEF Recycle, listvars, errorvars, IInv, TypeOK, ServedSince, Ages
  <2>2. QED
    BY <1>5, <2>1 DEF Recycle, listvars, errorvars, IInv, Linked, Grounded,
                      Registered, NoneDestructed, BlameOnlyInRound, CulpritKnown
<1>6. CASE PlayersChange
  BY <1>6 DEF PlayersChange, listvars, errorvars, IInv, TypeOK, Linked, Grounded,
              Registered, NoneDestructed, BlameOnlyInRound, ServedSince, CulpritKnown
<1>7. ASSUME NEW d \in Ages, StartCycle(d)
      PROVE  IInv'
  <2>1. \A age \in Ages : Older(age, d) \in Ages
    BY DEF Ages, Older
  <2>2. \A a, b \in Ages : a <= b => Older(a, d) <= Older(b, d)
    BY DEF Ages, Older
  <2>3. /\ \A o \in nodes : since'[o] = Older(since[o], d)
        /\ \A o \in Obj : quiet'[o] = Older(quiet[o], d)
        /\ nodes \subseteq Obj
    BY <1>7 DEF StartCycle, IInv, TypeOK
  <2>4. ServedSince'
    BY <1>7, <2>2, <2>3 DEF StartCycle, IInv, TypeOK, ServedSince
  <2>5. since' \in [Obj -> Ages] /\ quiet' \in [Obj -> Ages]
    <3>1. 0 \in Ages
      BY DEF Ages
    <3>2. QED
      BY <1>7, <2>1, <3>1 DEF StartCycle, IInv, TypeOK
  <2>6. TypeOK'
    BY <1>7, <2>5 DEF StartCycle, errorvars, IInv, TypeOK, Places
  <2>7. QED
    BY <1>7, <2>4, <2>6 DEF StartCycle, errorvars, IInv, Linked, Grounded, Registered,
                      NoneDestructed, BlameOnlyInRound, CulpritKnown
<1>8. CASE SkipRound
  BY <1>8 DEF SkipRound, errorvars, IInv, TypeOK, Linked, Grounded, Registered, Ptr,
              NoneDestructed, BlameOnlyInRound, ServedSince, CulpritKnown, Places
<1>9. CASE StartRound
  BY <1>9 DEF StartRound, listvars, errorvars, IInv, TypeOK, Linked, Grounded,
              Registered, NoneDestructed, BlameOnlyInRound, ServedSince, CulpritKnown,
              Places
<1>10. CASE Interrupted \/ Break
  BY <1>10 DEF Interrupted, Break, LeaveLoop, listvars, errorvars, IInv, TypeOK,
               Linked, Grounded, Registered, Ptr, NoneDestructed, BlameOnlyInRound,
               ServedSince, CulpritKnown, Places
<1>11. CASE DropBeatless
  <2>1. This \in nodes
    BY <1>0, <1>11, ThisIsNode DEF DropBeatless, Looping
  <2>2. next[This] \in (nodes \ {This}) \cup {NULL}
    BY <1>0, <2>1, NoSelfLoop DEF ListInv, Linked
  <2>3. Unlink(This) /\ next_hb' = next[This]
    BY <1>11 DEF DropBeatless
  <2>4. ListInv'
    BY <1>0, <2>1, <2>2, <2>3, UnlinkKeepsList
  <2>5. /\ nodes' \subseteq nodes
        /\ \A n \in nodes' : since'[n] = since[n]
    BY <2>3 DEF Unlink, IInv, TypeOK
  <2>6. ServedSince'
    BY <1>11, <2>5 DEF DropBeatless, ServedSince, IInv
  <2>7. NoneDestructed'
    BY <1>11, <2>5 DEF DropBeatless, NoneDestructed, IInv
  <2>8. QED
    BY <1>11, <2>4, <2>6, <2>7
       DEF DropBeatless, Looping, errorvars, IInv, TypeOK, ListInv, ListType,
           BlameOnlyInRound, CulpritKnown
<1>12. CASE Beat
  <2>1. This \in nodes /\ This \in Obj /\ This \in Ptr
    BY <1>0, <1>12, ThisIsNode DEF Beat, Looping, ListInv, ListType, Ptr
  <2>2. next[This] \in nodes \cup {NULL} /\ next[This] \in Ptr
    BY <1>0, <2>1 DEF ListInv, ListType, Linked
  <2>3. TypeOK'
    BY <1>12, <2>1, <2>2 DEF Beat, errorvars, IInv, TypeOK, Ages, Places
  <2>4. Linked' /\ Grounded' /\ Registered'
    BY <1>12, <2>2 DEF Beat, IInv, Linked, Grounded, Registered
  <2>5. ServedSince'
    BY <1>12, <2>1 DEF Beat, IInv, TypeOK, ServedSince
  <2>6. QED
    BY <1>12, <2>3, <2>4, <2>5
       DEF Beat, errorvars, IInv, NoneDestructed, BlameOnlyInRound, CulpritKnown
<1>13. CASE Return \/ ErrorUnhandled
  BY <1>13 DEF Return, ErrorUnhandled, listvars, errorvars, IInv, TypeOK, Linked,
               Grounded, Registered, NoneDestructed, BlameOnlyInRound, ServedSince,
               CulpritKnown, Places
<1>14. ASSUME NEW publish \in BOOLEAN, Error(publish)
       PROVE  IInv'
  <2>1. current_heart_beat \in Obj
    BY <1>14 DEF Error, IInv, TypeOK, Ptr
  <2>2. ListInv' /\ ServedSince' /\ nodes' \cap destructed = {}
    BY <1>14, <2>1, SetHeartBeatKeepsRest DEF Error
  <2>3. QED
    BY <1>14, <2>1, <2>2
       DEF Error, IInv, TypeOK, ListInv, ListType, Ptr, NoneDestructed,
           BlameOnlyInRound, CulpritKnown, Places
<1>15. ASSUME NEW back_on \in BOOLEAN, ErrorHandled(back_on)
       PROVE  IInv'
  <2>1. culprit \in Obj
    BY <1>15 DEF ErrorHandled, IInv, TypeOK, CulpritKnown, Ptr
  <2>2. ListInv' /\ ServedSince' /\ nodes' \cap destructed = {}
    <3>1. CASE back_on
      BY <1>15, <2>1, <3>1, SetHeartBeatKeepsRest DEF ErrorHandled
    <3>2. CASE ~back_on
      BY <1>15, <3>2 DEF ErrorHandled, listvars, IInv, TypeOK, ListInv, ListType,
                         Linked, Grounded, Registered, ServedSince, NoneDestructed
    <3>3. QED
      BY <3>1, <3>2
  <2>3. QED
    BY <1>15, <2>2
       DEF ErrorHandled, IInv, TypeOK, ListInv, ListType, Ptr, NoneDestructed,
           BlameOnlyInRound, CulpritKnown, Places
<1>16. CASE SecureApplyError
  <2>1. current_heart_beat \in Obj
    BY <1>16 DEF SecureApplyError, IInv, TypeOK, Ptr
  <2>2. ListInv' /\ ServedSince' /\ nodes' \cap destructed = {}
    BY <1>16, <2>1, SetHeartBeatKeepsRest DEF SecureApplyError
  <2>3. QED
    BY <1>16, <2>2
       DEF SecureApplyError, errorvars, IInv, TypeOK, ListInv, ListType, Ptr,
           NoneDestructed, BlameOnlyInRound, CulpritKnown
<1>17. QED
  BY <1>1, <1>2, <1>3, <1>4, <1>5, <1>6, <1>7, <1>8, <1>9, <1>10, <1>11, <1>12,
     <1>13, <1>14, <1>15, <1>16 DEF Next

(* The inductive invariant holds in every reachable state. *)
THEOREM Invariance == Spec => []IInv
BY InitIInv, NextIInv, PTL DEF Spec

(* Every variable keeps its type. *)
THEOREM TypeCorrectness == Spec => []TypeOK
<1>1. IInv => TypeOK
  BY DEF IInv
<1>2. QED
  BY <1>1, Invariance, PTL

(* The doubly linked list of hb_infos stays consistent through every       *)
(* set_heart_beat(), destruct() and error inside and outside of beats.     *)
THEOREM ListConsistency == Spec => [](Linked /\ Registered)
<1>1. IInv => Linked /\ Registered
  BY DEF IInv
<1>2. QED
  BY <1>1, Invariance, PTL

(* The walk from hb_list finds every registered object. *)
THEOREM ListIsComplete == Spec => []ListReachesAll
<1>1. IInv => ListReachesAll
  <2> SUFFICES ASSUME IInv, NEW S \in SUBSET nodes, hb_list \in S,
                      \A n \in S : next[n] \in S \cup {NULL},
                      nodes \ S # {}
               PROVE  FALSE
    BY DEF ListReachesAll
  <2>1. PICK n \in nodes \ S : prev[n] \notin nodes \ S
    BY DEF IInv, Grounded
  <2>2. prev[n] # NULL
    BY <2>1 DEF IInv, Linked
  <2>3. prev[n] \in S /\ next[prev[n]] = n
    BY <2>1, <2>2 DEF IInv, Linked
  <2>4. n # NULL
    BY <2>1, NullAssumption DEF IInv, TypeOK
  <2>5. QED
    BY <2>1, <2>3, <2>4
<1>2. QED
  BY <1>1, Invariance, PTL

(* No destructed object keeps a heart beat. *)
THEOREM DestructedAreSilent == Spec => []NoneDestructed
<1>1. IInv => NoneDestructed
  BY DEF IInv
<1>2. QED
  BY <1>1, Invariance, PTL

(* Outside of a round there is no heart beat for an error to be blamed on. *)
THEOREM BlameIsConfined == Spec => []BlameOnlyInRound
<1>1. IInv => BlameOnlyInRound
  BY DEF IInv
<1>2. QED
  BY <1>1, Invariance, PTL

(* Two heart_beat() calls in one object are at least heart_beat_interval   *)
(* apart, however often the heart beat is switched off and on between.     *)
THEOREM SpacedBeats == Spec => BeatSpacing
<1>1. IInv /\ [Next]_vars => [Beat => quiet[This] >= heart_beat_interval]_vars
  <2> SUFFICES ASSUME IInv, Beat
               PROVE  quiet[This] >= heart_beat_interval
    OBVIOUS
  <2>1. This \in nodes
    BY ThisIsNode DEF IInv, TypeOK, ListInv, ListType, Beat, Looping
  <2>2. since[This] <= quiet[This] /\ since[This] >= heart_beat_interval
    BY <2>1 DEF IInv, ServedSince, Beat, Due
  <2>3. since[This] \in Int /\ quiet[This] \in Int
    BY <2>1, IntervalAssumption DEF IInv, TypeOK, Ages
  <2>4. QED
    BY <2>2, <2>3, IntervalAssumption
<1>2. QED
  BY <1>1, Invariance, PTL DEF Spec, BeatSpacing

-----------------------------------------------------------------------------
(* ----- Circles --------------------------------------------------------- *)
(* q shows the objects of S from first on, each before its follower, and   *)
(* first follows the last one.                                             *)
Circle(f, first, S, q) ==
    /\ q \in Seq(Obj)
    /\ \A i, j \in 1 .. Len(q) : q[i] = q[j] => i = j
    /\ S = ToSet(q)
    /\ first = IF Len(q) = 0 THEN NULL ELSE q[1]
    /\ \A i \in 1 .. Len(q) : f[q[i]] = IF i = Len(q) THEN q[1] ELSE q[i + 1]

LEMMA CircleFacts ==
    ASSUME NEW f, NEW first, NEW S, NEW q, Circle(f, first, S, q)
    PROVE  /\ Len(q) \in Nat /\ DOMAIN q = 1 .. Len(q)
           /\ \A i \in 1 .. Len(q) : q[i] \in Obj /\ q[i] \in S
           /\ \A x \in S : x \in Obj /\ \E i \in 1 .. Len(q) : q[i] = x
           /\ S = {} <=> Len(q) = 0
           /\ S # {} => first \in S /\ 1 \in 1 .. Len(q)
           /\ Len(q) = Cardinality(S) /\ Len(q) \in 0 .. Cardinality(Obj)
           /\ Cardinality(Obj) \in Nat
<1>1. q \in Seq(Obj) /\ S = ToSet(q) /\ first = IF Len(q) = 0 THEN NULL ELSE q[1]
  BY DEF Circle
<1>2. Len(q) \in Nat /\ DOMAIN q = 1 .. Len(q) /\ \A i \in 1 .. Len(q) : q[i] \in Obj
  BY <1>1, LenProperties, ElementOfSeq
<1>3. S = {q[i] : i \in 1 .. Len(q)}
  BY <1>1, <1>2 DEF ToSet
<1>4. Len(q) = 0 \/ 1 \in 1 .. Len(q)
  BY <1>2
<1>5. S = {} <=> Len(q) = 0
  BY <1>2, <1>3, <1>4
<1>6. S # {} => first \in S /\ 1 \in 1 .. Len(q)
  BY <1>1, <1>3, <1>4, <1>5
<1>7. Len(q) = Cardinality(S) /\ Len(q) \in 0 .. Cardinality(Obj) /\ Cardinality(Obj) \in Nat
  BY <1>1, ObjAssumption, LenCounts DEF Circle
<1>8. QED
  BY <1>2, <1>3, <1>5, <1>6, <1>7

(* Who follows himself is alone.                                           *)
LEMMA NotOwnFollower ==
    ASSUME NEW f, NEW first, NEW S, NEW q, Circle(f, first, S, q), NEW x \in S, f[x] = x
    PROVE  S = {x}
<1>1. PICK n \in Nat : n = Len(q)
  BY CircleFacts
<1>2. PICK i \in 1 .. n : q[i] = x
  BY <1>1, CircleFacts
<1>3. i + 1 \in 1 .. n => i + 1 # i
  BY <1>1
<1>4. i = n /\ 1 = n
  <2>1. f[x] = IF i = n THEN q[1] ELSE q[i + 1]
    BY <1>1, <1>2 DEF Circle
  <2>2. i # n => i + 1 \in 1 .. n
    BY <1>1
  <2>3. 1 \in 1 .. n
    BY <1>1
  <2>4. \A k \in 1 .. n : q[k] = q[i] => k = i
    BY <1>1 DEF Circle
  <2>5. i = n
    BY <1>2, <1>3, <2>1, <2>2, <2>4
  <2>6. q[1] = q[i]
    BY <1>2, <2>1, <2>5
  <2>7. QED
    BY <2>3, <2>4, <2>5, <2>6
<1>5. \A y \in S : y = x
  <2>1. \A y \in S : \E k \in 1 .. n : q[k] = y
    BY <1>1, CircleFacts
  <2>2. \A k \in 1 .. n : k = i
    BY <1>4
  <2>3. QED
    BY <1>2, <2>1, <2>2
<1>6. QED
  BY <1>5

(* A new one behind the last.                                              *)
LEMMA CircleAppended ==
    ASSUME NEW f, NEW first, NEW S, NEW q, Circle(f, first, S, q),
           NEW o \in Obj, o \notin S, NEW g, NEW first2,
           first2 = (IF S = {} THEN o ELSE first), g[o] = first2,
           \A x \in S : g[x] = IF f[x] = first THEN o ELSE f[x]
    PROVE  Circle(g, first2, S \cup {o}, Append(q, o))
<1>1. PICK n \in Nat : n = Len(q)
  BY CircleFacts
<1>2. PICK w : w = Append(q, o)
  OBVIOUS
<1>3. q \in Seq(Obj) /\ \A i \in 1 .. n : q[i] \in S
  <2>1. q \in Seq(Obj)
    BY DEF Circle
  <2>2. \A i \in 1 .. Len(q) : q[i] \in S
    BY CircleFacts
  <2>3. QED
    BY <1>1, <2>1, <2>2
<1>4. /\ w \in Seq(Obj) /\ Len(w) = n + 1
      /\ \A i \in 1 .. n : w[i] = q[i]
      /\ w[n + 1] = o
  BY <1>1, <1>2, <1>3, AppendProperties
<1>5. \A i \in 1 .. n + 1 : i \in 1 .. n \/ i = n + 1
  BY <1>1
<1>6. /\ \A i, j \in 1 .. n : q[i] = q[j] => i = j
      /\ first = IF n = 0 THEN NULL ELSE q[1]
      /\ \A i \in 1 .. n : f[q[i]] = IF i = n THEN q[1] ELSE q[i + 1]
      /\ S = {} <=> n = 0
  BY <1>1, CircleFacts DEF Circle
<1>7. \A i, j \in 1 .. n + 1 : w[i] = w[j] => i = j
  BY <1>3, <1>4, <1>5, <1>6
<1>8. S \cup {o} = ToSet(w)
  <2>1. ToSet(q) = {q[i] : i \in 1 .. n} /\ S = ToSet(q)
    BY <1>1, CircleFacts DEF ToSet, Circle
  <2>2. ToSet(w) = {w[i] : i \in 1 .. n + 1}
    BY <1>4, LenProperties DEF ToSet
  <2>3. \A i \in 1 .. n : i \in 1 .. n + 1
    OBVIOUS
  <2>4. n + 1 \in 1 .. n + 1
    OBVIOUS
  <2>5. QED
    BY <1>4, <1>5, <2>1, <2>2, <2>3, <2>4
<1>9. first2 = w[1]
  <2>1. CASE n = 0
    BY <1>4, <1>6, <2>1
  <2>2. CASE n # 0
    <3>1. 1 \in 1 .. n
      BY <2>2
    <3>2. QED
      BY <1>4, <1>6, <2>2, <3>1
  <2>3. QED
    BY <2>1, <2>2
<1>10. ASSUME NEW i \in 1 .. n + 1
       PROVE  g[w[i]] = IF i = n + 1 THEN w[1] ELSE w[i + 1]
  <2>1. CASE i = n + 1
    BY <1>4, <1>9, <2>1
  <2>2. CASE i = n
    <3>1. i \in 1 .. n /\ i # n + 1 /\ n # 0 /\ i + 1 = n + 1
      BY <2>2
    <3>2. f[q[i]] = first
      BY <1>6, <2>2, <3>1
    <3>3. g[q[i]] = o
      BY <1>3, <3>1, <3>2
    <3>4. QED
      BY <1>4, <3>1, <3>3
  <2>3. CASE i # n /\ i # n + 1
    <3>1. i \in 1 .. n /\ i + 1 \in 1 .. n /\ i + 1 # 1 /\ 1 \in 1 .. n /\ n # 0
      BY <2>3
    <3>2. f[q[i]] = q[i + 1] /\ q[i + 1] # first
      BY <1>6, <2>3, <3>1
    <3>3. g[q[i]] = q[i + 1]
      BY <1>3, <3>1, <3>2
    <3>4. QED
      BY <1>4, <2>3, <3>1, <3>3
  <2>4. QED
    BY <2>1, <2>2, <2>3
<1>11. Len(w) # 0
  BY <1>4
<1>12. QED
  BY <1>2, <1>4, <1>7, <1>8, <1>9, <1>10, <1>11 DEF Circle

(* The k-th leaves.                                                        *)
LEMMA CircleWithout ==
    ASSUME NEW f, NEW first, NEW S, NEW q, Circle(f, first, S, q),
           NEW k \in 1 .. Len(q), NEW o, o = q[k], NEW g, NEW first2,
           first2 = (IF S = {o} THEN NULL ELSE IF o = first THEN f[o] ELSE first),
           \A x \in S \ {o} : g[x] = IF f[x] = o THEN f[o] ELSE f[x]
    PROVE  Circle(g, first2, S \ {o}, RemoveAt(q, k))
<1>1. PICK n \in Nat : n = Len(q)
  BY CircleFacts
<1>2. PICK r : r = RemoveAt(q, k)
  OBVIOUS
<1>3. q \in Seq(Obj) /\ \A i \in 1 .. n : q[i] \in S
  <2>1. q \in Seq(Obj)
    BY DEF Circle
  <2>2. \A i \in 1 .. Len(q) : q[i] \in S
    BY CircleFacts
  <2>3. QED
    BY <1>1, <2>1, <2>2
<1>4. /\ r \in Seq(Obj) /\ Len(r) = n - 1
      /\ \A j \in 1 .. n - 1 : r[j] = IF j < k THEN q[j] ELSE q[j + 1]
  BY <1>1, <1>2, <1>3, RemoveAtFacts
<1>5. /\ \A i, j \in 1 .. n : q[i] = q[j] => i = j
      /\ first = IF n = 0 THEN NULL ELSE q[1]
      /\ \A i \in 1 .. n : f[q[i]] = IF i = n THEN q[1] ELSE q[i + 1]
      /\ \A x \in S : \E i \in 1 .. n : q[i] = x
  BY <1>1, CircleFacts DEF Circle
<1>6. k \in 1 .. n /\ n - 1 \in Nat /\ 1 \in 1 .. n /\ o \in S
  BY <1>1, <1>3
<1>7. \A i, j \in 1 .. n - 1 : r[i] = r[j] => i = j
  <2> SUFFICES ASSUME NEW i \in 1 .. n - 1, NEW j \in 1 .. n - 1, r[i] = r[j]
               PROVE  i = j
    OBVIOUS
  <2>1. i \in 1 .. n /\ i + 1 \in 1 .. n /\ j \in 1 .. n /\ j + 1 \in 1 .. n
    OBVIOUS
  <2>2. PICK a \in 1 .. n : a = IF i < k THEN i ELSE i + 1
    BY <2>1
  <2>3. PICK b \in 1 .. n : b = IF j < k THEN j ELSE j + 1
    BY <2>1
  <2>4. r[i] = q[a] /\ r[j] = q[b]
    BY <1>4, <2>2, <2>3
  <2>5. q[a] = q[b]
    BY <2>4
  <2>6. a = b
    BY ONLY <1>5, <2>5, a \in 1 .. n, b \in 1 .. n
  <2>7. QED
    BY <1>6, <2>2, <2>3, <2>6
<1>8. ToSet(r) = S \ {o}
  <2>1. ToSet(r) = {r[j] : j \in 1 .. n - 1}
    BY <1>4, LenProperties DEF ToSet
  <2>2. ASSUME NEW j \in 1 .. n - 1
        PROVE  r[j] \in S /\ r[j] # o
    <3>1. PICK a \in 1 .. n : a = IF j < k THEN j ELSE j + 1
      OBVIOUS
    <3>2. r[j] = q[a] /\ a # k
      BY <1>4, <1>6, <3>1
    <3>3. QED
      BY <1>3, <1>5, <1>6, <3>2
  <2>3. ASSUME NEW x \in S, x # o
        PROVE  \E j \in 1 .. n - 1 : r[j] = x
    <3>1. PICK i \in 1 .. n : q[i] = x
      BY <1>5
    <3>2. i # k
      BY <2>3, <3>1
    <3>3. PICK j \in 1 .. n - 1 : j = IF i < k THEN i ELSE i - 1
      BY <1>6, <3>2
    <3>4. j < k <=> i < k
      BY <1>6, <3>2, <3>3
    <3>5. ~(i < k) => j + 1 = i
      BY <3>3
    <3>6. r[j] = q[i]
      BY <1>4, <3>3, <3>4, <3>5
    <3>7. QED
      BY <3>1, <3>6
  <2>4. QED
    BY <2>1, <2>2, <2>3
<1>9. S = {o} <=> n - 1 = 0
  <2>1. CASE n = 1
    <3>1. \A i \in 1 .. n : i = k
      BY <1>6, <2>1
    <3>2. QED
      BY <1>5, <1>6, <2>1, <3>1
  <2>2. CASE n # 1
    <3>1. PICK i \in 1 .. n : i # k
      <4>1. 1 \in 1 .. n /\ n \in 1 .. n /\ 1 # n
        BY <1>6, <2>2
      <4>2. QED
        BY <4>1
    <3>2. q[i] # o /\ q[i] \in S
      BY <1>3, <1>5, <1>6, <3>1
    <3>3. n - 1 # 0
      BY <2>2
    <3>4. QED
      BY <3>2, <3>3
  <2>3. QED
    BY <2>1, <2>2
<1>10. first2 = IF n - 1 = 0 THEN NULL ELSE r[1]
  <2>1. CASE n - 1 = 0
    BY <1>9, <2>1
  <2>2. CASE n - 1 # 0
    <3>1. 1 \in 1 .. n - 1 /\ 1 # n /\ n # 0
      BY <1>6, <2>2
    <3>2. first2 = IF o = first THEN f[o] ELSE first
      BY <1>9, <2>2
    <3>3. r[1] = IF 1 < k THEN q[1] ELSE q[1 + 1]
      BY <1>4, <3>1
    <3>4. first = q[1] /\ f[q[1]] = q[1 + 1]
      BY <1>5, <1>6, <3>1
    <3>5. 1 < k <=> k # 1
      BY <1>6
    <3>6. o = first <=> k = 1
      BY <1>5, <1>6, <3>4
    <3>7. QED
      BY <2>2, <3>2, <3>3, <3>4, <3>5, <3>6
  <2>3. QED
    BY <2>1, <2>2
<1>11. ASSUME NEW j \in 1 .. n - 1
       PROVE  g[r[j]] = IF j = n - 1 THEN r[1] ELSE r[j + 1]
  <2>1. r[j] \in S \ {o}
    <3>1. r[j] \in ToSet(r)
      BY <1>4, LenProperties DEF ToSet
    <3>2. QED
      BY <1>8, <3>1
  <2>2. g[r[j]] = IF f[r[j]] = o THEN f[o] ELSE f[r[j]]
    BY <2>1
  <2>3. /\ j \in 1 .. n /\ j + 1 \in 1 .. n /\ 1 \in 1 .. n - 1 /\ j # n
        /\ j # n - 1 => j + 1 \in 1 .. n - 1 /\ j + 1 + 1 \in 1 .. n /\ j + 1 # n
    OBVIOUS
  <2>4. r[1] = IF 1 < k THEN q[1] ELSE q[1 + 1]
    BY <1>4, <2>3
  <2>5. CASE j + 1 < k
    <3>1. j < k /\ j # n - 1 /\ j + 1 # k
      BY <1>6, <2>5
    <3>2. r[j] = q[j] /\ r[j + 1] = q[j + 1]
      BY <1>4, <2>3, <2>5, <3>1
    <3>3. f[q[j]] = q[j + 1] /\ q[j + 1] # o
      BY <1>5, <1>6, <2>3, <3>1
    <3>4. QED
      BY <2>2, <3>1, <3>2, <3>3
  <2>6. CASE j + 1 = k
    <3>1. j < k /\ 1 < k /\ ~(k < k)
      BY <1>6, <2>6
    <3>2. r[j] = q[j] /\ f[q[j]] = q[k]
      BY <1>4, <1>5, <2>3, <2>6, <3>1
    <3>3. g[r[j]] = f[o]
      BY <2>2, <3>2
    <3>4. CASE j = n - 1
      <4>1. k = n
        BY <2>6, <3>4
      <4>2. QED
        BY <1>5, <1>6, <2>4, <3>1, <3>3, <3>4, <4>1
    <3>5. CASE j # n - 1
      <4>1. k # n /\ k \in 1 .. n - 1
        BY <1>6, <2>6, <3>5
      <4>2. r[k] = q[k + 1] /\ f[o] = q[k + 1]
        BY <1>4, <1>5, <1>6, <3>1, <4>1
      <4>3. QED
        BY <2>6, <3>3, <3>5, <4>2
    <3>6. QED
      BY <3>4, <3>5
  <2>7. CASE j + 1 > k
    <3>1. ~(j < k) /\ ~(j + 1 < k) /\ j + 1 # k
      BY <1>6, <2>7
    <3>2. r[j] = q[j + 1]
      BY <1>4, <3>1
    <3>3. CASE j = n - 1
      <4>1. j + 1 = n
        BY <3>3
      <4>2. f[r[j]] = q[1]
        BY <1>5, <2>3, <3>2, <4>1
      <4>3. CASE k = 1
        <5>1. g[r[j]] = f[o] /\ 1 # n /\ ~(1 < k)
          BY <2>2, <2>3, <4>2, <4>3
        <5>2. f[o] = q[1 + 1]
          BY <1>5, <1>6, <4>3, <5>1
        <5>3. QED
          BY <2>4, <3>3, <5>1, <5>2
      <4>4. CASE k # 1
        <5>1. q[1] # o /\ 1 < k
          BY <1>5, <1>6, <4>4
        <5>2. QED
          BY <2>2, <2>4, <3>3, <4>2, <5>1
      <4>5. QED
        BY <4>3, <4>4
    <3>4. CASE j # n - 1
      <4>1. r[j + 1] = q[j + 1 + 1]
        BY <1>4, <2>3, <3>1, <3>4
      <4>2. f[r[j]] = q[j + 1 + 1]
        BY <1>5, <2>3, <3>2, <3>4
      <4>3. j + 1 + 1 # k
        BY <1>6, <2>7
      <4>4. q[j + 1 + 1] # o
        BY <1>5, <1>6, <2>3, <3>4, <4>3
      <4>5. QED
        BY <2>2, <3>4, <4>1, <4>2, <4>4
    <3>5. QED
      BY <3>3, <3>4
  <2>8. QED
    BY <1>6, <2>5, <2>6, <2>7
<1>12. QED
  BY <1>2, <1>4, <1>7, <1>8, <1>10, <1>11 DEF Circle

(* The circle may be read from any member on.                              *)
LEMMA CircleTurned ==
    ASSUME NEW f, NEW first, NEW S, NEW q, Circle(f, first, S, q), NEW k \in 1 .. Len(q)
    PROVE  Circle(f, q[k], S, SubSeq(q, k, Len(q)) \o SubSeq(q, 1, k - 1))
<1>1. PICK n \in Nat : n = Len(q)
  BY CircleFacts
<1>2. k \in 1 .. n /\ n # 0 /\ n - k + 1 \in 1 .. n /\ k - 1 \in Nat
  BY <1>1
<1>3. q \in Seq(Obj) /\ \A i \in 1 .. n : q[i] \in Obj
  BY <1>1, CircleFacts DEF Circle
<1> DEFINE a == SubSeq(q, k, n)
           b == SubSeq(q, 1, k - 1)
           r == a \o b
<1>4. PICK m \in 1 .. n : m = n - k + 1
  BY <1>2
<1> HIDE DEF a, b, r
<1>5. a \in Seq(Obj) /\ Len(a) = m /\ \A j \in 1 .. m : a[j] = q[k + j - 1]
  <2>1. \A i \in k .. n : q[i] \in Obj
    BY <1>2, <1>3
  <2>2. /\ SubSeq(q, k, n) \in Seq(Obj)
        /\ Len(SubSeq(q, k, n)) = IF k <= n THEN n - k + 1 ELSE 0
        /\ \A j \in 1 .. n - k + 1 : SubSeq(q, k, n)[j] = q[k + j - 1]
    BY <1>2, <2>1, SubSeqProperties
  <2>3. QED
    BY <1>2, <1>4, <2>2 DEF a
<1>6. b \in Seq(Obj) /\ Len(b) = k - 1 /\ \A j \in 1 .. k - 1 : b[j] = q[j]
  <2>1. \A i \in 1 .. k - 1 : q[i] \in Obj
    BY <1>2, <1>3
  <2>2. /\ SubSeq(q, 1, k - 1) \in Seq(Obj)
        /\ Len(SubSeq(q, 1, k - 1)) = IF 1 <= k - 1 THEN k - 1 - 1 + 1 ELSE 0
        /\ \A j \in 1 .. k - 1 - 1 + 1 : SubSeq(q, 1, k - 1)[j] = q[1 + j - 1]
    BY <1>2, <2>1, SubSeqProperties
  <2>3. QED
    BY <1>2, <1>4, <2>2 DEF b
<1>7. r \in Seq(Obj) /\ Len(r) = n
      /\ \A j \in 1 .. n : r[j] = IF j <= m THEN q[k + j - 1] ELSE q[j - m]
  <2>1. /\ r \in Seq(Obj) /\ Len(r) = m + (k - 1)
        /\ \A j \in 1 .. m + (k - 1) : r[j] = IF j <= m THEN a[j] ELSE b[j - m]
    <3>1. /\ r \in Seq(Obj) /\ Len(r) = Len(a) + Len(b)
          /\ \A j \in 1 .. Len(a) + Len(b) : r[j] = IF j <= Len(a) THEN a[j] ELSE b[j - Len(a)]
      BY <1>5, <1>6, ConcatProperties DEF r
    <3>2. QED
      BY <1>5, <1>6, <3>1
  <2>2. m + (k - 1) = n
    BY <1>2, <1>4
  <2>3. \A j \in 1 .. n : IF j <= m THEN j \in 1 .. m ELSE j - m \in 1 .. k - 1
    BY <1>2, <1>4
  <2>4. QED
    BY <1>5, <1>6, <2>1, <2>2, <2>3
<1>8. /\ \A i, j \in 1 .. n : q[i] = q[j] => i = j
      /\ \A i \in 1 .. n : f[q[i]] = IF i = n THEN q[1] ELSE q[i + 1]
      /\ \A x \in S : \E i \in 1 .. n : q[i] = x
      /\ \A i \in 1 .. n : q[i] \in S
  BY <1>1, CircleFacts DEF Circle
<1>9. \A j \in 1 .. n : (IF j <= m THEN k + j - 1 ELSE j - m) \in 1 .. n
  BY <1>2, <1>4
<1>10. \A i, j \in 1 .. n : r[i] = r[j] => i = j
  <2> SUFFICES ASSUME NEW i \in 1 .. n, NEW j \in 1 .. n, r[i] = r[j]
               PROVE  i = j
    OBVIOUS
  <2>1. PICK x \in 1 .. n : x = IF i <= m THEN k + i - 1 ELSE i - m
    BY <1>2, <1>9
  <2>2. PICK y \in 1 .. n : y = IF j <= m THEN k + j - 1 ELSE j - m
    BY <1>9
  <2>3. r[i] = q[x] /\ r[j] = q[y]
    BY <1>7, <2>1, <2>2
  <2>4. x = y
    BY <1>8, <2>3
  <2>5. QED
    BY <1>2, <1>4, <2>1, <2>2, <2>4
<1>11. ToSet(r) = S
  <2>1. ToSet(r) = {r[j] : j \in 1 .. n}
    BY <1>7, LenProperties DEF ToSet
  <2>2. ASSUME NEW j \in 1 .. n
        PROVE  r[j] \in S
    <3>1. PICK x \in 1 .. n : x = IF j <= m THEN k + j - 1 ELSE j - m
      BY <1>9
    <3>2. r[j] = q[x]
      BY <1>7, <3>1
    <3>3. QED
      BY <1>8, <3>2
  <2>3. ASSUME NEW x \in S
        PROVE  \E j \in 1 .. n : r[j] = x
    <3>1. PICK i \in 1 .. n : q[i] = x
      BY <1>8
    <3>2. CASE k <= i
      <4>1. PICK j \in 1 .. n : j = i - k + 1
        BY <1>2, <3>2
      <4>2. j <= m /\ k + j - 1 = i
        BY <1>2, <1>4, <3>2, <4>1
      <4>3. r[j] = q[k + j - 1]
        BY <1>7, <4>2
      <4>4. QED
        BY <3>1, <4>2, <4>3
    <3>3. CASE ~(k <= i)
      <4>1. PICK j \in 1 .. n : j = i + m
        BY <1>2, <1>4, <3>3
      <4>2. ~(j <= m) /\ j - m = i
        BY <1>2, <1>4, <3>3, <4>1
      <4>3. r[j] = q[j - m]
        BY <1>7, <4>2
      <4>4. QED
        BY <3>1, <4>2, <4>3
    <3>4. QED
      BY <3>2, <3>3
  <2>4. QED
    BY <2>1, <2>2, <2>3
<1>12. q[k] = r[1]
  <2>1. 1 \in 1 .. n /\ 1 <= m /\ k + 1 - 1 = k
    BY <1>2
  <2>2. QED
    BY <1>7, <2>1
<1>13. ASSUME NEW j \in 1 .. n
       PROVE  f[r[j]] = IF j = n THEN r[1] ELSE r[j + 1]
  <2>1. j # n => j + 1 \in 1 .. n
    OBVIOUS
  <2>2. CASE j < m
    <3>1. /\ j <= m /\ j + 1 <= m /\ j # n /\ k + j - 1 \in 1 .. n /\ k + j - 1 # n
          /\ k + (j + 1) - 1 = k + j - 1 + 1
      BY <1>2, <1>4, <2>2
    <3>2. r[j] = q[k + j - 1] /\ r[j + 1] = q[k + j - 1 + 1]
      BY <1>7, <2>1, <3>1
    <3>3. QED
      BY <1>8, <3>1, <3>2
  <2>3. CASE j = m
    <3>1. k + j - 1 = n /\ j <= m /\ n \in 1 .. n
      BY <1>2, <1>4, <2>3
    <3>2. f[r[j]] = q[1]
      <4>1. r[j] = q[n]
        BY <1>7, <3>1
      <4>2. f[q[n]] = q[1]
        BY <1>8, <3>1
      <4>3. QED
        BY <4>1, <4>2
    <3>3. CASE j = n
      <4>1. k = 1
        BY <1>2, <1>4, <2>3, <3>3
      <4>2. QED
        BY <1>12, <3>2, <3>3, <4>1
    <3>4. CASE j # n
      <4>1. ~(j + 1 <= m) /\ j + 1 - m = 1
        BY <2>3
      <4>2. r[j + 1] = q[j + 1 - m]
        <5>1. j + 1 \in 1 .. n
          BY <2>1, <3>4
        <5>2. QED
          BY <1>7, <4>1, <5>1
      <4>3. r[j + 1] = q[1]
        BY <4>1, <4>2
      <4>4. QED
        BY <3>2, <3>4, <4>3
    <3>5. QED
      BY <3>3, <3>4
  <2>4. CASE j > m
    <3>1. ~(j <= m) /\ j - m \in 1 .. n /\ j - m # n /\ j + 1 - m = j - m + 1 /\ ~(j + 1 <= m)
      BY <1>2, <1>4, <2>4
    <3>2. f[r[j]] = q[j - m + 1]
      BY <1>7, <1>8, <3>1
    <3>3. CASE j = n
      <4>1. j - m + 1 = k
        BY <1>2, <1>4, <3>3
      <4>2. QED
        BY <1>12, <3>2, <3>3, <4>1
    <3>4. CASE j # n
      BY <1>7, <2>1, <3>1, <3>2, <3>4
    <3>5. QED
      BY <3>3, <3>4
  <2>5. QED
    BY <1>4, <2>2, <2>3, <2>4
<1>14. Circle(f, r[1], S, r)
  BY <1>2, <1>7, <1>10, <1>11, <1>13 DEF Circle
<1>15. QED
  BY <1>1, <1>4, <1>12, <1>14 DEF a, b, r

(* The first goes behind the last.                                         *)
LEMMA CircleServed ==
    ASSUME NEW f, NEW first, NEW S, NEW q, Circle(f, first, S, q), S # {}
    PROVE  q # << >> /\ Head(q) = first
           /\ Circle(f, f[first], S, Append(Tail(q), Head(q)))
<1>1. PICK n \in Nat : n = Len(q)
  BY CircleFacts
<1>2. n # 0 /\ 1 \in 1 .. n /\ n \in 1 .. n
  BY <1>1, CircleFacts
<1>3. q \in Seq(Obj) /\ q # << >> /\ first = q[1]
  BY <1>1, <1>2, EmptySeq DEF Circle
<1>4. PICK t : t = Tail(q)
  OBVIOUS
<1>5. t \in Seq(Obj) /\ Len(t) = n - 1 /\ \A i \in 1 .. n - 1 : t[i] = q[i + 1]
  BY <1>1, <1>3, <1>4, HeadTailProperties
<1>6. Head(q) = first /\ first \in Obj
  BY <1>1, <1>2, <1>3, CircleFacts
<1>7. PICK r : r = Append(t, first)
  OBVIOUS
<1>8. /\ r \in Seq(Obj) /\ Len(r) = n
      /\ \A i \in 1 .. n - 1 : r[i] = q[i + 1]
      /\ r[n] = q[1]
  <2>1. /\ r \in Seq(Obj) /\ Len(r) = Len(t) + 1
        /\ \A i \in 1 .. Len(t) : r[i] = t[i]
        /\ r[Len(t) + 1] = first
    BY <1>5, <1>6, <1>7, AppendProperties
  <2>2. n - 1 + 1 = n
    OBVIOUS
  <2>3. QED
    BY <1>3, <1>5, <2>1, <2>2
<1>9. /\ \A i, j \in 1 .. n : q[i] = q[j] => i = j
      /\ \A i \in 1 .. n : f[q[i]] = IF i = n THEN q[1] ELSE q[i + 1]
      /\ \A x \in S : \E i \in 1 .. n : q[i] = x
      /\ \A i \in 1 .. n : q[i] \in S
  BY <1>1, CircleFacts DEF Circle
<1>10. \A i \in 1 .. n : i = n \/ (i \in 1 .. n - 1 /\ i + 1 \in 1 .. n /\ i + 1 # 1)
  OBVIOUS
<1>11. \A i, j \in 1 .. n : r[i] = r[j] => i = j
  <2> SUFFICES ASSUME NEW i \in 1 .. n, NEW j \in 1 .. n, r[i] = r[j]
               PROVE  i = j
    OBVIOUS
  <2>1. CASE i = n /\ j # n
    <3>1. q[1] = q[j + 1] /\ j + 1 \in 1 .. n /\ j + 1 # 1
      BY <1>8, <1>10, <2>1
    <3>2. QED
      BY <1>2, <1>9, <3>1
  <2>2. CASE i # n /\ j = n
    <3>1. q[1] = q[i + 1] /\ i + 1 \in 1 .. n /\ i + 1 # 1
      BY <1>8, <1>10, <2>2
    <3>2. QED
      BY <1>2, <1>9, <3>1
  <2>3. CASE i # n /\ j # n
    <3>1. q[i + 1] = q[j + 1] /\ i + 1 \in 1 .. n /\ j + 1 \in 1 .. n
      BY <1>8, <1>10, <2>3
    <3>2. i + 1 = j + 1
      BY <1>9, <3>1
    <3>3. QED
      BY <3>2
  <2>4. QED
    BY <2>1, <2>2, <2>3
<1>12. ToSet(r) = S
  <2>1. ToSet(r) = {r[j] : j \in 1 .. n}
    BY <1>8, LenProperties DEF ToSet
  <2>2. \A j \in 1 .. n : r[j] \in S
    BY <1>2, <1>8, <1>9, <1>10
  <2>3. ASSUME NEW x \in S
        PROVE  \E j \in 1 .. n : r[j] = x
    <3>1. PICK i \in 1 .. n : q[i] = x
      BY <1>9
    <3>2. CASE i = 1
      BY <1>2, <1>8, <3>1, <3>2
    <3>3. CASE i # 1
      <4>1. PICK j \in 1 .. n : j = i - 1
        BY <3>3
      <4>2. j \in 1 .. n - 1 /\ j + 1 = i
        BY <4>1
      <4>3. QED
        BY <1>8, <3>1, <4>2
    <3>4. QED
      BY <3>2, <3>3
  <2>4. QED
    BY <2>1, <2>2, <2>3
<1>13. f[first] = r[1]
  <2>1. CASE n = 1
    BY <1>2, <1>3, <1>8, <1>9, <2>1
  <2>2. CASE n # 1
    <3>1. 1 \in 1 .. n - 1 /\ 1 # n
      BY <1>2, <2>2
    <3>2. QED
      BY <1>2, <1>3, <1>8, <1>9, <3>1
  <2>3. QED
    BY <2>1, <2>2
<1>14. ASSUME NEW i \in 1 .. n
       PROVE  f[r[i]] = IF i = n THEN r[1] ELSE r[i + 1]
  <2>1. CASE i = n
    BY <1>3, <1>8, <1>13, <2>1
  <2>2. CASE i # n /\ i + 1 = n
    <3>1. r[i] = q[n] /\ f[q[n]] = q[1]
      BY <1>2, <1>8, <1>9, <1>10, <2>2
    <3>2. QED
      BY <1>8, <2>2, <3>1
  <2>3. CASE i # n /\ i + 1 # n
    <3>1. i \in 1 .. n - 1 /\ i + 1 \in 1 .. n - 1 /\ i + 1 \in 1 .. n
      BY <2>3
    <3>2. r[i] = q[i + 1] /\ f[q[i + 1]] = q[i + 1 + 1] /\ r[i + 1] = q[i + 1 + 1]
      BY <1>8, <1>9, <2>3, <3>1
    <3>3. QED
      BY <2>3, <3>2
  <2>4. QED
    BY <2>1, <2>2, <2>3
<1>15. Circle(f, f[first], S, r)
  BY <1>2, <1>8, <1>11, <1>12, <1>13, <1>14 DEF Circle
<1>16. QED
  BY <1>3, <1>4, <1>6, <1>7, <1>15

(* The objects met from first on are the circle.                           *)
LEMMA MetIsCircle ==
    ASSUME NEW f, NEW first, NEW S, NEW q, Circle(f, first, S, q),
           S # {} => f \in [Obj -> Obj]
    PROVE  Met(f, first, Cardinality(S)) = q
<1> DEFINE c == Cardinality(Obj)
           F == [x \in (1 .. c) \X Obj |-> IF x[1] = 1 THEN first ELSE f[x[2]]]
           met == CHOOSE m : m = [k \in 0 .. c |-> IF k <= 1 THEN first ELSE f[m[k - 1]]]
<1>1. PICK n \in Nat : n = Len(q)
  BY CircleFacts
<1>2. c \in Nat /\ n <= c /\ Cardinality(S) = n
  BY <1>1, CircleFacts
<1>3. Met(f, first, n) = [k \in 1 .. n |-> met[k]]
  BY DEF Met
<1>4. q = [k \in 1 .. n |-> q[k]]
  BY <1>1, CircleFacts DEF Circle
<1> HIDE DEF c
<1>5. CASE S = {}
  <2>1. n = 0
    BY <1>1, <1>5, CircleFacts
  <2>2. \A k \in 1 .. n : FALSE
    BY <2>1
  <2>3. [k \in 1 .. n |-> met[k]] = [k \in 1 .. n |-> q[k]]
    BY <2>2
  <2>4. QED
    BY <1>2, <1>3, <1>4, <2>3
<1>6. CASE S # {}
  <2>1. first \in Obj /\ f \in [Obj -> Obj] /\ 1 \in 1 .. n /\ 1 \in 1 .. c
    BY <1>1, <1>2, <1>6, CircleFacts
  <2>2. F \in [(1 .. c) \X Obj -> Obj]
    BY <2>1
  <2>3. \A i \in 1 .. c : \A x \in Obj : F[<<i, x>>] = IF i = 1 THEN first ELSE f[x]
    BY <2>1
  <2> HIDE DEF F
  <2>4. PICK g : g \in Recursion(c, Obj, first, F)
    BY <1>2, <2>1, <2>2, RecursionExists
  <2>5. /\ g \in [0 .. c -> Obj] /\ g[0] = first
        /\ \A i \in 1 .. c : g[i] = F[<<i, g[i - 1]>>]
    BY <2>4 DEF Recursion
  <2>6. \A i \in 1 .. c : g[i] = IF i = 1 THEN first ELSE f[g[i - 1]]
    <3>1. \A i \in 1 .. c : i - 1 \in 0 .. c
      BY <1>2
    <3>2. QED
      BY <2>3, <2>5, <3>1
  <2>7. g = [k \in 0 .. c |-> IF k <= 1 THEN first ELSE f[g[k - 1]]]
    <3>1. \A k \in 0 .. c : k = 0 \/ k \in 1 .. c
      BY <1>2
    <3>2. \A k \in 1 .. c : k <= 1 <=> k = 1
      OBVIOUS
    <3>3. \A k \in 0 .. c : g[k] = IF k <= 1 THEN first ELSE f[g[k - 1]]
      BY <2>5, <2>6, <3>1, <3>2
    <3>4. QED
      BY <2>5, <3>3
  <2>8. met = [k \in 0 .. c |-> IF k <= 1 THEN first ELSE f[met[k - 1]]]
    BY <2>7
  <2> HIDE DEF met
  <2>9. \A k \in 1 .. c : met[k] = IF k = 1 THEN first ELSE f[met[k - 1]]
    <3> SUFFICES ASSUME NEW k \in 1 .. c
                 PROVE  met[k] = IF k = 1 THEN first ELSE f[met[k - 1]]
      OBVIOUS
    <3>1. k \in 0 .. c /\ (k <= 1 <=> k = 1)
      OBVIOUS
    <3>2. QED
      BY <2>8, <3>1
  <2> DEFINE T == {k \in 1 .. n : met[k] = q[k]}
  <2>10. 1 \in T
    BY <1>1, <2>1, <2>9 DEF Circle
  <2>11. ASSUME NEW k \in 1 .. n - 1, k \in T
         PROVE  k + 1 \in T
    <3>1. k + 1 \in 1 .. n /\ k + 1 \in 1 .. c /\ k + 1 # 1 /\ k + 1 - 1 = k /\ k \in 1 .. n /\ k # n
      BY <1>2
    <3>2. met[k + 1] = f[met[k]] /\ met[k] = q[k]
      BY <2>9, <2>11, <3>1
    <3>3. f[q[k]] = q[k + 1]
      BY <1>1, <3>1 DEF Circle
    <3>4. QED
      BY <3>1, <3>2, <3>3
  <2>12. \A k \in 1 .. n : k \in T
    <3> HIDE DEF T
    <3>1. 1 \in Nat
      OBVIOUS
    <3>2. QED
      BY <2>10, <2>11, <3>1, IntervalInduction
  <2>13. [k \in 1 .. n |-> met[k]] = [k \in 1 .. n |-> q[k]]
    BY <2>12
  <2>14. QED
    BY <1>2, <1>3, <1>4, <2>13 DEF met
<1>7. QED
  BY <1>5, <1>6

-----------------------------------------------------------------------------
(* ----- The list as a circle -------------------------------------------- *)
Follower == [o \in Obj |-> After(o)]

LEMMA OrderShown ==
    ASSUME ListInv, NEW q, Circle(Follower, This, nodes, q)
    PROVE  Order = q
<1>1. nodes # {} => Follower \in [Obj -> Obj]
  BY DEF ListInv, ListType, Linked, Follower, After, Ptr
<1>2. QED
  BY <1>1, MetIsCircle DEF Order, Follower

LEMMA NextOrderShown ==
    ASSUME ListInv', NEW q, Circle(Follower', This', nodes', q)
    PROVE  Order' = q
<1>1. nodes' # {} => Follower' \in [Obj -> Obj]
  BY DEF ListInv, ListType, Linked, Follower, After, Ptr
<1>2. Met(Follower', This', Cardinality(nodes')) = q
  BY <1>1, MetIsCircle
<1>3. QED
  BY <1>2 DEF Order, Follower

(* A new node stands before the one that is served next, behind all.       *)
LEMMA AddIsLast ==
    ASSUME ListInv, NEW ob \in Obj, ob \notin nodes, AddNode(ob),
           NEW q, Circle(Follower, This, nodes, q)
    PROVE  Circle(Follower', This', nodes', Append(q, ob))
<1> USE NullAssumption
<1>1. /\ nodes \subseteq Obj /\ Linked /\ hb_list \in nodes \cup {NULL}
      /\ next_hb \in nodes \cup {NULL} /\ (hb_list = NULL <=> nodes = {})
      /\ next \in [Obj -> Ptr] /\ prev \in [Obj -> Ptr] /\ ob # NULL
  BY DEF ListInv, ListType, Linked
<1>2. \A x \in Obj : /\ Follower[x] = IF next[x] = NULL THEN hb_list ELSE next[x]
                     /\ Follower'[x] = IF next'[x] = NULL THEN hb_list' ELSE next'[x]
  BY DEF Follower, After
<1>3. nodes' = nodes \cup {ob}
  BY DEF AddNode
<1>4. /\ This' = IF nodes = {} THEN ob ELSE This
      /\ Follower'[ob] = This'
      /\ \A x \in nodes : Follower'[x] = IF Follower[x] = This THEN ob ELSE Follower[x]
  <2>1. CASE NextIsFirst
    <3>1. /\ hb_list' = ob /\ next' = [next EXCEPT ![ob] = hb_list]
          /\ next_hb' = IF next_hb = NULL THEN hb_list ELSE next_hb
      BY <2>1 DEF AddNode, InsertAtHead
    <3>2. next'[ob] = hb_list /\ \A x \in nodes : next'[x] = next[x]
      BY <1>1, <3>1
    <3>3. This = hb_list
      BY <1>1, <2>1 DEF NextIsFirst, Linked, This
    <3>4. \A x \in nodes : next[x] # hb_list
      BY <1>1 DEF Linked
    <3>5. This' = IF nodes = {} THEN ob ELSE This
      BY <1>1, <3>1, <3>3 DEF This
    <3>6. Follower'[ob] = This'
      <4>1. CASE hb_list = NULL
        <5>1. Follower'[ob] = ob
          BY <1>2, <3>1, <3>2, <4>1
        <5>2. nodes = {}
          BY <1>1, <4>1
        <5>3. QED
          BY <3>5, <5>1, <5>2
      <4>2. CASE hb_list # NULL
        <5>1. Follower'[ob] = hb_list
          BY <1>2, <3>2, <4>2
        <5>2. nodes # {}
          BY <1>1, <4>2
        <5>3. QED
          BY <3>3, <3>5, <5>1, <5>2
      <4>3. QED
        BY <4>1, <4>2
    <3>7. ASSUME NEW x \in nodes
          PROVE  Follower'[x] = IF Follower[x] = This THEN ob ELSE Follower[x]
      BY <1>1, <1>2, <3>1, <3>2, <3>3, <3>4
    <3>8. QED
      BY <3>5, <3>6, <3>7
  <2>2. CASE ~NextIsFirst
    <3>1. hb_list # NULL /\ next_hb # NULL /\ prev[next_hb] # NULL
      BY <2>2 DEF NextIsFirst
    <3>2. /\ hb_list' = hb_list /\ next_hb' = next_hb
          /\ next' = [m \in Obj |-> CASE m = ob -> next_hb
                                      [] m # ob /\ m = prev[next_hb] -> ob
                                      [] OTHER -> next[m]]
      BY <2>2 DEF AddNode, InsertBeforeNext
    <3>3. next'[ob] = next_hb
          /\ \A x \in nodes : next'[x] = IF x = prev[next_hb] THEN ob ELSE next[x]
      BY <1>1, <3>2
    <3>4. This = next_hb /\ This' = next_hb
      BY <3>1, <3>2 DEF This
    <3>5. next_hb # hb_list /\ next_hb \in nodes
      BY <1>1, <3>1 DEF Linked
    <3>6. next[prev[next_hb]] = next_hb /\ prev[next_hb] \in nodes
      BY <1>1, <3>1, <3>5 DEF Linked
    <3>7. Follower'[ob] = This'
      BY <1>2, <3>1, <3>3, <3>4
    <3>8. ASSUME NEW x \in nodes
          PROVE  Follower'[x] = IF Follower[x] = This THEN ob ELSE Follower[x]
      <4>1. CASE x = prev[next_hb]
        BY <1>1, <1>2, <3>1, <3>3, <3>4, <3>6, <4>1
      <4>2. CASE x # prev[next_hb]
        <5>1. next[x] # next_hb
          BY <1>1, <3>1, <4>2 DEF Linked
        <5>2. QED
          BY <1>1, <1>2, <3>2, <3>3, <3>4, <3>5, <4>2, <5>1
      <4>3. QED
        BY <4>1, <4>2
    <3>9. QED
      BY <1>1, <3>1, <3>4, <3>7, <3>8
  <2>3. QED
    BY <2>1, <2>2
<1>5. QED
  BY <1>3, <1>4, CircleAppended

(* A node leaves, and next_hb moves on when it was there.                  *)
LEMMA UnlinkTakesOut ==
    ASSUME ListInv, NEW n \in nodes, Unlink(n),
           n = next_hb => next_hb' = next[n],
           n # next_hb => next_hb' = next_hb \/ (n = This /\ next_hb' = next[n]),
           NEW q, Circle(Follower, This, nodes, q), NEW k \in 1 .. Len(q), q[k] = n
    PROVE  Circle(Follower', This', nodes', RemoveAt(q, k))
<1> USE NullAssumption
<1>1. /\ nodes \subseteq Obj /\ Linked /\ hb_list \in nodes \cup {NULL}
      /\ next_hb \in nodes \cup {NULL} /\ (hb_list = NULL <=> nodes = {})
      /\ next \in [Obj -> Ptr] /\ prev \in [Obj -> Ptr] /\ n # NULL /\ n \in Obj
      /\ NULL \notin nodes
  BY DEF ListInv, ListType, Linked
<1>2. \A x \in Obj : /\ Follower[x] = IF next[x] = NULL THEN hb_list ELSE next[x]
                     /\ Follower'[x] = IF next'[x] = NULL THEN hb_list' ELSE next'[x]
  BY DEF Follower, After
<1>3. /\ nodes' = nodes \ {n}
      /\ hb_list' = IF n = hb_list THEN next[n] ELSE hb_list
      /\ \A x \in nodes \ {n} : next'[x] = IF x = prev[n] THEN next[n] ELSE next[x]
  BY <1>1 DEF Unlink, NextWithout
<1>4. nodes # {n} => Follower[n] # n
  BY NotOwnFollower
<1>5. ASSUME NEW x \in nodes \ {n}
      PROVE  Follower'[x] = IF Follower[x] = n THEN Follower[n] ELSE Follower[x]
  <2>1. Follower[n] # n /\ x \in Obj
    BY <1>1, <1>4
  <2>2. CASE x = prev[n]
    <3>1. next[x] = n /\ prev[n] # NULL /\ n # hb_list
      BY <1>1, <2>2 DEF Linked
    <3>2. Follower[x] = n
      BY <1>1, <1>2, <2>1, <3>1
    <3>3. QED
      BY <1>1, <1>2, <1>3, <2>1, <2>2, <3>1, <3>2
  <2>3. CASE x # prev[n]
    <3>1. next[x] # n /\ next'[x] = next[x]
      BY <1>1, <1>3, <2>3 DEF Linked
    <3>2. CASE next[x] = NULL /\ n = hb_list
      <4>1. next[n] # NULL
        BY <1>1, <1>2, <2>1, <3>2
      <4>2. QED
        BY <1>1, <1>2, <1>3, <2>1, <3>1, <3>2, <4>1
    <3>3. CASE next[x] = NULL /\ n # hb_list
      BY <1>2, <1>3, <2>1, <3>1, <3>3
    <3>4. CASE next[x] # NULL
      BY <1>2, <2>1, <3>1, <3>4
    <3>5. QED
      BY <3>2, <3>3, <3>4
  <2>4. QED
    BY <2>2, <2>3
<1>6. This' = IF nodes = {n} THEN NULL ELSE IF n = This THEN Follower[n] ELSE This
  <2>1. CASE nodes = {n}
    <3>1. hb_list = n /\ next[n] = NULL
      BY <1>1, <2>1, NoSelfLoop DEF Linked
    <3>2. next_hb' = NULL
      <4>1. CASE n = next_hb
        BY <3>1, <4>1
      <4>2. CASE n # next_hb
        <5>1. next_hb = NULL
          BY <1>1, <2>1, <4>2
        <5>2. next_hb' = next_hb \/ next_hb' = next[n]
          BY <4>2
        <5>3. QED
          BY <3>1, <5>1, <5>2
      <4>3. QED
        BY <4>1, <4>2
    <3>3. QED
      BY <1>3, <2>1, <3>1, <3>2 DEF This
  <2>2. CASE nodes # {n} /\ n = This /\ n = next_hb
    BY <1>1, <1>2, <1>3, <1>4, <2>2 DEF This
  <2>3. CASE nodes # {n} /\ n = This /\ n # next_hb
    <3>1. next_hb = NULL /\ n = hb_list
      BY <2>3 DEF This
    <3>2. next[n] # NULL /\ Follower[n] = next[n]
      BY <1>1, <1>2, <1>4, <2>3, <3>1
    <3>3. hb_list' = next[n] /\ next_hb' \in {NULL, next[n]}
      BY <1>3, <2>3, <3>1
    <3>4. QED
      BY <2>3, <3>2, <3>3 DEF This
  <2>4. CASE nodes # {n} /\ n # This
    BY <1>1, <1>3, <2>4 DEF This
  <2>5. QED
    BY <2>1, <2>2, <2>3, <2>4
<1>7. QED
  BY <1>3, <1>5, <1>6, CircleWithout

-----------------------------------------------------------------------------
(* ----- Ages along the circle ------------------------------------------- *)
(* Nobody in q has waited longer than those before him.                    *)
Aged(s, q) == \A i, j \in 1 .. Len(q) : i <= j => s[q[j]] <= s[q[i]]

(* The circle and, where it is never turned, the ages along it.            *)
Lined(f, first, S, s, q) ==
    /\ Circle(f, first, S, q)
    /\ MinPlayers > 0 => Aged(s, q)

(* Whoever joins has waited for 0 seconds.                                 *)
LEMMA AgedAppended ==
    ASSUME NEW q \in Seq(Obj), NEW o \in Obj, NEW s \in [Obj -> Ages], NEW s2,
           \A i \in 1 .. Len(q) : s2[q[i]] = s[q[i]], s2[o] = 0, Aged(s, q)
    PROVE  Aged(s2, Append(q, o))
<1>1. PICK n \in Nat : n = Len(q)
  BY LenProperties
<1>2. PICK w : w = Append(q, o)
  OBVIOUS
<1>3. Len(w) = n + 1 /\ (\A i \in 1 .. n : w[i] = q[i]) /\ w[n + 1] = o
  BY <1>1, <1>2, AppendProperties
<1>4. \A i \in 1 .. n : s2[w[i]] = s[q[i]] /\ s[q[i]] \in Nat
  <2>1. \A i \in 1 .. n : q[i] \in Obj
    BY <1>1, ElementOfSeq
  <2>2. Ages \subseteq Nat
    BY IntervalAssumption DEF Ages
  <2>3. QED
    BY <1>1, <1>3, <2>1, <2>2
<1>5. ASSUME NEW i \in 1 .. n + 1, NEW j \in 1 .. n + 1, i <= j
      PROVE  s2[w[j]] <= s2[w[i]]
  <2>1. CASE j \in 1 .. n
    <3>1. i \in 1 .. n
      BY <1>5, <2>1
    <3>2. s[q[j]] <= s[q[i]]
      BY <1>1, <1>5, <2>1, <3>1 DEF Aged
    <3>3. QED
      BY <1>4, <2>1, <3>1, <3>2
  <2>2. CASE j = n + 1
    <3>1. s2[w[j]] = 0
      BY <1>3, <2>2
    <3>2. i \in 1 .. n \/ i = j
      BY <1>5, <2>2
    <3>3. QED
      BY <1>4, <3>1, <3>2
  <2>3. QED
    BY <2>1, <2>2
<1>6. QED
  BY <1>2, <1>3, <1>5 DEF Aged

LEMMA AgedWithout ==
    ASSUME NEW q \in Seq(Obj), NEW k \in 1 .. Len(q), NEW s, NEW s2, Aged(s, q),
           \A i \in 1 .. Len(q) : i # k => s2[q[i]] = s[q[i]]
    PROVE  Aged(s2, RemoveAt(q, k))
<1>1. PICK n \in Nat : n = Len(q)
  BY LenProperties
<1>2. PICK r : r = RemoveAt(q, k)
  OBVIOUS
<1>3. Len(r) = n - 1 /\ \A j \in 1 .. n - 1 : r[j] = IF j < k THEN q[j] ELSE q[j + 1]
  BY <1>1, <1>2, RemoveAtFacts
<1>4. ASSUME NEW i \in 1 .. n - 1, NEW j \in 1 .. n - 1, i <= j
      PROVE  s2[r[j]] <= s2[r[i]]
  <2>1. i + 1 \in 1 .. n /\ j + 1 \in 1 .. n /\ k \in 1 .. n
    BY <1>1
  <2>2. PICK x \in 1 .. n : x = IF i < k THEN i ELSE i + 1
    BY <2>1
  <2>3. PICK y \in 1 .. n : y = IF j < k THEN j ELSE j + 1
    BY <2>1
  <2>4. x <= y /\ x # k /\ y # k
    BY <1>4, <2>1, <2>2, <2>3
  <2>5. r[i] = q[x] /\ r[j] = q[y]
    BY <1>3, <2>2, <2>3
  <2>6. s[q[y]] <= s[q[x]]
    BY <1>1, <2>4 DEF Aged
  <2>7. s2[q[x]] = s[q[x]] /\ s2[q[y]] = s[q[y]]
    BY <1>1, <2>4
  <2>8. QED
    BY <2>5, <2>6, <2>7
<1>5. QED
  BY <1>2, <1>3, <1>4 DEF Aged

(* Whoever has been served has waited for 0 seconds.                       *)
LEMMA AgedServed ==
    ASSUME NEW q \in Seq(Obj), q # << >>, NEW s \in [Obj -> Ages], NEW s2, Aged(s, q),
           \A i \in 1 .. Len(q) : i # 1 => s2[q[i]] = s[q[i]], s2[q[1]] = 0
    PROVE  Aged(s2, Append(Tail(q), Head(q)))
<1>1. PICK n \in Nat : n = Len(q)
  BY LenProperties
<1>2. PICK t : t = Tail(q)
  OBVIOUS
<1>3. t \in Seq(Obj) /\ Len(t) = n - 1 /\ \A i \in 1 .. n - 1 : t[i] = q[i + 1]
  BY <1>1, <1>2, HeadTailProperties
<1>4. n # 0 /\ Head(q) = q[1] /\ q[1] \in Obj
  <2>1. n # 0
    BY <1>1, EmptySeq
  <2>2. 1 \in 1 .. n
    BY <2>1
  <2>3. q[1] \in Obj
    BY <1>1, <2>2, ElementOfSeq
  <2>4. QED
    BY <2>1, <2>3
<1>5. \A i \in 1 .. Len(t) : s2[t[i]] = s[t[i]]
  <2>1. \A i \in 1 .. n - 1 : i + 1 \in 1 .. n /\ i + 1 # 1
    OBVIOUS
  <2>2. QED
    BY <1>1, <1>3, <2>1
<1>6. Aged(s, t)
  <2> SUFFICES ASSUME NEW i \in 1 .. n - 1, NEW j \in 1 .. n - 1, i <= j
               PROVE  s[t[j]] <= s[t[i]]
    BY <1>3 DEF Aged
  <2>1. i + 1 \in 1 .. n /\ j + 1 \in 1 .. n /\ i + 1 <= j + 1
    OBVIOUS
  <2>2. s[q[j + 1]] <= s[q[i + 1]]
    BY <1>1, <2>1 DEF Aged
  <2>3. QED
    BY <1>3, <2>2
<1>7. s2[Head(q)] = 0
  BY <1>4
<1>8. QED
  BY <1>2, <1>3, <1>4, <1>5, <1>6, <1>7, AgedAppended

(* The clock goes on for all alike.                                        *)
LEMMA AgedOlder ==
    ASSUME NEW q \in Seq(Obj), NEW s \in [Obj -> Ages], NEW s2, NEW d \in Ages,
           Aged(s, q), \A i \in 1 .. Len(q) : s2[q[i]] = Older(s[q[i]], d)
    PROVE  Aged(s2, q)
<1>1. \A a, b \in Ages : a <= b => Older(a, d) <= Older(b, d)
  BY IntervalAssumption DEF Ages, Older
<1>2. \A i \in 1 .. Len(q) : s[q[i]] \in Ages
  BY ElementOfSeq
<1>3. QED
  BY <1>1, <1>2 DEF Aged

-----------------------------------------------------------------------------
(* ----- The steps of the queue ------------------------------------------ *)
LEMMA Joining ==
    ASSUME ListInv, ListInv', NEW ob \in Obj, ob \notin nodes, AddNode(ob),
           NEW q, Lined(Follower, This, nodes, since, q)
    PROVE  Queue!Join(ob) /\ Lined(Follower', This', nodes', since', Append(q, ob))
<1>1. Circle(Follower, This, nodes, q) /\ q \in Seq(Obj) /\ nodes = ToSet(q)
  BY DEF Lined, Circle
<1>2. Circle(Follower', This', nodes', Append(q, ob))
  BY <1>1, AddIsLast
<1>3. Order = q /\ Order' = Append(q, ob)
  BY <1>1, <1>2, OrderShown, NextOrderShown
<1>4. since \in [Obj -> Ages] /\ since' = [since EXCEPT ![ob] = 0]
  BY DEF ListInv, ListType, AddNode
<1>5. Queue!Join(ob)
  BY <1>1, <1>3, <1>4 DEF Queue!Join, Queue!ToSet, ToSet
<1>6. Aged(since, q) => Aged(since', Append(q, ob))
  <2>1. since'[ob] = 0
    BY <1>4
  <2>2. \A i \in 1 .. Len(q) : since'[q[i]] = since[q[i]]
    <3>1. \A i \in 1 .. Len(q) : q[i] \in nodes /\ q[i] \in Obj
      BY <1>1, CircleFacts
    <3>2. QED
      BY <1>4, <3>1
  <2>3. QED
    BY <1>1, <1>4, <2>1, <2>2, AgedAppended
<1>7. QED
  BY <1>2, <1>5, <1>6 DEF Lined

LEMMA Quitting ==
    ASSUME ListInv, ListInv', NEW n \in nodes, Unlink(n),
           n = next_hb => next_hb' = next[n],
           n # next_hb => next_hb' = next_hb \/ (n = This /\ next_hb' = next[n]),
           NEW q, Lined(Follower, This, nodes, since, q)
    PROVE  /\ n \in Obj /\ Queue!Quit(n)
           /\ \E r : Lined(Follower', This', nodes', since', r)
<1>1. Circle(Follower, This, nodes, q) /\ q \in Seq(Obj)
  BY DEF Lined, Circle
<1>2. PICK k \in 1 .. Len(q) : q[k] = n
  BY <1>1, CircleFacts
<1>3. Circle(Follower', This', nodes', RemoveAt(q, k))
  BY <1>1, <1>2, UnlinkTakesOut
<1>4. Order = q /\ Order' = RemoveAt(q, k)
  BY <1>1, <1>3, OrderShown, NextOrderShown
<1>5. since \in [Obj -> Ages] /\ since' = [since EXCEPT ![n] = 0] /\ n \in Obj
  BY DEF ListInv, ListType, Unlink
<1>6. Queue!Quit(n)
  BY <1>2, <1>4, <1>5 DEF Queue!Quit, Queue!RemoveAt, RemoveAt
<1>7. Aged(since, q) => Aged(since', RemoveAt(q, k))
  <2>1. \A i \in 1 .. Len(q) : q[i] \in Obj /\ (i # k => q[i] # n)
    BY <1>1, <1>2, CircleFacts DEF Circle
  <2>2. \A i \in 1 .. Len(q) : i # k => since'[q[i]] = since[q[i]]
    BY <1>5, <2>1
  <2>3. QED
    BY <1>1, <2>2, AgedWithout
<1>8. Lined(Follower', This', nodes', since', RemoveAt(q, k))
  BY <1>3, <1>7 DEF Lined
<1>9. QED
  BY <1>5, <1>6, <1>8

(* Every call of set_heart_beat() is a step of the queue or no step.       *)
LEMMA SetHeartBeatQueues ==
    ASSUME ListInv, NEW ob \in Obj, NEW to \in BOOLEAN, set_heart_beat(ob, to),
           NEW q, Lined(Follower, This, nodes, since, q)
    PROVE  /\ Queue!Join(ob) \/ Queue!Quit(ob) \/ UNCHANGED listvars
           /\ \E r : Lined(Follower', This', nodes', since', r)
<1>1. ListInv' /\ flag = nodes
  BY SetHeartBeatKeepsList DEF ListInv, Registered
<1>2. CASE UNCHANGED listvars
  BY <1>2 DEF listvars, Follower, After, This
<1>3. CASE to /\ ob \notin destructed \cup flag /\ AddNode(ob)
  BY <1>1, <1>3, Joining
<1>4. CASE ~to /\ ob \in flag \ destructed /\ RemoveNode(ob)
  <2>1. /\ ob \in nodes /\ Unlink(ob)
        /\ ob = next_hb => next_hb' = next[ob]
        /\ ob # next_hb => next_hb' = next_hb
    BY <1>1, <1>4 DEF RemoveNode
  <2>2. QED
    BY <1>1, <2>1, Quitting
<1>5. QED
  BY <1>2, <1>3, <1>4 DEF set_heart_beat

(* A beat takes the first of the queue to its end.                         *)
LEMMA Serving ==
    ASSUME ListInv, ListInv', Beat, NEW q, Lined(Follower, This, nodes, since, q)
    PROVE  /\ Queue!Serve
           /\ \E r : Lined(Follower', This', nodes', since', r)
<1>1. This \in nodes /\ nodes \subseteq Obj
  BY ThisIsNode DEF Beat, Looping, ListInv, ListType
<1>2. /\ Circle(Follower, This, nodes, q) /\ q \in Seq(Obj)
      /\ This = IF Len(q) = 0 THEN NULL ELSE q[1]
  BY DEF Lined, Circle
<1>3. /\ q # << >> /\ Head(q) = This
      /\ Circle(Follower, Follower[This], nodes, Append(Tail(q), Head(q)))
  BY <1>1, <1>2, CircleServed
<1>4. Follower' = Follower /\ nodes' = nodes /\ hb_list' = hb_list
  BY DEF Beat, Follower, After
<1>5. This' = Follower[This]
  BY <1>1, <1>4 DEF Beat, This, Follower, After
<1>6. Circle(Follower', This', nodes', Append(Tail(q), Head(q)))
  BY <1>3, <1>4, <1>5
<1>7. Order = q /\ Order' = Append(Tail(q), Head(q))
  BY <1>2, <1>6, OrderShown, NextOrderShown
<1>8. /\ since \in [Obj -> Ages] /\ since' = [since EXCEPT ![This] = 0]
      /\ since[This] >= heart_beat_interval
  BY DEF ListInv, ListType, Beat, Due
<1>9. Queue!Serve
  BY <1>3, <1>7, <1>8 DEF Queue!Serve
<1>10. Aged(since, q) => Aged(since', Append(Tail(q), Head(q)))
  <2>1. q[1] = This /\ 1 \in 1 .. Len(q)
    BY <1>1, <1>2, CircleFacts
  <2>2. \A i \in 1 .. Len(q) : q[i] \in Obj /\ (i # 1 => q[i] # This)
    BY <1>2, <2>1, CircleFacts DEF Circle
  <2>3. \A i \in 1 .. Len(q) : i # 1 => since'[q[i]] = since[q[i]]
    BY <1>8, <2>2
  <2>4. since'[q[1]] = 0
    BY <1>1, <1>8, <2>1
  <2>5. QED
    BY <1>2, <1>3, <1>8, <2>3, <2>4, AgedServed
<1>11. Lined(Follower', This', nodes', since', Append(Tail(q), Head(q)))
  BY <1>6, <1>10 DEF Lined
<1>12. QED
  BY <1>9, <1>11

(* A new cycle: everybody in the queue is older.                           *)
LEMMA Ticking ==
    ASSUME ListInv, ListInv', NEW d \in Ages, StartCycle(d),
           NEW q, Lined(Follower, This, nodes, since, q)
    PROVE  /\ Queue!Tick(d)
           /\ \E r : Lined(Follower', This', nodes', since', r)
<1>1. Circle(Follower, This, nodes, q) /\ q \in Seq(Obj) /\ nodes = ToSet(q)
  BY DEF Lined, Circle
<1>2. Follower' = Follower /\ This' = This /\ nodes' = nodes
  BY DEF StartCycle, Follower, After, This
<1>3. Circle(Follower', This', nodes', q)
  BY <1>1, <1>2
<1>4. Order = q /\ Order' = q
  BY <1>1, <1>3, OrderShown, NextOrderShown
<1>5. /\ since \in [Obj -> Ages]
      /\ since' = [o \in Obj |-> IF o \in nodes THEN Older(since[o], d) ELSE 0]
  BY DEF ListInv, ListType, StartCycle
<1>6. Queue!Tick(d)
  BY <1>1, <1>4, <1>5 DEF Queue!Tick, Queue!ToSet, ToSet, Queue!Older, Older
<1>7. Aged(since, q) => Aged(since', q)
  <2>1. \A i \in 1 .. Len(q) : q[i] \in nodes /\ q[i] \in Obj
    BY <1>1, CircleFacts
  <2>2. \A i \in 1 .. Len(q) : since'[q[i]] = Older(since[q[i]], d)
    BY <1>5, <2>1
  <2>3. QED
    BY <1>1, <1>5, <2>2, AgedOlder
<1>8. QED
  BY <1>3, <1>6, <1>7 DEF Lined

(* A cycle with nothing to do forgets the position: the circle is read     *)
(* from the head of the list on.                                           *)
LEMMA Turning ==
    ASSUME ListInv, ListInv', SkipRound, num_player \in MinPlayers .. MaxPlayers,
           NEW q, Lined(Follower, This, nodes, since, q)
    PROVE  /\ Queue!Turn \/ UNCHANGED Queue!qvars
           /\ \E r : Lined(Follower', This', nodes', since', r)
<1>1. /\ Circle(Follower, This, nodes, q)
      /\ MinPlayers > 0 => Aged(since, q)
  BY DEF Lined
<1>2. /\ Follower' = Follower /\ This' = hb_list /\ nodes' = nodes /\ since' = since
      /\ num_hb_objs = Cardinality(nodes) /\ nodes \subseteq Obj
  BY DEF SkipRound, Follower, After, This, ListInv, ListType, Registered
<1>3. CASE nodes = {}
  <2>1. This = NULL /\ hb_list = NULL
    BY <1>3 DEF ListInv, Linked, This
  <2>2. Lined(Follower', This', nodes', since', q)
    BY <1>2, <2>1 DEF Lined
  <2>3. Order = q /\ Order' = q
    BY <2>2, OrderShown, NextOrderShown DEF Lined
  <2>4. QED
    BY <1>2, <2>2, <2>3 DEF Queue!qvars
<1>4. CASE nodes # {}
  <2>1. MinPlayers = 0
    <3>1. num_hb_objs # 0
      BY <1>2, <1>4, NodesFinite
    <3>2. num_player < 1
      BY <3>1 DEF SkipRound, NothingToDo
    <3>3. QED
      BY <3>2, PlayersAssumption
  <2>2. hb_list \in nodes
    BY <1>4 DEF ListInv, Linked
  <2>3. PICK k \in 1 .. Len(q) : q[k] = hb_list
    BY <1>1, <2>2, CircleFacts
  <2>4. PICK r : r = SubSeq(q, k, Len(q)) \o SubSeq(q, 1, k - 1)
    OBVIOUS
  <2>5. Circle(Follower, q[k], nodes, r)
    BY <1>1, <2>4, CircleTurned
  <2>6. Circle(Follower', This', nodes', r)
    BY <1>2, <2>3, <2>5
  <2>7. Order = q /\ Order' = r
    BY <1>1, <2>6, OrderShown, NextOrderShown
  <2>8. Queue!Turn
    BY <1>2, <2>1, <2>4, <2>7 DEF Queue!Turn
  <2>9. Lined(Follower', This', nodes', since', r)
    BY <2>1, <2>6 DEF Lined
  <2>10. QED
    BY <2>8, <2>9
<1>5. QED
  BY <1>3, <1>4

(* Every step of the driver is a step of the queue or none, and the list   *)
(* shows a circle again.                                                   *)
LEMMA StepIsQueueStep ==
    ASSUME IInv, [Next]_vars, NEW q, Lined(Follower, This, nodes, since, q)
    PROVE  /\ [Queue!Next]_Queue!qvars
           /\ \E r : Lined(Follower', This', nodes', since', r)
<1>1. ListInv /\ ListInv'
  <2>1. IInv'
    BY NextIInv
  <2>2. QED
    BY <2>1 DEF IInv, TypeOK, ListInv, ListType
<1>2. ASSUME UNCHANGED listvars
      PROVE  /\ UNCHANGED Queue!qvars
             /\ \E r : Lined(Follower', This', nodes', since', r)
  <2>1. Follower' = Follower /\ This' = This /\ nodes' = nodes /\ since' = since
    BY <1>2 DEF listvars, Follower, After, This
  <2>2. Order' = Order
    BY <1>2 DEF listvars, Order, After, This
  <2>3. QED
    BY <2>1, <2>2 DEF Queue!qvars
<1>3. ASSUME NEW ob \in Obj, NEW to \in BOOLEAN, set_heart_beat(ob, to)
      PROVE  /\ Queue!Next \/ UNCHANGED Queue!qvars
             /\ \E r : Lined(Follower', This', nodes', since', r)
  <2>1. /\ Queue!Join(ob) \/ Queue!Quit(ob) \/ UNCHANGED listvars
        /\ \E r : Lined(Follower', This', nodes', since', r)
    BY <1>1, <1>3, SetHeartBeatQueues
  <2>2. QED
    BY <1>2, <2>1 DEF Queue!Next
<1>4. CASE UNCHANGED vars
  BY <1>2, <1>4 DEF vars
<1>5. CASE Alarm \/ StartRound \/ Interrupted \/ Break \/ Return \/ ErrorUnhandled \/ PlayersChange
  BY <1>2, <1>5 DEF Alarm, StartRound, Interrupted, Break, LeaveLoop, Return,
                    ErrorUnhandled, PlayersChange
<1>6. ASSUME NEW ob \in Obj, NEW to \in BOOLEAN, SetHeartBeat(ob, to)
      PROVE  /\ [Queue!Next]_Queue!qvars
             /\ \E r : Lined(Follower', This', nodes', since', r)
  BY <1>3, <1>6 DEF SetHeartBeat
<1>7. ASSUME NEW ob \in Obj, Destruct(ob)
      PROVE  /\ [Queue!Next]_Queue!qvars
             /\ \E r : Lined(Follower', This', nodes', since', r)
  BY <1>3, <1>7 DEF Destruct
<1>8. ASSUME NEW ob \in Obj, Recycle(ob)
      PROVE  /\ [Queue!Next]_Queue!qvars
             /\ \E r : Lined(Follower', This', nodes', since', r)
  BY <1>2, <1>8 DEF Recycle
<1>9. ASSUME NEW d \in Ages, StartCycle(d)
      PROVE  /\ [Queue!Next]_Queue!qvars
             /\ \E r : Lined(Follower', This', nodes', since', r)
  <2>1. Queue!Tick(d) /\ \E r : Lined(Follower', This', nodes', since', r)
    BY <1>1, <1>9, Ticking
  <2>2. QED
    BY <2>1 DEF Queue!Next, Queue!Ages, Ages
<1>10. CASE SkipRound
  <2>1. num_player \in MinPlayers .. MaxPlayers
    BY DEF IInv, TypeOK
  <2>2. /\ Queue!Turn \/ UNCHANGED Queue!qvars
        /\ \E r : Lined(Follower', This', nodes', since', r)
    BY <1>1, <1>10, <2>1, Turning
  <2>3. QED
    BY <2>2 DEF Queue!Next
<1>11. CASE DropBeatless
  <2>1. This \in nodes /\ Unlink(This) /\ next_hb' = next[This]
    BY <1>1, <1>11, ThisIsNode DEF DropBeatless, Looping
  <2>2. /\ This \in Obj /\ Queue!Quit(This)
        /\ \E r : Lined(Follower', This', nodes', since', r)
    BY <1>1, <2>1, Quitting
  <2>3. QED
    BY <2>2 DEF Queue!Next
<1>12. CASE Beat
  <2>1. Queue!Serve /\ \E r : Lined(Follower', This', nodes', since', r)
    BY <1>1, <1>12, Serving
  <2>2. QED
    BY <2>1 DEF Queue!Next
<1>13. ASSUME NEW publish \in BOOLEAN, Error(publish)
       PROVE  /\ [Queue!Next]_Queue!qvars
              /\ \E r : Lined(Follower', This', nodes', since', r)
  <2>1. current_heart_beat \in Obj /\ set_heart_beat(current_heart_beat, FALSE)
    BY <1>13 DEF Error, IInv, TypeOK, Ptr
  <2>2. QED
    BY <1>3, <2>1
<1>14. ASSUME NEW back_on \in BOOLEAN, ErrorHandled(back_on)
       PROVE  /\ [Queue!Next]_Queue!qvars
              /\ \E r : Lined(Follower', This', nodes', since', r)
  <2>1. culprit \in Obj /\ (set_heart_beat(culprit, TRUE) \/ UNCHANGED listvars)
    BY <1>14 DEF ErrorHandled, IInv, TypeOK, CulpritKnown, Ptr
  <2>2. QED
    BY <1>2, <1>3, <2>1
<1>15. CASE SecureApplyError
  <2>1. current_heart_beat \in Obj /\ set_heart_beat(current_heart_beat, FALSE)
    BY <1>15 DEF SecureApplyError, IInv, TypeOK, Ptr
  <2>2. QED
    BY <1>3, <2>1
<1>16. QED
  BY <1>4, <1>5, <1>6, <1>7, <1>8, <1>9, <1>10, <1>11, <1>12, <1>13, <1>14, <1>15
     DEF Next

(* The empty list shows the empty queue.                                   *)
LEMMA InitIsQueueInit ==
    ASSUME Init
    PROVE  Queue!Init /\ Lined(Follower, This, nodes, since, << >>)
<1>1. nodes = {} /\ This = NULL /\ since = [o \in Obj |-> 0] /\ ListInv
  BY InitIInv DEF Init, This, IInv, TypeOK, ListInv, ListType
<1>2. << >> \in Seq(Obj) /\ Len(<< >>) = 0 /\ ToSet(<< >>) = {}
  BY DEF ToSet
<1>3. Circle(Follower, This, nodes, << >>) /\ Aged(since, << >>)
  BY <1>1, <1>2 DEF Circle, Aged
<1>4. Order = << >>
  BY <1>1, <1>3, OrderShown
<1>5. QED
  BY <1>1, <1>3, <1>4 DEF Queue!Init, Lined

(* The list always shows a circle.                                         *)
QueueInv == \E q : Lined(Follower, This, nodes, since, q)

LEMMA QueueInvariance == Spec => []QueueInv
<1>1. Init => QueueInv
  BY InitIsQueueInit DEF QueueInv
<1>2. IInv /\ QueueInv /\ [Next]_vars => QueueInv'
  <2> SUFFICES ASSUME IInv, QueueInv, [Next]_vars
               PROVE  QueueInv'
    OBVIOUS
  <2>1. PICK q : Lined(Follower, This, nodes, since, q)
    BY DEF QueueInv
  <2>2. \E r : Lined(Follower', This', nodes', since', r)
    BY <2>1, StepIsQueueStep
  <2>3. QED
    BY <2>2 DEF QueueInv
<1>3. QED
  BY <1>1, <1>2, Invariance, PTL DEF Spec

(* The pointer list with next_hb implements the queue of HeartBeatQueue:   *)
(* set_heart_beat(TRUE) puts an object behind all others wherever it links *)
(* the node in, a beat takes the first to the end, and nothing else moves. *)
THEOREM QueueImplemented == Spec => ImplementsQueue
<1>1. Init => Queue!Init
  BY InitIsQueueInit
<1>2. IInv /\ QueueInv /\ [Next]_vars => [Queue!Next]_Queue!qvars
  BY StepIsQueueStep DEF QueueInv
<1>3. QED
  BY <1>1, <1>2, Invariance, QueueInvariance, PTL DEF Spec, ImplementsQueue, Queue!Spec

(* While there are players, the break in the loop leaves nobody out: those *)
(* behind the first in the queue have not waited longer than he has.       *)
THEOREM BreakLeavesNoneOut ==
    ASSUME MinPlayers > 0
    PROVE  Spec => BreakMeansAllProcessed
<1>1. IInv /\ QueueInv /\ [Next]_vars => [Break => \A n \in nodes : ~Due(n)]_vars
  <2> SUFFICES ASSUME IInv, QueueInv, Break, NEW n \in nodes
               PROVE  ~Due(n)
    OBVIOUS
  <2>1. PICK q : Lined(Follower, This, nodes, since, q)
    BY DEF QueueInv
  <2>2. Circle(Follower, This, nodes, q) /\ Aged(since, q)
    BY <2>1 DEF Lined
  <2>3. PICK i \in 1 .. Len(q) : q[i] = n
    BY <2>2, CircleFacts
  <2>4. This = q[1] /\ Len(q) \in Nat
    BY <2>2, <2>3, CircleFacts DEF Circle
  <2>5. since[n] <= since[This]
    BY <2>2, <2>3, <2>4 DEF Aged
  <2>6. ~(since[This] >= heart_beat_interval)
    BY DEF Break, Due
  <2>7. since[n] \in Int /\ since[This] \in Int
    <3>1. n \in Obj /\ This \in Obj
      BY <2>2, <2>3, <2>4, CircleFacts DEF IInv, TypeOK
    <3>2. QED
      BY <3>1, IntervalAssumption DEF IInv, TypeOK, Ages
  <2>8. QED
    BY <2>5, <2>6, <2>7, IntervalAssumption DEF Due
<1>2. QED
  BY <1>1, Invariance, QueueInvariance, PTL DEF Spec, BreakMeansAllProcessed
=============================================================================
