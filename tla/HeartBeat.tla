------------------------------ MODULE HeartBeat ------------------------------
(***************************************************************************)
(* Heart beats of the driver (src/src/heartbeat.c), with the part of the   *)
(* backend cycle that drives them (backend.c) and the part of errorf()     *)
(* that switches a failing heart beat off (simulate.c).                    *)
(*                                                                         *)
(* The list of struct hb_info is kept pointer by pointer.  An object has   *)
(* at most one node, so a node is named by its object: next[o] and prev[o] *)
(* are the links of o's node, nodes is the set of allocated nodes.         *)
(*                                                                         *)
(* Time is relative: since[o] stands for current_time - tlast of o's node  *)
(* and stops at heart_beat_interval, as the code only asks whether the     *)
(* difference has reached it.                                              *)
(***************************************************************************)
EXTENDS Integers, FiniteSets

CONSTANTS
    Obj,                  \* addresses an object can live at
    NULL,                 \* the null pointer
    heart_beat_interval,  \* seconds between two beats of an object
    MinPlayers,           \* players that never leave the game ...
    MaxPlayers            \* ... and the most there are: bounds of num_player

ASSUME NullAssumption == NULL \notin Obj
ASSUME IntervalAssumption == heart_beat_interval \in Nat \ {0}
ASSUME PlayersAssumption == /\ MinPlayers \in Nat
                            /\ MaxPlayers \in Nat
                            /\ MinPlayers <= MaxPlayers
ASSUME ObjAssumption == IsFiniteSet(Obj)

VARIABLES
    hb_list,             \* first node, or NULL
    next_hb,             \* node to beat next; NULL means the first one
    nodes,               \* allocated nodes
    next, prev,          \* their links
    since,               \* seconds since tlast (see above)
    num_hb_objs,
    flag,                \* objects with O_HEART_BEAT set
    destructed,          \* objects with O_DESTRUCTED set
    current_heart_beat,
    alarm,               \* comm_time_to_call_heart_beat
    num_player,
    pc,                  \* where the single driver thread is, see Places
    culprit,             \* errorf()'s local of that name
    caught,              \* errorf() will return to a catch(...; publish)
    quiet                \* history: seconds since o's heart_beat() was called

listvars == <<hb_list, next_hb, nodes, next, prev, since, num_hb_objs, flag>>
errorvars == <<culprit, caught>>
vars == <<listvars, destructed, current_heart_beat, alarm, num_player, pc,
          errorvars, quiet>>

(* "idle":  outside call_heart_beat(): player commands, call_outs, resets  *)
(* "cycle": the backend has accepted an alarm, call_heart_beat() is next   *)
(* "loop":  at the head of the loop of call_heart_beat()                   *)
(* "beat":  LPC code runs on behalf of current_heart_beat                  *)
(* "error": errorf() runs master->runtime_error() and heart_beat_error()   *)
Places == {"idle", "cycle", "loop", "beat", "error"}
LPC == {"idle", "beat", "error"}

Ptr == Obj \cup {NULL}
Ages == 0 .. heart_beat_interval
Older(age, d) == IF age + d < heart_beat_interval THEN age + d ELSE heart_beat_interval

Init == /\ hb_list = NULL /\ next_hb = NULL /\ nodes = {}
        /\ next = [o \in Obj |-> NULL] /\ prev = [o \in Obj |-> NULL]
        /\ since = [o \in Obj |-> 0]
        /\ num_hb_objs = 0 /\ flag = {} /\ destructed = {}
        /\ current_heart_beat = NULL /\ alarm = FALSE
        /\ num_player \in MinPlayers .. MaxPlayers
        /\ pc = "idle" /\ culprit = NULL /\ caught = FALSE
        /\ quiet = [o \in Obj |-> heart_beat_interval]

-----------------------------------------------------------------------------
(* Taking a node out of the list.  The links of a freed node are NULL here *)
(* so that equal lists are equal states.                                   *)
NextWithout(n) ==
    [m \in Obj |-> CASE m = n -> NULL
                     [] m # n /\ m = prev[n] -> next[n]
                     [] OTHER -> next[m]]
PrevWithout(n) ==
    [m \in Obj |-> CASE m = n -> NULL
                     [] m # n /\ m = next[n] -> prev[n]
                     [] OTHER -> prev[m]]

Unlink(n) ==
    /\ next' = NextWithout(n)
    /\ prev' = PrevWithout(n)
    /\ hb_list' = IF n = hb_list THEN next[n] ELSE hb_list
    /\ nodes' = nodes \ {n}
    /\ since' = [since EXCEPT ![n] = 0]
    /\ num_hb_objs' = num_hb_objs - 1
    /\ flag' = flag \ {n}

RemoveNode(ob) ==
    /\ Unlink(ob)
    /\ next_hb' = IF ob = next_hb THEN next[ob] ELSE next_hb

(* Faulty variant: the old head does not learn of its predecessor.        *)
InsertAtHead_OneWay(ob) ==
    /\ next' = [next EXCEPT ![ob] = hb_list]
    /\ prev' = [prev EXCEPT ![ob] = NULL]
    /\ hb_list' = ob
    /\ next_hb' = IF next_hb = NULL THEN hb_list ELSE next_hb

(* Faulty variant: without "Handle all the other objects first".          *)
InsertAtHead_Greedy(ob) ==
    /\ next' = [next EXCEPT ![ob] = hb_list]
    /\ prev' = [m \in Obj |-> CASE m = ob -> NULL
                                [] m # ob /\ m = hb_list -> ob
                                [] OTHER -> prev[m]]
    /\ hb_list' = ob
    /\ UNCHANGED next_hb

InsertAtHead(ob) ==
    /\ next' = [next EXCEPT ![ob] = hb_list]
    /\ prev' = [m \in Obj |-> CASE m = ob -> NULL
                                [] m # ob /\ m = hb_list -> ob
                                [] OTHER -> prev[m]]
    /\ hb_list' = ob
    /\ next_hb' = IF next_hb = NULL THEN hb_list ELSE next_hb

(* Faulty variant: the predecessor is not linked to the new node.         *)
InsertBeforeNext_OneWay(ob) ==
    /\ next' = [next EXCEPT ![ob] = next_hb]
    /\ prev' = [m \in Obj |-> CASE m = ob -> prev[next_hb]
                                [] m # ob /\ m = next_hb -> ob
                                [] OTHER -> prev[m]]
    /\ UNCHANGED <<hb_list, next_hb>>

InsertBeforeNext(ob) ==
    /\ next' = [m \in Obj |-> CASE m = ob -> next_hb
                                [] m # ob /\ m = prev[next_hb] -> ob
                                [] OTHER -> next[m]]
    /\ prev' = [m \in Obj |-> CASE m = ob -> prev[next_hb]
                                [] m # ob /\ m = next_hb -> ob
                                [] OTHER -> prev[m]]
    /\ UNCHANGED <<hb_list, next_hb>>

NextIsFirst == \/ hb_list = NULL
               \/ next_hb = NULL
               \/ prev[next_hb] = NULL

(* Faulty variant: the new node counts as never served.                   *)
AddNode_DueAtOnce(ob) ==
    /\ IF NextIsFirst THEN InsertAtHead(ob) ELSE InsertBeforeNext(ob)
    /\ nodes' = nodes \cup {ob}
    /\ since' = [since EXCEPT ![ob] = heart_beat_interval]
    /\ num_hb_objs' = num_hb_objs + 1
    /\ flag' = flag \cup {ob}

AddNode(ob) ==
    /\ IF NextIsFirst THEN InsertAtHead(ob) ELSE InsertBeforeNext(ob)
    /\ nodes' = nodes \cup {ob}
    /\ since' = [since EXCEPT ![ob] = 0]
    /\ num_hb_objs' = num_hb_objs + 1
    /\ flag' = flag \cup {ob}

(* Faulty variant: destructed objects are not turned away.                *)
set_heart_beat_Destructed(ob, to) ==
    \/ /\ (ob \in flag) = to
       /\ UNCHANGED listvars
    \/ /\ to /\ ob \notin flag
       /\ AddNode(ob)
    \/ /\ ~to /\ ob \in flag
       /\ RemoveNode(ob)

(* set_heart_beat(ob, to): nothing happens to a destructed object, nor to  *)
(* one that is already in the state asked for.                             *)
set_heart_beat(ob, to) ==
    \/ /\ ob \in destructed \/ (ob \in flag) = to
       /\ UNCHANGED listvars
    \/ /\ to /\ ob \notin destructed \cup flag
       /\ AddNode(ob)
    \/ /\ ~to /\ ob \in flag \ destructed
       /\ RemoveNode(ob)

-----------------------------------------------------------------------------
(* The alarm signal may arrive between any two steps.                      *)
Alarm == /\ alarm' = TRUE
         /\ UNCHANGED <<listvars, destructed, current_heart_beat, num_player,
                        pc, errorvars, quiet>>

(* LPC code calls the efun in some object.                                 *)
SetHeartBeat(ob, to) ==
    /\ pc \in LPC
    /\ set_heart_beat(ob, to)
    /\ UNCHANGED <<destructed, current_heart_beat, alarm, num_player, pc,
                   errorvars, quiet>>

(* destruct(): the heart beat goes before O_DESTRUCTED is set.             *)
Destruct(ob) ==
    /\ pc \in LPC /\ ob \notin destructed
    /\ set_heart_beat(ob, FALSE)
    /\ destructed' = destructed \cup {ob}
    /\ UNCHANGED <<current_heart_beat, alarm, num_player, pc, errorvars, quiet>>

(* Between two commands the backend frees a destructed object, and a new   *)
(* object may get its address.                                             *)
Recycle(ob) ==
    /\ pc = "idle" /\ ob \in destructed
    /\ destructed' = destructed \ {ob}
    /\ quiet' = [quiet EXCEPT ![ob] = heart_beat_interval]
    /\ UNCHANGED <<listvars, current_heart_beat, alarm, num_player, pc, errorvars>>

(* The connection of a player is removed, or one comes in: by a login, or  *)
(* in LPC code by net_connect().                                           *)
PlayersChange ==
    /\ pc \in LPC
    /\ num_player' \in {num_player - 1, num_player + 1} \cap MinPlayers .. MaxPlayers
    /\ num_player' < num_player => pc = "idle"
    /\ UNCHANGED <<listvars, destructed, current_heart_beat, alarm, pc,
                   errorvars, quiet>>

-----------------------------------------------------------------------------
(* backend(): the time is taken, d seconds after the last cycle (0 when a  *)
(* late alarm was rounded up), and the alarm flag is reset.                *)
StartCycle(d) ==
    /\ pc = "idle" /\ alarm
    /\ alarm' = FALSE
    /\ since' = [o \in Obj |-> IF o \in nodes THEN Older(since[o], d) ELSE 0]
    /\ quiet' = [o \in Obj |-> Older(quiet[o], d)]
    /\ pc' = "cycle"
    /\ UNCHANGED <<hb_list, next_hb, nodes, next, prev, num_hb_objs, flag,
                   destructed, current_heart_beat, num_player, errorvars>>

NothingToDo == num_player < 1 \/ num_hb_objs = 0

SkipRound ==
    /\ pc = "cycle" /\ NothingToDo
    /\ next_hb' = NULL
    /\ pc' = "idle"
    /\ UNCHANGED <<hb_list, nodes, next, prev, since, num_hb_objs, flag,
                   destructed, current_heart_beat, alarm, num_player,
                   errorvars, quiet>>

StartRound ==
    /\ pc = "cycle" /\ ~NothingToDo
    /\ pc' = "loop"
    /\ UNCHANGED <<listvars, destructed, current_heart_beat, alarm, num_player,
                   errorvars, quiet>>

This == IF next_hb = NULL THEN hb_list ELSE next_hb
Looping == pc = "loop" /\ num_hb_objs # 0 /\ ~alarm
Due(n) == since[n] >= heart_beat_interval

LeaveLoop ==
    /\ current_heart_beat' = NULL
    /\ pc' = "idle"
    /\ UNCHANGED <<listvars, destructed, alarm, num_player, errorvars, quiet>>

(* Faulty variant: an interrupted round starts over in the next cycle.    *)
Interrupted_StartsOver ==
    /\ pc = "loop" /\ (num_hb_objs = 0 \/ alarm)
    /\ next_hb' = NULL
    /\ current_heart_beat' = NULL
    /\ pc' = "idle"
    /\ UNCHANGED <<hb_list, nodes, next, prev, since, num_hb_objs, flag,
                   destructed, alarm, num_player, errorvars, quiet>>

(* The list has become empty, or the alarm for the next cycle is here.     *)
Interrupted == /\ pc = "loop" /\ (num_hb_objs = 0 \/ alarm)
               /\ LeaveLoop

(* The break: the node at hand was served less than an interval ago.       *)
Break == /\ Looping /\ ~Due(This)
         /\ LeaveLoop

(* The program has no heart_beat() (any more): the flag is cleared and the *)
(* node freed, next_hb having been moved past it.                          *)
DropBeatless ==
    /\ Looping /\ Due(This)
    /\ Unlink(This)
    /\ next_hb' = next[This]
    /\ UNCHANGED <<destructed, current_heart_beat, alarm, num_player, pc,
                   errorvars, quiet>>

(* heart_beat() is called in the object.                                   *)
Beat ==
    /\ Looping /\ Due(This)
    /\ since' = [since EXCEPT ![This] = 0]
    /\ next_hb' = next[This]
    /\ current_heart_beat' = This
    /\ quiet' = [quiet EXCEPT ![This] = 0]
    /\ pc' = "beat"
    /\ UNCHANGED <<hb_list, nodes, next, prev, num_hb_objs, flag, destructed,
                   alarm, num_player, errorvars>>

Return == /\ pc = "beat"
          /\ pc' = "loop"
          /\ UNCHANGED <<listvars, destructed, current_heart_beat, alarm,
                         num_player, errorvars, quiet>>

-----------------------------------------------------------------------------
(* errorf() with a current heart beat: whoever's code failed, the object   *)
(* whose beat is running loses it.  publish tells an error that only a     *)
(* catch(...; publish) sees from one nothing catches.                      *)
Error(publish) ==
    /\ pc = "beat" /\ current_heart_beat # NULL
    /\ culprit' = current_heart_beat
    /\ current_heart_beat' = NULL
    /\ set_heart_beat(current_heart_beat, FALSE)
    /\ caught' = publish
    /\ pc' = "error"
    /\ UNCHANGED <<destructed, alarm, num_player, quiet>>

(* master->heart_beat_error() has answered; a catch resumes the beat, else *)
(* the longjmp() leads back to the head of the loop.                       *)
ErrorHandled(back_on) ==
    /\ pc = "error"
    /\ IF back_on THEN set_heart_beat(culprit, TRUE) ELSE UNCHANGED listvars
    /\ pc' = IF caught THEN "beat" ELSE "loop"
    /\ culprit' = NULL /\ caught' = FALSE
    /\ UNCHANGED <<destructed, current_heart_beat, alarm, num_player, quiet>>

(* An error in an apply the driver guards itself (secure_apply(), as for   *)
(* the applies in the master): secure_apply_error() also stops the heart   *)
(* of the running beat, but does not ask heart_beat_error(); then the LPC  *)
(* code goes on.                                                           *)
SecureApplyError ==
    /\ pc = "beat" /\ current_heart_beat # NULL
    /\ set_heart_beat(current_heart_beat, FALSE)
    /\ current_heart_beat' = NULL
    /\ UNCHANGED <<destructed, alarm, num_player, pc, errorvars, quiet>>

(* An uncaught error that finds no culprit any more (the first error of    *)
(* this beat was published), or out of memory: errorf() touches no heart   *)
(* beat and the longjmp() leads back to the loop.                          *)
ErrorUnhandled ==
    /\ pc = "beat"
    /\ pc' = "loop"
    /\ UNCHANGED <<listvars, destructed, current_heart_beat, alarm, num_player,
                   errorvars, quiet>>

Next ==
    \/ Alarm
    \/ \E ob \in Obj, to \in BOOLEAN : SetHeartBeat(ob, to)
    \/ \E ob \in Obj : Destruct(ob)
    \/ \E ob \in Obj : Recycle(ob)
    \/ PlayersChange
    \/ \E d \in Ages : StartCycle(d)
    \/ SkipRound
    \/ StartRound
    \/ Interrupted
    \/ Break
    \/ DropBeatless
    \/ Beat
    \/ Return
    \/ \E publish \in BOOLEAN : Error(publish)
    \/ \E back_on \in BOOLEAN : ErrorHandled(back_on)
    \/ SecureApplyError
    \/ ErrorUnhandled

Spec == Init /\ [][Next]_vars

(* The alarm recurs; the driver thread goes on; LPC code is ended by its   *)
(* evaluation limit; the clock does not stand still for ever; the next     *)
(* alarm is about a second away when a cycle starts, so that it cannot for *)
(* ever come before the first beat of every round (the two strong ones).   *)
Fairness ==
    /\ WF_vars(Alarm)
    /\ SF_vars(\E d \in Ages \ {0} : StartCycle(d))
    /\ WF_vars(SkipRound) /\ WF_vars(StartRound)
    /\ SF_vars(StartRound /\ ~alarm)
    /\ WF_vars(Interrupted) /\ WF_vars(Break)
    /\ WF_vars(Return)
    /\ WF_vars(\E back_on \in BOOLEAN : ErrorHandled(back_on))
    /\ SF_vars(Beat \/ DropBeatless)

FairSpec == Spec /\ Fairness

-----------------------------------------------------------------------------
TypeOK ==
    /\ hb_list \in Ptr /\ next_hb \in Ptr
    /\ nodes \subseteq Obj /\ flag \subseteq Obj /\ destructed \subseteq Obj
    /\ next \in [Obj -> Ptr] /\ prev \in [Obj -> Ptr]
    /\ since \in [Obj -> Ages] /\ quiet \in [Obj -> Ages]
    /\ num_hb_objs \in Nat
    /\ current_heart_beat \in Ptr
    /\ alarm \in BOOLEAN
    /\ num_player \in MinPlayers .. MaxPlayers
    /\ pc \in Places
    /\ culprit \in Ptr /\ caught \in BOOLEAN

(* No pointer dangles and the links are mutual: what the list surgery of   *)
(* set_heart_beat() and of the loop, called from within each other, must   *)
(* keep up.  set_heart_beat() uses the node it has searched for without a  *)
(* test that it was found.                                                 *)
Linked ==
    /\ \A n \in nodes : next[n] # NULL => next[n] \in nodes /\ prev[next[n]] = n
    /\ \A n \in nodes : prev[n] # NULL => prev[n] \in nodes /\ next[prev[n]] = n
    /\ \A n \in nodes : prev[n] = NULL <=> n = hb_list
    /\ hb_list \in nodes \cup {NULL}
    /\ hb_list = NULL <=> nodes = {}
    /\ next_hb \in nodes \cup {NULL}

(* The flag in the object, the list and the counter tell the same story.   *)
Registered ==
    /\ flag = nodes
    /\ num_hb_objs = Cardinality(nodes)

(* A destructed object has no heart beat: the list holds no reference, the *)
(* object will be freed under it.                                          *)
NoneDestructed == nodes \cap destructed = {}

(* errorf() blames current_heart_beat, so it must not outlive the round:   *)
(* an error in a player's command would stop the heart of a bystander.     *)
BlameOnlyInRound == current_heart_beat # NULL => pc \in {"loop", "beat"}

(* Following the links from the head meets every registered object: a set  *)
(* of nodes that holds the head and the successor of each member is all of *)
(* them.  With Linked: each is met once and the walk ends.                 *)
ListReachesAll ==
    \A S \in SUBSET nodes :
        hb_list \in S /\ (\A n \in S : next[n] \in S \cup {NULL}) => S = nodes

(* What makes the above inductive.  No nodes form a cycle of their own.    *)
Grounded == \A S \in SUBSET nodes : S # {} => \E n \in S : prev[n] \notin S

(* Who has waited since tlast has waited since the last heart_beat() call. *)
ServedSince == \A n \in nodes : since[n] <= quiet[n]

CulpritKnown == pc = "error" => culprit # NULL

(* The inductive invariant. *)
IInv == /\ TypeOK
        /\ Linked
        /\ Grounded
        /\ Registered
        /\ NoneDestructed
        /\ BlameOnlyInRound
        /\ ServedSince
        /\ CulpritKnown

(* heartbeat.c: "prevents that objects with a rapid change of the          *)
(* heartbeat status are called more often than others": two heart_beat()   *)
(* calls in an object are an interval apart, whatever toggles in between.  *)
BeatSpacing == [][Beat => quiet[This] >= heart_beat_interval]_vars

(* Breaking off at a node that is not due means that no node is.           *)
BreakMeansAllProcessed == [][Break => \A n \in nodes : ~Due(n)]_vars

(* An object whose heart beat stays on gets its beat.                      *)
EveryHeartBeats ==
    \A o \in Obj : o \in flag ~> (o \notin flag \/ current_heart_beat = o)

(* Who comes after o, with the list as a circle.                           *)
After(o) == IF next[o] = NULL THEN hb_list ELSE next[o]

(* The n objects that are met from first on, each before its follower.     *)
Met(follower, first, n) ==
    LET met[k \in 0 .. Cardinality(Obj)] ==
            IF k <= 1 THEN first ELSE follower[met[k - 1]]
    IN  [k \in 1 .. n |-> met[k]]

(* The registered objects in the order in which the loop meets them: from  *)
(* next_hb on, going on at the head behind the end of the list.            *)
Order == Met([o \in Obj |-> After(o)], This, Cardinality(nodes))

Queue == INSTANCE HeartBeatQueue WITH queue <- Order, MayTurn <- MinPlayers = 0

(* The pointer list implements the queue: set_heart_beat(TRUE) appends,    *)
(* a beat moves the head of the queue to its end, and nobody is overtaken. *)
ImplementsQueue == Queue!Spec
=============================================================================
