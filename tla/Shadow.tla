-------------------------------- MODULE Shadow --------------------------------
(***************************************************************************)
(* Shadows, and the action sentences they share a list with: shadow(),     *)
(* unshadow(), destruct() (simulate.c), replace_program(),                 *)
(* set_environment() (object.c), add_action(), remove_action() (actions.c) *)
(* and the linking of connections (comm.c), all in src/src.                *)
(*                                                                         *)
(* An object's list of sentences is a shadow sentence, if O_SHADOW is set, *)
(* followed by the actions in sent.  shadowing and shadowed_by are fields  *)
(* of the shadow sentence; they are NULL when there is none.               *)
(***************************************************************************)
EXTENDS Integers, SequencesExt

CONSTANTS
    Obj,          \* addresses an object can live at
    NULL,
    Giver,        \* objects that can be this_player()
    Interactive,  \* objects that can hold a connection
    Shadower,     \* objects whose code calls shadow()
    Container,    \* objects that others are moved into
    MasterMay,    \* what query_allow_shadow() may do before it answers
    MaxAsking,    \* bound of the calls of query_allow_shadow() in progress
    MaxActions    \* bound of the actions on one object

ASSUME NullAssumption == NULL \notin Obj
ASSUME RolesAssumption == /\ Giver \subseteq Obj
                          /\ Interactive \subseteq Obj
                          /\ Shadower \subseteq Obj
                          /\ Container \subseteq Obj
ASSUME MasterAssumption == MasterMay \subseteq {"destruct", "move", "shadow"}
ASSUME BoundsAssumption == MaxAsking \in Nat /\ MaxActions \in Nat

VARIABLES
    o_shadow,     \* objects with O_SHADOW set
    shadowing,    \* the object shadowed ...
    shadowed_by,  \* ... and the one that shadows
    ip,           \* objects with a connection
    sent,         \* the action sentences of each object
    super,        \* environments
    destructed,
    asking,       \* shadow() waits for query_allow_shadow(): stack of <<cob, ob>>
    pc,           \* "lpc": LPC code runs; "walk": destruct() walks over shadows
    victim,       \* the object destruct() is at work on
    walker,       \* its local shadowed_by
    above         \* history: the shadows of the victim it has still to visit

links == <<o_shadow, shadowing, shadowed_by>>
walk == <<pc, victim, walker, above>>
vars == <<links, ip, sent, super, destructed, asking, walk>>

Ptr == Obj \cup {NULL}
Live == Obj \ destructed
Action == [ob : Obj, shadow_ob : Ptr]

Init == /\ o_shadow = {} /\ ip = {} /\ destructed = {} /\ asking = << >>
        /\ shadowing = [o \in Obj |-> NULL]
        /\ shadowed_by = [o \in Obj |-> NULL]
        /\ sent = [o \in Obj |-> << >>]
        /\ super = [o \in Obj |-> NULL]
        /\ pc = "lpc" /\ victim = NULL /\ walker = NULL /\ above = {}

-----------------------------------------------------------------------------
(* LPC code does something; inside query_allow_shadow() not everything.    *)
LPC(what) == pc = "lpc" /\ (asking # << >> => what \in MasterMay)

(* What one meets from o along a link, and where that ends.                *)
Along(link, o) ==
    {x \in Obj : \A S \in SUBSET Obj :
        o \in S /\ (\A y \in S : link[y] \in S \cup {NULL}) => x \in S}
End(link, o) == CHOOSE x \in Along(link, o) : link[x] = NULL

(* Faulty variant: a sentence that only shadows depend on is given up.    *)
Checked_Careless(S) ==
    o_shadow \ {x \in S : x \notin ip' /\ shadowing'[x] = NULL}

(* check_shadow_sent() for the objects of S: who still has the sentence.   *)
Checked(S) ==
    o_shadow \ {x \in S : /\ x \notin ip'
                          /\ shadowing'[x] = NULL /\ shadowed_by'[x] = NULL}

(* Faulty variant: the shadow is not told of its new victim.              *)
ShadowingWithout_OneWay(ob) == [shadowing EXCEPT ![ob] = NULL]

(* The links of a chain that ob leaves.                                    *)
ShadowingWithout(ob) ==
    [x \in Obj |-> CASE x = ob -> NULL
                     [] x # ob /\ x = shadowed_by[ob] -> shadowing[ob]
                     [] OTHER -> shadowing[x]]
ShadowedByWithout(ob) ==
    [x \in Obj |-> CASE x = ob -> NULL
                     [] x # ob /\ x = shadowing[ob] -> shadowed_by[ob]
                     [] OTHER -> shadowed_by[x]]

Near(ob, p) == \/ ob = p \/ ob = super[p] \/ super[ob] = p
               \/ super[ob] # NULL /\ super[ob] = super[p]

(* A walk along a list of sentences that keeps those of T, in their order. *)
Kept(list, T) ==
    LET walked[i \in 0 .. Len(list)] ==
            IF i = 0 THEN << >>
            ELSE IF list[i] \in T THEN Append(walked[i - 1], list[i])
            ELSE walked[i - 1]
    IN  walked[Len(list)]

(* remove_action_sent(), remove_shadow_action_sent() on one list.          *)
WithoutActionsOf(list, ob) == Kept(list, {a \in Action : a.ob # ob})
WithoutShadowActionsOf(list, s) == Kept(list, {a \in Action : a.shadow_ob # s})

(* remove_shadow_actions(): from the object at the bottom of target's      *)
(* chain and from everybody near it.                                       *)
WithoutShadowActions(s, target) ==
    LET bottom == End(shadowing, target)
    IN  [h \in Obj |-> IF Near(h, bottom) /\ (h # s \/ h = super[bottom])
                       THEN WithoutShadowActionsOf(sent[h], s) ELSE sent[h]]

-----------------------------------------------------------------------------
(* Faulty variant: an object may shadow itself.                           *)
MayAsk_Self(cob, ob) ==
    /\ shadowing[cob] = NULL /\ shadowed_by[cob] = NULL
    /\ super[cob] = NULL
    /\ shadowing[ob] = NULL

(* Faulty variant: an object that is shadowed may become a shadow.        *)
MayAsk_Shadowed(cob, ob) ==
    /\ shadowing[cob] = NULL
    /\ super[cob] = NULL
    /\ shadowing[ob] = NULL
    /\ ob # cob

(* The tests of validate_shadowing(), but for those on the programs.       *)
MayAsk(cob, ob) ==
    /\ shadowing[cob] = NULL /\ shadowed_by[cob] = NULL
    /\ super[cob] = NULL
    /\ shadowing[ob] = NULL
    /\ ob # cob

(* shadow(ob, 1) in cob, up to the call of query_allow_shadow() ...        *)
AskToShadow(cob, ob) ==
    /\ LPC("shadow") /\ Len(asking) < MaxAsking
    /\ cob \in Shadower \cap Live /\ ob \in Live
    /\ MayAsk(cob, ob)
    /\ asking' = Append(asking, <<cob, ob>>)
    /\ UNCHANGED <<links, ip, sent, super, destructed, walk>>

Cob == asking[Len(asking)][1]
Asked == asking[Len(asking)][2]
Answered == SubSeq(asking, 1, Len(asking) - 1)

(* The chain of the object asked for is entered at its end.                *)
Shadowed == End(shadowed_by, Asked)

(* ... and from its answer on.                                             *)
AllowShadow ==
    /\ pc = "lpc" /\ asking # << >>
    /\ Cob \in Live /\ Asked \in Live
    /\ o_shadow' = o_shadow \cup {Cob, Asked}
    /\ shadowing' = [shadowing EXCEPT ![Cob] = Shadowed]
    /\ shadowed_by' = [shadowed_by EXCEPT ![Shadowed] = Cob]
    /\ asking' = Answered
    /\ UNCHANGED <<ip, sent, super, destructed, walk>>

DenyShadow ==
    /\ pc = "lpc" /\ asking # << >>
    /\ asking' = Answered
    /\ UNCHANGED <<links, ip, sent, super, destructed, walk>>

(* unshadow() in ob.  The shadow actions of ob go only if no shadow is     *)
(* left on the object below.                                               *)
Unshadow(ob) ==
    /\ LPC("shadow") /\ ob \in Live /\ shadowing[ob] # NULL
    /\ shadowing' = ShadowingWithout(ob)
    /\ shadowed_by' = ShadowedByWithout(ob)
    /\ UNCHANGED <<ip, super, destructed, asking, walk>>
    /\ IF shadowed_by[ob] = NULL
       THEN /\ sent' = WithoutShadowActions(ob, shadowing[ob])
            /\ o_shadow' = Checked({shadowing[ob], ob})
       ELSE /\ UNCHANGED sent
            /\ o_shadow' = Checked({ob})

(* replace_program() takes effect, between two commands: the shadowing     *)
(* ends, the sentences stay.                                               *)
ReplaceProgram(ob) ==
    /\ pc = "lpc" /\ asking = << >> /\ ob \in Live /\ shadowing[ob] # NULL
    /\ shadowing' = ShadowingWithout(ob)
    /\ shadowed_by' = ShadowedByWithout(ob)
    /\ UNCHANGED <<o_shadow, ip, sent, super, destructed, asking, walk>>

-----------------------------------------------------------------------------
(* destruct(ob): the chain is closed behind it, its own shadow actions are *)
(* removed ...                                                             *)
Destruct(ob) ==
    /\ LPC("destruct") /\ ob \in Live
    /\ \A x \in Obj : super[x] # ob
    /\ shadowing' = ShadowingWithout(ob)
    /\ shadowed_by' = ShadowedByWithout(ob)
    /\ UNCHANGED <<ip, super, destructed, asking>>
    /\ sent' = IF shadowing[ob] = NULL THEN sent
               ELSE WithoutShadowActions(ob, shadowing[ob])
    /\ o_shadow' = Checked({shadowing[ob], shadowed_by[ob]} \ {NULL})
    /\ pc' = "walk" /\ victim' = ob /\ walker' = shadowed_by[ob]
    /\ above' = Along(shadowed_by, ob) \ {ob}

(* What O_GET_SHADOW(x)->shadowed_by reads: the field of the shadow        *)
(* sentence, or if there is none what an action has in its place.          *)
FirstSentence(x) ==
    IF x \in o_shadow THEN shadowed_by[x]
    ELSE IF sent'[x] # << >> THEN sent'[x][1].ob
    ELSE NULL

(* ... then the actions of its shadows, one after the other ...            *)
DestructWalk ==
    /\ pc = "walk" /\ walker # NULL
    /\ sent' = WithoutShadowActions(walker, victim)
    /\ walker' = FirstSentence(walker)
    /\ above' = above \ {walker}
    /\ UNCHANGED <<links, ip, super, destructed, asking, pc, victim>>

(* Faulty variant: the object keeps its environment.                      *)
DestructEnd_StaysInside ==
    /\ pc = "walk" /\ walker = NULL
    /\ UNCHANGED <<shadowing, shadowed_by, ip, asking, super>>
    /\ o_shadow' = Checked({victim})
    /\ sent' = [h \in Obj |->
                  IF super[victim] # NULL /\ (h = super[victim] \/ super[h] = super[victim])
                  THEN WithoutActionsOf(sent[h], victim) ELSE sent[h]]
    /\ destructed' = destructed \cup {victim}
    /\ pc' = "lpc" /\ victim' = NULL /\ walker' = NULL /\ above' = {}

(* ... and it leaves its environment and the actions of its neighbours.    *)
DestructEnd ==
    /\ pc = "walk" /\ walker = NULL
    /\ UNCHANGED <<shadowing, shadowed_by, ip, asking>>
    /\ o_shadow' = Checked({victim})
    /\ sent' = [h \in Obj |->
                  IF super[victim] # NULL /\ (h = super[victim] \/ super[h] = super[victim])
                  THEN WithoutActionsOf(sent[h], victim) ELSE sent[h]]
    /\ super' = [super EXCEPT ![victim] = NULL]
    /\ destructed' = destructed \cup {victim}
    /\ pc' = "lpc" /\ victim' = NULL /\ walker' = NULL /\ above' = {}

(* Between two commands the remains are freed, a new object may come.      *)
Recycle(ob) ==
    /\ pc = "lpc" /\ asking = << >> /\ ob \in destructed
    /\ o_shadow' = o_shadow \ {ob}
    /\ ip' = ip \ {ob}
    /\ sent' = [sent EXCEPT ![ob] = << >>]
    /\ destructed' = destructed \ {ob}
    /\ UNCHANGED <<shadowing, shadowed_by, super, asking, walk>>

-----------------------------------------------------------------------------
(* remove_environment_sent(item).  Runs of actions of one object are       *)
(* removed or skipped as a whole, the shadow sentence at the head being    *)
(* taken for an action of the object that shadows item.                    *)
WithoutEnvironment(item) ==
    LET list == sent[item]
        runs == {n \in 0 .. Len(list) : \A i \in 1 .. n : list[i].ob = shadowed_by[item]}
        skipped == IF item \in o_shadow THEN Max(runs) ELSE 0
    IN  SubSeq(list, 1, skipped) \o
        Kept(SubSeq(list, skipped + 1, Len(list)),
             {a \in Action : /\ a.ob # super[item]
                             /\ a.ob = item \/ super[a.ob] # super[item]})

Inside(x, item) == x # NULL /\ item \in Along(super, x)

(* Faulty variant: a shadow can be moved.                                 *)
MayMove_Shadows(item, dest) == ~Inside(dest, item)

MayMove(item, dest) == shadowing[item] = NULL /\ ~Inside(dest, item)

(* Faulty variant: the other things in the room keep item's actions.      *)
Left_Siblings(item) ==
    [h \in Obj |-> CASE h = item -> WithoutEnvironment(item)
                     [] h # item /\ h = super[item] -> WithoutActionsOf(sent[h], item)
                     [] OTHER -> sent[h]]

(* The sentences after item has left its environment.                      *)
Left(item) ==
    [h \in Obj |-> CASE h = item -> WithoutEnvironment(item)
                     [] h # item /\ (h = super[item] \/ super[h] = super[item]) ->
                           WithoutActionsOf(sent[h], item)
                     [] OTHER -> sent[h]]

set_environment(item, dest) ==
    /\ LPC("move")
    /\ item \in Live /\ dest \in (Container \cap Live) \cup {NULL}
    /\ MayMove(item, dest)
    /\ sent' = IF super[item] = NULL THEN sent ELSE Left(item)
    /\ super' = [super EXCEPT ![item] = dest]
    /\ UNCHANGED <<links, ip, destructed, asking, walk>>

-----------------------------------------------------------------------------
(* add_action() in cur, for the player p.  A shadow's action is put down   *)
(* to the object at the bottom of its chain.                               *)
AddAction(cur, p) ==
    /\ LPC("action") /\ cur \in Live /\ p \in Giver \cap Live
    /\ Len(sent[p]) < MaxActions
    /\ LET ob == End(shadowing, cur)
           s == IF shadowing[cur] # NULL THEN cur ELSE NULL
       IN  /\ Near(ob, p)
           /\ sent' = [sent EXCEPT ![p] = <<[ob |-> ob, shadow_ob |-> s]>> \o @]
    /\ UNCHANGED <<links, ip, super, destructed, asking, walk>>

(* remove_action(1, p) in cur. *)
RemoveAction(cur, p) ==
    /\ LPC("action") /\ cur \in Live /\ p \in Live
    /\ sent' = [sent EXCEPT ![p] =
                  Kept(@, {a \in Action :
                              \/ a.ob # End(shadowing, cur)
                              \/ shadowing[cur] # NULL /\ a.shadow_ob # cur})]
    /\ UNCHANGED <<links, ip, super, destructed, asking, walk>>

(* A connection is linked to ob, unlinked, or switched between objects.    *)
Connect(ob) ==
    /\ LPC("connect") /\ ob \in (Interactive \cap Live) \ ip
    /\ ip' = ip \cup {ob}
    /\ o_shadow' = o_shadow \cup {ob}
    /\ UNCHANGED <<shadowing, shadowed_by, sent, super, destructed, asking, walk>>

Disconnect(ob) ==
    /\ LPC("connect") /\ ob \in ip
    /\ ip' = ip \ {ob}
    /\ UNCHANGED <<shadowing, shadowed_by, sent, super, destructed, asking, walk>>
    /\ o_shadow' = Checked({ob})

(* exec() to an object without a connection; with one, the two change      *)
(* places and nothing is to be seen here.  The master object's             *)
(* valid_exec() is taken to change nothing.                                *)
Exec(ob, obfrom) ==
    /\ LPC("connect") /\ ob \in (Interactive \cap Live) \ ip /\ obfrom \in ip \cap Live
    /\ ip' = (ip \cup {ob}) \ {obfrom}
    /\ UNCHANGED <<shadowing, shadowed_by, sent, super, destructed, asking, walk>>
    /\ o_shadow' = Checked({obfrom}) \cup {ob}

Next ==
    \/ \E cob, ob \in Obj : AskToShadow(cob, ob)
    \/ AllowShadow
    \/ DenyShadow
    \/ \E ob \in Obj : Unshadow(ob)
    \/ \E ob \in Obj : ReplaceProgram(ob)
    \/ \E ob \in Obj : Destruct(ob)
    \/ DestructWalk
    \/ DestructEnd
    \/ \E ob \in Obj : Recycle(ob)
    \/ \E item \in Obj, dest \in Ptr : set_environment(item, dest)
    \/ \E cur, p \in Obj : AddAction(cur, p)
    \/ \E cur, p \in Obj : RemoveAction(cur, p)
    \/ \E ob \in Obj : Connect(ob)
    \/ \E ob \in Obj : Disconnect(ob)
    \/ \E ob, obfrom \in Obj : Exec(ob, obfrom)

Spec == Init /\ [][Next]_vars

-----------------------------------------------------------------------------
TypeOK ==
    /\ o_shadow \subseteq Obj /\ ip \subseteq Obj /\ destructed \subseteq Obj
    /\ shadowing \in [Obj -> Ptr] /\ shadowed_by \in [Obj -> Ptr]
    /\ sent \in [Obj -> Seq(Action)] /\ super \in [Obj -> Ptr]
    /\ asking \in Seq({q \in Shadower \X Obj : q[1] # q[2]})
    /\ pc \in {"lpc", "walk"} /\ victim \in Ptr /\ walker \in Ptr
    /\ above \subseteq Obj

(* The chain of shadows is a double linked list.                           *)
Mutual ==
    \A x, y \in Obj : shadowing[x] = y <=> shadowed_by[y] = x

(* O_GET_SHADOW() is not applied to an object without a shadow sentence:   *)
(* who is linked or holds a connection has one.                            *)
Anchored ==
    \A x \in Obj : shadowing[x] # NULL \/ shadowed_by[x] # NULL \/ x \in ip
                      => x \in o_shadow

(* No object shadows itself, however indirectly: each walk along a chain   *)
(* of shadows, up or down, ends.                                           *)
Ends(link) == \A S \in SUBSET Obj : S # {} => \E x \in S : link[x] \notin S
Grounded == Ends(shadowing) /\ Ends(shadowed_by)

(* A shadow has no environment.  set_environment() relies on it: when an   *)
(* item leaves, remove_action_sent() compares the ob of every sentence of  *)
(* its neighbours with the item, and in a shadow sentence the link         *)
(* shadowed_by lies in the place of ob.                                    *)
ShadowsOutside == \A x \in Obj : shadowing[x] # NULL => super[x] = NULL

(* No link and no environment refers to a destructed object, which will be *)
(* freed, nor does such an object keep one.                                *)
Forgotten ==
    \A x \in destructed :
        /\ shadowing[x] = NULL /\ shadowed_by[x] = NULL /\ super[x] = NULL
        /\ \A y \in Obj : x \notin {shadowing[y], shadowed_by[y], super[y]}

(* A live object has the actions of what is near it, and no others.  With  *)
(* Forgotten: no action, which holds no reference to the object it is put  *)
(* down to, is left behind by a destructed one.                            *)
ActionsNear ==
    \A h \in Live : \A i \in DOMAIN sent[h] : Near(sent[h][i].ob, h)

(* "Our shadows may have added actions to us ... Take care to remove them  *)
(* all": destruct() visits each shadow of the object, and nothing twice    *)
(* and nothing else.                                                       *)
WalksOwnShadows ==
    pc = "walk" => IF walker = NULL THEN above = {} ELSE walker \in above

(* The object at the bottom and its shadows, going up along link.          *)
Stack(link, o) ==
    LET up[k \in 1 .. Cardinality(Along(link, o))] ==
            IF k = 1 THEN o ELSE link[up[k - 1]]
    IN  up

Stacks == INSTANCE ShadowStacks
             WITH stacks <- {Stack(shadowed_by, o) :
                                o \in {x \in Obj : shadowing[x] = NULL /\ shadowed_by[x] # NULL}}

(* The double links implement stacks of shadows: shadow() enters on top,   *)
(* unshadow(), replace_program() and destruct() take out one object and    *)
(* keep the order of the others.                                           *)
ImplementsStacks == Stacks!Spec
=============================================================================
