------------------------------- MODULE CallOut -------------------------------
(***************************************************************************)
(* Delayed calls of the driver (src/src/call_out.c) and the part of the    *)
(* backend cycle that drives them (backend.c): next_call_out_cycle() takes *)
(* the time, the heart beats run, then call_out() runs what is due.        *)
(*                                                                         *)
(* The list is a sequence of struct call; its delta counts from the call   *)
(* before.  Each record also carries three history fields:                 *)
(*   wait  seconds until the time that was asked for (negative: past)      *)
(*   skew  by how much the head of the list was overdue on insertion       *)
(*   lost  seconds the call has lost in the first cycle of the driver      *)
(***************************************************************************)
EXTENDS Integers, SequencesExt

CONSTANTS
    Obj, NULL,
    User,           \* wizlist entries
    Owner,          \* Owner[ob] is ob->user
    max_callouts,   \* most pending calls
    MaxDelay,       \* bound of the delays asked for
    MaxStep,        \* bound of the seconds between two cycles
    EvalLimit       \* max_eval_cost, in calls of efuns and functions

ASSUME NullAssumption == NULL \notin Obj
ASSUME OwnerAssumption == Owner \in [Obj -> User]
ASSUME BoundsAssumption == /\ max_callouts \in Nat /\ MaxDelay \in Nat
                           /\ MaxStep \in Nat /\ EvalLimit \in Nat \ {0}

VARIABLES
    call_list,
    num_callouts,
    timed,          \* last_time of next_call_out_cycle() has been set
    destructed,
    pc,             \* see Places
    called_object,
    eval_cost,
    called,         \* users whose last_call_out is current_time
    call_out_cost,  \* [User -> cost], -1: disabled
    failed          \* history: users a call of whom failed at current_time

listvars == <<call_list, num_callouts>>
uservars == <<called, call_out_cost, failed>>
vars == <<listvars, timed, destructed, pc, called_object, eval_cost, uservars>>

(* "idle":  player commands, resets and so on                              *)
(* "beats": next_call_out_cycle() is done, heart beats run                 *)
(* "loop":  at the head of the loop of call_out()                          *)
(* "run":   called_object's function is called                             *)
Places == {"idle", "beats", "loop", "run"}
LPC == {"idle", "beats", "run"}

Init == /\ call_list = << >> /\ num_callouts = 0
        /\ timed = FALSE /\ destructed = {} /\ pc = "idle"
        /\ called_object = NULL /\ eval_cost = 0
        /\ called = {} /\ failed = {}
        /\ call_out_cost = [u \in User |-> 0]

-----------------------------------------------------------------------------
(* The delay left at position i: insert_call() subtracts the deltas it     *)
(* passes, but no negative one.                                            *)
Left(list, delay, i) ==
    LET left[n \in 0 .. Len(list)] ==
            IF n = 0 THEN delay
            ELSE left[n - 1] - (IF list[n].delta >= 0 THEN list[n].delta ELSE 0)
    IN  left[i - 1]

(* Faulty variant: a new call goes before those of the same time.         *)
Spot_Lifo(list, delay) ==
    Min({i \in 1 .. Len(list) + 1 :
            i > Len(list) \/ list[i].delta >= Left(list, delay, i)})

(* The first call whose delta exceeds what is left. *)
Spot(list, delay) ==
    Min({i \in 1 .. Len(list) + 1 :
            i > Len(list) \/ list[i].delta > Left(list, delay, i)})

insert_call(list, cop, delay) ==
    LET i == Spot(list, delay)
        left == Left(list, delay, i)
        rest == IF i > Len(list) THEN list ELSE [list EXCEPT ![i].delta = @ - left]
    IN  InsertAt(rest, i, [cop EXCEPT !.delta = left])

Overdue(list) ==
    IF list # << >> /\ list[1].delta < 0 THEN - list[1].delta ELSE 0

NewCall(list, ob, delay) ==
    insert_call(list, [ob |-> ob, delta |-> delay, wait |-> delay,
                       skew |-> Overdue(list), lost |-> 0], delay)

(* Faulty variant: the delta of the call that leaves is forgotten.        *)
Unchained_Forgetful(list, i) == RemoveAt(list, i)

(* Call i leaves the list, its successor inherits the delta. *)
Unchained(list, i) ==
    RemoveAt(IF i < Len(list) THEN [list EXCEPT ![i + 1].delta = @ + list[i].delta]
                              ELSE list, i)

Stale(list) == {i \in DOMAIN list : list[i].ob \in destructed}

(* remove_stale_call_outs(): the same for the calls of destructed objects, *)
(* first to last.  With n calls examined the others are the last ones.     *)
WithoutStale(list) ==
    LET examined[n \in 0 .. Len(list)] ==
            IF n = 0 THEN list
            ELSE LET l == examined[n - 1]
                 IN  IF n \in Stale(list) THEN Unchained(l, Len(l) - (Len(list) - n)) ELSE l
    IN  examined[Len(list)]

-----------------------------------------------------------------------------
(* Faulty variant: nobody looks at the limit.                             *)
PaysForEfun_NoLimit ==
    IF pc = "run" THEN eval_cost' = eval_cost + 1 ELSE UNCHANGED eval_cost

(* LPC code that runs as part of a call_out pays for what it does.         *)
PaysForEfun ==
    IF pc = "run"
    THEN eval_cost < EvalLimit /\ eval_cost' = eval_cost + 1
    ELSE UNCHANGED eval_cost

(* The efun call_out().  A destructed object gets nothing; at the limit    *)
(* the efun raises an error, which in "run" is CallbackError.              *)
v_call_out(ob, delay) ==
    /\ pc \in LPC /\ ob \notin destructed
    /\ num_callouts < max_callouts
    /\ call_list' = NewCall(call_list, ob, delay)
    /\ num_callouts' = num_callouts + 1
    /\ PaysForEfun
    /\ UNCHANGED <<timed, destructed, pc, called_object, uservars>>

(* The efun remove_call_out() has found call i.  *)
remove_call_out(i) ==
    /\ pc \in LPC
    /\ call_list' = Unchained(call_list, i)
    /\ num_callouts' = num_callouts - 1
    /\ PaysForEfun
    /\ UNCHANGED <<timed, destructed, pc, called_object, uservars>>

(* The status and debug_info() efuns first remove the stale calls.          *)
remove_stale_call_outs ==
    /\ pc \in LPC
    /\ call_list' = WithoutStale(call_list)
    /\ num_callouts' = num_callouts - Cardinality(Stale(call_list))
    /\ PaysForEfun
    /\ UNCHANGED <<timed, destructed, pc, called_object, uservars>>

Destruct(ob) ==
    /\ pc \in LPC /\ ob \notin destructed
    /\ destructed' = destructed \cup {ob}
    /\ PaysForEfun
    /\ UNCHANGED <<listvars, timed, pc, called_object, uservars>>

-----------------------------------------------------------------------------
(* Faulty variant: every delta is reduced, not only the first one.        *)
StartCycle_AllDeltas(d) ==
    /\ pc = "idle"
    /\ call_list' =
          [i \in DOMAIN call_list |->
              [call_list[i] EXCEPT
                  !.wait = @ - d,
                  !.lost = IF timed THEN @ ELSE @ + d,
                  !.delta = IF timed THEN @ - d ELSE @]]
    /\ timed' = TRUE
    /\ IF d > 0 THEN called' = {} /\ failed' = {} ELSE UNCHANGED <<called, failed>>
    /\ pc' = "beats"
    /\ UNCHANGED <<num_callouts, destructed, called_object, eval_cost, call_out_cost>>

(* next_call_out_cycle(), d seconds after the last cycle: the first delta  *)
(* is reduced, but not if last_time is set only now.                       *)
StartCycle(d) ==
    /\ pc = "idle"
    /\ call_list' =
          [i \in DOMAIN call_list |->
              [call_list[i] EXCEPT
                  !.wait = @ - d,
                  !.lost = IF timed THEN @ ELSE @ + d,
                  !.delta = IF timed /\ i = 1 THEN @ - d ELSE @]]
    /\ timed' = TRUE
    /\ IF d > 0 THEN called' = {} /\ failed' = {} ELSE UNCHANGED <<called, failed>>
    /\ pc' = "beats"
    /\ UNCHANGED <<num_callouts, destructed, called_object, eval_cost, call_out_cost>>

StartPass ==
    /\ pc = "beats"
    /\ pc' = "loop"
    /\ UNCHANGED <<listvars, timed, destructed, called_object, eval_cost, uservars>>

SomethingDue == call_list # << >> /\ call_list[1].delta <= 0

EndPass ==
    /\ pc = "loop" /\ ~SomethingDue
    /\ pc' = "idle"
    /\ UNCHANGED <<listvars, timed, destructed, called_object, eval_cost, uservars>>

First == call_list[1].ob
Popped == Unchained(call_list, 1)
Disabled(u) == u \in called /\ call_out_cost[u] < 0

(* Nothing to call: the object is destructed. *)
Discard ==
    /\ pc = "loop" /\ SomethingDue
    /\ First \in destructed
    /\ call_list' = Popped
    /\ num_callouts' = num_callouts - 1
    /\ UNCHANGED <<timed, destructed, pc, called_object, eval_cost, uservars>>

(* The user had an error in this second: the call is asked for anew.       *)
Reschedule ==
    /\ pc = "loop" /\ SomethingDue
    /\ First \notin destructed /\ Disabled(Owner[First])
    /\ call_list' = NewCall(Popped, First, 1)
    /\ UNCHANGED <<num_callouts, timed, destructed, pc, called_object, eval_cost,
                   uservars>>

(* Faulty variant: each call starts with a fresh evaluation cost.         *)
Call_FreshCost ==
    /\ pc = "loop" /\ SomethingDue
    /\ First \notin destructed /\ ~Disabled(Owner[First])
    /\ call_list' = Popped
    /\ num_callouts' = num_callouts - 1
    /\ called_object' = First
    /\ called' = called \cup {Owner[First]}
    /\ eval_cost' = 1
    /\ pc' = "run"
    /\ UNCHANGED <<timed, destructed, call_out_cost, failed>>

(* The call is made.  The calls of one user in one second share one        *)
(* evaluation cost.                                                        *)
Call ==
    /\ pc = "loop" /\ SomethingDue
    /\ First \notin destructed /\ ~Disabled(Owner[First])
    /\ call_list' = Popped
    /\ num_callouts' = num_callouts - 1
    /\ called_object' = First
    /\ called' = called \cup {Owner[First]}
    /\ eval_cost' = 1 + IF Owner[First] \in called THEN call_out_cost[Owner[First]] ELSE 0
    /\ pc' = "run"
    /\ UNCHANGED <<timed, destructed, call_out_cost, failed>>

Return ==
    /\ pc = "run" /\ eval_cost <= EvalLimit
    /\ call_out_cost' = [call_out_cost EXCEPT ![Owner[called_object]] = eval_cost]
    /\ pc' = "loop"
    /\ UNCHANGED <<listvars, timed, destructed, called_object, eval_cost, called, failed>>

(* Faulty variant: the user is charged, but not disabled.                 *)
CallbackError_Charged ==
    /\ pc = "run"
    /\ call_out_cost' = [call_out_cost EXCEPT ![Owner[called_object]] = EvalLimit]
    /\ failed' = failed \cup {Owner[called_object]}
    /\ pc' = "loop"
    /\ UNCHANGED <<listvars, timed, destructed, called_object, eval_cost, called>>

(* An error, a too long evaluation among them: the recovery in call_out()  *)
(* disables the user and goes on with the loop.                            *)
CallbackError ==
    /\ pc = "run"
    /\ call_out_cost' = [call_out_cost EXCEPT ![Owner[called_object]] = -1]
    /\ failed' = failed \cup {Owner[called_object]}
    /\ pc' = "loop"
    /\ UNCHANGED <<listvars, timed, destructed, called_object, eval_cost, called>>

Next ==
    \/ \E ob \in Obj, delay \in 0 .. MaxDelay : v_call_out(ob, delay)
    \/ \E i \in DOMAIN call_list : remove_call_out(i)
    \/ remove_stale_call_outs
    \/ \E ob \in Obj : Destruct(ob)
    \/ \E d \in 0 .. MaxStep : StartCycle(d)
    \/ StartPass
    \/ EndPass
    \/ Discard
    \/ Reschedule
    \/ Call
    \/ Return
    \/ CallbackError

Spec == Init /\ [][Next]_vars

(* The driver thread goes on, and a called function ends: by itself or by  *)
(* its evaluation limit.                                                   *)
Fairness == /\ WF_vars(StartPass)
            /\ WF_vars(EndPass \/ Discard \/ Reschedule \/ Call)
            /\ WF_vars(Return \/ CallbackError)

FairSpec == Spec /\ Fairness

-----------------------------------------------------------------------------
Calls == [ob : Obj, delta : Int, wait : Int, skew : Nat, lost : Nat]

TypeOK ==
    /\ call_list \in Seq(Calls) /\ num_callouts \in Nat
    /\ timed \in BOOLEAN /\ destructed \subseteq Obj /\ pc \in Places
    /\ called_object \in Obj \cup {NULL}
    /\ eval_cost \in 0 .. EvalLimit + 1
    /\ called \subseteq User /\ failed \subseteq User
    /\ call_out_cost \in [User -> -1 .. EvalLimit]

(* max_callouts is enforced on a counter that every insertion and removal  *)
(* has to keep: insert_call(), call_out(), find_call_out() twice and       *)
(* remove_stale_call_outs().                                               *)
Counted == /\ num_callouts = Len(call_list)
           /\ num_callouts <= max_callouts

(* insert_call() relies on it: only the first call can be overdue.         *)
OnlyFirstOverdue == \A i \in 2 .. Len(call_list) : call_list[i].delta >= 0

(* Seconds until call i is due, by the list. *)
DueIn(list, i) ==
    LET due[n \in 0 .. Len(list)] == IF n = 0 THEN 0 ELSE due[n - 1] + list[n].delta
    IN  due[i]

(* The deltas keep the time of every call through all insertions, removals *)
(* and ticks: it is due when it was asked for, later by what was lost in   *)
(* the first cycle, earlier by what the head was overdue on insertion.     *)
DeltasKeepTime ==
    \A i \in DOMAIN call_list :
        DueIn(call_list, i) = call_list[i].wait + call_list[i].lost - call_list[i].skew

(* The list is what insert_call(), call_out() and find_call_out() take it  *)
(* for, before and between all calls.                                      *)
QueueExact == Counted /\ OnlyFirstOverdue /\ DeltasKeepTime

(* call_out() leaves nothing behind that should have been called by now.   *)
NothingLeftBehind ==
    [][EndPass => \A i \in DOMAIN call_list :
                      call_list[i].wait + call_list[i].lost > 0]_vars

(* "Disable the user for this call_out cycle": once a call of a user has   *)
(* failed, none of that user's calls is made until the clock has moved.    *)
FailedUserRests == [][Call => Owner[First] \notin failed]_vars

(* Call_outs that set up further call_outs without delay cannot keep the   *)
(* driver in call_out(): each pass ends.                                   *)
PassEnds == pc = "loop" ~> pc = "idle"

(* v_call_out(): "The call will take place in delay seconds" - not before. *)
NeverEarly == [][Call => call_list[1].wait <= 0]_vars

Queue == INSTANCE CallOutQueue
            WITH queue <- [i \in DOMAIN call_list |->
                              [ob |-> call_list[i].ob, at |-> DueIn(call_list, i)]],
                 ticking <- timed

(* The deltas implement a queue of due times: call_outs are called in the  *)
(* order they are due, first come first served among equals, and those set *)
(* while the head is overdue are ahead of their time by that much.         *)
ImplementsQueue == Queue!Spec
=============================================================================
