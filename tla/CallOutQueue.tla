----------------------------- MODULE CallOutQueue -----------------------------
(***************************************************************************)
(* What the list of pending call_outs of src/src/call_out.c amounts to: a  *)
(* queue of calls, each with the number of seconds until it is due, sorted *)
(* by that number and first come, first served among equals.  It also says *)
(* what becomes of a delay asked for while the first call is overdue: it   *)
(* is counted from the time that call was due (Given).                     *)
(***************************************************************************)
EXTENDS Integers, SequencesExt

CONSTANTS Obj, MaxDelay, MaxStep, max_callouts

VARIABLES queue,      \* sequence of [ob, at]: the object, seconds left
          ticking     \* whether the clock of the call_outs runs already

qvars == <<queue, ticking>>

Init == queue = << >> /\ ticking = FALSE

Given(q, delay) == IF q # << >> /\ q[1].at < 0 THEN delay + q[1].at ELSE delay

(* Behind all calls that are due at the same time or earlier. *)
Place(q, at) == Min({i \in 1 .. Len(q) + 1 : i > Len(q) \/ q[i].at > at})

Queued(q, ob, delay) ==
    LET at == Given(q, delay)
    IN  InsertAt(q, Place(q, at), [ob |-> ob, at |-> at])

Ask(ob, delay) == /\ Len(queue) < max_callouts
                  /\ queue' = Queued(queue, ob, delay)
                  /\ UNCHANGED ticking

Withdraw(i) == /\ queue' = RemoveAt(queue, i)
               /\ UNCHANGED ticking

Struck(q, dead, k) == Cardinality({i \in DOMAIN q : i <= k /\ q[i].ob \in dead})

(* Calls of destructed objects are struck off; the others keep their order *)
(* and move forward by the number of those struck before them.             *)
Purge(dead) ==
    /\ queue' \in Seq([ob : Obj, at : Int])
    /\ Len(queue') = Len(queue) - Struck(queue, dead, Len(queue))
    /\ \A i \in DOMAIN queue :
          queue[i].ob \notin dead => queue'[i - Struck(queue, dead, i)] = queue[i]
    /\ UNCHANGED ticking

Fire == /\ queue # << >> /\ queue[1].at <= 0
        /\ queue' = Tail(queue)
        /\ UNCHANGED ticking

PutOff == /\ queue # << >> /\ queue[1].at <= 0
          /\ queue' = Queued(Tail(queue), queue[1].ob, 1)
          /\ UNCHANGED ticking

Tick(d) == /\ queue' = IF ticking THEN [i \in DOMAIN queue |-> [queue[i] EXCEPT !.at = @ - d]]
                       ELSE queue
           /\ ticking' = TRUE

Next == \/ \E ob \in Obj, delay \in 0 .. MaxDelay : Ask(ob, delay)
        \/ \E i \in DOMAIN queue : Withdraw(i)
        \/ \E dead \in SUBSET Obj : Purge(dead)
        \/ Fire
        \/ PutOff
        \/ \E d \in 0 .. MaxStep : Tick(d)

Spec == Init /\ [][Next]_qvars
=============================================================================
