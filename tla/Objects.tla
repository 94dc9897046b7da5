------------------------------ MODULE Objects ------------------------------
(***************************************************************************)
(* The life of objects: how they enter the list of all objects, how        *)
(* destruct() takes them out of it (simulate.c), when they are freed       *)
(* (object.h, simulate.c), and process_objects() of backend.c, which goes  *)
(* round the list and calls reset() and clean_up() in the objects while    *)
(* these calls create and destruct objects.                                *)
(***************************************************************************)
EXTENDS Integers, SequencesExt, FiniteSets

CONSTANTS
    Obj,          \* addresses an object can live at
    NULL,
    Blueprint,    \* the ones given to blueprints, not to clones
    Holder        \* the ones whose object has a variable for an object

ASSUME HeapAssumption == /\ NULL \notin Obj /\ IsFiniteSet(Obj)
                         /\ Blueprint \subseteq Obj /\ Holder \subseteq Obj

VARIABLES
    heap,         \* the object lists and the references, see TypeOK
    alarm,        \* comm_time_to_call_heart_beat: the timeslot has run out
    prevent_object_cleanup,
    pc,           \* where the backend is
    obj,          \* the object process_objects() works on
    num_last_processed, did_reset, did_swap,
    young         \* created since the last visit of process_objects(): not due

(* In LPC code or between commands and timed events; in the main loop's    *)
(* cleanup; at the head of the loop of process_objects(), in its calls.    *)
Places == {"lpc", "cleanup", "loop", "reset", "clean", "clean_up", "rest"}

slice == <<num_last_processed, did_reset, did_swap>>
vars == <<heap, alarm, prevent_object_cleanup, pc, obj, slice, young>>

-----------------------------------------------------------------------------
(* Faulty variant: the flag is set only with the last reference.           *)
FlagAt_Last == 1

(* free_object(): one reference less.  Without any the memory is freed.    *)
FlagAt == 2
Freed(h, o) ==
    IF o = NULL THEN h
    ELSE [h EXCEPT !.dest_last_ref_gone = @ \/ h.ref[o] = FlagAt,
                   !.ref[o] = @ - 1,
                   !.destructed = IF h.ref[o] = 1 THEN @ \ {o} ELSE @]

Live(h) == {o \in Obj : h.ref[o] > 0} \ h.destructed

(* Before o comes p and after it n, in a doubly linked list.               *)
LinkPrev(h, n, p) == IF n = NULL THEN h ELSE [h EXCEPT !.prev_all[n] = p]
LinkNext(h, p, n) == IF p = NULL THEN h ELSE [h EXCEPT !.next_all[p] = n]
Unlinked(h, o) ==
    LinkPrev(LinkNext(h, h.prev_all[o], h.next_all[o]),
             h.next_all[o], h.prev_all[o])

(* The members of a list, in order, as far as Card(Obj) links show them.   *)
Walk(h, first) ==
    LET places == 1 .. Cardinality(Obj)
        at[n \in 0 .. Cardinality(Obj)] ==
            IF n <= 1 THEN first
            ELSE IF at[n - 1] = NULL THEN NULL ELSE h.next_all[at[n - 1]]
    IN  [n \in 1 .. Cardinality({m \in places : at[m] # NULL}) |-> at[n]]

(* load_object() and clone_object() put the new object first.              *)
Listed(h, o) ==
    [LinkPrev(h, h.obj_list, o) EXCEPT
        !.next_all[o] = h.obj_list, !.prev_all[o] = NULL,
        !.obj_list = o,
        !.obj_list_end = IF @ = NULL THEN o ELSE @,
        !.num_listed_objs = @ + 1,
        !.ref[o] = IF o \in Blueprint THEN 2 ELSE 1,
        !.blueprints = IF o \in Blueprint THEN @ \cup {o} ELSE @]

(* Faulty variant: the end of the list is not updated.                     *)
EndWithout_Kept(h, o) == h.obj_list_end
(* obj_list_end without o                                                  *)
EndWithout(h, o) == IF h.obj_list_end = o THEN h.prev_all[o] ELSE h.obj_list_end

(* destruct()                                                              *)
Destructed(h, o) ==
    [Unlinked(h, o) EXCEPT
        !.obj_list = IF @ = o THEN h.next_all[o] ELSE @,
        !.obj_list_end = EndWithout(h, o),
        !.num_listed_objs = @ - 1,
        !.destructed = @ \cup {o},
        !.prev_all[o] = NULL,
        !.next_all[o] = h.newly_destructed_objs,
        !.newly_destructed_objs = o,
        !.num_newly_destructed = @ + 1]

(* o leaves the variable of v, or w replaces it.                           *)
Assigned(h, v, w) ==
    LET hw == IF w = NULL THEN h ELSE [h EXCEPT !.ref[w] = @ + 1]
    IN  [Freed(hw, h.variable[v]) EXCEPT !.variable[v] = w]

(* Faulty variant: the reference of the program is forgotten.              *)
WithoutBlueprint_Leak(h, o) == [h EXCEPT !.blueprints = @ \ {o}]
(* The program of o no longer names it as its blueprint.                   *)
WithoutBlueprint(h, o) ==
    IF o \in h.blueprints
    THEN Freed([h EXCEPT !.blueprints = @ \ {o}], o) ELSE h

(* Blueprints that are destructed, but still named by the program of their *)
(* clones (NULL: none of them).                                            *)
Outdated(h) == (h.blueprints \cap h.destructed) \cup {NULL}

(* remove_object(): only the reference of the list may be left.            *)
RemoveObject(h0, o) ==
    LET h1 == WithoutBlueprint(h0, o)
        h == IF o \in Holder THEN Assigned(h1, o, NULL) ELSE h1
    IN  IF h.ref[o] <= 1 THEN Freed(h, o)
        ELSE [LinkPrev(h, h.destructed_objs, o) EXCEPT
                 !.next_all[o] = h.destructed_objs, !.prev_all[o] = NULL,
                 !.destructed_objs = o,
                 !.num_destructed = @ + 1]

HandleNewlyDestructed(h) ==
    LET list == Walk(h, h.newly_destructed_objs)
        after[n \in 0 .. Len(list)] ==
            IF n = 0 THEN [h EXCEPT !.newly_destructed_objs = NULL,
                                    !.num_newly_destructed = 0]
            ELSE RemoveObject(after[n - 1], list[n])
    IN  after[Len(list)]

(* remove_destructed_objects(FALSE)                                        *)
Victim(h, o) ==
    IF h.ref[o] > 1 THEN h
    ELSE Freed([Unlinked(h, o) EXCEPT
                   !.destructed_objs = IF @ = o THEN h.next_all[o] ELSE @,
                   !.num_destructed = @ - 1], o)
RemoveDestructed(h) ==
    LET list == Walk(h, h.destructed_objs)
        after[n \in 0 .. Len(list)] ==
            IF n = 0 THEN [h EXCEPT !.dest_last_ref_gone = FALSE]
            ELSE Victim(after[n - 1], list[n])
    IN  IF ~h.dest_last_ref_gone THEN h ELSE after[Len(list)]

(* Faulty variant: the closure keeps its reference to the object.          *)
CleanupStuff_Leak(h) == HandleNewlyDestructed([h EXCEPT !.hook_ob = NULL])
(* cleanup_stuff(): the closure of H_CLEAN_UP goes back to the master      *)
(* (NULL), and what was newly destructed is removed.                       *)
CleanupStuff(h) == HandleNewlyDestructed([Freed(h, h.hook_ob) EXCEPT !.hook_ob = NULL])

(* Data cleaning of the objects of S forgets destructed objects.           *)
DataCleaned(h, S) ==
    LET cleaned == {v \in S \cap Holder : h.variable[v] \in h.destructed}
        left(o) == h.ref[o] - Cardinality({v \in cleaned : h.variable[v] = o})
    IN  [h EXCEPT
            !.variable = [v \in Holder |-> IF v \in cleaned THEN NULL ELSE h.variable[v]],
            !.ref = [o \in Obj |-> left(o)],
            !.destructed = {o \in @ : left(o) > 0},
            !.dest_last_ref_gone = @ \/ \E o \in Obj : h.ref[o] >= FlagAt /\ left(o) < FlagAt]

(* Faulty variant: the list is not turned.                                 *)
Rotated_Never(h) == h
(* The object at hand goes from the head of the list to its end.           *)
Rotated(h) ==
    LET o == h.obj_list  n == h.next_all[o]  e == h.obj_list_end
    IN  IF o = e THEN h
        ELSE [h EXCEPT !.obj_list = n, !.obj_list_end = o,
                       !.prev_all = [@ EXCEPT ![n] = NULL, ![o] = e],
                       !.next_all = [@ EXCEPT ![o] = NULL, ![e] = o]]

-----------------------------------------------------------------------------
Init ==
    /\ heap = [next_all |-> [o \in Obj |-> NULL], prev_all |-> [o \in Obj |-> NULL],
               obj_list |-> NULL, obj_list_end |-> NULL,
               newly_destructed_objs |-> NULL, destructed_objs |-> NULL,
               num_listed_objs |-> 0, num_newly_destructed |-> 0,
               num_destructed |-> 0,
               ref |-> [o \in Obj |-> 0], destructed |-> {}, blueprints |-> {},
               variable |-> [o \in Holder |-> NULL], hook_ob |-> NULL,
               dest_last_ref_gone |-> FALSE]
    /\ alarm = FALSE /\ prevent_object_cleanup = FALSE
    /\ pc = "lpc" /\ obj = NULL
    /\ num_last_processed = 0 /\ did_reset = FALSE /\ did_swap = FALSE
    /\ young = {}

(* The interval timer of the driver.                                       *)
Alarm == /\ ~alarm /\ alarm' = TRUE
         /\ UNCHANGED <<heap, prevent_object_cleanup, pc, obj, slice, young>>

(* LPC code: of commands, heart beats and call_outs, or of the object at   *)
(* hand.                                                                   *)
LPC == pc \in {"lpc", "reset", "clean_up"}
      /\ UNCHANGED <<alarm, prevent_object_cleanup, pc, obj, slice>>

Create(o) ==
    /\ LPC /\ heap.ref[o] = 0
    /\ heap' = Listed(heap, o)
    /\ young' = young \cup {o}

Destruct(o) ==
    /\ LPC /\ o \in Live(heap)
    /\ heap' = Destructed(heap, o)
    /\ young' = young \ {o}

(* A destructed object is seen as the number 0: it can only be forgotten.  *)
Assign(v, w) ==
    /\ LPC /\ v \in Live(heap) /\ w \in Live(heap) \cup {NULL}
    /\ heap.variable[v] # w
    /\ heap' = Assigned(heap, v, w)
    /\ UNCHANGED young

(* clone_object() of a clone whose program names a destructed blueprint    *)
(* gives that up, and loads a new one.                                     *)
LoseBlueprint(o) ==
    /\ LPC /\ o \in Outdated(heap) \ {NULL}
    /\ Live(heap) \ Blueprint # {}
    /\ heap' = WithoutBlueprint(heap, o)
    /\ UNCHANGED young

(* cleanup_stuff() in the main loop, with now and then a cleanup of all:   *)
(* by then no blueprint is Outdated.                                       *)
Prevented(h) ==
    IF prevent_object_cleanup THEN h.num_listed_objs < h.num_destructed \div 2
    ELSE h.num_listed_objs <= h.num_destructed
MainCleanup ==
    /\ pc = "cleanup"
    /\ LET h == CleanupStuff(heap)
       IN  /\ prevent_object_cleanup' = Prevented(h)
           /\ heap' = IF Prevented(h) /\ ~prevent_object_cleanup
                      THEN DataCleaned(h, Live(h)) ELSE h
    /\ pc' = "lpc"
    /\ UNCHANGED <<alarm, obj, slice, young>>

NoTimedEvents ==
    /\ pc = "lpc" /\ pc' = "cleanup"
    /\ UNCHANGED <<heap, alarm, prevent_object_cleanup, obj, slice, young>>

(* call_heart_beat() and call_out() are done: process_objects() begins.    *)
(* The alarm it watches was taken back before the heart beats.             *)
ProcessObjects ==
    /\ pc = "lpc" /\ pc' = "loop"
    /\ alarm' \in BOOLEAN
    /\ heap' = RemoveDestructed(heap)
    /\ num_last_processed' = 0 /\ did_reset' = FALSE /\ did_swap' = FALSE
    /\ UNCHANGED <<prevent_object_cleanup, obj, young>>

MoreToProcess == /\ heap.obj_list # NULL
                 /\ ~did_reset \/ ~did_swap \/ ~alarm
                 /\ num_last_processed < heap.num_listed_objs

(* The next object; its reset may be due.                                  *)
Visit ==
    /\ pc = "loop" /\ MoreToProcess
    /\ obj' = heap.obj_list
    /\ heap' = Rotated(heap)
    /\ num_last_processed' = num_last_processed + 1
    /\ young' = young \ {obj'}
    /\ \/ /\ obj' \notin young /\ (~did_reset \/ ~alarm)
          /\ pc' = "reset" /\ did_reset' = TRUE
       \/ obj' \notin young /\ pc' = "clean" /\ UNCHANGED did_reset
       \/ obj' \in young /\ pc' = "rest" /\ UNCHANGED did_reset
    /\ UNCHANGED <<alarm, prevent_object_cleanup, did_swap>>

EndOfPass ==
    /\ pc = "loop" /\ ~MoreToProcess
    /\ pc' = "cleanup" /\ obj' = NULL
    /\ UNCHANGED <<heap, alarm, prevent_object_cleanup, slice, young>>

(* Faulty variant: O_DESTRUCTED is not tested.                             *)
AfterCall_Untested(o) == "rest"
(* reset() or clean_up() returned, and the object may be gone ...          *)
AfterCall(o) == IF o \in heap.destructed THEN "loop" ELSE "rest"
Return ==
    /\ pc \in {"reset", "clean_up"}
    /\ pc' = AfterCall(obj)
    /\ UNCHANGED <<heap, alarm, prevent_object_cleanup, obj, slice, young>>

(* ... or it ended with an error, and the loop begins anew.                *)
Error ==
    /\ pc \in {"reset", "clean_up"} /\ pc' = "loop"
    /\ UNCHANGED <<heap, alarm, prevent_object_cleanup, obj, slice, young>>

(* clean_up() is due; a closure of the hook is bound to the object.        *)
CleanUp ==
    /\ pc = "clean" /\ (~did_swap \/ ~alarm)
    /\ did_swap' = TRUE
    /\ LET h == RemoveDestructed(CleanupStuff(heap))
       IN  heap' \in {h, [h EXCEPT !.hook_ob = obj, !.ref[obj] = @ + 1]}
    /\ pc' = "clean_up"
    /\ UNCHANGED <<alarm, prevent_object_cleanup, obj, num_last_processed,
                   did_reset, young>>

NoCleanUp ==
    /\ pc = "clean" /\ pc' = "rest"
    /\ UNCHANGED <<heap, alarm, prevent_object_cleanup, obj, slice, young>>

(* Data cleaning, of the blueprint of the program first, and swapping, as  *)
(* they are due.                                                           *)
Rest ==
    /\ pc = "rest" /\ pc' = "loop"
    /\ heap' \in {heap} \cup {DataCleaned(WithoutBlueprint(heap, o), {obj}) :
                              o \in Outdated(heap)}
    /\ did_swap' \in {did_swap, TRUE}
    /\ UNCHANGED <<alarm, prevent_object_cleanup, obj, num_last_processed,
                   did_reset, young>>

Driver == \/ MainCleanup \/ NoTimedEvents \/ ProcessObjects \/ Visit \/ EndOfPass
          \/ Return \/ CleanUp \/ NoCleanUp \/ Rest

Next == \/ Alarm \/ Driver \/ Error
        \/ \E o \in Obj : Create(o) \/ Destruct(o) \/ LoseBlueprint(o)
        \/ \E v \in Holder, w \in Obj \cup {NULL} : Assign(v, w)

Spec == Init /\ [][Next]_vars

(* Every call returns, so the backend goes on: at each pc one of its steps *)
(* is enabled.  The timer brings the timed events time and again.          *)
GoesOn == \E place \in Places : place # pc /\ pc' = place
TimedEvents == pc = "lpc" /\ pc' = "loop"
Fairness == WF_pc(GoesOn) /\ SF_pc(TimedEvents)
FairSpec == Spec /\ Fairness
-----------------------------------------------------------------------------
(* The heap has its shape; pc and the slice of time stay in their ranges.  *)
TypeOK ==
    /\ heap \in [next_all : [Obj -> Obj \cup {NULL}],
                 prev_all : [Obj -> Obj \cup {NULL}],
                 obj_list : Obj \cup {NULL}, obj_list_end : Obj \cup {NULL},
                 newly_destructed_objs : Obj \cup {NULL},
                 destructed_objs : Obj \cup {NULL},
                 num_listed_objs : 0 .. Cardinality(Obj),
                 num_newly_destructed : 0 .. Cardinality(Obj),
                 num_destructed : 0 .. Cardinality(Obj),
                 ref : [Obj -> 0 .. Cardinality(Holder) + 3],
                 destructed : SUBSET Obj, blueprints : SUBSET Blueprint,
                 variable : [Holder -> Obj \cup {NULL}],
                 hook_ob : Obj \cup {NULL}, dest_last_ref_gone : BOOLEAN]
    /\ alarm \in BOOLEAN /\ prevent_object_cleanup \in BOOLEAN
    /\ pc \in Places
    /\ obj \in Obj \cup {NULL} /\ young \subseteq Obj
    /\ num_last_processed \in Nat /\ did_reset \in BOOLEAN /\ did_swap \in BOOLEAN

(* A list of the objects of S: it ends, and shows each of them once.       *)
IsListOf(first, S, num) ==
    LET w == Walk(heap, first)
    IN  /\ ToSet(w) = S /\ Len(w) = Cardinality(S) /\ num = Len(w)
        /\ w # << >> => heap.next_all[Last(w)] = NULL

BackLinked(first) ==
    LET w == Walk(heap, first)
    IN  \A n \in DOMAIN w : heap.prev_all[w[n]] = IF n = 1 THEN NULL ELSE w[n - 1]

(* Whatever reset(), clean_up() and other code create and destruct while   *)
(* process_objects() turns the list round, the list of all objects holds   *)
(* the live objects, the other two the destructed ones, each object once;  *)
(* the links back, the end of the list and the counters agree.             *)
ListsExact ==
    LET newly == ToSet(Walk(heap, heap.newly_destructed_objs))
    IN  /\ IsListOf(heap.obj_list, Live(heap), heap.num_listed_objs)
        /\ BackLinked(heap.obj_list)
        /\ heap.obj_list_end = IF heap.obj_list = NULL THEN NULL
                               ELSE Last(Walk(heap, heap.obj_list))
        /\ newly \subseteq heap.destructed
        /\ IsListOf(heap.newly_destructed_objs, newly, heap.num_newly_destructed)
        /\ IsListOf(heap.destructed_objs, heap.destructed \ newly,
                    heap.num_destructed)
        /\ BackLinked(heap.destructed_objs)

(* The references of an object are the one of its list and those of the    *)
(* variables, of its program and of the hook that name it: no memory is    *)
(* freed that is still named, and none of an object without names leaks.   *)
RefsExact ==
    \A o \in Obj :
        heap.ref[o] = Cardinality({v \in Holder : heap.variable[v] = o})
                    + (IF o \in heap.blueprints THEN 1 ELSE 0)
                    + (IF heap.hook_ob = o THEN 1 ELSE 0)
                    + (IF \E first \in {heap.obj_list, heap.newly_destructed_objs,
                                        heap.destructed_objs} :
                             o \in ToSet(Walk(heap, first)) THEN 1 ELSE 0)

(* process_objects() reads the object at hand only while its memory is     *)
(* there, and neither cleans up nor swaps an object that its own reset()   *)
(* or clean_up() destructed.                                               *)
ObjAtHand ==
    /\ pc \in {"reset", "clean_up"} => heap.ref[obj] > 0
    /\ pc \in {"clean", "rest"} => obj \in Live(heap)

(* Although each call of process_objects() may have the time for one       *)
(* object only, and new objects come in at the head of the list, every     *)
(* object is visited time and again while it lives.                        *)
EveryoneVisited ==
    \A o \in Obj : []<>(o \notin Live(heap) \/ (obj = o /\ pc # "loop"))

(* When nothing names a destructed object any more it is freed, although   *)
(* the lists are scanned only when dest_last_ref_gone says so.             *)
FreedEventually ==
    \A o \in Obj : (o \in heap.destructed /\ heap.ref[o] = 1) ~> (heap.ref[o] = 0)
=============================================================================
