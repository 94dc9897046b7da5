---------------------------- MODULE ShadowStacks ----------------------------
(***************************************************************************)
(* What shadows amount to: on an object lies a stack of shadows.  A new    *)
(* one comes on top, whoever leaves is taken out, and the others stay      *)
(* where they are.  When the object itself leaves, its first shadow takes  *)
(* its place.                                                              *)
(***************************************************************************)
EXTENDS Integers, SequencesExt

CONSTANT Obj

VARIABLE stacks    \* set of sequences <<object, first shadow, ..., last shadow>>

InStack(o) == \E s \in stacks : o \in ToSet(s)

Init == stacks = {}

Put(shadow, ob) ==
    /\ shadow # ob /\ ~InStack(shadow)
    /\ \/ ~InStack(ob) /\ stacks' = stacks \cup {<<ob, shadow>>}
       \/ \E s \in stacks :
             /\ s[1] = ob
             /\ stacks' = (stacks \ {s}) \cup {Append(s, shadow)}

TakeOut(ob) ==
    \E s \in stacks : \E k \in 1 .. Len(s) :
        /\ s[k] = ob
        /\ LET rest == RemoveAt(s, k)
           IN  stacks' = (stacks \ {s}) \cup IF Len(rest) > 1 THEN {rest} ELSE {}

Next == \E o \in Obj : TakeOut(o) \/ \E shadow \in Obj : Put(shadow, o)

svars == <<stacks>>

Spec == Init /\ [][Next]_svars
=============================================================================
