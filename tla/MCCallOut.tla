------------------------------ MODULE MCCallOut ------------------------------
(***************************************************************************)
(* Instances of CallOut for TLC.                                           *)
(***************************************************************************)
EXTENDS CallOut

CONSTANTS o1, o2, u1, u2

TwoOwners == (o1 :> u1) @@ (o2 :> u2)

(* Users take each other's place together with their objects.              *)
Swaps ==
    {p \in Permutations(Obj \cup User) :
        \A ob \in Obj : p[ob] \in Obj /\ p[Owner[ob]] = Owner[p[ob]]}
=============================================================================
