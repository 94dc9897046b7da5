----------------------------- MODULE MCCommands -----------------------------
(***************************************************************************)
(* Instances of Commands for TLC.                                          *)
(***************************************************************************)
EXTENDS Commands

(* Slot 0 is limited, and asked for passwords; slot 1 may have an editor,  *)
(* and functions that take even lines with the input escape.               *)
Limits == [c \in Slot |-> IF c = 0 THEN 1 ELSE -1]

Prompts ==
    [c \in Slot |->
        IF c = 0 THEN {<<"INPUT_TO", {"NOECHO"}>>, <<"INPUT_TO", {}>>}
        ELSE {<<"INPUT_ED", {}>>, <<"INPUT_TO", {"IGNORE_BANG"}>>}]

Lines == [c \in Slot |-> IF c = 0 THEN 1 ELSE 3]
Room == [c \in Slot |-> IF c = 0 THEN 2 ELSE 3]
=============================================================================
