--------------------------- MODULE MCConnections ---------------------------
(***************************************************************************)
(* Instances of Connections for TLC.                                       *)
(***************************************************************************)
EXTENDS Connections

(* What the LPC code of a mudlib may do in the different calls: users and  *)
(* clients that come and go ...                                            *)
ComingAndGoing ==
    [fn \in Calls |->
        CASE fn = "lpc" -> {"exec", "remove_interactive", "destruct", "net_connect"}
          [] fn = "connect" -> {"exec"}
          [] fn = "logon" -> {"exec"}
          [] fn = "disconnect" -> {"exec", "destruct"}
          [] fn = "valid_exec" -> {"exec", "destruct"}
          [] fn = "valid_snoop" -> {}]

(* ... and users who watch each other.                                     *)
Snooping ==
    [fn \in Calls |->
        CASE fn = "lpc" -> {"exec", "snoop", "destruct"}
          [] fn = "disconnect" -> {"exec", "snoop"}
          [] fn = "valid_snoop" -> {"destruct"}
          [] OTHER -> {}]

Alike == Permutations(User)
=============================================================================
