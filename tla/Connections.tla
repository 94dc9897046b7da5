---------------------------- MODULE Connections ----------------------------
(***************************************************************************)
(* Network connections and the objects they are bound to: new_player(),    *)
(* remove_interactive(), set_snoop(), exec(), remove_interactive() as efun *)
(* and net_connect() of src/src/comm.c, with what destruct() and           *)
(* remove_object() of simulate.c contribute.                               *)
(*                                                                         *)
(* A connection (interactive_t) is named by its slot in all_players[].     *)
(* All these functions call LPC code in the middle of their work, and LPC  *)
(* code calls them: frames is the stack of the calls in progress.          *)
(***************************************************************************)
EXTENDS Integers, SequencesExt, FiniteSetsExt

CONSTANTS
    Obj,          \* addresses an object can live at
    NULL,
    master_ob,
    User,         \* objects that connections are given to
    Npc,          \* objects that snoop without a connection
    Caller,       \* objects that call net_connect()
    MAX_PLAYERS,
    May,          \* what the LPC code called by the driver function fn does
    MaxDepth      \* bound of the calls in progress

Calls == {"lpc", "connect", "logon", "disconnect", "valid_exec", "valid_snoop"}
Doings == {"exec", "snoop", "remove_interactive", "destruct", "net_connect"}

ASSUME RolesAssumption == /\ NULL \notin Obj /\ master_ob \in Obj
                          /\ User \subseteq Obj /\ Npc \subseteq Obj
                          /\ Caller \subseteq Obj
ASSUME NullAssumption == NULL \notin 0 .. MAX_PLAYERS - 1
(* What connect() and valid_exec() give connections to is neither the      *)
(* master object nor an object that calls net_connect().                   *)
ASSUME DisjointAssumption == /\ User \cap Caller = {}
                             /\ master_ob \notin User \cup Caller
ASSUME LimitsAssumption == /\ MAX_PLAYERS \in Nat \ {0} /\ MaxDepth \in Nat
                           /\ May \in [Calls -> SUBSET Doings]

VARIABLES
    ob,           \* all_players[c]->ob, NULL when the slot is free
    ip,           \* O_GET_INTERACTIVE of each object
    closing, do_close,
    snoop_on,     \* the connection that a connection snoops ...
    snoop_by,     \* ... and the object that snoops on it
    max_player, num_player,
    curr_obj,     \* outconn[0]: who waits for an outgoing connection
    status,       \* its state
    ref,          \* references to an object counted by comm.c
    destructed, newly_destructed,
    frames        \* calls in progress, <<function, argument, argument>>

slots == <<ob, ip, closing, do_close, max_player, num_player>>
snoops == <<snoop_on, snoop_by>>
outconn == <<curr_obj, status>>
life == <<destructed, newly_destructed>>
vars == <<slots, snoops, outconn, ref, life, frames>>

Slot == 0 .. MAX_PLAYERS - 1
Used == {c \in Slot : ob[c] # NULL}
Live == Obj \ destructed
Interactive(o) == ip[o] # NULL

Init == /\ ob = [c \in Slot |-> NULL] /\ ip = [o \in Obj |-> NULL]
        /\ closing = {} /\ do_close = {}
        /\ snoop_on = [c \in Slot |-> NULL] /\ snoop_by = [c \in Slot |-> NULL]
        /\ max_player = -1 /\ num_player = 0
        /\ curr_obj = NULL /\ status = "ocNotUsed"
        /\ ref = [o \in Obj |-> 0]
        /\ destructed = {} /\ newly_destructed = {}
        /\ frames = << >>

-----------------------------------------------------------------------------
Backend == frames = << >>
Top == frames[Len(frames)]
Returned == SubSeq(frames, 1, Len(frames) - 1)

(* LPC code runs, and does something.                                      *)
LPC(what) == frames # << >> /\ Top[1] \in Calls /\ what \in May[Top[1]]
In(fn) == frames # << >> /\ Top[1] = fn

(* The driver calls LPC code and waits for its return.                     *)
Called(fn, x, y) == Append(frames, <<fn, x, y>>)

(* r with references taken for each of the sequence more and given up for  *)
(* each of less; NULL counts for nothing.                                  *)
Count(s, o) == Cardinality({i \in DOMAIN s : s[i] = o})
Counting(more, less) ==
    [o \in Obj |-> ref[o] + Count(more, o) - Count(less, o)]

(* ----- new_player() ---------------------------------------------------- *)
FirstFree(c) == c \in Slot \ Used /\ \A d \in Slot \ Used : c <= d

(* Faulty variant: the last slot is never scanned.                         *)
MaxPlayerWith_Low(c) == IF c > max_player + 1 THEN c ELSE max_player

MaxPlayerWith(c) == IF c > max_player THEN c ELSE max_player

(* A new connection in the first free slot, bound to the object o.         *)
Linked(c, o) ==
    /\ ob' = [ob EXCEPT ![c] = o]
    /\ ip' = [ip EXCEPT ![o] = c]
    /\ max_player' = MaxPlayerWith(c)
    /\ num_player' = num_player + 1
    /\ UNCHANGED <<closing, do_close>>

(* get_message() accepts a connection, and the master object is called.    *)
(* A full mud and a busy master turn the connection away.                  *)
Accept(c) ==
    /\ Backend /\ FirstFree(c) /\ ~Interactive(master_ob)
    /\ Linked(c, master_ob)
    /\ ref' = Counting(<<master_ob>>, << >>)
    /\ frames' = Called("connect", c, NULL)
    /\ UNCHANGED <<snoops, outconn, life>>

(* Faulty variant: the object is not referenced by its connection.         *)
RebindRefs_Uncounted(o) == Counting(<< >>, <<master_ob>>)

(* Faulty variant: the master object keeps its reference.                  *)
RebindRefs_Leak(o) == Counting(<<o>>, << >>)

RebindRefs(o) == Counting(<<o>>, <<master_ob>>)

(* connect() has returned the object o, which gets the connection.         *)
Rebind(o) ==
    LET c == Top[2] IN
    /\ In("connect") /\ ip[master_ob] = c
    /\ o \in User \cap Live /\ ~Interactive(o)
    /\ ip' = [ip EXCEPT ![master_ob] = NULL, ![o] = c]
    /\ ob' = [ob EXCEPT ![c] = o]
    /\ ref' = RebindRefs(o)
    /\ snoop_by' = IF snoop_on[c] = NULL THEN snoop_by
                   ELSE [snoop_by EXCEPT ![snoop_on[c]] = o]
    /\ frames' = Append(Returned, <<"logon", NULL, NULL>>)
    /\ UNCHANGED <<closing, do_close, max_player, num_player, snoop_on, outconn, life>>

(* connect() has used exec(), and new_player() has nothing left to do.     *)
Execed ==
    /\ In("connect") /\ ip[master_ob] # Top[2]
    /\ frames' = Returned
    /\ UNCHANGED <<slots, snoops, outconn, ref, life>>

-----------------------------------------------------------------------------
(* ----- remove_interactive() -------------------------------------------- *)
(* It asks the master object to disconnect(), unless the object is         *)
(* destructed, and takes the connection down afterwards.                   *)
MaxUsed(S) == IF S = {} THEN 0 ELSE Max(S)

SnoopByWithout(c) == [d \in Slot |-> IF d = c \/ d = snoop_on[c] THEN NULL
                                     ELSE snoop_by[d]]
SnoopOnWithout(c) ==
    [d \in Slot |-> IF \/ d = c
                       \/ snoop_by[c] # NULL /\ d = ip[snoop_by[c]]
                    THEN NULL ELSE snoop_on[d]]

(* Faulty variant: the reference is given up for users as well.            *)
Monster_Any(c) == IF snoop_by[c] # NULL THEN <<snoop_by[c]>> ELSE << >>

(* The snooper that is referenced by the connection c it snoops on.        *)
Monster(c) == IF snoop_by[c] # NULL /\ ~Interactive(snoop_by[c])
              THEN <<snoop_by[c]>> ELSE << >>

(* From the return of disconnect() on.                                     *)
TakenDown(c) ==
    /\ ob' = [ob EXCEPT ![c] = NULL]
    /\ ip' = [ip EXCEPT ![ob[c]] = NULL]
    /\ closing' = closing \ {c} /\ do_close' = do_close \ {c}
    /\ num_player' = num_player - 1
    /\ max_player' = MaxUsed(Used \ {c})
    /\ snoop_on' = SnoopOnWithout(c)
    /\ snoop_by' = SnoopByWithout(c)
    /\ ref' = Counting(<< >>, Monster(c) \o <<ob[c]>>)

(* The call itself, made from the calls below.                             *)
Removed(c, below) ==
    IF ob[c] \in destructed
    THEN TakenDown(c) /\ frames' = below
    ELSE /\ closing' = closing \cup {c}
         /\ do_close' = do_close \ {c}
         /\ frames' = Append(below, <<"disconnect", c, NULL>>)
         /\ UNCHANGED <<ob, ip, max_player, num_player, snoops, ref>>

(* get_message() finds a connection to be closed, or closed by the peer.   *)
Close(c) ==
    /\ Backend /\ c \in Used
    /\ Removed(c, << >>)
    /\ UNCHANGED <<outconn, life>>

(* Faulty variant: the connection is left to time out.                     *)
Rejected_Kept ==
    /\ In("connect") /\ ip[master_ob] = Top[2]
    /\ frames' = Returned
    /\ UNCHANGED <<slots, snoops, ref, outconn, life>>

(* connect() has not returned an object that can be connected.             *)
Rejected ==
    /\ In("connect") /\ ip[master_ob] = Top[2]
    /\ Removed(Top[2], Returned)
    /\ UNCHANGED <<outconn, life>>

Disconnected ==
    /\ In("disconnect")
    /\ TakenDown(Top[2])
    /\ frames' = Returned
    /\ UNCHANGED <<outconn, life>>

(* remove_object() for an object destructed before.                        *)
RemoveObject(o) ==
    /\ Backend /\ o \in newly_destructed
    /\ newly_destructed' = newly_destructed \ {o}
    /\ IF Interactive(o) THEN TakenDown(ip[o])
                         ELSE UNCHANGED <<slots, snoops, ref>>
    /\ UNCHANGED <<outconn, destructed, frames>>

(* The last reference has gone, and the memory is used for a new object.   *)
Recycle(o) ==
    /\ Backend /\ o \in destructed \ newly_destructed /\ ref[o] = 0
    /\ destructed' = destructed \ {o}
    /\ UNCHANGED <<slots, snoops, outconn, ref, newly_destructed, frames>>

-----------------------------------------------------------------------------
(* ----- LPC code -------------------------------------------------------- *)
(* The backend calls LPC code: commands, heart beats, call outs.           *)
Evaluate ==
    /\ Backend
    /\ frames' = Called("lpc", NULL, NULL)
    /\ UNCHANGED <<slots, snoops, outconn, ref, life>>

Return ==
    /\ In("lpc")
    /\ frames' = Returned
    /\ UNCHANGED <<slots, snoops, outconn, ref, life>>

Destruct(o) ==
    /\ LPC("destruct") /\ o \in Live \ {master_ob}
    /\ destructed' = destructed \cup {o}
    /\ newly_destructed' = newly_destructed \cup {o}
    /\ UNCHANGED <<slots, snoops, outconn, ref, frames>>

(* The efun remove_interactive() marks the connection.                     *)
MarkToClose(o) ==
    /\ LPC("remove_interactive") /\ o \in Live /\ Interactive(o)
    /\ ip[o] \notin closing \cup do_close
    /\ do_close' = do_close \cup {ip[o]}
    /\ UNCHANGED <<ob, ip, closing, max_player, num_player, snoops, outconn, ref, life, frames>>

(* exec(new, old), up to the call of valid_exec() ...                      *)
AskToExec(new, old) ==
    /\ LPC("exec") /\ Len(frames) < MaxDepth
    /\ new \in User \cap Live /\ old \in Live
    /\ frames' = Called("valid_exec", new, old)
    /\ UNCHANGED <<slots, snoops, outconn, ref, life>>

(* Faulty variant: the connection that is swapped in keeps its old name    *)
(* with the connection it snoops on.                                       *)
SnoopByAfter_OneSide(new, old) ==
    [d \in Slot |-> IF d = snoop_on[ip[old]] THEN new ELSE snoop_by[d]]

(* The snoopers are known by their objects, which the exec() changes.      *)
SnoopByAfter(new, old) ==
    [d \in Slot |-> IF Interactive(new) /\ d = snoop_on[ip[new]] THEN old
                    ELSE IF d = snoop_on[ip[old]] THEN new
                    ELSE snoop_by[d]]

(* Faulty variant: the connection that new had is not told.                *)
ObAfter_OneSide(new, old) == [ob EXCEPT ![ip[old]] = new]

ObAfter(new, old) == [c \in Slot |-> CASE c = ip[old] -> new
                                       [] c # ip[old] /\ c = ip[new] -> old
                                       [] OTHER -> ob[c]]

(* ... and from its answer on.  new and old may have changed meanwhile;    *)
(* only users are given a connection by valid_exec().                      *)
Exec ==
    LET new == Top[2]
        old == Top[3]
    IN
    /\ In("valid_exec") /\ Interactive(old)
    /\ Interactive(new) => old \in User
    /\ ip' = [ip EXCEPT ![new] = ip[old], ![old] = ip[new]]
    /\ ob' = ObAfter(new, old)
    /\ snoop_by' = SnoopByAfter(new, old)
    /\ ref' = IF Interactive(new) THEN ref ELSE Counting(<<new>>, <<old>>)
    /\ frames' = Returned
    /\ UNCHANGED <<closing, do_close, max_player, num_player, snoop_on, outconn, life>>

(* The master object says no, or an error ends the exec() or snoop().      *)
Refused ==
    /\ In("valid_exec") \/ In("valid_snoop")
    /\ frames' = Returned
    /\ UNCHANGED <<slots, snoops, outconn, ref, life>>

(* set_snoop(me, you), up to the call of valid_snoop() ...                 *)
AskToSnoop(me, you) ==
    /\ LPC("snoop") /\ Len(frames) < MaxDepth
    /\ me \in (User \cup Npc) \cap Live
    /\ Interactive(me) \/ me \in Npc
    /\ you = NULL \/ you \in Live
    /\ frames' = Called("valid_snoop", me, you)
    /\ UNCHANGED <<slots, snoops, outconn, ref, life>>

Me == Top[2]
You == Top[3]
By == ip[Me]

(* The connections one meets from c along snoop_on.                        *)
Chain(c) == {d \in Slot : \A S \in SUBSET Slot :
                c \in S /\ (\A e \in S : snoop_on[e] \in S \cup {NULL}) => d \in S}

(* Faulty variant: only the victim itself is looked at.                    *)
WouldLoop_Near(on) == By = on

WouldLoop(on) == By \in Chain(on)

(* ... and the answer to the wish to stop: the victim is found from the    *)
(* connection of a user, or by the name of a monster.                      *)
Victim == IF By # NULL THEN snoop_on[By]
          ELSE IF \E c \in Used : snoop_by[c] = Me
               THEN Max({c \in Used : snoop_by[c] = Me}) ELSE NULL

StopSnoop ==
    /\ In("valid_snoop") /\ Me \in Live /\ You = NULL
    /\ By \notin closing
    /\ Victim # NULL /\ Victim \notin closing
    /\ snoop_on' = IF By = NULL THEN snoop_on ELSE [snoop_on EXCEPT ![By] = NULL]
    /\ snoop_by' = [snoop_by EXCEPT ![Victim] = NULL]
    /\ ref' = IF By = NULL THEN Counting(<< >>, <<Me>>) ELSE ref
    /\ frames' = Returned
    /\ UNCHANGED <<slots, outconn, life>>

(* The tests made before anything is changed.                              *)
MaySnoop ==
    /\ Me \in Live /\ You \in Live /\ Interactive(You)
    /\ By \notin closing /\ ip[You] \notin closing
    /\ ~WouldLoop(ip[You])
    /\ snoop_by[ip[You]] # NULL => ip[snoop_by[ip[You]]] \notin closing

(* The connection of the previous snooper, whose snoop is ended first.     *)
Previous(on) == IF snoop_by[on] = NULL THEN NULL ELSE ip[snoop_by[on]]

(* The connection that By has snooped on until now.                        *)
Before(on) == IF By = NULL \/ By = Previous(on) THEN NULL ELSE snoop_on[By]

StartSnoop ==
    LET on == ip[You] IN
    /\ In("valid_snoop") /\ You # NULL
    /\ MaySnoop /\ Before(on) \notin closing
    /\ snoop_on' = [c \in Slot |-> CASE c = By -> on
                                     [] c # By /\ c = Previous(on) -> NULL
                                     [] OTHER -> snoop_on[c]]
    /\ snoop_by' = [c \in Slot |-> CASE c = on -> Me
                                     [] c # on /\ c = Before(on) -> NULL
                                     [] OTHER -> snoop_by[c]]
    /\ ref' = Counting(IF By = NULL THEN <<Me>> ELSE << >>, Monster(on))
    /\ frames' = Returned
    /\ UNCHANGED <<slots, outconn, life>>

(* set_snoop() gives up, but has ended the snoop on You already.           *)
OnlyEndSnoop ==
    LET on == ip[You] IN
    /\ In("valid_snoop") /\ You # NULL
    /\ MaySnoop /\ Before(on) \in closing
    /\ snoop_on' = [c \in Slot |-> IF c = Previous(on) THEN NULL ELSE snoop_on[c]]
    /\ snoop_by' = [snoop_by EXCEPT ![on] = NULL]
    /\ ref' = Counting(<< >>, Monster(on))
    /\ frames' = Returned
    /\ UNCHANGED <<slots, outconn, life>>

-----------------------------------------------------------------------------
(* ----- net_connect() and check_for_out_connections() ------------------- *)
(* The connection cannot be completed at once: the table has one entry.    *)
NetConnect(o) ==
    /\ LPC("net_connect") /\ o \in Caller \cap Live /\ status = "ocNotUsed"
    /\ curr_obj' = o /\ status' = "ocUsed"
    /\ ref' = Counting(<<o>>, << >>)
    /\ UNCHANGED <<slots, snoops, life, frames>>

(* The entry is free again, and its reference is given up.                 *)
OutDone == /\ curr_obj' = NULL /\ status' = "ocNotUsed"
           /\ ref' = Counting(<< >>, <<curr_obj>>)

Waiting == Backend /\ status = "ocUsed"

(* The object is destructed, or new_player() turns the connection away.    *)
OutGivenUp ==
    /\ Waiting
    /\ curr_obj \in destructed \/ Slot \subseteq Used \/ Interactive(master_ob)
    /\ OutDone
    /\ UNCHANGED <<slots, snoops, life, frames>>

(* No connection, which logon() is to hear of.                             *)
OutFailed ==
    /\ Waiting /\ curr_obj \in Live
    /\ status' = "ocLoggingOn"
    /\ frames' = Called("logon", curr_obj, NULL)
    /\ UNCHANGED <<slots, snoops, curr_obj, ref, life>>

(* new_player() binds the connection to the object and calls logon() there *)
(* (a call in a destructed object is an error and ends everything).        *)
OutLinked(c) ==
    /\ Linked(c, curr_obj)
    /\ ref' = Counting(<<curr_obj>>, << >>)
    /\ frames' = IF curr_obj \in destructed THEN << >>
                 ELSE Append(IF Backend THEN << >> ELSE Returned, <<"logon", curr_obj, NULL>>)
    /\ UNCHANGED <<snoops, curr_obj, life>>

(* A connection the object has already is removed first.                   *)
OutConnected(c) ==
    /\ Waiting /\ curr_obj \in Live /\ FirstFree(c) /\ ~Interactive(master_ob)
    /\ status' = "ocLoggingOn"
    /\ IF Interactive(curr_obj)
       THEN /\ Removed(ip[curr_obj], <<<<"new_player", c, NULL>>>>)
            /\ UNCHANGED <<curr_obj, life>>
       ELSE OutLinked(c)

OutReplaced == In("new_player") /\ OutLinked(Top[2]) /\ UNCHANGED status

(* logon() returns; it was called for an outgoing connection or not.       *)
LoggedOn ==
    /\ In("logon")
    /\ frames' = Returned
    /\ IF Top[2] = NULL THEN UNCHANGED <<outconn, ref>> ELSE OutDone
    /\ UNCHANGED <<slots, snoops, life>>

(* An error in logon() leads back to the loop of the backend.              *)
LogonError ==
    /\ In("logon")
    /\ frames' = << >>
    /\ UNCHANGED <<slots, snoops, outconn, ref, life>>

(* The entry of a logon() that ended in an error is cleaned up: it counts  *)
(* as unused before the connection is removed.                             *)
OutCleanUp ==
    /\ Backend /\ status = "ocLoggingOn" /\ curr_obj # NULL
    /\ status' = "ocNotUsed"
    /\ IF Interactive(curr_obj)
       THEN /\ Removed(ip[curr_obj], <<<<"clean_up", NULL, NULL>>>>)
            /\ UNCHANGED <<curr_obj, life>>
       ELSE OutDone /\ UNCHANGED <<slots, snoops, life, frames>>

OutCleanedUp ==
    /\ In("clean_up")
    /\ frames' = Returned
    /\ curr_obj' = (IF status = "ocNotUsed" THEN NULL ELSE curr_obj)
    /\ ref' = Counting(<< >>, <<curr_obj>>)
    /\ UNCHANGED <<slots, snoops, status, life>>

-----------------------------------------------------------------------------
Next ==
    \/ Execed \/ Rejected \/ Disconnected
    \/ Evaluate \/ Return \/ Exec \/ Refused
    \/ StopSnoop \/ StartSnoop \/ OnlyEndSnoop
    \/ OutGivenUp \/ OutFailed \/ OutReplaced
    \/ LoggedOn \/ LogonError \/ OutCleanUp \/ OutCleanedUp
    \/ \E c \in Slot : Accept(c) \/ Close(c) \/ OutConnected(c)
    \/ \E o \in Obj : \/ Rebind(o) \/ RemoveObject(o) \/ Recycle(o)
                       \/ Destruct(o) \/ MarkToClose(o) \/ NetConnect(o)
    \/ \E x, y \in Obj : AskToExec(x, y)
    \/ \E x \in Obj, y \in Obj \cup {NULL} : AskToSnoop(x, y)

Spec == Init /\ [][Next]_vars

-----------------------------------------------------------------------------
Ptr == Obj \cup {NULL}

(* The variables have their types; only connections in use are marked, and *)
(* an entry in use has an object ("shouldn't happen", comm.c:8778).        *)
TypeOK ==
    /\ ob \in [Slot -> Ptr] /\ ip \in [Obj -> Slot \cup {NULL}]
    /\ closing \subseteq Used /\ do_close \subseteq Used
    /\ snoop_on \in [Slot -> Slot \cup {NULL}] /\ snoop_by \in [Slot -> Ptr]
    /\ max_player \in -1 .. MAX_PLAYERS - 1 /\ num_player \in Nat
    /\ curr_obj \in Ptr /\ status \in {"ocNotUsed", "ocUsed", "ocLoggingOn"}
    /\ status # "ocNotUsed" => curr_obj # NULL
    /\ ref \in [Obj -> Nat]
    /\ newly_destructed \subseteq destructed /\ destructed \subseteq Obj
    /\ \A i \in DOMAIN frames : frames[i][1] \in Calls \cup {"new_player", "clean_up"}

(* A connection and its object know each other, whatever was executed in   *)
(* connect(), disconnect() and valid_exec(); a removed object has none.    *)
TwoWay ==
    /\ \A c \in Used : ip[ob[c]] = c
    /\ \A o \in Obj : Interactive(o) => /\ ob[ip[o]] = o
                                        /\ o \notin destructed \ newly_destructed

(* get_message() scans from max_player down and so reaches everybody, and  *)
(* num_player is right when heart beats ask for it.                        *)
Reached == /\ \A c \in Used : c <= max_player
           /\ num_player = Cardinality(Used)

(* The two ends of a snoop agree: remove_interactive(), set_snoop() and    *)
(* exec() never leave a pointer to a connection or to an object that is    *)
(* gone, nor one to a snooper who does not know.                           *)
SnoopLinked ==
    \A c \in Slot :
        /\ snoop_on[c] # NULL => /\ c \in Used /\ snoop_on[c] \in Used
                                 /\ snoop_by[snoop_on[c]] = ob[c]
        /\ snoop_by[c] # NULL => /\ c \in Used
                                 /\ Interactive(snoop_by[c]) =>
                                        snoop_on[ip[snoop_by[c]]] = c

(* add_message() passes a message on to the snooper and to his snooper:    *)
(* there is no loop of snoops, though connections change their objects.    *)
NoSnoopLoop == \A c \in Slot : snoop_on[c] # NULL => c \notin Chain(snoop_on[c])

(* count_comm_extra_refs(): an object is referenced by its connection, by  *)
(* each connection that it snoops on without having one, and by the entry  *)
(* for its outgoing connection.                                            *)
RefsExact ==
    \A o \in Obj :
        ref[o] = Cardinality({c \in Slot : ob[c] = o})
               + (IF Interactive(o) THEN 0 ELSE Cardinality({c \in Slot : snoop_by[c] = o}))
               + (IF curr_obj = o THEN 1 ELSE 0)

(* The master object has a connection only while connect() decides on it   *)
(* or while it is taken down: new_player() turns nobody away for long.     *)
MasterFree ==
    Interactive(master_ob) =>
        /\ frames # << >>
        /\ frames[1][1] \in {"connect", "disconnect"}
        /\ frames[1][2] = ip[master_ob]

-----------------------------------------------------------------------------
(* What makes TwoWay and MasterFree inductive.  An object that is called   *)
(* or waits for an answer has not been removed in the meantime ...         *)
Gone == destructed \ newly_destructed

Typed ==
    /\ ob \in [Slot -> Ptr] /\ ip \in [Obj -> Slot \cup {NULL}]
    /\ curr_obj \in Caller \cup {NULL}
    /\ newly_destructed \subseteq destructed /\ destructed \subseteq Obj
    /\ master_ob \notin destructed
    /\ frames \in Seq((Calls \cup {"new_player", "clean_up"})
                      \X (Slot \cup Ptr) \X Ptr)

FrameOK(f) ==
    /\ f[1] \in {"connect", "disconnect"} => f[2] \in Slot
    /\ f[1] = "valid_exec" => f[2] \in User \ Gone /\ f[3] \in Obj

(* ... only disconnect() and questions to the master object come on top of *)
(* other calls, and disconnect() not on top of questions ...               *)
Nesting ==
    \A i \in DOMAIN frames :
        /\ FrameOK(frames[i])
        /\ i > 1 => frames[i][1] \in {"disconnect", "valid_exec", "valid_snoop"}
        /\ i > 2 => frames[i][1] # "disconnect"

(* ... and the slot that new_player() has chosen stays free while the      *)
(* previous connection of the object is removed, which leaves it with none.*)
Replacing ==
    frames # << >> /\ frames[1][1] = "new_player" =>
        /\ frames[1][2] \in Slot /\ ob[frames[1][2]] = NULL
        /\ curr_obj \in Caller \ Gone /\ status = "ocLoggingOn"
        /\ Interactive(curr_obj) => /\ Len(frames) > 1
                                    /\ frames[2][1] = "disconnect"
                                    /\ frames[2][2] = ip[curr_obj]

IInv == Typed /\ TwoWay /\ MasterFree /\ Nesting /\ Replacing
=============================================================================
