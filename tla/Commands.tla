------------------------------ MODULE Commands ------------------------------
(***************************************************************************)
(* The lines that users type: the scan of get_message() over the           *)
(* connections, and the handlers of input that take a line before it is    *)
(* executed as a command - input_to(), remove_input_to() and ed() with the *)
(* echo that they ask for (src/src/comm.c, backend.c, ed.c).               *)
(*                                                                         *)
(* A connection is named by its slot in all_players[].                     *)
(***************************************************************************)
EXTENDS Integers, SequencesExt, FiniteSetsExt

CONSTANTS
    MAX_PLAYERS,
    ALLOWED_ED_CMDS,
    MaxNumCmds,   \* commands a second each connection may give, -1: any number
    Asks,         \* the kinds of handlers that LPC code sets at a connection
    Habits,       \* what LPC code does without a thought to the echo
    MaxLines,     \* bound of the lines in the buffer of each connection
    MaxHandlers   \* bound of the handlers of each connection

Slot == 0 .. MAX_PLAYERS - 1
Types == {"INPUT_TO", "INPUT_ED"}
Flags == {"NOECHO", "IGNORE_BANG"}
STALE == "NOECHO_STALE"

ASSUME LimitsAssumption == /\ MAX_PLAYERS \in Nat \ {0} /\ ALLOWED_ED_CMDS \in Nat
                           /\ MaxNumCmds \in [Slot -> Nat \cup {-1}]
                           /\ MaxLines \in [Slot -> Nat \ {0}]
                           /\ MaxHandlers \in [Slot -> Nat]
ASSUME HandlersAssumption == /\ Asks \in [Slot -> SUBSET (Types \X SUBSET Flags)]
                             /\ Habits \subseteq {"append", "remove last"}

VARIABLES
    players,        \* slots of all_players[] in use
    do_close,       \* connections to be closed
    text,           \* complete lines received from each connection
    readfds,        \* connections that select() found data at
    NextCmdGiver,   \* connection to be looked at
    CmdsGiven,      \* commands it gave to the editor in this cycle
    numCmds,        \* .numCmds, -1 when .last_time is in the past
    input_handler,  \* the list of handlers of each connection
    noecho,         \* flags of its input mode
    eval,           \* the evaluation in progress, <<what, connection>>
    given, spent    \* history: lines taken in this cycle, in this second

conns == <<players, do_close>>
scan == <<readfds, NextCmdGiver, CmdsGiven>>
handlers == <<input_handler, noecho>>
counts == <<numCmds, given, spent>>
vars == <<conns, text, scan, handlers, counts, eval>>

Idle == <<"idle", -1>>

Init == /\ players = {} /\ do_close = {} /\ readfds = {}
        /\ text = [c \in Slot |-> 0]
        /\ NextCmdGiver = -1 /\ CmdsGiven = 0
        /\ numCmds = [c \in Slot |-> 0]
        /\ input_handler = [c \in Slot |-> << >>]
        /\ noecho = [c \in Slot |-> {}]
        /\ eval = Idle
        /\ given = [c \in Slot |-> 0] /\ spent = [c \in Slot |-> 0]

-----------------------------------------------------------------------------
(* Faulty variant: the next user of a slot finds the handlers of the last. *)
Cleared_Kept(f, S, v) == f

(* The values that remove_interactive() and a later new_player() leave in  *)
(* the slots S.                                                            *)
Cleared(f, S, v) == [c \in Slot |-> IF c \in S THEN v ELSE f[c]]
Emptied(S) == /\ players' = players \ S
              /\ do_close' = do_close \ S
              /\ input_handler' = Cleared(input_handler, S, << >>)
              /\ noecho' = Cleared(noecho, S, {})
              /\ numCmds' = Cleared(numCmds, S, 0)
              /\ spent' = Cleared(spent, S, 0)

(* Faulty variant: the scan starts at the number of the players.           *)
StartCmdGiver_Count == Cardinality(players) - 1

(* StartCmdGiver: max_player is the highest slot in use.                   *)
StartCmdGiver == IF players = {} THEN 0 ELSE Max(players)

(* A new cycle begins: marked connections are removed, select() reports    *)
(* those with data among the ones with no complete line, and a new player  *)
(* may get the first free slot, which this scan need not reach.  LPC code  *)
(* runs: logon(), or the heart beats when an alarm came.                   *)
Select ==
    /\ eval = Idle /\ NextCmdGiver < 0
    /\ Emptied(do_close)
    /\ readfds' \in SUBSET {c \in players' : text[c] = 0}
    /\ text' = Cleared(text, do_close, 0)
    /\ given' = [c \in Slot |-> 0]
    /\ CmdsGiven' = 0
    /\ NextCmdGiver' = StartCmdGiver
    /\ eval' \in {Idle, <<"lpc", -1>>}

(* logon() is called, with the new connection as current_interactive.      *)
NewPlayer(c) ==
    /\ eval = <<"lpc", -1>> /\ NextCmdGiver = StartCmdGiver
    /\ c \notin players /\ \A d \in Slot \ players : c <= d
    /\ players' = players \cup {c}
    /\ numCmds' = [numCmds EXCEPT ![c] = 0]
    /\ eval' = <<"lpc", c>>
    /\ UNCHANGED <<do_close, text, scan, handlers, given, spent>>

(* remove_destructed_objects() takes a destructed user out of the list.    *)
Leave(c) ==
    /\ eval = Idle /\ c \in do_close
    /\ Emptied({c})
    /\ text' = Cleared(text, {c}, 0)
    /\ given' = Cleared(given, {c}, 0)
    /\ UNCHANGED <<scan, eval>>

Scanning == eval = Idle /\ NextCmdGiver >= 0
Here == NextCmdGiver
DecreaseCmdGiver == NextCmdGiver' = NextCmdGiver - 1

(* The commands of this second are used up.                                *)
LimitReached(c) == /\ MaxNumCmds[c] >= 0 /\ numCmds[c] >= MaxNumCmds[c]

(* Nobody is here, or nothing of interest.                                 *)
PassOver ==
    /\ Scanning
    /\ \/ Here \notin players \/ LimitReached(Here)
       \/ Here \notin readfds /\ text[Here] = 0
    /\ DecreaseCmdGiver
    /\ UNCHANGED <<conns, text, readfds, CmdsGiven, handlers, counts, eval>>

Readable == Scanning /\ Here \in players \cap readfds /\ ~LimitReached(Here)

(* The data make no complete line yet, or the read is to be tried again.   *)
ReadPart ==
    /\ Readable
    /\ DecreaseCmdGiver
    /\ UNCHANGED <<conns, text, readfds, CmdsGiven, handlers, counts, eval>>

(* The peer has closed the connection.                                     *)
ReadEnd ==
    /\ Readable
    /\ Emptied({Here})
    /\ given' = Cleared(given, {Here}, 0)
    /\ DecreaseCmdGiver
    /\ UNCHANGED <<text, readfds, CmdsGiven, eval>>

-----------------------------------------------------------------------------
Handlers(c) == input_handler[c]
IsEd(h) == h.type = "INPUT_ED"
Editing(c) == Handlers(c) # << >> /\ IsEd(Handlers(c)[1])

(* Faulty variant: the editor may go on as long as there are lines.        *)
StaysWith_Forever(c) == Editing(c)

(* The scan stays with a user in the editor for some more commands.        *)
StaysWith(c) == Editing(c) /\ CmdsGiven < ALLOWED_ED_CMDS

(* .numCmds, which starts with 0 for the first command of a second.  Where *)
(* there is no limit nothing depends on it, and it is left alone.          *)
Counted(c) == IF MaxNumCmds[c] < 0 THEN numCmds ELSE [numCmds EXCEPT ![c] = @ + 1]

(* set_noecho(c, flags): an old NOECHO_STALE goes, too.                    *)
set_noecho(c, flags) == [noecho EXCEPT ![c] = flags]

(* The mode that the first of the handlers list asks for.                  *)
ModeOf(list) == IF list = << >> THEN {} ELSE list[1].noecho

(* The end of call_function_interactive() for an INPUT_TO.                 *)
Settled(c) == IF STALE \in noecho[c] THEN set_noecho(c, ModeOf(Handlers(c))) ELSE noecho

(* Faulty variant: the echo is not watched during the call.                *)
MarkedStale_Never(c) == noecho

(* The flags are stale unless the call asks for them again.                *)
MarkedStale(c) == IF noecho[c] = {} THEN noecho
                  ELSE [noecho EXCEPT ![c] = @ \cup {STALE}]

(* Where the handler of a line is in the list, 0 when there is none: a     *)
(* line with the input escape is for a handler that ignores it.            *)
HandlerFor(c, bang) ==
    LET fit == {i \in DOMAIN Handlers(c) :
                   bang => "IGNORE_BANG" \in Handlers(c)[i].noecho}
    IN  IF fit = {} THEN 0 ELSE Min(fit)

(* A complete line: of the connection at hand, from the buffer or with the *)
(* data that are read now.                                                 *)
TakeLine(lines) ==
    /\ Scanning /\ Here \in players /\ ~LimitReached(Here)
    /\ IF Here \in readfds THEN lines \in 1 .. MaxLines[Here]
       ELSE text[Here] > 0 /\ lines = text[Here]
    /\ text' = [text EXCEPT ![Here] = lines - 1]
    /\ numCmds' = Counted(Here)
    /\ given' = [given EXCEPT ![Here] = @ + 1]
    /\ spent' = IF MaxNumCmds[Here] < 0 THEN spent ELSE [spent EXCEPT ![Here] = @ + 1]
    /\ IF StaysWith(Here)
       THEN /\ CmdsGiven' = CmdsGiven + 1
            /\ readfds' = readfds \ {Here}
            /\ UNCHANGED NextCmdGiver
       ELSE CmdsGiven' = 0 /\ DecreaseCmdGiver /\ UNCHANGED readfds
    /\ UNCHANGED conns

(* No handler wants the line, which is executed as a command.              *)
Command(lines, bang) ==
    /\ TakeLine(lines)
    /\ HandlerFor(Here, bang) = 0
    /\ eval' = <<"lpc", Here>>
    /\ UNCHANGED handlers

(* The editor gets the line.                                               *)
EdCommand(lines, bang) ==
    LET i == HandlerFor(Here, bang) IN
    /\ TakeLine(lines)
    /\ i # 0 /\ IsEd(Handlers(Here)[i])
    /\ eval' = <<"ed", Here>>
    /\ UNCHANGED handlers

(* A function set by input_to() is called with the line.                   *)
CallInputTo(lines, bang) ==
    LET i == HandlerFor(Here, bang) IN
    /\ TakeLine(lines)
    /\ i # 0 /\ ~IsEd(Handlers(Here)[i])
    /\ input_handler' = [input_handler EXCEPT ![Here] = RemoveAt(@, i)]
    /\ noecho' = MarkedStale(Here)
    /\ eval' = <<"input_to", Here>>

(* The object of the function is destructed: the line is executed as a     *)
(* command instead.                                                        *)
LostInputTo(lines, bang) ==
    LET i == HandlerFor(Here, bang)
        left == RemoveAt(Handlers(Here), i)
    IN
    /\ TakeLine(lines)
    /\ i # 0 /\ ~IsEd(Handlers(Here)[i])
    /\ input_handler' = [input_handler EXCEPT ![Here] = left]
    /\ noecho' = IF MarkedStale(Here)[Here] = {} THEN noecho
                 ELSE set_noecho(Here, ModeOf(left))
    /\ eval' = <<"lpc", Here>>

-----------------------------------------------------------------------------
(* ----- LPC code: efuns -------------------------------------------------- *)
(* Commands of a user act on his own connection, other code on any.        *)
Evaluating(c) == eval # Idle /\ eval[2] \in {c, -1} /\ c \in players \ do_close

IsInputTo(c, i) == ~IsEd(Handlers(c)[i])
FirstInputTo(c) == {i \in DOMAIN Handlers(c) :
                       IsInputTo(c, i) /\ \A j \in 1 .. i - 1 : ~IsInputTo(c, j)}

(* Faulty variant: only the first handler is looked at.                    *)
SetAlready_Top(c) == Handlers(c) # << >> /\ Handlers(c)[1].now

(* An input_to() of this evaluation is in force.                           *)
SetAlready(c) == \E i \in FirstInputTo(c) : Handlers(c)[i].now

(* add_input_handler(): the mode is that of the new handler, even if it is *)
(* appended to the list.                                                   *)
AddHandler(c, h, append) ==
    /\ input_handler' = [input_handler EXCEPT ![c] = IF append THEN Append(@, h)
                                                               ELSE <<h>> \o @]
    /\ noecho' = IF h.noecho = {} /\ noecho[c] = {} THEN noecho
                 ELSE set_noecho(c, h.noecho)

EchoOff(flags) == "NOECHO" \in flags

InputTo(c, flags, append) ==
    /\ Evaluating(c) /\ <<"INPUT_TO", flags>> \in Asks[c]
    /\ Len(Handlers(c)) < MaxHandlers[c]
    /\ append \/ ~SetAlready(c)
    /\ append => \/ Handlers(c) = << >> \/ "append" \in Habits
                 \/ EchoOff(flags) = EchoOff(ModeOf(Handlers(c)))
    /\ AddHandler(c, [type |-> "INPUT_TO", noecho |-> flags, now |-> ~append], append)
    /\ UNCHANGED <<conns, text, scan, counts, eval>>

(* The mode after the removal of the i-th handler; with no handler left    *)
(* the old mode stays.                                                     *)
ModeWithout(c, i) ==
    LET left == RemoveAt(Handlers(c), i) IN
    IF i > 1 THEN noecho
    ELSE IF left # << >> THEN set_noecho(c, ModeOf(left))
    ELSE MarkedStale(c)

remove_input_to(c, i) ==
    /\ Evaluating(c) /\ i \in DOMAIN Handlers(c) /\ IsInputTo(c, i)
    /\ Len(Handlers(c)) > 1 \/ ~EchoOff(noecho[c]) \/ eval = <<"input_to", c>>
           \/ "remove last" \in Habits
    /\ input_handler' = [input_handler EXCEPT ![c] = RemoveAt(@, i)]
    /\ noecho' = ModeWithout(c, i)
    /\ UNCHANGED <<conns, text, scan, counts, eval>>

(* ed(); one editor for each connection.                                   *)
ed_start(c) ==
    /\ Evaluating(c) /\ <<"INPUT_ED", {}>> \in Asks[c]
    /\ Len(Handlers(c)) < MaxHandlers[c]
    /\ \A i \in DOMAIN Handlers(c) : ~IsEd(Handlers(c)[i])
    /\ AddHandler(c, [type |-> "INPUT_ED", noecho |-> {}, now |-> FALSE], FALSE)
    /\ UNCHANGED <<conns, text, scan, counts, eval>>

(* The command was q or x: the editor is removed, and its exit function    *)
(* called.                                                                 *)
EdQuit ==
    LET c == eval[2] IN
    /\ eval[1] = "ed"
    /\ \E i \in DOMAIN Handlers(c) :
          /\ IsEd(Handlers(c)[i])
          /\ input_handler' = [input_handler EXCEPT ![c] = RemoveAt(@, i)]
    /\ eval' = <<"lpc", c>>
    /\ UNCHANGED <<conns, text, scan, noecho, counts>>

(* remove_interactive() or destruct().                                     *)
MarkToClose(c) ==
    /\ Evaluating(c)
    /\ do_close' = do_close \cup {c}
    /\ UNCHANGED <<players, text, scan, handlers, counts, eval>>

(* The handlers set now are older than the next evaluation.                *)
Past == [c \in Slot |-> [i \in DOMAIN Handlers(c) |-> [Handlers(c)[i] EXCEPT !.now = FALSE]]]

(* The evaluation ends without an error.                                   *)
Return ==
    /\ eval # Idle
    /\ eval' = Idle
    /\ noecho' = IF eval[1] = "input_to" THEN Settled(eval[2]) ELSE noecho
    /\ input_handler' = Past
    /\ UNCHANGED <<conns, text, scan, counts>>

(* errorf() switches a stale mode of current_interactive off, without a    *)
(* look at the handlers.                                                   *)
EchoReset(c) == IF c \in Slot /\ STALE \in noecho[c] THEN set_noecho(c, {}) ELSE noecho

(* An error that nothing catches ends the evaluation: after the long jump  *)
(* no mode is stale, and none is settled.                                  *)
Error ==
    /\ eval # Idle
    /\ eval' = Idle
    /\ noecho' = EchoReset(eval[2])
    /\ input_handler' = Past
    /\ UNCHANGED <<conns, text, scan, counts>>

(* The error is caught by catch(...; publish), and the evaluation goes on. *)
CatchPublished ==
    /\ eval # Idle
    /\ noecho' = EchoReset(eval[2]) /\ noecho' # noecho
    /\ UNCHANGED <<conns, text, scan, input_handler, counts, eval>>

(* The next second: current_time changes between two evaluations, which no *)
(* evaluation can tell from a change while it goes on.                     *)
Tick ==
    /\ \E c \in Slot : numCmds[c] # -1 /\ MaxNumCmds[c] >= 0
    /\ numCmds' = [c \in Slot |-> IF MaxNumCmds[c] < 0 THEN 0 ELSE -1]
    /\ spent' = [c \in Slot |-> 0]
    /\ UNCHANGED <<conns, text, scan, handlers, given, eval>>

-----------------------------------------------------------------------------
GetMessage ==
    \/ Select \/ PassOver \/ ReadPart \/ ReadEnd
    \/ \E lines \in UNION {1 .. MaxLines[c] : c \in Slot}, bang \in BOOLEAN :
            \/ Command(lines, bang) \/ EdCommand(lines, bang)
            \/ CallInputTo(lines, bang) \/ LostInputTo(lines, bang)

Next ==
    \/ GetMessage \/ EdQuit \/ Return \/ Error \/ CatchPublished \/ Tick
    \/ \E c \in Slot :
            \/ NewPlayer(c) \/ Leave(c) \/ MarkToClose(c) \/ ed_start(c)
            \/ \E flags \in SUBSET Flags, append \in BOOLEAN : InputTo(c, flags, append)
            \/ \E i \in 1 .. MaxHandlers[c] : remove_input_to(c, i)

Spec == Init /\ [][Next]_vars
FairSpec == Spec /\ WF_vars(GetMessage) /\ WF_vars(Return \/ Error) /\ WF_vars(Tick)

-----------------------------------------------------------------------------
Handler == [type : Types, noecho : SUBSET Flags, now : BOOLEAN]

(* The variables have their types; free slots hold nothing.                *)
TypeOK ==
    /\ do_close \subseteq players /\ players \subseteq Slot
    /\ text \in [Slot -> Nat] /\ readfds \subseteq Slot
    /\ NextCmdGiver \in Slot \cup {-1} /\ CmdsGiven \in 0 .. ALLOWED_ED_CMDS
    /\ numCmds \in [Slot -> Nat \cup {-1}]
    /\ \A c \in Slot : /\ Handlers(c) \in Seq(Handler) /\ Len(Handlers(c)) <= MaxHandlers[c]
                       /\ noecho[c] \subseteq Flags \cup {STALE}
                       /\ c \notin players => /\ Handlers(c) = << >> /\ noecho[c] = {}
                                              /\ text[c] = 0
    /\ eval \in {Idle, <<"lpc", -1>>} \cup ({"lpc", "ed", "input_to"} \X Slot)

(* Nobody keeps the others waiting by sending many lines at once: in one   *)
(* cycle of get_message() a user gives one command, or a limited number of *)
(* them if he can have an editor, and in a second, whatever is in the      *)
(* buffer, one more than set_max_commands() says.                          *)
CommandsLimited ==
    \A c \in Slot :
        /\ given[c] <= IF <<"INPUT_ED", {}>> \in Asks[c] THEN ALLOWED_ED_CMDS + 1 ELSE 1
        /\ MaxNumCmds[c] >= 0 => spent[c] <= MaxNumCmds[c] + 1

(* "If input_to() is called more than once in the same execution, only the *)
(* first call has any effect": whatever lies on top of it, an editor, too. *)
OneInputToPerEvaluation ==
    \A c \in Slot : Cardinality({i \in DOMAIN Handlers(c) : Handlers(c)[i].now}) <= 1

(* The echo comes back: between evaluations it is off only if the handler  *)
(* for the next line has asked for that, whatever handlers were set on     *)
(* top, removed or lost their objects, and wherever the code failed.       *)
EchoComesBack ==
    eval = Idle => \A c \in Slot : EchoOff(noecho[c]) => EchoOff(ModeOf(Handlers(c)))

(* A line for a handler that asked for NOECHO is shown neither to the user *)
(* nor to who snoops on him.                                               *)
PasswordsHidden ==
    eval = Idle => \A c \in Slot : EchoOff(ModeOf(Handlers(c))) => EchoOff(noecho[c])

(* Every user whose lines are waiting gives a command in some cycle, how   *)
(* many lines the others may send and whatever they use the editor for.    *)
EveryoneServed ==
    \A c \in Slot : []<>(text[c] = 0 \/ given[c] > 0)
=============================================================================
