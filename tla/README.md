# A verification of the Gabbo driver and mudlib

Gabbo is a MUD: a game *driver* written in C (an LDMud, `src/src`) that runs the
objects of a *mudlib* written in LPC (`src/mudlib`).  This directory holds TLA+
models of the parts of the driver in which the order of events decides about
correctness, their model checking with TLC, and proofs checked with TLAPS.

Paths below are relative to `src/`; `heartbeat.c:342` means `src/heartbeat.c`,
line 342.

## 1. The system and its parts

The driver is one thread.  `backend()` (backend.c) repeats: free what was
destructed, replace programs, read one command or telnet event and run it, and,
after each alarm signal, take the time and run heart beats, call_outs, resets
and clean_ups.  Everything LPC code does happens *inside* one of these calls,
and most C functions of interest call LPC code in their middle: the object at
hand, or any other, may be destructed, toggled, moved or shadowed before the C
function goes on.  Errors leave all C frames up to the last recovery point by
`longjmp()`.  This, and not threads, is what makes the code hard: callbacks
between a test and its use, exits in mid-loop, pointers to objects that count
no reference, and a signal handler that sets a flag at any time.

| component | state | operations | interacts with |
|---|---|---|---|
| heart beats, `heartbeat.c` | doubly linked list `hb_list`, position `next_hb`, `num_hb_objs`, `current_heart_beat`, flag `O_HEART_BEAT` of each object | `set_heart_beat()`, `call_heart_beat()` | called from `backend()`, `destruct()`, `errorf()`, the efun; calls `heart_beat()` in objects, which call everything |
| call_outs, `call_out.c` | delta list `call_list`, `num_callouts`, per user `last_call_out`, `call_out_cost` | efuns `call_out`, `remove_call_out`, `find_call_out`; `next_call_out_cycle()`, `call_out()` | called from `backend()` and LPC code; calls functions, recovers from their errors |
| shadows, `simulate.c` | shadow sentence (`sent.h`): links `shadowing`, `shadowed_by`, connection `ip`; flag `O_SHADOW` | `shadow()`, `unshadow()`, ends in `destruct()` and `replace_program()` | asks the master object in the middle; shares the head of the sentence list with actions and connections |
| actions, `actions.c` | list of `action_s` of each object, holding uncounted references | `add_action`, `remove_action`, command search | emptied by moves, `destruct()`, ends of shadowing |
| environments, `object.c` | `super`, `contains`, `next_inv` | `set_environment()`, `move_object()` | removes actions; refused for shadows |
| backend cycle, `backend.c` | `current_time`, `comm_time_to_call_heart_beat`, the object list | `backend()`, `catch_alarm()`, `process_objects()`, `check_alarm()` | drives all of the above |
| error handling, `simulate.c`, `interpret.c` | stack of recovery contexts | `errorf()`, `secure_apply_error()`, `catch()` | switches heart beats off, leaves loops |
| object life cycle, `simulate.c`, `object.c` | object list and table, newly destructed and destructed objects, reference counts | load, clone, `destruct()`, `remove_object()`, `free_object()` | everybody keeps pointers to objects; `process_objects()` goes round the list |
| connections, `comm.c` | `all_players`, `max_player`, `interactive_t`, snoop links, `outconn` | `new_player()`, `remove_interactive()`, `exec()`, `set_snoop()`, `net_connect()` | calls `connect()`, `disconnect()`, `valid_exec()`, `valid_snoop()` in the master object and `logon()` |
| commands and input, `comm.c`, `backend.c`, `ed.c` | position of the scan, commands per cycle and second, list of input handlers, echo mode | `get_message()`, `input_to()`, `remove_input_to()`, `ed()`, `call_function_interactive()` | runs commands, handlers and the editor; shows lines to snoopers |
| compiler, interpreter, data structures, swapper, garbage collector, allocators, packages | | | sequential or out of reach, see section 6 |
| mudlib sessions (`platform/.obj/tracker/*.c`, `.lib/*.c`) | mappings of users, sessions, connections | `attach_session()`, `connect_session()`, the trackers | `exec()` in the driver, telnet hook |
| mudlib registries (domain, zone, program, object trackers) | mappings and trees of structs | insert, delete, look up | hooks of the driver |

`PROJECT.json` lists every component with its source files and says which are
modelled, and every hazard found while reading, at its line, with the property
that would catch it.

What makes each part correct:

* **Heart beats**: list, flag and counter agree at every point at which LPC code
  can call in; nobody beats twice within an interval whatever is toggled; nobody
  starves although rounds are cut off by the next alarm; only the object whose
  beat is running loses its heart by an error.
* **Call_outs**: the deltas, changed by every insertion and removal, stand for the
  time asked for; order of due time, first come first served; what is due is
  called in this pass; a pass ends although called functions ask for more calls;
  after an error that user's calls rest for the second, the others go on.
* **Connections**: a connection and its object know each other whatever LPC code did
  in the middle of a C function; every slot in use is scanned; the master object
  is free again after every `connect()`; the two ends of a snoop agree and snoops
  make no loop; references are given up exactly once.
* **Commands**: everybody is served, nobody without limit; of several `input_to()`
  in one execution the first counts; the echo follows the handlers.
* **Objects**: each object is on exactly one of three lists; a reference for each
  name, freed at zero and not before; the round over all objects visits everybody
  although each pass may be cut short and its calls create and destruct objects.
* **Shadows**: chains are finite double links without destructed members, although
  the master object is asked between the tests and the linking; `destruct()`
  closes the gap; no sentence is freed while somebody uses it; no action
  refers to an object that is gone.

## 2. The modules

| module | what it is |
|---|---|
| `HeartBeat` | `heartbeat.c`, the alarm, the round in `backend()`, the heart beat part of `errorf()` |
| `HeartBeatQueue` | abstract specification: a queue, served from its head |
| `MCHeartBeat` | instances for TLC (the refinement mapping is in `HeartBeat`) |
| `HeartBeatProofs` | invariants and the refinement of `HeartBeat`, proved |
| `CallOut` | `call_out.c`, the evaluation cost of `wiz_list`/`i-eval_cost.h` as far as it is used there |
| `CallOutQueue` | abstract specification: a queue of due times |
| `MCCallOut` | instances for TLC (the refinement mapping is in `CallOut`) |
| `CallOutProofs` | invariants and the refinement of `CallOut`, proved |
| `Shadow` | shadows, action sentences, environments and connections as far as they share sentences |
| `ShadowStacks` | abstract specification: stacks of shadows |
| `MCShadow` | instances for TLC (the refinement mapping is in `Shadow`) |
| `ShadowProofs` | invariants of the links and of the actions of `Shadow`, and its refinement, proved |
| `Connections` | connections and their objects in `comm.c`, with the LPC code called in the middle |
| `MCConnections` | instances for TLC |
| `ConnectionsProofs` | connections and their objects, the stack of calls, proved |
| `SnoopProofs` | the slots in use, snoops and references of `Connections`, proved |
| `Commands` | the scan of `get_message()` and the input handlers |
| `MCCommands` | instances for TLC |
| `CommandsProofs` | invariants of `Commands`, proved |
| `Objects` | the object lists, references and `process_objects()` |
| `MCObjects` | instance for TLC |
| `ObjectsProofs` | the object lists and references, proved |
| `Induction` | lemmas on numbers and sequences that several proofs use |

Operators that end in `_Something` (`AddNode_DueAtOnce`) are the same operator
with a plausible mistake; "Faulty variant" stands above each.  No specification
uses them: they serve to see that a property notices the mistake.

### HeartBeat

`next`, `prev`, `nodes`, `hb_list`, `next_hb`, `num_hb_objs`, `flag` and
`current_heart_beat` are the variables of the C file; a node is named by its
object.  `since[o]` is `current_time - tlast`, cut off at the interval.  `pc` is
where the thread is: outside (`idle`), before the round (`cycle`), at the head of
the loop (`loop`), in LPC code on behalf of `heart_beat()` (`beat`), in the
master object's `heart_beat_error()` (`error`).  In `idle`, `beat` and `error`
LPC code may call `set_heart_beat()` and `destruct()` for any object any number
of times.  The loop has one action per exit: `Interrupted` (alarm or empty
list), `Break` (the node is not due), `DropBeatless` (no `heart_beat()`),
`Beat`.  An error leads back to the head of the loop with the position already
advanced, as the `setjmp()` at heartbeat.c:172 does.  Three kinds of errors are
told apart: `Error` (asks `heart_beat_error()`; `publish` when a
`catch(...; publish)` lets the beat go on), `SecureApplyError` and
`ErrorUnhandled`.  `quiet` is history: the seconds since the last call of
`heart_beat()`, not reset by toggling.

### CallOut

`call_list` is a sequence of records whose `delta` is that of `struct call`.
`Left`, `Spot` and `insert_call` are the loop of `insert_call()`, negative head
included; `Unchained` hands a delta on.  `WithoutStale` is
`remove_stale_call_outs()`, whose dropped calls hand what they have left (`Stale`)
to the next call that stays.  `StartCycle` is `next_call_out_cycle()`; between it
and `call_out()` run the heart beats (`beats`), which use the efuns with an
overdue head in the list.  `eval_cost` counts calls of efuns and of functions:
the calls of a user in one second share it, and this is the only reason why
`call_out()` returns.  `wait`, `skew` and `lost` are history fields: what was
asked for, and the two ways in which the list deviates from it.

### Shadow

`o_shadow`, `shadowing`, `shadowed_by`, `ip` and `sent` are the sentence list of
each object, split into the shadow sentence at its head and the actions behind
it.  `shadow()` is split at the call of `query_allow_shadow()`: `AskToShadow`
makes the tests and pushes its two objects on `asking`; `AllowShadow` or
`DenyShadow` pops them.  What the master object does in between is limited by
`MasterMay`.  `destruct()` is split at each round of its walk over the shadows
(`Destruct`, `DestructWalk`, `DestructEnd`), as the walk is what can go astray;
no LPC code runs in between.  `FirstSentence` is what
`O_GET_SHADOW(x)->shadowed_by` reads when the sentence has just been freed: the
field `ob` of the first action (sent.h:77-123), for that is what lies there.
`WithoutEnvironment` likewise takes the shadow sentence at the head of the list
for an action of the object that shadows, as `remove_environment_sent()` does.

### Connections

A connection is named by its slot in `all_players[]`; `ob[c]` is
`all_players[c]->ob`, `ip[o]` is `O_GET_INTERACTIVE(o)`.  `frames` is the C stack
as far as it matters: the driver functions that wait for LPC code, with their
local variables, the newest last.  Each C function is split at its calls:
`Accept` - `Rebind`, `Rejected` or `Execed` for `new_player()`, `Removed` -
`Disconnected` for `remove_interactive()`, `AskToExec` - `Exec` or `Refused`,
`AskToSnoop` - `StartSnoop`, `StopSnoop` or `OnlyEndSnoop`, and the `Out...`
actions for `check_for_out_connections()`, which calls `new_player()` and, when its
object has a connection already, `remove_interactive()`.  In between, `LPC(what)`
allows everything that the constant `May` gives to the function called.  `ref`
counts the references that `comm.c` holds, in the places where it takes them and
gives them up.

### Commands

`NextCmdGiver`, `CmdsGiven`, `numCmds`, `readfds` are those of `get_message()`; the
scan goes down the slots and goes on where it stopped when a line was found.
`text[c]` is the number of complete lines in the buffer.  `Select` is the part
done only when the scan is at its end; `PassOver`, `ReadPart`, `ReadEnd` and
`TakeLine` are the ways through the loop.  A line goes to `CallInputTo`,
`LostInputTo` (the function's object is destructed), `EdCommand` or `Command`.
`input_handler` is the list of handlers with the mode each asked for and whether it
was set in this evaluation (`now`, that is `eval_nr == eval_number`); `noecho` is
the mode of the connection with `NOECHO_STALE`.  Handlers set, removed and appended
during an evaluation are `InputTo`, `remove_input_to`, `ed_start`.  The constant
`Habits` says whether LPC code appends handlers with another echo than the first,
and whether it removes the last handler while the echo is off: both are
known to lose the echo (see below), and `EchoComesBack` is about code
that does neither.  `Return` settles a stale mode by the first handler; `Error`
does not: `errorf()` has switched a stale mode of `current_interactive` off before
the long jump, so that nothing is left to be settled.  `CatchPublished` is the same
reset by `catch(...; publish)`, after which the evaluation goes on.  A plain `catch()`
and the master applies leave the mode alone and are no step of the model.

### Objects

`heap` is a record of all pointers, counters and references, so that the C
functions are operators from heap to heap that call each other as in C:
`Freed` (`free_object()`), `Unlinked`, `Destructed`, `WithoutBlueprint`, `RemoveObject`,
`HandleNewlyDestructed`, `RemoveDestructed`, `CleanupStuff`, `DataCleaned`,
`Rotated`.  `pc` is the place in the backend: LPC code of any kind (`lpc`), the
cleanup of the main loop, and the parts of the loop of `process_objects()`, among
them the calls of `reset()` and `clean_up()`, in which LPC code may create,
destruct and assign.  Whether an object's reset, clean_up or data cleaning is due
is left open, except that an object created since its last visit is not due.
The reference of a program to its blueprint goes in `remove_object()` of the
blueprint; or before that, once it is destructed, in the data cleaning of a clone
(`Rest`) or when a clone is cloned (`LoseBlueprint`).

## 3. The runs

Every run is exhaustive over its instance.  Deadlock is checked everywhere.

| run | instance | what it shows |
|---|---|---|
| `heart_beat` | 3 objects, interval 2, 0-1 players | list complete and consistent with flag and counter, no destructed members, blame confined (`IInv`, inductive); beats an interval apart; implements `HeartBeatQueue` |
| `heart_beat_fair` | 3 objects, interval 2, a player all the time | a break means that nothing is due; every heart that stays on beats |
| `call_out` | 2 objects of 2 users, 3 calls, delays 0-2, steps 0-2, cost limit 2; the two users may change places | counter and deltas exact, nothing due left behind, failed users rest, implements `CallOutQueue` |
| `call_out_fair` | 2 calls, delays 0-1, cost limit 2 | every pass of `call_out()` ends |
| `call_out_early` | 2 calls, delays 0-2 | **violated**: a call may come before its delay has passed |
| `shadow` | a room, a player, two shadows; the player and one shadow may hold a connection; the master object may destruct; 1 call of it at a time, 2 actions per object | links mutual, finite, anchored; shadows outside; destructed objects forgotten; actions near; implements `ShadowStacks` |
| `shadow_walk` | the shadow `s` may hold actions itself | **violated**: the walk in `destruct()` leaves the chain |
| `connections` | 2 slots, master, 2 users, an object that calls `net_connect()`; 3 calls in progress | connections and objects know each other, everybody is scanned, references exact, the master object is free again |
| `connections_snoop` | 3 slots, 3 users, an object that snoops without connection; 2 calls in progress | both ends of a snoop agree, no loop of snoops, references exact |
| `commands` | 2 slots, one limited to 1 command a second and asked for passwords, one with an editor and handlers for lines with `!`; 1 and 3 lines, 2 and 3 handlers, 1 additional command for the editor | limits kept, first `input_to()` counts, echo comes back, everybody is served |
| `commands_echo` | as `commands` | **violated**: a password may be echoed |
| `objects` | 3 addresses, one for a blueprint, one for an object with a variable | lists and references exact, nothing freed or dead used, everybody visited, everything freed in the end |

Why these bounds are enough for the interesting cases.  *HeartBeat*: three
objects are the least with a head, a middle and an end, so that every branch of
the list surgery meets a neighbour on both sides that is not the head, and the
position can be at, before and behind the node at hand.  Interval 2 tells "due",
"served in this second" and "half way" apart.  *CallOut*: three calls are the
least with a removed call in the middle; steps of 2 seconds make the head
overdue by more than a delay; two users are needed for one that rests while the
other goes on.  A call itself costs 1, so the limit of 2 lets a called function
use one efun, that is set up, remove or look for a call or destruct an object in the
middle of the pass, and lets two functions of a user share a second; with limit 3
(two efuns) the run holds too, but takes more than twice the time.  Users with one
object each are alike, so the run uses the symmetry that exchanges both users
together with their objects (`Swaps`).  *Shadow*: with four objects there
are chains of three (bottom, middle, top), of which any member can leave; a
container for moves; a connected player among the shadowed, and a shadow that
`exec()` can hand the connection to.  Two actions on a
list are the least with a run to be skipped.  *Connections*: two slots for an
`exec()` of two connected objects, for a full table, and for a `net_connect()` of
an object that has a connection already; three calls in progress reach an `exec()`
within the `disconnect()` of a connection that a `net_connect()` replaces.  Three
slots are the least for a chain of snoops that `exec()` or a new snoop could close;
in that run `exec()` happens in commands and in `disconnect()`, while `valid_exec()`
itself does nothing: snoops that change while it is asked are in the proof of
`SnoopsAgree` only, which is for every `Considerate` mudlib.
*Commands*: one user with a limit and one without, an editor, and three handlers
for a removal in the middle of the list.  *Objects*: three are the least for a
middle of the list, and each address is used again once its object is freed.

### Findings

Three runs show a disagreement; PROJECT.json quotes both sides.

* `shadow_walk` (simulate.c:2640): `destruct()` of a shadowed object frees the
  shadow's sentence by `check_shadow_sent()` and then reads the link from it.  If
  the shadow had put an action to itself, the driver loops for ever.
* `call_out_early` (call_out.c:116): a call set up while the head of the list is
  overdue is called too early by that much.
* `commands_echo` (comm.c:4100): a handler without NOECHO on top of one with
  NOECHO switches the echo on, and the handler below does not get it switched off
  again: its line is echoed and shown to a snooper.  The same happens without such
  a handler when the function of a NOECHO handler fails while another one waits:
  `errorf()` resets the mode past the handlers (simulate.c:1149-1158), and there is
  nothing stale any more at comm.c:4109.

### Observations

Noticed while modelling; the models do the same as the code, and the properties
are stated around it.

* The test before the break at heartbeat.c:206 looks at one node only.  A cycle
  without players resets the position, and the next round may then break although
  other nodes are due; they are served later.  With a player all the time the
  break means what its comment says (`BreakMeansAllProcessed`).
* The list of heart beats is not sorted by pointers, whatever heartbeat.c:7-11 says.
  What this was to achieve holds (`BeatSpacing`).
* Of the tests of `validate_shadowing()` only that for destruction is repeated
  after the master object was asked (simulate.c:4569).  A master object that calls
  `shadow()` there can break the chains; that of this mudlib does not, and the
  proofs assume so (`Discreet`), like the run (`MasterMay`).  What is checked of the
  time between test and use is thus `destruct()` only: objects that get or become a
  shadow, or are moved, meanwhile are outside of both.
* `unshadow()` in the middle of a chain (simulate.c:4721) and `replace_program()`
  leave the actions of the former shadow on the objects near it.
* A room that shadows somebody inside of it: when that object leaves, the walk at
  actions.c:434-480 takes the shadow sentence at the head of its list for an action of
  the room and skips the room's actions behind it with it (actions.c:475-478).  They
  stay, with a pointer to the room that counts no reference, also when the room is
  destructed.  With `Container = {a, s}` TLC shows it in six states.
* `exec()` to an object that snoops without a connection keeps the counted
  reference although the snooper is interactive from then on, and gives the new
  connection no `snoop_on` (comm.c:7097-7114): the end of the snoop then takes the
  other branch at comm.c:3268.  `Npc` and `User` are disjoint in the run for this.
* A `net_connect()` within the `disconnect()` of a connection, or within the question
  of `valid_exec()` that is asked there, makes `comm.c` give up references it does not
  hold; an `exec()` within `valid_snoop()` leaves a snoop with one end.  `Considerate`
  in `SnoopProofs` excludes these, and the instances of the runs do.
* The entry of a `logon()` that failed is marked as unused before
  `remove_interactive()` calls `disconnect()` (comm.c:8795-8800).  If that code calls
  `net_connect()`, the entry gets a new object whose reference and socket are then
  given up in place of the old ones.
* `disconnect()` may `exec()` a connection to the very object that is logging on;
  `new_player()` overwrites the pointer (comm.c:3575-3582).  `DisjointAssumption`
  excludes it: no such object gets a connection by `exec()`.
* `logon_object()` passes no argument (object.c:924), so that the -1 pushed for
  a failed connection (comm.c:8828) never reaches `logon()`.
* `numCmds` starts at 0 with the first command of a second (comm.c:3158-3164): one
  command more than the limit is taken; likewise `ALLOWED_ED_CMDS` + 1 per cycle.
* `input_to()` with the append flag takes the mode of the appended handler at
  once, although another one is first (comm.c:7483); `ed()` over a NOECHO
  handler does likewise; and `remove_input_to()` of the last handler leaves the echo
  off (comm.c:7867-7875), which the mudlib works around (`.obj/login.c`: "bug
  workaround, needed to restore echo").  `Habits` excludes the first and the third
  where `EchoComesBack` is checked.
* `prevent_object_cleanup` is set when the destructed objects outnumber the listed
  ones and reset when the listed are half of them (backend.c:538-549): in between,
  the state flips every cycle.

## 4. Fairness

Only the `FairSpec` of HeartBeat, CallOut, Commands and Objects assume fairness.

*CallOut*: the thread goes on at every step of `call_out()`, and a called
function ends, by itself or by `max_eval_cost` (weak fairness of
`Return \/ CallbackError`).  Nothing is assumed about how much it asks for.

*HeartBeat*: weak fairness of the thread's steps, of the recurring alarm, and of
the end of LPC code.  Two conditions are strong.  `StartCycle` with time passing:
the clock does not stand still for ever, although it may for any number of
cycles.  `StartRound` without a pending alarm, and with it `Beat \/ DropBeatless`:
the next alarm is set about a second ahead when a cycle starts, so it cannot, in
every round for ever, arrive before the first object is served.  This is an
assumption about the machine and not guaranteed by the loop, which tests the flag
before the first beat too (heartbeat.c:187); `process_objects()`, in contrast,
does at least one object per call.  With a weak condition TLC shows a driver
that is interrupted before the first beat each time.

*Commands*: weak fairness of the scan, of the end of every evaluation (`Return`, or
`Error`, by `max_eval_cost` at the latest), and of the clock.  Which of the ways through the scan is taken
is not assumed, so that other users may have lines at any time.

*Objects*: the backend goes on at every place (`GoesOn`, weak), and the timed events
come time and again (`TimedEvents`, strong, as LPC code and cleanups alternate
with them).  Nothing is assumed about alarms: each pass of `process_objects()` may
find its time run out after the first object, which it does in any case.

## 5. What is proved

The modules `HeartBeatProofs`, `CallOutProofs`, `ShadowProofs`,
`ConnectionsProofs`, `SnoopProofs`, `CommandsProofs` and `ObjectsProofs`, and
`Induction` with the lemmas they share, are checked by `tlapm`.  Assumptions on the
constants are those named in the modules: `NULL` is not an object, `Obj` is
finite, the interval is positive, the bounds on players are in order; the roles
in `Shadow` and `Connections` are sets of objects.

**HeartBeat** (`Invariance` and the theorems that follow from it).  The
inductive invariant is `IInv`.  `Linked` alone is not inductive: mutual links
also allow a cycle of nodes apart from the list, and taking out a node next to
one could empty the list with nodes left.  `Grounded` excludes it without
induction over the length of the list: no set of nodes is closed under `prev`.
`ListReachesAll` follows: the nodes not reached from the head would be such a
set.  `BeatSpacing` is about steps and needs `ServedSince`: the time since
`tlast` is never more than the time since the last beat, because toggling sets
`tlast` to now.  `CulpritKnown` is needed for the step in which `errorf()`
switches a heart on again.  The proof has a lemma for taking out a node and
one for each of the two ways of inserting, which every action cites.

`QueueImplemented` is the refinement.  The mapping reads the list as a circle, from
`next_hb` on and from the end of the list to its head (`Order`).  In place of an
induction along the pointers the proof keeps a witness: there is a sequence `q` that
shows each registered object once, each before its follower and the first after the
last (`Circle`).  Five lemmas say what becomes of such a sequence: one is put in behind
the last, one is taken out, the first goes to the end, the circle is read from another
member on, and the recursive mapping gives just this sequence (`MetIsCircle`, the one
induction).  `AddIsLast` shows that both places at which `set_heart_beat()` links a
node in, the head of the list and before `next_hb`, are the end of the circle.
`BreakLeavesNoneOut` adds that the times since the last service do not increase along
the circle (`Aged`).  It is proved for a game with a player all the time
(`MinPlayers > 0`); without it a cycle may turn the circle and the comment at
heartbeat.c:206 is wrong (see the observations).

**CallOut** (`Invariance` and the theorems that follow).  The inductive invariant
`IInv` says of the list what `QueueExact` says of sums, but of neighbours: each
delta is the difference of two times (`Steps`), and none but the first is negative
(`Sorted`).  This is preserved by a removal and an insertion without any
induction (`NewCallKeeps`, `UnchainedKeeps`), and the sums follow from it
once, by induction along the list.  That induction, and that a recursive
function on `0 .. n` exists and is what its recursion says, is not taken from the
library: `Induction` derives it from the well-foundedness of strict inclusion of
finite sets (`LeastNumber`, `IntervalInduction`, `RecursionExists`).
`NothingLeftBehind` and `FailedUserRests` are about steps and follow from `IInv`.
`QueueImplemented` is the refinement: each action of `CallOut` is shown to be a step
of `CallOutQueue` under the mapping that gives each call the time it is due.
`Spot`, found by counting down a delay, is the place found by comparing times; a
call removed leaves the times of the others alone; `remove_stale_call_outs()`
strikes the calls of dead objects wherever they are and keeps the order of the
rest.  There is no assumption beyond those on the constants.

**Shadow** (`LinksInvariant` and the theorems that follow).  All are proved
under `Discreet`: asked for permission the master object does no more than
destruct objects.  Without it they are wrong (see the observations).
The inductive invariant `LinkInv` adds to the properties `StillValid` (at most
one question is open, and what was tested for it still holds, because all that
can happen meanwhile is a `destruct()`, which only removes links and
environments) and `VictimCut` (during its walk the victim has no links, and
nobody is in it).  `Grounded` again replaces an induction: no set of objects is
closed under a link.  From it `EndIsLast` concludes that the loops along a
chain end at its last object, which `AllowKeeps` needs to see that the new
shadow is not in the chain it enters.  `LeavingKeepsChains` serves `unshadow()`,
`replace_program()` and `destruct()`.  `TypeCorrectness` and `ActionsStayNear` rest on
it: `KeptFacts` says what a walk along a list of sentences leaves, and the steps are
then about sets of actions.  `ActionsStayNear` assumes that nobody shadows what is
inside of it (`Shadower` and `Container` have no common member, as in the runs);
otherwise it is wrong, see the observations.

`StacksImplemented` is the refinement: no step of the links is anything else than
`Put` or `TakeOut` of `ShadowStacks`.  A `Pile` is a sequence along `shadowed_by` from
an object that shadows nobody to one that nobody shadows.  `PilesApart` says that two
piles with a common member are the same (a first common member could not have
different predecessors), `PileThrough` that whoever is linked is in one (the two halves
of `Grounded`, for the walk down and the walk up), and `StacksArePiles` that the
mapping, a recursion along `shadowed_by`, yields exactly the piles.  Then a step needs
only the piles it touches: `PilesChange` compares the piles before and after, when
links change among the objects of a set `D` only, and `PileWithout`, `PileOnTop` and
`PileBegun` are its three uses.

**Connections** (`ConnectionsInvariant` and the theorems that follow).  Proved are
`TwoWay` and `MasterFree`, for any number of slots, users and callers, any depth of
calls and any `May`: for every mudlib, provided that connections are not given to
the master object or to objects that call `net_connect()` (`DisjointAssumption`).
`TwoWay` alone is not inductive, for the step after a call uses what was known
before it.  `Nesting` says what is on the stack of calls: only `disconnect()` and
questions to the master object come on top of other calls, so that a `connect()`
is always the outermost, and an object that waits for an answer has not been
removed meanwhile.  `Replacing` says that the slot that `new_player()` has chosen
is still free after the `remove_interactive()` it calls, and that the object has no
connection left.  There is a lemma for each way in which connection and object
change together (`LinkingKeeps`, `TakingDownKeeps`, `RebindKeeps`), and three about
the stack (`NoCall`, `OneCall`, `AskingKeeps`), which the actions cite.

The numbers of the slots (`NumbersInvariant`, `AllReached`) are proved likewise for
every mudlib.  `Numbers` is not inductive without `Removing`: the connection
that `disconnect()` was called for must still be in its slot when it returns, so
that `num_player` goes down by one.

Snoops and references (`SnoopInvariant`, `SnoopsAgree`, `NoLoops`, `RefsCounted`,
`ConnectionsTyped`) are proved for every mudlib that is `Considerate`: who snoops
without a connection never gets one, `valid_snoop()` does not `exec()`, and nothing is
connected outwards by code that runs while a connection is removed or a question
is asked.  Each of these clauses is needed: without any of them TLC finds a state in
which comm.c itself has lost a reference or one end of a snoop (the observations
have the first and the last).  The instances of the runs are `Considerate`.
`SnoopInv` adds to the properties `Snoops` (a snooper has a connection or never gets
one), `Asking` (who asks to snoop is still connected at the answer), `Entry` (the
outgoing entry has an object exactly while it is in use or being cleaned up) and
`Refs`, which writes the references owed to an object as a sum with one term per
kind of holder; each action changes at most two terms.  `NoSnoopLoop` is proved like
`Grounded`: a slot that is not met from another one lies outside some set that is
closed under `snoop_on`.  `set_snoop()` refuses when the snooper's own slot is met
from the victim's, and that is just what a new link would need to close a loop.

**Commands** (`Invariance` and the theorems that follow).  The inductive invariant
has a part for the handlers (`Lists`: at most one is new in an evaluation and only
the editor lies on top of it; a handler is one the user asks for), one for the scan
(`Turns`: what the scan has still to reach gave no line in this cycle, what it has
passed has none left to read), one for the second (`Seconds`: `numCmds` falls short of
the lines taken by one at most) and one for free slots (`Vacant`: nothing is left
for the next user).  `EchoReturns` is proved for code without the two habits that are
known to lose the echo; its invariant `EchoFollows` says that the echo is off only
for the first handler, or during the call of a function whose handler is gone, and
then `NOECHO_STALE` is set.  An error keeps it because what `errorf()` leaves is
either as before or on (`EchoResetKeeps`); that it may be on too early is the
finding, not a question of this theorem.

**Objects** (`Invariance` and the theorems that follow).  Proved are `ListsExact`,
`RefsExact`, `ObjAtHand` and the types, for every finite set of addresses.  The
inductive invariant `IInv` says that there are three sequences `L`, `D` and `N` of
objects such that the links of the three lists lead along them (`Chain`, `Back`),
that they have no object in common, that `D` and `N` together hold the destructed
objects, and that each reference count is the number of names and one for the list
(`Counted`); an object on no list is named nowhere.  `AtHand` adds what is known of the
object `process_objects()` is at.  In the middle of `remove_object()` an object
is on no list, so the lemmas about the operators are stated for `Good`, in
which `N` is replaced by the set of objects that are still to be removed; each
operator (`Listed`, `Destructed`, `Assigned`, `Freed`, `RemoveObject`, `Victim`,
`DataCleaned`, `Rotated`) has a lemma that says what it does to the sequences.  Four
lemmas about links (`PutFirst`, `PutLast`, `TakeOut`, `SameChain`) serve them all.
The loops of `handle_newly_destructed_objects()` and
`remove_destructed_objects()`, which free members of the very list they go along, are
inductions along the list as it was at the start: `FromFacts` keeps apart what is done
and what is still to come.  `WalkFacts` says that `Walk`, which the properties use, finds
exactly these sequences; so the bound on its length leaves nothing out.

Only model-checked are: liveness (`EveryHeartBeats`, `PassEnds`, `EveryoneServed`,
`EveryoneVisited`, `FreedEventually`), which is out of the prover's reach.  All
safety properties of passing runs, the three refinements included, are stated by theorems.

## 6. What is not modelled

* Statistics, messages, tracing, the queries `heart_beat_info()`,
  `call_out_info()`, `query_shadowing()`: they change nothing the models have.
* The arguments and `this_player()` of call_outs; verbs of actions; functions
  that a shadow may not mask; redirection of calls to shadows.
* `privilege_violation()` is taken to change nothing, and so is `valid_exec()` where
  `Shadow` uses `exec()`; `Connections` has it as LPC code.
* Reference counts outside of `Objects` and `Connections`.  In HeartBeat, CallOut and
  Shadow an object is freed some time after it was destructed (`Recycle`), when
  nothing runs; addresses are then used again.
* In `Commands`: char mode, refused telnet options and the hook H_NOECHO, more than
  one editor for a connection, and commands that set handlers at other users; more than
  one new connection in a cycle, and connections that `net_connect()` opens in the
  middle of an evaluation.
* In `Connections`: sockets and buffers.  The flushing of messages can call
  `catch_tell()` of a snooper in further places (backend.c:683 among them).  A
  connection that `net_connect()` completes at once (comm.c:8997) takes the same way
  as one that is completed later.  `remove_interactive()` of a destructed object runs
  no LPC code.
* In `Objects`: programs and the object table; loading, beyond the new object's
  place in the list; swapping, except that it uses up the slice of time.
* `synch_heart_beats`, `check_alarm()`, signals other than the alarm.
* Compiler, interpreter, efuns on strings and data, swapper, allocators, garbage
  collector, packages and vendored code: sequential or I/O or third party.  They are
  nine tenths of the driver's two hundred thousand lines, so the modules here
  stand for a small share of its text, though for most of the places at
  which the driver's own state is shared between LPC code and the backend.
* The mudlib.  At this commit it is incomplete and much of it does not compile:
  `.lib/user.c`, `.module/command_controller.c` and `.obj/logger/logger_factory.c`
  inherit `FormatStringsLib`, which `.include/platform.h` does not define
  (it has `FormatStringLib`); `SessionTracker->query_state()` and
  `UserTracker->query_primary_user()`, on which the login depends, do not exist;
  `DomainTracker->query_domain()` raises the error "FIXME".  So no session is ever
  attached, and there is no behaviour to model beyond the login object, whose use
  of `input_to()` is within `Commands`.

## 7. Plan

1. `Inventory`: `super`, `contains`, `next_inv` under `set_environment()` and
   `destruct()`, whose hooks move and destruct the objects in the inventory.
2. `ErrorContext`: the stack of recovery contexts under `catch()` and nested
   master applies, with what each recovery restores.
3. `ActionSearch`: the marker sentences of `execute_command()` while actions are
   added and removed by the action that is called.
4. `ExternalRequests`: the table of callbacks of the external request demon, and its
   loss and return.
5. Sessions of the mudlib, once it can attach one: `SessionTracker` and
   `ConnectionTracker` on top of `exec()`.
