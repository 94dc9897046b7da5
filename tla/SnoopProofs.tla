----------------------------- MODULE SnoopProofs -----------------------------
(***************************************************************************)
(* More proofs about Connections: the numbers that get_message() goes by,  *)
(* the two ends of each snoop, and the references that comm.c counts.      *)
(***************************************************************************)
EXTENDS ConnectionsProofs, Induction

(* What the proofs ask of LPC code: who snoops without a connection never  *)
(* gets one, valid_snoop() does not exec(), and nothing is connected       *)
(* outwards while a connection is removed.                                 *)
Considerate ==
    /\ Npc \cap (User \cup Caller \cup {master_ob}) = {}
    /\ "exec" \notin May["valid_snoop"]
    /\ \A fn \in {"disconnect", "valid_exec", "valid_snoop"} : "net_connect" \notin May[fn]

(* What get_message() and new_player() know of the slots.                  *)
Numbers ==
    /\ closing \subseteq Used /\ do_close \subseteq Used
    /\ max_player \in -1 .. MAX_PLAYERS - 1 /\ Reached

(* The connection that disconnect() is called for stays until its return.  *)
Removing ==
    \A i \in DOMAIN frames :
        frames[i][1] = "disconnect" =>
            /\ ob[frames[i][2]] # NULL
            /\ i > 1 => frames[1][1] \in {"new_player", "clean_up"}

(* A snooper has a connection or is one of those who never have one.       *)
Snoops ==
    /\ snoop_on \in [Slot -> Slot \cup {NULL}] /\ snoop_by \in [Slot -> Ptr]
    /\ SnoopLinked
    /\ \A c \in Slot : snoop_by[c] # NULL => Interactive(snoop_by[c]) \/ snoop_by[c] \in Npc
    /\ \A o \in Npc : ~Interactive(o)

(* Whoever asks to snoop is still connected when the answer comes, as      *)
(* nothing but another question is asked in between.                       *)
Asking ==
    \A i \in DOMAIN frames :
        frames[i][1] = "valid_snoop" =>
            /\ frames[i][2] \in Obj
            /\ Interactive(frames[i][2]) \/ frames[i][2] \in Npc
            /\ \A j \in i .. Len(frames) : frames[j][1] = "valid_snoop"

(* The entry for an outgoing connection has an object as long as it is in  *)
(* use, and a little longer while it is cleaned up.                        *)
CleaningUp == frames # << >> /\ frames[1][1] = "clean_up"
Entry == /\ status \in {"ocNotUsed", "ocUsed", "ocLoggingOn"}
         /\ status = "ocNotUsed" => curr_obj = NULL \/ CleaningUp
         /\ status # "ocNotUsed" => curr_obj # NULL /\ ~CleaningUp

(* The references owed to an object.                                       *)
Watched(o) == {c \in Slot : snoop_by[c] = o}
Owed(o) == (IF ip[o] # NULL THEN 1 ELSE 0)
           + (IF o \in Npc THEN Cardinality(Watched(o)) ELSE 0)
           + (IF curr_obj = o THEN 1 ELSE 0)
Refs == ref = [o \in Obj |-> Owed(o)]

(* The part that holds whatever LPC code does, and the whole.              *)
NumInv == Numbers /\ Removing
SnoopInv == NumInv /\ Snoops /\ Asking /\ Entry /\ Refs /\ NoSnoopLoop

-----------------------------------------------------------------------------
(* ----- Numbers ---------------------------------------------------------- *)
LEMMA SlotFacts ==
    /\ IsFiniteSet(Slot) /\ Slot \subseteq Nat /\ NULL \notin Slot
    /\ IsFiniteSet(Used) /\ Used \subseteq Slot
<1>1. IsFiniteSet(Slot)
  BY LimitsAssumption, FS_Interval DEF Slot
<1>2. Used \subseteq Slot
  BY DEF Used
<1>3. IsFiniteSet(Used)
  BY <1>1, <1>2, FS_Subset
<1>4. QED
  BY <1>1, <1>2, <1>3, NullAssumption DEF Slot

(* The same slots are in use.                                              *)
LEMMA NumbersSame ==
    ASSUME Numbers, \A c \in Slot : ob'[c] = NULL <=> ob[c] = NULL,
           UNCHANGED <<max_player, num_player>>,
           closing' \subseteq Used, do_close' \subseteq Used
    PROVE  Numbers'
<1>1. Used' = Used
  BY DEF Used, Slot
<1>2. QED
  BY <1>1 DEF Numbers, Reached

(* A slot is taken.                                                        *)
LEMMA NumbersLinked ==
    ASSUME Typed, Numbers, NEW c \in Slot, ob[c] = NULL, NEW o \in Obj, Linked(c, o)
    PROVE  Numbers'
<1>1. /\ ob' = [ob EXCEPT ![c] = o] /\ num_player' = num_player + 1
      /\ max_player' = IF c > max_player THEN c ELSE max_player
      /\ UNCHANGED <<closing, do_close>>
  BY DEF Linked, MaxPlayerWith
<1>2. Used' = Used \cup {c} /\ c \notin Used
  BY <1>1, RolesAssumption DEF Used, Typed, Slot
<1>3. Cardinality(Used') = Cardinality(Used) + 1
  BY <1>2, SlotFacts, FS_AddElement
<1>4. max_player \in Int /\ c \in Int /\ max_player' \in -1 .. MAX_PLAYERS - 1
  BY <1>1, LimitsAssumption DEF Numbers, Slot
<1>5. \A d \in Used' : d <= max_player'
  BY <1>1, <1>2, <1>4, SlotFacts DEF Numbers, Reached
<1>6. QED
  BY <1>1, <1>2, <1>3, <1>4, <1>5 DEF Numbers, Reached

(* A slot is given up, and max_player is looked for.                       *)
LEMMA NumbersTakenDown ==
    ASSUME Typed, Numbers, NEW c \in Used, TakenDown(c)
    PROVE  Numbers'
<1>1. /\ ob' = [ob EXCEPT ![c] = NULL] /\ num_player' = num_player - 1
      /\ max_player' = MaxUsed(Used \ {c})
      /\ closing' = closing \ {c} /\ do_close' = do_close \ {c}
  BY DEF TakenDown
<1>2. Used' = Used \ {c}
  BY <1>1 DEF Used, Typed, Slot
<1>3. Cardinality(Used') = Cardinality(Used) - 1
  BY <1>2, SlotFacts, FS_RemoveElement
<1>4. PICK n \in Nat : n = MAX_PLAYERS - 1 /\ Slot = 0 .. n
  BY LimitsAssumption DEF Slot
<1>5. max_player' \in 0 .. n /\ \A d \in Used' : d <= max_player'
  <2>1. CASE Used' = {}
    BY <1>1, <1>2, <1>4, <2>1 DEF MaxUsed
  <2>2. CASE Used' # {}
    <3>1. Used' \in SUBSET (0 .. n)
      BY <1>2, <1>4 DEF Used
    <3>2. Max(Used') \in Used' /\ \A d \in Used' : d <= Max(Used')
      BY <2>2, <3>1, MaxFacts
    <3>3. QED
      BY <1>1, <1>2, <2>2, <3>1, <3>2 DEF MaxUsed
  <2>3. QED
    BY <2>1, <2>2
<1>6. max_player' \in -1 .. MAX_PLAYERS - 1
  BY <1>4, <1>5, LimitsAssumption
<1>7. closing' \subseteq Used' /\ do_close' \subseteq Used'
  BY <1>1, <1>2 DEF Numbers
<1>8. num_player' = Cardinality(Used')
  BY <1>1, <1>3 DEF Numbers, Reached
<1>9. QED
  BY <1>5, <1>6, <1>7, <1>8 DEF Numbers, Reached

-----------------------------------------------------------------------------
(* ----- The calls in progress ------------------------------------------- *)
(* What is said of the calls, for a few calls and for the calls below the  *)
(* one that returns.                                                       *)
LEMMA RemovingNone ==
    ASSUME frames' = << >>
    PROVE  Removing' /\ Asking'
BY DEF Removing, Asking

LEMMA RemovingOne ==
    ASSUME NEW f, frames' = <<f>>, f[1] # "valid_snoop", f[1] = "disconnect" => ob'[f[2]] # NULL
    PROVE  Removing' /\ Asking'
<1>1. DOMAIN frames' = {1} /\ frames'[1] = f
  OBVIOUS
<1>2. QED
  BY <1>1 DEF Removing, Asking

(* What counts about the calls is what they were called for.               *)
LEMMA AskingSame ==
    ASSUME UNCHANGED <<frames, ip>>
    PROVE  Asking => Asking'
BY DEF Asking, Interactive

LEMMA RemovingPop ==
    ASSUME Typed, Nesting, frames # << >>, frames' = Returned, Removing,
           \A c \in Slot : ob[c] # NULL => ob'[c] # NULL
    PROVE  Removing'
<1>1. frames \in Seq(Frame)
  BY DEF Typed, Frame
<1>2. PICK n \in Nat : Len(frames) = n + 1 /\ DOMAIN frames = 1 .. n + 1
  BY TopFacts
<1>3. /\ frames' \in Seq(Frame) /\ Len(frames') = n
      /\ \A i \in 1 .. n : frames'[i] = frames[i]
  BY <1>1, <1>2, PopFacts DEF Returned
<1>4. DOMAIN frames' = 1 .. n
  BY <1>3, LenProperties
<1>5. \A i \in 1 .. n : frames[i][1] = "disconnect" => frames[i][2] \in Slot
  BY <1>2 DEF Nesting, FrameOK
<1>6. \A i \in 1 .. n : i > 1 => 1 \in 1 .. n
  OBVIOUS
<1>7. QED
  BY <1>2, <1>3, <1>4, <1>5, <1>6 DEF Removing

LEMMA AskingPop ==
    ASSUME Typed, Nesting, frames # << >>, frames' = Returned, Asking,
           UNCHANGED ip \/ Top[1] # "valid_snoop"
    PROVE  Asking'
<1>1. frames \in Seq(Frame)
  BY DEF Typed, Frame
<1>2. PICK n \in Nat :
        Len(frames) = n + 1 /\ DOMAIN frames = 1 .. n + 1 /\ Top = frames[n + 1]
  BY TopFacts
<1>3. /\ frames' \in Seq(Frame) /\ Len(frames') = n
      /\ \A i \in 1 .. n : frames'[i] = frames[i]
  BY <1>1, <1>2, PopFacts DEF Returned
<1>4. DOMAIN frames' = 1 .. n
  BY <1>3, LenProperties
<1> SUFFICES ASSUME NEW i \in 1 .. n, frames[i][1] = "valid_snoop"
             PROVE  /\ frames[i][2] \in Obj
                    /\ ip'[frames[i][2]] # NULL \/ frames[i][2] \in Npc
                    /\ \A j \in i .. n : frames[j][1] = "valid_snoop"
  BY <1>3, <1>4 DEF Asking, Interactive
<1>5. /\ frames[i][2] \in Obj
      /\ Interactive(frames[i][2]) \/ frames[i][2] \in Npc
      /\ \A j \in i .. n + 1 : frames[j][1] = "valid_snoop"
  BY <1>2 DEF Asking
<1>6. n + 1 \in i .. n + 1
  OBVIOUS
<1>7. Top[1] = "valid_snoop"
  BY <1>2, <1>5, <1>6
<1>8. \A j \in i .. n : j \in i .. n + 1
  OBVIOUS
<1>9. QED
  BY <1>5, <1>7, <1>8 DEF Interactive

LEMMA CallsPush ==
    ASSUME Typed, Nesting, frames # << >>, NEW f \in Frame, frames' = Append(frames, f),
           f[1] # "disconnect", UNCHANGED <<ob, ip>>
    PROVE  /\ Removing => Removing'
           /\ Asking /\ (f[1] = "valid_snoop" => /\ f[2] \in Obj
                                                 /\ Interactive(f[2]) \/ f[2] \in Npc)
                     /\ (f[1] = "valid_snoop" \/ Top[1] # "valid_snoop") => Asking'
<1>1. frames \in Seq(Frame)
  BY DEF Typed, Frame
<1>2. PICK n \in Nat :
        Len(frames) = n + 1 /\ DOMAIN frames = 1 .. n + 1 /\ Top = frames[n + 1]
  BY TopFacts
<1>3. /\ frames' \in Seq(Frame) /\ Len(frames') = n + 2
      /\ \A i \in 1 .. n + 1 : frames'[i] = frames[i]
      /\ frames'[n + 2] = f
  <2>1. n + 1 \in Nat /\ n + 1 + 1 = n + 2
    OBVIOUS
  <2>2. QED
    BY <1>1, <1>2, <2>1, AppendProperties
<1>4. DOMAIN frames' = 1 .. n + 2 /\ 1 \in 1 .. n + 1
  BY <1>3, LenProperties
<1>5. \A i \in 1 .. n + 2 : i \in 1 .. n + 1 \/ i = n + 2
  OBVIOUS
<1>6. Removing => Removing'
  BY <1>2, <1>3, <1>4, <1>5 DEF Removing
<1>7. ASSUME Asking, f[1] = "valid_snoop" => /\ f[2] \in Obj
                                             /\ Interactive(f[2]) \/ f[2] \in Npc,
             f[1] = "valid_snoop" \/ Top[1] # "valid_snoop"
      PROVE  Asking'
  <2> SUFFICES ASSUME NEW i \in 1 .. n + 2, frames'[i][1] = "valid_snoop"
               PROVE  /\ frames'[i][2] \in Obj
                      /\ ip[frames'[i][2]] # NULL \/ frames'[i][2] \in Npc
                      /\ \A j \in i .. n + 2 : frames'[j][1] = "valid_snoop"
    BY <1>3, <1>4 DEF Asking, Interactive
  <2>1. CASE i = n + 2
    <3>1. \A j \in i .. n + 2 : j = n + 2
      BY <2>1
    <3>2. QED
      BY <1>3, <1>7, <2>1, <3>1 DEF Interactive
  <2>2. CASE i \in 1 .. n + 1
    <3>1. /\ frames[i][1] = "valid_snoop" /\ frames'[i] = frames[i]
          /\ frames[i][2] \in Obj
          /\ Interactive(frames[i][2]) \/ frames[i][2] \in Npc
          /\ \A j \in i .. n + 1 : frames[j][1] = "valid_snoop"
      BY <1>2, <1>3, <1>7, <2>2 DEF Asking
    <3>2. n + 1 \in i .. n + 1
      BY <2>2
    <3>3. f[1] = "valid_snoop"
      BY <1>2, <1>7, <3>1, <3>2
    <3>4. \A j \in i .. n + 2 : j = n + 2 \/ (j \in i .. n + 1 /\ j \in 1 .. n + 1)
      BY <2>2
    <3>5. QED
      BY <1>3, <3>1, <3>3, <3>4 DEF Interactive
  <2>3. QED
    BY <1>5, <2>1, <2>2
<1>8. QED
  BY <1>6, <1>7

-----------------------------------------------------------------------------
(* ----- Snoops ------------------------------------------------------------ *)
(* The invariants, spelled out.                                            *)
LEMMA EndFacts ==
    ASSUME Typed, TwoWay, Snoops
    PROVE  /\ \A c \in Slot : /\ c # NULL /\ ob[c] \in Obj \cup {NULL}
                              /\ snoop_on[c] \in Slot \cup {NULL}
                              /\ snoop_by[c] \in Obj \cup {NULL}
           /\ \A c \in Slot : ob[c] # NULL => ob[c] \in Obj /\ ip[ob[c]] = c
           /\ \A x \in Obj : /\ x # NULL /\ ip[x] \in Slot \cup {NULL}
                             /\ ip[x] # NULL => ip[x] \in Slot /\ ob[ip[x]] = x
                             /\ ip[x] # NULL => x \notin Npc
           /\ \A c \in Slot : snoop_on[c] # NULL =>
                 /\ snoop_on[c] \in Slot /\ ob[c] # NULL /\ ob[snoop_on[c]] # NULL
                 /\ snoop_by[snoop_on[c]] = ob[c]
           /\ \A c \in Slot : snoop_by[c] # NULL =>
                 /\ snoop_by[c] \in Obj /\ ob[c] # NULL
                 /\ ip[snoop_by[c]] # NULL => snoop_on[ip[snoop_by[c]]] = c
                 /\ ip[snoop_by[c]] = NULL => snoop_by[c] \in Npc
<1>1. \A c \in Slot : /\ c # NULL /\ ob[c] \in Obj \cup {NULL}
                      /\ snoop_on[c] \in Slot \cup {NULL} /\ snoop_by[c] \in Obj \cup {NULL}
  BY SlotFacts DEF Typed, Snoops, Ptr
<1>2. \A c \in Slot : ob[c] # NULL => ob[c] \in Obj /\ ip[ob[c]] = c
  BY <1>1 DEF TwoWay, Used
<1>3. \A x \in Obj : /\ x # NULL /\ ip[x] \in Slot \cup {NULL}
                     /\ ip[x] # NULL => ip[x] \in Slot /\ ob[ip[x]] = x
                     /\ ip[x] # NULL => x \notin Npc
  BY RolesAssumption DEF Typed, TwoWay, Interactive, Snoops
<1>4. \A c \in Slot : snoop_on[c] # NULL =>
         /\ snoop_on[c] \in Slot /\ ob[c] # NULL /\ ob[snoop_on[c]] # NULL
         /\ snoop_by[snoop_on[c]] = ob[c]
  BY <1>1 DEF Snoops, SnoopLinked, Used
<1>5. \A c \in Slot : snoop_by[c] # NULL =>
         /\ snoop_by[c] \in Obj /\ ob[c] # NULL
         /\ ip[snoop_by[c]] # NULL => snoop_on[ip[snoop_by[c]]] = c
         /\ ip[snoop_by[c]] = NULL => snoop_by[c] \in Npc
  BY <1>1 DEF Snoops, SnoopLinked, Used, Interactive
<1>6. QED
  BY <1>1, <1>2, <1>3, <1>4, <1>5

(* ... and what is to be shown of a step.                                  *)
LEMMA SnoopsShown ==
    ASSUME snoop_on' \in [Slot -> Slot \cup {NULL}], snoop_by' \in [Slot -> Ptr],
           \A c \in Slot : snoop_on'[c] # NULL =>
              /\ ob'[c] # NULL /\ snoop_on'[c] \in Slot /\ ob'[snoop_on'[c]] # NULL
              /\ snoop_by'[snoop_on'[c]] = ob'[c],
           \A c \in Slot : snoop_by'[c] # NULL =>
              /\ ob'[c] # NULL
              /\ ip'[snoop_by'[c]] # NULL => snoop_on'[ip'[snoop_by'[c]]] = c
              /\ ip'[snoop_by'[c]] = NULL => snoop_by'[c] \in Npc,
           \A o \in Npc : ip'[o] = NULL
    PROVE  Snoops'
BY DEF Snoops, SnoopLinked, Used, Interactive, Slot, Ptr

(* An object that has no connection gets a new one.                        *)
LEMMA SnoopsLinked ==
    ASSUME Typed, TwoWay, Snoops, NEW c \in Slot, ob[c] = NULL,
           NEW o \in Obj, o \notin Npc, ip[o] = NULL, Linked(c, o), UNCHANGED snoops
    PROVE  Snoops'
<1>1. /\ \A d \in Slot : ob'[d] = IF d = c THEN o ELSE ob[d]
      /\ \A x \in Obj : ip'[x] = IF x = o THEN c ELSE ip[x]
      /\ snoop_on' = snoop_on /\ snoop_by' = snoop_by
  BY DEF Linked, Typed, snoops
<1>2. \A d \in Slot : snoop_on[d] # NULL => d # c /\ snoop_on[d] # c
  BY EndFacts
<1>3. \A d \in Slot : snoop_by[d] # NULL => d # c /\ snoop_by[d] # o
  BY EndFacts
<1>4. snoop_on' \in [Slot -> Slot \cup {NULL}] /\ snoop_by' \in [Slot -> Ptr]
  BY <1>1 DEF Snoops
<1>5. \A d \in Slot : snoop_on'[d] # NULL =>
         /\ ob'[d] # NULL /\ snoop_on'[d] \in Slot /\ ob'[snoop_on'[d]] # NULL
         /\ snoop_by'[snoop_on'[d]] = ob'[d]
  BY <1>1, <1>2, EndFacts
<1>6. \A d \in Slot : snoop_by'[d] # NULL =>
         /\ ob'[d] # NULL
         /\ ip'[snoop_by'[d]] # NULL => snoop_on'[ip'[snoop_by'[d]]] = d
         /\ ip'[snoop_by'[d]] = NULL => snoop_by'[d] \in Npc
  BY <1>1, <1>3, EndFacts
<1>7. \A x \in Npc : ip'[x] = NULL
  BY <1>1, EndFacts, RolesAssumption
<1>8. QED
  BY <1>4, <1>5, <1>6, <1>7, SnoopsShown

(* Connections change their objects: new gets the connection a of old, and *)
(* old the connection b of new, if any.  Rebind() and Exec() do this.      *)
LEMMA SnoopsMoved ==
    ASSUME Typed, TwoWay, Snoops, NEW new \in Obj, NEW old \in Obj,
           new \notin Npc, ip[old] # NULL,
           \A d \in Slot : ob'[d] = IF d = ip[old] THEN new
                                    ELSE IF d = ip[new] THEN old ELSE ob[d],
           \A x \in Obj : ip'[x] = IF x = old THEN ip[new]
                                   ELSE IF x = new THEN ip[old] ELSE ip[x],
           snoop_on' = snoop_on, snoop_by' \in [Slot -> Ptr],
           \A d \in Slot : snoop_by'[d] =
              IF ip[new] # NULL /\ d = snoop_on[ip[new]] THEN old
              ELSE IF d = snoop_on[ip[old]] THEN new ELSE snoop_by[d]
    PROVE  Snoops'
<1>1. PICK a \in Slot : a = ip[old] /\ ob[a] = old
  BY EndFacts
<1>2. snoop_on' \in [Slot -> Slot \cup {NULL}]
  BY DEF Snoops
<1>3. \A d \in Slot : ob[d] # NULL => ob'[d] # NULL
  BY EndFacts
<1>4. \A d, e \in Slot : snoop_on[d] # NULL /\ snoop_on[d] = snoop_on[e] => d = e
  BY EndFacts
<1>5. ASSUME NEW d \in Slot, snoop_on[d] # NULL
      PROVE  /\ ob'[d] # NULL /\ snoop_on[d] \in Slot /\ ob'[snoop_on[d]] # NULL
             /\ snoop_by'[snoop_on[d]] = ob'[d]
  <2>1. /\ snoop_on[d] \in Slot /\ ob[d] # NULL /\ ob[snoop_on[d]] # NULL
        /\ snoop_by[snoop_on[d]] = ob[d]
    BY <1>5, EndFacts
  <2>2. CASE d = a
    <3>1. snoop_by'[snoop_on[d]] = IF ip[new] # NULL /\ snoop_on[d] = snoop_on[ip[new]]
                                   THEN old ELSE new
      BY <1>1, <2>1, <2>2
    <3>2. ip[new] # NULL /\ snoop_on[d] = snoop_on[ip[new]] => ip[new] = d
      BY <1>4, <1>5, EndFacts
    <3>3. ip[new] = a => new = old
      BY <1>1, EndFacts
    <3>4. QED
      BY <1>1, <1>3, <2>1, <2>2, <3>1, <3>2, <3>3
  <2>3. CASE d # a /\ d = ip[new]
    BY <1>1, <1>3, <1>4, <1>5, <2>1, <2>3, EndFacts
  <2>4. CASE d # a /\ d # ip[new]
    <3>1. ~(ip[new] # NULL /\ snoop_on[d] = snoop_on[ip[new]])
      BY <1>4, <1>5, <2>4, EndFacts
    <3>2. snoop_on[d] # snoop_on[a]
      BY <1>4, <1>5, <2>4
    <3>3. QED
      BY <1>1, <1>3, <2>1, <2>4, <3>1, <3>2
  <2>5. QED
    BY <2>2, <2>3, <2>4
<1>6. ASSUME NEW d \in Slot, snoop_by'[d] # NULL
      PROVE  /\ ob'[d] # NULL
             /\ ip'[snoop_by'[d]] # NULL => snoop_on[ip'[snoop_by'[d]]] = d
             /\ ip'[snoop_by'[d]] = NULL => snoop_by'[d] \in Npc
  <2>1. CASE ip[new] # NULL /\ d = snoop_on[ip[new]]
    <3>1. snoop_by'[d] = old /\ ob[d] # NULL /\ ip'[old] = ip[new]
      BY <2>1, EndFacts
    <3>2. QED
      BY <1>3, <2>1, <3>1
  <2>2. CASE ~(ip[new] # NULL /\ d = snoop_on[ip[new]]) /\ d = snoop_on[a]
    <3>1. snoop_by'[d] = new /\ ob[d] # NULL
      BY <1>1, <2>2, EndFacts
    <3>2. new # old => ip'[new] = a
      BY <1>1
    <3>3. new # old
      BY <1>1, <2>2, EndFacts
    <3>4. QED
      BY <1>1, <1>3, <2>2, <3>1, <3>2, <3>3, EndFacts
  <2>3. CASE ~(ip[new] # NULL /\ d = snoop_on[ip[new]]) /\ d # snoop_on[a]
    <3>1. snoop_by'[d] = snoop_by[d]
      BY <1>1, <2>3
    <3>2. /\ snoop_by[d] \in Obj /\ ob[d] # NULL
          /\ ip[snoop_by[d]] # NULL => snoop_on[ip[snoop_by[d]]] = d
          /\ ip[snoop_by[d]] = NULL => snoop_by[d] \in Npc
      BY <1>6, <3>1, EndFacts
    <3>3. snoop_by[d] # old
      BY <1>1, <2>3, <3>2, EndFacts
    <3>4. snoop_by[d] # new
      BY <2>3, <3>2
    <3>5. QED
      BY <1>3, <3>1, <3>2, <3>3, <3>4
  <2>4. QED
    BY <2>1, <2>2, <2>3
<1>7. \A x \in Npc : ip'[x] = NULL
  BY <1>1, EndFacts, RolesAssumption
<1>8. QED
  BY <1>2, <1>5, <1>6, <1>7, SnoopsShown

(* A connection is taken down, and who snooped on it or was snooped on     *)
(* from it forgets it.                                                     *)
LEMMA SnoopsTakenDown ==
    ASSUME Typed, TwoWay, Snoops, NEW c \in Slot, ob[c] # NULL, TakenDown(c)
    PROVE  Snoops'
<1>1. /\ \A d \in Slot : ob'[d] = IF d = c THEN NULL ELSE ob[d]
      /\ \A x \in Obj : ip'[x] = IF x = ob[c] THEN NULL ELSE ip[x]
      /\ \A d \in Slot : snoop_by'[d] = IF d = c \/ d = snoop_on[c] THEN NULL ELSE snoop_by[d]
      /\ \A d \in Slot : snoop_on'[d] = IF d = c \/ (snoop_by[c] # NULL /\ d = ip[snoop_by[c]])
                                        THEN NULL ELSE snoop_on[d]
  <2>1. ob' = [ob EXCEPT ![c] = NULL] /\ ip' = [ip EXCEPT ![ob[c]] = NULL]
    BY DEF TakenDown
  <2>2. snoop_by' = [d \in Slot |-> IF d = c \/ d = snoop_on[c] THEN NULL ELSE snoop_by[d]]
    BY DEF TakenDown, SnoopByWithout
  <2>3. snoop_on' = [d \in Slot |-> IF d = c \/ (snoop_by[c] # NULL /\ d = ip[snoop_by[c]])
                                    THEN NULL ELSE snoop_on[d]]
    BY DEF TakenDown, SnoopOnWithout
  <2>4. QED
    BY <2>1, <2>2, <2>3, EndFacts DEF Typed
<1>2. snoop_on' \in [Slot -> Slot \cup {NULL}] /\ snoop_by' \in [Slot -> Ptr]
  BY DEF TakenDown, SnoopByWithout, SnoopOnWithout, Snoops, Ptr
<1>3. ASSUME NEW d \in Slot, snoop_on'[d] # NULL
      PROVE  /\ ob'[d] # NULL /\ snoop_on'[d] \in Slot /\ ob'[snoop_on'[d]] # NULL
             /\ snoop_by'[snoop_on'[d]] = ob'[d]
  <2>1. /\ d # c /\ snoop_on'[d] = snoop_on[d] /\ snoop_on[d] # NULL
        /\ ~(snoop_by[c] # NULL /\ d = ip[snoop_by[c]])
    BY <1>1, <1>3
  <2>2. /\ snoop_on[d] \in Slot /\ ob[d] # NULL /\ ob[snoop_on[d]] # NULL
        /\ snoop_by[snoop_on[d]] = ob[d] /\ ip[ob[d]] = d
    BY <2>1, EndFacts
  <2>3. snoop_on[d] # c
    BY <2>1, <2>2
  <2>4. snoop_on[d] # snoop_on[c]
    BY <2>1, <2>2, EndFacts
  <2>5. QED
    BY <1>1, <2>1, <2>2, <2>3, <2>4
<1>4. ASSUME NEW d \in Slot, snoop_by'[d] # NULL
      PROVE  /\ ob'[d] # NULL
             /\ ip'[snoop_by'[d]] # NULL => snoop_on'[ip'[snoop_by'[d]]] = d
             /\ ip'[snoop_by'[d]] = NULL => snoop_by'[d] \in Npc
  <2>1. d # c /\ d # snoop_on[c] /\ snoop_by'[d] = snoop_by[d] /\ snoop_by[d] # NULL
    BY <1>1, <1>4
  <2>2. /\ snoop_by[d] \in Obj /\ ob[d] # NULL
        /\ ip[snoop_by[d]] # NULL => snoop_on[ip[snoop_by[d]]] = d
        /\ ip[snoop_by[d]] = NULL => snoop_by[d] \in Npc
    BY <2>1, EndFacts
  <2>3. snoop_by[d] # ob[c]
    BY <2>1, <2>2, EndFacts
  <2>4. ip'[snoop_by[d]] = ip[snoop_by[d]] /\ ob'[d] # NULL
    BY <1>1, <2>1, <2>2, <2>3
  <2>5. ASSUME ip[snoop_by[d]] # NULL
        PROVE  snoop_on'[ip[snoop_by[d]]] = d
    <3>1. PICK y \in Slot : y = ip[snoop_by[d]] /\ ob[y] = snoop_by[d] /\ snoop_on[y] = d
      BY <2>2, <2>5, EndFacts
    <3>2. y # c
      BY <2>3, <3>1
    <3>3. ~(snoop_by[c] # NULL /\ y = ip[snoop_by[c]])
      BY <2>1, <3>1, EndFacts
    <3>4. QED
      BY <1>1, <3>1, <3>2, <3>3
  <2>6. QED
    BY <2>1, <2>2, <2>4, <2>5
<1>5. \A x \in Npc : ip'[x] = NULL
  BY <1>1, EndFacts, RolesAssumption
<1>6. QED
  BY <1>2, <1>3, <1>4, <1>5, SnoopsShown

(* set_snoop(me, NULL): v is the connection that me has snooped on.        *)
LEMMA StopFacts ==
    ASSUME Typed, TwoWay, Snoops, StopSnoop, ip[Me] # NULL \/ Me \in Npc
    PROVE  \E me \in Obj, v \in Slot :
              /\ me = Me /\ snoop_by[v] = me
              /\ ip[me] # NULL => v = snoop_on[ip[me]]
              /\ ip[me] = NULL => me \in Npc
              /\ UNCHANGED <<ob, ip, curr_obj>>
              /\ snoop_on' = [d \in Slot |-> IF d = ip[me] THEN NULL ELSE snoop_on[d]]
              /\ snoop_by' = [d \in Slot |-> IF d = v THEN NULL ELSE snoop_by[d]]
              /\ ref' = IF ip[me] = NULL THEN Counting(<< >>, <<me>>) ELSE ref
<1>1. PICK me \in Obj : me = Me
  BY DEF StopSnoop, Live
<1>2. PICK v : v = Victim /\ v # NULL
  BY DEF StopSnoop
<1>3. v \in Slot /\ snoop_by[v] = me /\ (ip[me] # NULL => v = snoop_on[ip[me]])
  <2>1. CASE ip[me] # NULL
    <3>1. v = snoop_on[ip[me]]
      BY <1>1, <1>2, <2>1 DEF Victim, By
    <3>2. QED
      BY <1>2, <2>1, <3>1, EndFacts
  <2>2. CASE ip[me] = NULL
    <3> DEFINE V == {c \in Used : snoop_by[c] = me}
    <3>1. V # {} /\ v = Max(V)
      BY <1>1, <1>2, <2>2 DEF Victim, By
    <3>2. PICK n \in Nat : n = MAX_PLAYERS - 1 /\ Slot = 0 .. n
      BY LimitsAssumption DEF Slot
    <3>3. V \in SUBSET (0 .. n)
      BY <3>2 DEF Used
    <3> HIDE DEF V
    <3>4. v \in V
      BY <3>1, <3>2, <3>3, MaxFacts
    <3>5. QED
      BY <2>2, <3>4, SlotFacts DEF V
  <2>3. QED
    BY <2>1, <2>2
<1>4. UNCHANGED <<ob, ip, curr_obj>>
  BY DEF StopSnoop, slots, outconn
<1>5. snoop_on' = [d \in Slot |-> IF d = ip[me] THEN NULL ELSE snoop_on[d]]
  <2>1. snoop_on' = IF ip[me] = NULL THEN snoop_on ELSE [snoop_on EXCEPT ![ip[me]] = NULL]
    BY <1>1 DEF StopSnoop, By
  <2>2. snoop_on \in [Slot -> Slot \cup {NULL}]
    BY DEF Snoops
  <2>3. QED
    BY <2>1, <2>2, SlotFacts
<1>6. snoop_by' = [d \in Slot |-> IF d = v THEN NULL ELSE snoop_by[d]]
  BY <1>2 DEF StopSnoop, Snoops
<1>7. ref' = IF ip[me] = NULL THEN Counting(<< >>, <<me>>) ELSE ref
  BY <1>1 DEF StopSnoop, By
<1>8. ip[me] = NULL => me \in Npc
  BY <1>1
<1>9. QED
  BY <1>1, <1>3, <1>4, <1>5, <1>6, <1>7, <1>8

LEMMA SnoopsStopped ==
    ASSUME Typed, TwoWay, Snoops, StopSnoop, ip[Me] # NULL \/ Me \in Npc
    PROVE  Snoops'
<1>1. PICK me \in Obj, v \in Slot :
              /\ snoop_by[v] = me
              /\ ip[me] # NULL => v = snoop_on[ip[me]]
              /\ UNCHANGED <<ob, ip>>
              /\ snoop_on' = [d \in Slot |-> IF d = ip[me] THEN NULL ELSE snoop_on[d]]
              /\ snoop_by' = [d \in Slot |-> IF d = v THEN NULL ELSE snoop_by[d]]
  BY StopFacts
<1>2. snoop_on' \in [Slot -> Slot \cup {NULL}] /\ snoop_by' \in [Slot -> Ptr]
  BY <1>1 DEF Snoops, Ptr
<1>3. ASSUME NEW d \in Slot, snoop_on'[d] # NULL
      PROVE  /\ ob'[d] # NULL /\ snoop_on'[d] \in Slot /\ ob'[snoop_on'[d]] # NULL
             /\ snoop_by'[snoop_on'[d]] = ob'[d]
  <2>1. d # ip[me] /\ snoop_on'[d] = snoop_on[d]
    BY <1>1, <1>3
  <2>2. /\ snoop_on[d] \in Slot /\ ob[d] # NULL /\ ob[snoop_on[d]] # NULL
        /\ snoop_by[snoop_on[d]] = ob[d] /\ ip[ob[d]] = d
    BY <1>3, <2>1, EndFacts
  <2>3. snoop_on[d] # v
    BY <1>1, <2>1, <2>2
  <2>4. QED
    BY <1>1, <2>1, <2>2, <2>3
<1>4. ASSUME NEW d \in Slot, snoop_by'[d] # NULL
      PROVE  /\ ob'[d] # NULL
             /\ ip'[snoop_by'[d]] # NULL => snoop_on'[ip'[snoop_by'[d]]] = d
             /\ ip'[snoop_by'[d]] = NULL => snoop_by'[d] \in Npc
  <2>1. d # v /\ snoop_by'[d] = snoop_by[d] /\ snoop_by[d] # NULL
    BY <1>1, <1>4
  <2>2. /\ snoop_by[d] \in Obj /\ ob[d] # NULL
        /\ ip[snoop_by[d]] # NULL => snoop_on[ip[snoop_by[d]]] = d /\ ip[snoop_by[d]] \in Slot
        /\ ip[snoop_by[d]] = NULL => snoop_by[d] \in Npc
    BY <2>1, EndFacts
  <2>3. ip[snoop_by[d]] # NULL => ip[snoop_by[d]] # ip[me]
    BY <1>1, <2>1, <2>2
  <2>4. QED
    BY <1>1, <2>1, <2>2, <2>3
<1>5. \A x \in Npc : ip'[x] = NULL
  BY <1>1, EndFacts, RolesAssumption
<1>6. QED
  BY <1>2, <1>3, <1>4, <1>5, SnoopsShown

(* set_snoop(me, you): p is the connection of who has snooped on you until *)
(* now, b the connection that me has snooped on.                           *)
LEMMA StartFacts ==
    ASSUME Typed, TwoWay, Snoops, StartSnoop, ip[Me] # NULL \/ Me \in Npc
    PROVE  \E me \in Obj, on \in Slot : \E p, b :
              /\ me = Me /\ ob[on] # NULL /\ ip[me] \notin Chain(on)
              /\ ip[me] = NULL => me \in Npc
              /\ p = IF snoop_by[on] = NULL THEN NULL ELSE ip[snoop_by[on]]
              /\ b = IF ip[me] = NULL \/ ip[me] = p THEN NULL ELSE snoop_on[ip[me]]
              /\ UNCHANGED <<ob, ip, curr_obj>>
              /\ snoop_on' = [d \in Slot |-> IF d = ip[me] THEN on
                                             ELSE IF d = p THEN NULL ELSE snoop_on[d]]
              /\ snoop_by' = [d \in Slot |-> IF d = on THEN me
                                             ELSE IF d = b THEN NULL ELSE snoop_by[d]]
              /\ ref' = Counting(IF ip[me] = NULL THEN <<me>> ELSE << >>, Monster(on))
<1>1. PICK me \in Obj : me = Me
  BY DEF StartSnoop, MaySnoop, Live
<1>2. PICK on : on = ip[You] /\ You \in Obj /\ on # NULL
  BY DEF StartSnoop, MaySnoop, Live, Interactive
<1>3. on \in Slot /\ ob[on] # NULL
  BY <1>2, EndFacts
<1>4. PICK p : p = Previous(on) /\ p = IF snoop_by[on] = NULL THEN NULL ELSE ip[snoop_by[on]]
  BY DEF Previous
<1>5. PICK b : b = Before(on) /\ b = IF ip[me] = NULL \/ ip[me] = p THEN NULL
                                     ELSE snoop_on[ip[me]]
  BY <1>1, <1>4 DEF Before, By
<1>6. ip[me] \notin Chain(on)
  BY <1>1, <1>2 DEF StartSnoop, MaySnoop, WouldLoop, By
<1>7. /\ snoop_on' = [c \in Slot |-> CASE c = ip[me] -> on
                                       [] c # ip[me] /\ c = p -> NULL
                                       [] OTHER -> snoop_on[c]]
      /\ snoop_by' = [c \in Slot |-> CASE c = on -> me
                                       [] c # on /\ c = b -> NULL
                                       [] OTHER -> snoop_by[c]]
      /\ ref' = Counting(IF ip[me] = NULL THEN <<me>> ELSE << >>, Monster(on))
      /\ UNCHANGED <<ob, ip, curr_obj>>
  BY <1>1, <1>2, <1>4, <1>5 DEF StartSnoop, By, slots, outconn
<1>8. /\ snoop_on' = [d \in Slot |-> IF d = ip[me] THEN on
                                     ELSE IF d = p THEN NULL ELSE snoop_on[d]]
      /\ snoop_by' = [d \in Slot |-> IF d = on THEN me
                                     ELSE IF d = b THEN NULL ELSE snoop_by[d]]
  BY <1>7
<1>9. ip[me] = NULL => me \in Npc
  BY <1>1
<1>10. QED
  BY <1>1, <1>3, <1>4, <1>5, <1>6, <1>7, <1>8, <1>9

LEMMA SnoopsStarted ==
    ASSUME Typed, TwoWay, Snoops, StartSnoop, ip[Me] # NULL \/ Me \in Npc
    PROVE  Snoops'
<1>1. PICK me \in Obj, on \in Slot : \E p, b :
              /\ me = Me /\ ob[on] # NULL /\ ip[me] \notin Chain(on)
              /\ ip[me] = NULL => me \in Npc
              /\ p = IF snoop_by[on] = NULL THEN NULL ELSE ip[snoop_by[on]]
              /\ b = IF ip[me] = NULL \/ ip[me] = p THEN NULL ELSE snoop_on[ip[me]]
              /\ UNCHANGED <<ob, ip, curr_obj>>
              /\ snoop_on' = [d \in Slot |-> IF d = ip[me] THEN on
                                             ELSE IF d = p THEN NULL ELSE snoop_on[d]]
              /\ snoop_by' = [d \in Slot |-> IF d = on THEN me
                                             ELSE IF d = b THEN NULL ELSE snoop_by[d]]
              /\ ref' = Counting(IF ip[me] = NULL THEN <<me>> ELSE << >>, Monster(on))
  BY StartFacts
<1>2. PICK p, b :
              /\ ob[on] # NULL /\ (ip[me] = NULL => me \in Npc)
              /\ p = IF snoop_by[on] = NULL THEN NULL ELSE ip[snoop_by[on]]
              /\ b = IF ip[me] = NULL \/ ip[me] = p THEN NULL ELSE snoop_on[ip[me]]
              /\ UNCHANGED <<ob, ip>>
              /\ snoop_on' = [d \in Slot |-> IF d = ip[me] THEN on
                                             ELSE IF d = p THEN NULL ELSE snoop_on[d]]
              /\ snoop_by' = [d \in Slot |-> IF d = on THEN me
                                             ELSE IF d = b THEN NULL ELSE snoop_by[d]]
  BY <1>1
<1>3. snoop_on' \in [Slot -> Slot \cup {NULL}] /\ snoop_by' \in [Slot -> Ptr]
  BY <1>2 DEF Snoops, Ptr
<1>4. ASSUME NEW d \in Slot, snoop_on'[d] # NULL
      PROVE  /\ ob'[d] # NULL /\ snoop_on'[d] \in Slot /\ ob'[snoop_on'[d]] # NULL
             /\ snoop_by'[snoop_on'[d]] = ob'[d]
  <2>1. CASE d = ip[me]
    <3>1. ob[d] = me /\ me # NULL
      BY <2>1, EndFacts
    <3>2. QED
      BY <1>1, <1>2, <2>1, <3>1
  <2>2. CASE d # ip[me]
    <3>1. d # p /\ snoop_on'[d] = snoop_on[d]
      BY <1>2, <1>4, <2>2
    <3>2. /\ snoop_on[d] \in Slot /\ ob[d] # NULL /\ ob[snoop_on[d]] # NULL
          /\ snoop_by[snoop_on[d]] = ob[d] /\ ip[ob[d]] = d
      BY <1>4, <3>1, EndFacts
    <3>3. snoop_on[d] # on
      BY <1>2, <3>1, <3>2
    <3>4. snoop_on[d] # b
      <4>1. CASE b = NULL
        BY <3>2, <4>1, SlotFacts
      <4>2. CASE b # NULL
        <5>1. ip[me] # NULL /\ b = snoop_on[ip[me]]
          BY <1>2, <4>2
        <5>2. QED
          BY <2>2, <3>2, <4>2, <5>1, EndFacts
      <4>3. QED
        BY <4>1, <4>2
    <3>5. QED
      BY <1>2, <3>1, <3>2, <3>3, <3>4
  <2>3. QED
    BY <2>1, <2>2
<1>5. ASSUME NEW d \in Slot, snoop_by'[d] # NULL
      PROVE  /\ ob'[d] # NULL
             /\ ip'[snoop_by'[d]] # NULL => snoop_on'[ip'[snoop_by'[d]]] = d
             /\ ip'[snoop_by'[d]] = NULL => snoop_by'[d] \in Npc
  <2>1. CASE d = on
    <3>1. snoop_by'[d] = me /\ (ip[me] # NULL => ip[me] \in Slot)
      BY <1>2, <2>1, EndFacts
    <3>2. QED
      BY <1>1, <1>2, <2>1, <3>1
  <2>2. CASE d # on
    <3>1. d # b /\ snoop_by'[d] = snoop_by[d] /\ snoop_by[d] # NULL
      BY <1>2, <1>5, <2>2
    <3>2. /\ snoop_by[d] \in Obj /\ ob[d] # NULL
          /\ ip[snoop_by[d]] = NULL => snoop_by[d] \in Npc
      BY <3>1, EndFacts
    <3>3. ASSUME ip[snoop_by[d]] # NULL
          PROVE  snoop_on'[ip[snoop_by[d]]] = d
      <4>1. PICK y \in Slot : y = ip[snoop_by[d]] /\ ob[y] = snoop_by[d] /\ snoop_on[y] = d
        BY <3>1, <3>2, <3>3, EndFacts
      <4>2. y # p
        BY <1>2, <2>2, <4>1, EndFacts
      <4>3. y # ip[me]
        BY <1>2, <3>1, <4>1, <4>2, EndFacts
      <4>4. QED
        BY <1>2, <4>1, <4>2, <4>3
    <3>4. QED
      BY <1>2, <3>1, <3>2, <3>3
  <2>3. QED
    BY <2>1, <2>2
<1>6. \A x \in Npc : ip'[x] = NULL
  BY <1>2, EndFacts, RolesAssumption
<1>7. QED
  BY <1>3, <1>4, <1>5, <1>6, SnoopsShown

(* set_snoop() that comes no further than the snoop on you.                *)
LEMMA OnlyEndFacts ==
    ASSUME Typed, TwoWay, Snoops, OnlyEndSnoop
    PROVE  \E on \in Slot : \E p :
              /\ p = IF snoop_by[on] = NULL THEN NULL ELSE ip[snoop_by[on]]
              /\ UNCHANGED <<ob, ip, curr_obj>>
              /\ snoop_on' = [d \in Slot |-> IF d = p THEN NULL ELSE snoop_on[d]]
              /\ snoop_by' = [d \in Slot |-> IF d = on THEN NULL ELSE snoop_by[d]]
              /\ ref' = Counting(<< >>, Monster(on))
<1>1. PICK on : on = ip[You] /\ You \in Obj /\ on # NULL
  BY DEF OnlyEndSnoop, MaySnoop, Live, Interactive
<1>2. on \in Slot
  BY <1>1, EndFacts
<1>3. PICK p : p = Previous(on) /\ p = IF snoop_by[on] = NULL THEN NULL ELSE ip[snoop_by[on]]
  BY DEF Previous
<1>4. /\ UNCHANGED <<ob, ip, curr_obj>>
      /\ snoop_on' = [d \in Slot |-> IF d = p THEN NULL ELSE snoop_on[d]]
      /\ snoop_by' = [snoop_by EXCEPT ![on] = NULL]
      /\ ref' = Counting(<< >>, Monster(on))
  BY <1>1, <1>3 DEF OnlyEndSnoop, slots, outconn
<1>5. snoop_by' = [d \in Slot |-> IF d = on THEN NULL ELSE snoop_by[d]]
  BY <1>4 DEF Snoops
<1>6. QED
  BY <1>2, <1>3, <1>4, <1>5

LEMMA SnoopsOnlyEnded ==
    ASSUME Typed, TwoWay, Snoops, OnlyEndSnoop
    PROVE  Snoops'
<1>1. PICK on \in Slot : \E p :
              /\ p = IF snoop_by[on] = NULL THEN NULL ELSE ip[snoop_by[on]]
              /\ UNCHANGED <<ob, ip>>
              /\ snoop_on' = [d \in Slot |-> IF d = p THEN NULL ELSE snoop_on[d]]
              /\ snoop_by' = [d \in Slot |-> IF d = on THEN NULL ELSE snoop_by[d]]
  BY OnlyEndFacts
<1>2. PICK p :
              /\ p = IF snoop_by[on] = NULL THEN NULL ELSE ip[snoop_by[on]]
              /\ UNCHANGED <<ob, ip>>
              /\ snoop_on' = [d \in Slot |-> IF d = p THEN NULL ELSE snoop_on[d]]
              /\ snoop_by' = [d \in Slot |-> IF d = on THEN NULL ELSE snoop_by[d]]
  BY <1>1
<1>3. snoop_on' \in [Slot -> Slot \cup {NULL}] /\ snoop_by' \in [Slot -> Ptr]
  BY <1>2 DEF Snoops, Ptr
<1>4. ASSUME NEW d \in Slot, snoop_on'[d] # NULL
      PROVE  /\ ob'[d] # NULL /\ snoop_on'[d] \in Slot /\ ob'[snoop_on'[d]] # NULL
             /\ snoop_by'[snoop_on'[d]] = ob'[d]
  <2>1. d # p /\ snoop_on'[d] = snoop_on[d]
    BY <1>2, <1>4
  <2>2. /\ snoop_on[d] \in Slot /\ ob[d] # NULL /\ ob[snoop_on[d]] # NULL
        /\ snoop_by[snoop_on[d]] = ob[d] /\ ip[ob[d]] = d
    BY <1>4, <2>1, EndFacts
  <2>3. snoop_on[d] # on
    BY <1>2, <2>1, <2>2
  <2>4. QED
    BY <1>2, <2>1, <2>2, <2>3
<1>5. ASSUME NEW d \in Slot, snoop_by'[d] # NULL
      PROVE  /\ ob'[d] # NULL
             /\ ip'[snoop_by'[d]] # NULL => snoop_on'[ip'[snoop_by'[d]]] = d
             /\ ip'[snoop_by'[d]] = NULL => snoop_by'[d] \in Npc
  <2>1. d # on /\ snoop_by'[d] = snoop_by[d] /\ snoop_by[d] # NULL
    BY <1>2, <1>5
  <2>2. /\ snoop_by[d] \in Obj /\ ob[d] # NULL
        /\ ip[snoop_by[d]] # NULL => snoop_on[ip[snoop_by[d]]] = d /\ ip[snoop_by[d]] \in Slot
        /\ ip[snoop_by[d]] = NULL => snoop_by[d] \in Npc
    BY <2>1, EndFacts
  <2>3. ip[snoop_by[d]] # NULL => ip[snoop_by[d]] # p
    BY <1>2, <2>1, <2>2, EndFacts
  <2>4. QED
    BY <1>2, <2>1, <2>2, <2>3
<1>6. \A x \in Npc : ip'[x] = NULL
  BY <1>2, EndFacts, RolesAssumption
<1>7. QED
  BY <1>3, <1>4, <1>5, <1>6, SnoopsShown
-----------------------------------------------------------------------------
(* ----- Loops ------------------------------------------------------------ *)
(* Chain() and NoSnoopLoop for any ways f that lead from slot to slot.     *)
ChainIn(f, c) == {d \in Slot : \A S \in SUBSET Slot :
                     c \in S /\ (\A e \in S : f[e] \in S \cup {NULL}) => d \in S}
NoLoop(f) == \A c \in Slot : f[c] # NULL => c \notin ChainIn(f, f[c])

(* A slot that is not met lies outside some set that no way leaves.        *)
LEMMA NotMet ==
    ASSUME NEW f, NEW c \in Slot, NEW d \in Slot
    PROVE  d \notin ChainIn(f, c)
              <=> \E S \in SUBSET Slot :
                     c \in S /\ d \notin S /\ \A e \in S : f[e] \in S \cup {NULL}
BY DEF ChainIn

(* Ways are taken away.                                                    *)
LEMMA LoopFewer ==
    ASSUME NEW f, f \in [Slot -> Slot \cup {NULL}], NoLoop(f), NEW g,
           \A c \in Slot : g[c] = f[c] \/ g[c] = NULL
    PROVE  NoLoop(g)
<1> SUFFICES ASSUME NEW c \in Slot, g[c] # NULL
             PROVE  c \notin ChainIn(g, g[c])
  BY DEF NoLoop
<1>1. f[c] # NULL /\ f[c] \in Slot /\ g[c] = f[c]
  OBVIOUS
<1>2. PICK S \in SUBSET Slot :
         f[c] \in S /\ c \notin S /\ \A e \in S : f[e] \in S \cup {NULL}
  BY <1>1, NotMet DEF NoLoop
<1>3. \A e \in S : g[e] \in S \cup {NULL}
  BY <1>2
<1>4. QED
  BY <1>1, <1>2, <1>3, NotMet

(* A way is added from b, which cannot be reached from its end.            *)
LEMMA LoopMore ==
    ASSUME NEW f, f \in [Slot -> Slot \cup {NULL}], NoLoop(f),
           NEW b \in Slot, NEW on \in Slot, b \notin ChainIn(f, on), NEW g, g[b] = on,
           \A c \in Slot : c # b => g[c] = f[c] \/ g[c] = NULL
    PROVE  NoLoop(g)
<1> SUFFICES ASSUME NEW c \in Slot, g[c] # NULL
             PROVE  c \notin ChainIn(g, g[c])
  BY DEF NoLoop
<1>1. PICK T \in SUBSET Slot :
         on \in T /\ b \notin T /\ \A e \in T : f[e] \in T \cup {NULL}
  BY NotMet
<1>2. \A e \in T : g[e] \in T \cup {NULL}
  BY <1>1
<1>3. CASE c = b
  BY <1>1, <1>2, <1>3, NotMet
<1>4. CASE c # b
  <2>1. f[c] # NULL /\ f[c] \in Slot /\ g[c] = f[c]
    BY <1>4
  <2>2. PICK S \in SUBSET Slot :
           f[c] \in S /\ c \notin S /\ \A e \in S : f[e] \in S \cup {NULL}
    BY <2>1, NotMet DEF NoLoop
  <2>3. CASE c \in T
    <3>1. PICK U \in SUBSET Slot : U = S \cap T
      OBVIOUS
    <3>2. f[c] \in U /\ c \notin U
      BY <1>1, <2>1, <2>2, <2>3, <3>1, SlotFacts
    <3>3. \A e \in U : g[e] \in U \cup {NULL}
      BY <1>1, <1>2, <2>2, <3>1
    <3>4. QED
      BY <2>1, <3>2, <3>3, NotMet
  <2>4. CASE c \notin T
    <3>1. PICK U \in SUBSET Slot : U = S \cup T
      OBVIOUS
    <3>2. f[c] \in U /\ c \notin U
      BY <2>2, <2>4, <3>1
    <3>3. \A e \in U : g[e] \in U \cup {NULL}
      BY <1>1, <1>2, <2>2, <3>1
    <3>4. QED
      BY <2>1, <3>2, <3>3, NotMet
  <2>5. QED
    BY <2>3, <2>4
<1>5. QED
  BY <1>3, <1>4

LEMMA LoopNames ==
    /\ NoSnoopLoop <=> NoLoop(snoop_on)
    /\ NoSnoopLoop' <=> NoLoop(snoop_on')
    /\ \A c \in Slot : Chain(c) = ChainIn(snoop_on, c)
BY DEF NoSnoopLoop, NoLoop, Chain, ChainIn, Slot

-----------------------------------------------------------------------------
(* ----- References -------------------------------------------------------- *)
One(a, o) == IF a = o THEN 1 ELSE 0
Watching(o) == IF o \in Npc THEN Cardinality(Watched(o)) ELSE 0

LEMMA OneFacts == \A a, o : One(a, o) \in {0, 1}
BY DEF One

LEMMA CountFacts ==
    ASSUME NEW o, NEW a, NEW b
    PROVE  /\ Count(<< >>, o) = 0
           /\ Count(<<a>>, o) = One(a, o)
           /\ Count(<< >> \o <<b>>, o) = One(b, o)
           /\ Count(<<a>> \o <<b>>, o) = One(a, o) + One(b, o)
<1>1. Count(<< >>, o) = 0
  <2>1. {i \in DOMAIN << >> : << >>[i] = o} = {}
    OBVIOUS
  <2>2. QED
    BY <2>1, FS_EmptySet DEF Count
<1>2. Count(<<a>>, o) = One(a, o)
  <2>1. {i \in DOMAIN <<a>> : <<a>>[i] = o} = IF a = o THEN {1} ELSE {}
    OBVIOUS
  <2>2. QED
    BY <2>1, FS_EmptySet, FS_Singleton DEF Count, One
<1>3. Count(<< >> \o <<b>>, o) = One(b, o)
  <2>1. {i \in DOMAIN (<< >> \o <<b>>) : (<< >> \o <<b>>)[i] = o} = IF b = o THEN {1} ELSE {}
    OBVIOUS
  <2>2. QED
    BY <2>1, FS_EmptySet, FS_Singleton DEF Count, One
<1>4. Count(<<a>> \o <<b>>, o) = One(a, o) + One(b, o)
  <2>1. PICK s : s = <<a>> \o <<b>>
    OBVIOUS
  <2>2. {i \in DOMAIN s : s[i] = o}
           = (IF a = o THEN {1} ELSE {}) \cup (IF b = o THEN {2} ELSE {})
    <3>1. <<a>> \in Seq({a, b}) /\ <<b>> \in Seq({a, b})
      OBVIOUS
    <3>2. s \in Seq({a, b}) /\ Len(s) = 2 /\ s[1] = a /\ s[2] = b
      BY <2>1, <3>1, ConcatProperties
    <3>3. QED
      BY <3>2
  <2>3. Cardinality({}) = 0 /\ Cardinality({1}) = 1 /\ Cardinality({2}) = 1
    BY FS_EmptySet, FS_Singleton
  <2>4. Cardinality({1, 2}) = 2
    <3>1. IsFiniteSet({1}) /\ Cardinality({1}) = 1 /\ 2 \notin {1} /\ {1} \cup {2} = {1, 2}
      BY FS_Singleton
    <3>2. QED
      BY <3>1, FS_AddElement
  <2>5. Count(<<a>> \o <<b>>, o)
           = Cardinality((IF a = o THEN {1} ELSE {}) \cup (IF b = o THEN {2} ELSE {}))
    BY <2>1, <2>2 DEF Count
  <2>6. (IF a = o THEN {1} ELSE {}) \cup (IF b = o THEN {2} ELSE {})
           = IF a = o THEN (IF b = o THEN {1, 2} ELSE {1})
             ELSE (IF b = o THEN {2} ELSE {})
    OBVIOUS
  <2>7. QED
    BY <2>3, <2>4, <2>5, <2>6 DEF One
<1>5. QED
  BY <1>1, <1>2, <1>3, <1>4

LEMMA WatchingFacts ==
    ASSUME NEW o
    PROVE  /\ Watching(o) \in Nat
           /\ Owed(o) = (IF ip[o] # NULL THEN 1 ELSE 0) + Watching(o) + One(curr_obj, o)
<1>1. IsFiniteSet(Watched(o))
  BY SlotFacts, FS_Subset DEF Watched
<1>2. QED
  BY <1>1, FS_CardinalityType DEF Watching, Owed, One

(* The snooper on c changes to x, as far as snoopers without connections   *)
(* are concerned.                                                          *)
LEMMA WatchingMoved ==
    ASSUME NEW c \in Slot, NEW x,
           \A d \in Slot : d # c => \A o \in Npc : snoop_by'[d] = o <=> snoop_by[d] = o,
           snoop_by'[c] = x
    PROVE  \A o : Watching(o)' = IF o \in Npc
                                 THEN Watching(o) + One(x, o) - One(snoop_by[c], o)
                                 ELSE 0
<1> SUFFICES ASSUME NEW o, o \in Npc
             PROVE  Cardinality(Watched(o)')
                       = Cardinality(Watched(o)) + One(x, o) - One(snoop_by[c], o)
  BY DEF Watching, Watched, Slot
<1>1. PICK W : W = Watched(o) \ {c}
  OBVIOUS
<1>2. IsFiniteSet(W) /\ c \notin W /\ Cardinality(W) \in Nat
  <2>1. W \subseteq Slot
    BY <1>1 DEF Watched
  <2>2. QED
    BY <1>1, <2>1, SlotFacts, FS_Subset, FS_CardinalityType
<1>3. Watched(o) = IF snoop_by[c] = o THEN W \cup {c} ELSE W
  BY <1>1 DEF Watched
<1>4. Watched(o)' = IF x = o THEN W \cup {c} ELSE W
  BY <1>1 DEF Watched, Slot
<1>5. Cardinality(W \cup {c}) = Cardinality(W) + 1
  BY <1>2, FS_AddElement
<1>6. QED
  BY <1>2, <1>3, <1>4, <1>5 DEF One

LEMMA MonsterFacts ==
    ASSUME Typed, TwoWay, Snoops, NEW c \in Slot, NEW o \in Obj, NEW z
    PROVE  /\ Count(Monster(c), o) = IF o \in Npc THEN One(snoop_by[c], o) ELSE 0
           /\ Count(Monster(c) \o <<z>>, o)
                 = (IF o \in Npc THEN One(snoop_by[c], o) ELSE 0) + One(z, o)
<1>1. CASE Monster(c) = <<snoop_by[c]>> /\ snoop_by[c] \in Npc
  <2>1. o \notin Npc => One(snoop_by[c], o) = 0
    BY <1>1 DEF One
  <2>2. QED
    BY <1>1, <2>1, CountFacts
<1>2. CASE Monster(c) = << >> /\ snoop_by[c] \notin Npc
  <2>1. o \in Npc => One(snoop_by[c], o) = 0
    BY <1>2 DEF One
  <2>2. One(z, o) \in {0, 1}
    BY OneFacts
  <2>3. QED
    BY <1>2, <2>1, <2>2, CountFacts
<1>3. (snoop_by[c] # NULL /\ ip[snoop_by[c]] = NULL) <=> snoop_by[c] \in Npc
  BY EndFacts, RolesAssumption
<1>4. QED
  BY <1>1, <1>2, <1>3 DEF Monster, Interactive

LEMMA RefsShown ==
    ASSUME NEW more, NEW less, ref' = Counting(more, less),
           \A o \in Obj : ref[o] + Count(more, o) - Count(less, o)
                          = (IF ip'[o] # NULL THEN 1 ELSE 0)
                            + Watching(o)' + One(curr_obj', o)
    PROVE  Refs'
BY DEF Refs, Owed, Watching, One, Counting

LEMMA WatchingSame ==
    ASSUME \A d \in Slot, o \in Npc : snoop_by'[d] = o <=> snoop_by[d] = o
    PROVE  \A o : Watching(o)' = Watching(o)
<1>1. \A o \in Npc : Watched(o)' = Watched(o)
  BY DEF Watched, Slot
<1>2. QED
  BY <1>1 DEF Watching

(* The references before a step, to be compared with those after it.       *)
LEMMA RefsKnown ==
    ASSUME Refs, NEW o \in Obj
    PROVE  ref[o] = (IF ip[o] # NULL THEN 1 ELSE 0) + Watching(o) + One(curr_obj, o)
BY WatchingFacts DEF Refs

LEMMA RefsLinked ==
    ASSUME Typed, Refs, NEW c \in Slot, NEW o \in Obj, ip[o] = NULL, Linked(c, o),
           ref' = Counting(<<o>>, << >>), UNCHANGED <<snoops, curr_obj>>
    PROVE  Refs'
<1>1. \A x \in Obj : ip'[x] = IF x = o THEN c ELSE ip[x]
  BY DEF Linked, Typed
<1>2. \A x : Watching(x)' = Watching(x)
  BY WatchingSame DEF snoops
<1>3. ASSUME NEW x \in Obj
      PROVE  ref[x] + Count(<<o>>, x) - Count(<< >>, x)
                = (IF ip'[x] # NULL THEN 1 ELSE 0) + Watching(x)' + One(curr_obj', x)
  <2>1. Count(<<o>>, x) = One(o, x) /\ Count(<< >>, x) = 0
    BY CountFacts
  <2>2. ref[x] = (IF ip[x] # NULL THEN 1 ELSE 0) + Watching(x) + One(curr_obj, x)
    BY RefsKnown
  <2>3. Watching(x) \in Nat /\ One(curr_obj, x) \in {0, 1} /\ curr_obj' = curr_obj
    BY WatchingFacts, OneFacts
  <2>4. QED
    BY <1>1, <1>2, <2>1, <2>2, <2>3, SlotFacts DEF One
<1>4. QED
  BY <1>3, RefsShown
LEMMA RefsMoved ==
    ASSUME Typed, TwoWay, Snoops, Refs, NEW new \in Obj, NEW old \in Obj,
           new \notin Npc, ip[old] # NULL, curr_obj' = curr_obj,
           \A x \in Obj : ip'[x] = IF x = old THEN ip[new]
                                   ELSE IF x = new THEN ip[old] ELSE ip[x],
           \A d \in Slot : snoop_by'[d] =
              IF ip[new] # NULL /\ d = snoop_on[ip[new]] THEN old
              ELSE IF d = snoop_on[ip[old]] THEN new ELSE snoop_by[d],
           ref' = IF ip[new] # NULL THEN ref ELSE Counting(<<new>>, <<old>>)
    PROVE  Refs'
<1>1. old \notin Npc
  BY EndFacts
<1>2. \A d \in Slot : /\ ip[new] # NULL /\ d = snoop_on[ip[new]] => snoop_by[d] = new
                      /\ d = snoop_on[ip[old]] => snoop_by[d] = old
  BY EndFacts
<1>3. \A x : Watching(x)' = Watching(x)
  BY <1>1, <1>2, WatchingSame
<1>4. CASE ip[new] # NULL
  <2>1. \A x \in Obj : ip'[x] # NULL <=> ip[x] # NULL
    BY <1>4
  <2>2. \A x \in Obj : Owed(x)' = Owed(x)
    <3> SUFFICES ASSUME NEW x \in Obj PROVE Owed(x)' = Owed(x)
      OBVIOUS
    <3>1. Owed(x)' = (IF ip'[x] # NULL THEN 1 ELSE 0) + Watching(x)' + One(curr_obj', x)
      BY DEF Owed, Watching, One
    <3>2. QED
      BY <1>3, <2>1, <3>1, WatchingFacts
  <2>3. QED
    BY <1>4, <2>2 DEF Refs
<1>5. CASE ip[new] = NULL
  <2> PICK more, less : more = <<new>> /\ less = <<old>>
    OBVIOUS
  <2>1. ref' = Counting(more, less) /\ new # old
    BY <1>5
  <2>2. ASSUME NEW x \in Obj
        PROVE  ref[x] + Count(more, x) - Count(less, x)
                  = (IF ip'[x] # NULL THEN 1 ELSE 0) + Watching(x)' + One(curr_obj', x)
    <3>1. Count(more, x) = One(new, x) /\ Count(less, x) = One(old, x)
      BY CountFacts
    <3>2. ref[x] = (IF ip[x] # NULL THEN 1 ELSE 0) + Watching(x) + One(curr_obj, x)
      BY RefsKnown
    <3>3. Watching(x) \in Nat /\ One(curr_obj, x) \in {0, 1}
      BY WatchingFacts, OneFacts
    <3>4. QED
      BY <1>3, <1>5, <2>1, <3>1, <3>2, <3>3 DEF One
  <2>3. QED
    BY ONLY <2>1, <2>2, RefsShown
<1>6. QED
  BY <1>4, <1>5

LEMMA RefsTakenDown ==
    ASSUME Typed, TwoWay, Snoops, Refs, NEW c \in Slot, ob[c] # NULL, TakenDown(c),
           curr_obj' = curr_obj
    PROVE  Refs'
<1>1. PICK o \in Obj : o = ob[c] /\ ip[o] = c /\ o \notin Npc
  BY EndFacts
<1>2. \A x \in Obj : ip'[x] = IF x = o THEN NULL ELSE ip[x]
  BY <1>1 DEF TakenDown, Typed
<1>3. /\ \A d \in Slot : snoop_by'[d] = IF d = c \/ d = snoop_on[c] THEN NULL ELSE snoop_by[d]
      /\ ref' = Counting(<< >>, Monster(c) \o <<o>>)
  BY <1>1 DEF TakenDown, SnoopByWithout
<1>4. \A d \in Slot : d # c => \A x \in Npc : snoop_by'[d] = x <=> snoop_by[d] = x
  <2>1. \A d \in Slot : d = snoop_on[c] => snoop_by[d] = o
    BY <1>1, EndFacts
  <2>2. \A x \in Npc : x # NULL /\ x # o
    BY <1>1, RolesAssumption
  <2>3. QED
    BY <1>3, <2>1, <2>2
<1>5. \A x : Watching(x)' = IF x \in Npc
                            THEN Watching(x) + One(NULL, x) - One(snoop_by[c], x)
                            ELSE 0
  <2>1. snoop_by'[c] = NULL
    BY <1>3
  <2>2. QED
    BY <1>4, <2>1, WatchingMoved
<1>6. ASSUME NEW x \in Obj
      PROVE  ref[x] + Count(<< >>, x) - Count(Monster(c) \o <<o>>, x)
                = (IF ip'[x] # NULL THEN 1 ELSE 0) + Watching(x)' + One(curr_obj', x)
  <2>1. /\ Count(<< >>, x) = 0
        /\ Count(Monster(c) \o <<o>>, x)
              = (IF x \in Npc THEN One(snoop_by[c], x) ELSE 0) + One(o, x)
    BY CountFacts, MonsterFacts
  <2>2. ref[x] = (IF ip[x] # NULL THEN 1 ELSE 0) + Watching(x) + One(curr_obj, x)
    BY RefsKnown
  <2>3. /\ Watching(x) \in Nat /\ One(curr_obj, x) \in {0, 1}
        /\ One(snoop_by[c], x) \in {0, 1} /\ One(NULL, x) = 0
        /\ x \notin Npc => Watching(x) = 0
    BY WatchingFacts, OneFacts, RolesAssumption DEF One, Watching
  <2>4. (IF ip'[x] # NULL THEN 1 ELSE 0) = (IF ip[x] # NULL THEN 1 ELSE 0) - One(o, x)
    BY <1>1, <1>2, SlotFacts DEF One
  <2>5. One(o, x) \in {0, 1}
    BY OneFacts
  <2>6. Watching(x)' = Watching(x) - (IF x \in Npc THEN One(snoop_by[c], x) ELSE 0)
    BY <1>5, <2>3
  <2>7. QED
    BY <2>1, <2>2, <2>3, <2>4, <2>5, <2>6
<1>7. QED
  BY <1>3, <1>6, RefsShown
(* set_snoop(): the snooper on one connection changes, as far as snoopers  *)
(* without connections are concerned.                                      *)
LEMMA RefsStopped ==
    ASSUME Typed, TwoWay, Snoops, Refs, StopSnoop, ip[Me] # NULL \/ Me \in Npc
    PROVE  Refs'
<1>1. PICK me \in Obj, v \in Slot :
              /\ me = Me /\ snoop_by[v] = me
              /\ ip[me] # NULL => v = snoop_on[ip[me]]
              /\ ip[me] = NULL => me \in Npc
              /\ UNCHANGED <<ob, ip, curr_obj>>
              /\ snoop_on' = [d \in Slot |-> IF d = ip[me] THEN NULL ELSE snoop_on[d]]
              /\ snoop_by' = [d \in Slot |-> IF d = v THEN NULL ELSE snoop_by[d]]
              /\ ref' = IF ip[me] = NULL THEN Counting(<< >>, <<me>>) ELSE ref
  BY StopFacts
<1>2. ip[me] = NULL <=> me \in Npc
  BY <1>1, EndFacts
<1>3. \A x : Watching(x)' = IF x \in Npc THEN Watching(x) + One(NULL, x) - One(me, x)
                            ELSE 0
  <2>1. /\ snoop_by'[v] = NULL
        /\ \A d \in Slot : d # v => \A x \in Npc : snoop_by'[d] = x <=> snoop_by[d] = x
    BY <1>1
  <2>2. QED
    BY <1>1, <2>1, WatchingMoved
<1>4. \A x \in Obj : ref[x] = (IF ip[x] # NULL THEN 1 ELSE 0) + Watching(x) + One(curr_obj, x)
  BY RefsKnown
<1>5. \A x \in Obj : /\ Watching(x) \in Nat /\ One(curr_obj, x) \in {0, 1}
                     /\ One(NULL, x) = 0 /\ One(me, x) \in {0, 1}
                     /\ x \notin Npc => Watching(x) = 0
  BY WatchingFacts, OneFacts, RolesAssumption DEF One, Watching
<1>6. CASE ip[me] # NULL
  <2>1. \A x \in Npc : One(me, x) = 0
    BY <1>2, <1>6 DEF One
  <2>2. \A x \in Obj : Watching(x)' = Watching(x)
    BY <1>3, <1>5, <2>1
  <2>3. \A x \in Obj : Owed(x)' = Owed(x)
    <3> SUFFICES ASSUME NEW x \in Obj PROVE Owed(x)' = Owed(x)
      OBVIOUS
    <3>1. Owed(x)' = (IF ip'[x] # NULL THEN 1 ELSE 0) + Watching(x)' + One(curr_obj', x)
      BY DEF Owed, Watching, One
    <3>2. QED
      BY <1>1, <2>2, <3>1, WatchingFacts
  <2>4. ref' = ref
    BY <1>1, <1>6
  <2>5. QED
    BY <2>3, <2>4 DEF Refs
<1>7. CASE ip[me] = NULL
  <2> PICK more, less : more = << >> /\ less = <<me>>
    OBVIOUS
  <2>1. ref' = Counting(more, less)
    BY <1>1, <1>7
  <2>2. ASSUME NEW x \in Obj
        PROVE  ref[x] + Count(more, x) - Count(less, x)
                  = (IF ip'[x] # NULL THEN 1 ELSE 0) + Watching(x)' + One(curr_obj', x)
    <3>1. Count(more, x) = 0 /\ Count(less, x) = One(me, x)
      BY CountFacts
    <3>2. Watching(x)' = Watching(x) - One(me, x)
      BY <1>2, <1>3, <1>5, <1>7 DEF One
    <3>3. ip'[x] = ip[x] /\ curr_obj' = curr_obj
      BY <1>1
    <3>4. QED
      BY ONLY <1>4, <1>5, <3>1, <3>2, <3>3
  <2>3. QED
    BY ONLY <2>1, <2>2, RefsShown
<1>8. QED
  BY <1>6, <1>7

LEMMA RefsOnlyEnded ==
    ASSUME Typed, TwoWay, Snoops, Refs, OnlyEndSnoop
    PROVE  Refs'
<1>1. PICK on \in Slot : \E p :
              /\ p = IF snoop_by[on] = NULL THEN NULL ELSE ip[snoop_by[on]]
              /\ UNCHANGED <<ob, ip, curr_obj>>
              /\ snoop_on' = [d \in Slot |-> IF d = p THEN NULL ELSE snoop_on[d]]
              /\ snoop_by' = [d \in Slot |-> IF d = on THEN NULL ELSE snoop_by[d]]
              /\ ref' = Counting(<< >>, Monster(on))
  BY OnlyEndFacts
<1>2. \A x : Watching(x)' = IF x \in Npc
                            THEN Watching(x) + One(NULL, x) - One(snoop_by[on], x)
                            ELSE 0
  <2>1. /\ snoop_by'[on] = NULL
        /\ \A d \in Slot : d # on => \A x \in Npc : snoop_by'[d] = x <=> snoop_by[d] = x
    BY <1>1
  <2>2. QED
    BY <2>1, WatchingMoved
<1> PICK more, less : more = << >> /\ less = Monster(on)
  OBVIOUS
<1>3. ref' = Counting(more, less)
  BY <1>1
<1>4. ASSUME NEW x \in Obj
      PROVE  ref[x] + Count(more, x) - Count(less, x)
                = (IF ip'[x] # NULL THEN 1 ELSE 0) + Watching(x)' + One(curr_obj', x)
  <2>1. /\ Count(more, x) = 0
        /\ Count(less, x) = IF x \in Npc THEN One(snoop_by[on], x) ELSE 0
    BY CountFacts, MonsterFacts
  <2>2. ref[x] = (IF ip[x] # NULL THEN 1 ELSE 0) + Watching(x) + One(curr_obj, x)
    BY RefsKnown
  <2>3. /\ Watching(x) \in Nat /\ One(curr_obj, x) \in {0, 1}
        /\ One(snoop_by[on], x) \in {0, 1} /\ One(NULL, x) = 0
        /\ x \notin Npc => Watching(x) = 0
    BY WatchingFacts, OneFacts, RolesAssumption DEF One, Watching
  <2>4. ip'[x] = ip[x] /\ curr_obj' = curr_obj
    BY <1>1
  <2>5. QED
    BY ONLY <1>2, <2>1, <2>2, <2>3, <2>4
<1>5. QED
  BY ONLY <1>3, <1>4, RefsShown

LEMMA RefsStarted ==
    ASSUME Typed, TwoWay, Snoops, Refs, StartSnoop, ip[Me] # NULL \/ Me \in Npc
    PROVE  Refs'
<1>1. PICK me \in Obj, on \in Slot : \E p, b :
              /\ me = Me /\ ob[on] # NULL /\ ip[me] \notin Chain(on)
              /\ ip[me] = NULL => me \in Npc
              /\ p = IF snoop_by[on] = NULL THEN NULL ELSE ip[snoop_by[on]]
              /\ b = IF ip[me] = NULL \/ ip[me] = p THEN NULL ELSE snoop_on[ip[me]]
              /\ UNCHANGED <<ob, ip, curr_obj>>
              /\ snoop_on' = [d \in Slot |-> IF d = ip[me] THEN on
                                             ELSE IF d = p THEN NULL ELSE snoop_on[d]]
              /\ snoop_by' = [d \in Slot |-> IF d = on THEN me
                                             ELSE IF d = b THEN NULL ELSE snoop_by[d]]
              /\ ref' = Counting(IF ip[me] = NULL THEN <<me>> ELSE << >>, Monster(on))
  BY StartFacts
<1>2. PICK p, b :
              /\ me = Me /\ ob[on] # NULL /\ ip[me] \notin Chain(on)
              /\ ip[me] = NULL => me \in Npc
              /\ p = IF snoop_by[on] = NULL THEN NULL ELSE ip[snoop_by[on]]
              /\ b = IF ip[me] = NULL \/ ip[me] = p THEN NULL ELSE snoop_on[ip[me]]
              /\ UNCHANGED <<ob, ip, curr_obj>>
              /\ snoop_on' = [d \in Slot |-> IF d = ip[me] THEN on
                                             ELSE IF d = p THEN NULL ELSE snoop_on[d]]
              /\ snoop_by' = [d \in Slot |-> IF d = on THEN me
                                             ELSE IF d = b THEN NULL ELSE snoop_by[d]]
              /\ ref' = Counting(IF ip[me] = NULL THEN <<me>> ELSE << >>, Monster(on))
  BY <1>1
<1>3. ip[me] = NULL <=> me \in Npc
  BY <1>1, EndFacts
<1>4. \A d \in Slot : d # on => \A x \in Npc : snoop_by'[d] = x <=> snoop_by[d] = x
  <2>1. \A d \in Slot : d = b => snoop_by[d] = me /\ me \notin Npc
    <3>1. b # NULL => ip[me] # NULL /\ b = snoop_on[ip[me]]
      BY <1>2
    <3>2. QED
      BY <1>3, <3>1, EndFacts
  <2>2. \A x \in Npc : x # NULL
    BY RolesAssumption
  <2>3. QED
    BY <1>2, <2>1, <2>2
<1>5. \A x : Watching(x)' = IF x \in Npc
                            THEN Watching(x) + One(me, x) - One(snoop_by[on], x)
                            ELSE 0
  <2>1. snoop_by'[on] = me
    BY <1>2
  <2>2. QED
    BY <1>4, <2>1, WatchingMoved
<1> PICK more, less : /\ more = IF ip[me] = NULL THEN <<me>> ELSE << >>
                      /\ less = Monster(on)
  OBVIOUS
<1>6. ref' = Counting(more, less)
  BY <1>2
<1>7. ASSUME NEW x \in Obj
      PROVE  ref[x] + Count(more, x) - Count(less, x)
                = (IF ip'[x] # NULL THEN 1 ELSE 0) + Watching(x)' + One(curr_obj', x)
  <2>1. Count(more, x) = IF x \in Npc THEN One(me, x) ELSE 0
    <3>1. CASE me \in Npc
      BY <1>3, <3>1, CountFacts DEF One
    <3>2. CASE me \notin Npc
      BY <1>3, <3>2, CountFacts DEF One
    <3>3. QED
      BY <3>1, <3>2
  <2>2. Count(less, x) = IF x \in Npc THEN One(snoop_by[on], x) ELSE 0
    BY MonsterFacts
  <2>3. ref[x] = (IF ip[x] # NULL THEN 1 ELSE 0) + Watching(x) + One(curr_obj, x)
    BY RefsKnown
  <2>4. /\ Watching(x) \in Nat /\ One(curr_obj, x) \in {0, 1}
        /\ One(snoop_by[on], x) \in {0, 1} /\ One(me, x) \in {0, 1}
        /\ x \notin Npc => Watching(x) = 0
    BY WatchingFacts, OneFacts DEF Watching
  <2>5. ip'[x] = ip[x] /\ curr_obj' = curr_obj
    BY <1>2
  <2>6. QED
    BY ONLY <1>5, <2>1, <2>2, <2>3, <2>4, <2>5
<1>8. QED
  BY ONLY <1>6, <1>7, RefsShown
-----------------------------------------------------------------------------
(* ----- Every step keeps the numbers ------------------------------------- *)
(* A call returns, or the calls stay, and the slots are in use as before.  *)
LEMMA NumQuiet ==
    ASSUME IInv, NumInv, \A c \in Slot : ob'[c] = NULL <=> ob[c] = NULL,
           UNCHANGED <<max_player, num_player>>,
           closing' \subseteq Used, do_close' \subseteq Used,
           frames' = << >> \/ UNCHANGED frames \/ (frames # << >> /\ frames' = Returned)
    PROVE  NumInv'
<1>1. Typed /\ Nesting /\ Numbers /\ Removing
  BY DEF IInv, NumInv
<1>2. Numbers'
  BY <1>1, NumbersSame
<1>3. CASE frames' = << >>
  BY <1>2, <1>3, RemovingNone DEF NumInv
<1>4. CASE UNCHANGED frames
  <2>1. \A i \in DOMAIN frames : frames[i][1] = "disconnect" => frames[i][2] \in Slot
    BY <1>1 DEF Nesting, FrameOK
  <2>2. Removing'
    BY <1>1, <1>4, <2>1 DEF Removing
  <2>3. QED
    BY <1>2, <2>2 DEF NumInv
<1>5. CASE frames # << >> /\ frames' = Returned
  BY <1>1, <1>2, <1>5, RemovingPop DEF NumInv
<1>6. QED
  BY <1>3, <1>4, <1>5

(* A question is put to the master object.                                 *)
LEMMA NumAsked ==
    ASSUME IInv, NumInv, frames # << >>, NEW f \in Frame, frames' = Append(frames, f),
           f[1] # "disconnect", UNCHANGED slots
    PROVE  NumInv'
<1>1. Typed /\ Nesting /\ Numbers /\ Removing
  BY DEF IInv, NumInv
<1>2. Numbers'
  BY <1>1, NumbersSame DEF slots, Numbers
<1>3. Removing'
  BY <1>1, CallsPush DEF slots
<1>4. QED
  BY <1>2, <1>3 DEF NumInv

(* A slot is given up, and no more than one call is left.                  *)
LEMMA NumTakenDown ==
    ASSUME Typed, Numbers, NEW c \in Slot, ob[c] # NULL, TakenDown(c),
           frames' = << >> \/ \E f : frames' = <<f>> /\ f[1] # "disconnect"
    PROVE  NumInv'
<1>1. Numbers'
  BY NumbersTakenDown DEF Used
<1>2. CASE frames' = << >>
  BY <1>1, <1>2, RemovingNone DEF NumInv
<1>3. CASE \E f : frames' = <<f>> /\ f[1] # "disconnect"
  <2>1. PICK f : frames' = <<f>> /\ f[1] # "disconnect"
    BY <1>3
  <2>2. DOMAIN frames' = {1} /\ frames'[1] = f
    BY <2>1
  <2>3. Removing'
    BY <2>1, <2>2 DEF Removing
  <2>4. QED
    BY <1>1, <2>3 DEF NumInv
<1>4. QED
  BY <1>2, <1>3

LEMMA AppendTwo ==
    ASSUME NEW f, NEW g
    PROVE  /\ DOMAIN Append(<<f>>, g) = {1, 2}
           /\ Append(<<f>>, g)[1] = f /\ Append(<<f>>, g)[2] = g
<1>1. <<f>> \in Seq({f, g}) /\ Len(<<f>>) = 1
  OBVIOUS
<1>2. PICK s : s = Append(<<f>>, g)
  OBVIOUS
<1>3. s \in Seq({f, g}) /\ Len(s) = 2 /\ s[1] = f /\ s[2] = g
  BY <1>1, <1>2, AppendProperties
<1>4. QED
  BY <1>2, <1>3

(* remove_interactive(), from the backend or from new_player() and its     *)
(* caller.                                                                 *)
LEMMA NumRemoved ==
    ASSUME Typed, Numbers, NEW c \in Slot, ob[c] # NULL, NEW below, Removed(c, below),
           \/ below = << >>
           \/ \E f : below = <<f>> /\ f[1] \in {"new_player", "clean_up"}
    PROVE  NumInv'
<1>1. CASE ob[c] \in destructed
  <2>1. TakenDown(c) /\ frames' = below
    BY <1>1 DEF Removed
  <2>2. QED
    BY <2>1, NumTakenDown
<1>2. CASE ob[c] \notin destructed
  <2>1. /\ closing' = closing \cup {c} /\ do_close' = do_close \ {c}
        /\ frames' = Append(below, <<"disconnect", c, NULL>>)
        /\ UNCHANGED <<ob, max_player, num_player>>
    BY <1>2 DEF Removed
  <2>2. Numbers'
    BY <2>1, NumbersSame DEF Numbers, Used
  <2>3. Removing'
    <3>1. CASE below = << >>
      <4>1. frames' = << <<"disconnect", c, NULL>> >>
        BY <2>1, <3>1
      <4>2. DOMAIN frames' = {1} /\ frames'[1] = <<"disconnect", c, NULL>>
        BY <4>1
      <4>3. QED
        BY <2>1, <4>2 DEF Removing
    <3>2. CASE \E f : below = <<f>> /\ f[1] \in {"new_player", "clean_up"}
      <4>1. PICK f : below = <<f>> /\ f[1] \in {"new_player", "clean_up"}
        BY <3>2
      <4>2. PICK g : g = <<"disconnect", c, NULL>>
        OBVIOUS
      <4>3. frames' = Append(<<f>>, g)
        BY <2>1, <4>1, <4>2
      <4>4. DOMAIN frames' = {1, 2} /\ frames'[1] = f /\ frames'[2] = g
        BY <4>3, AppendTwo
      <4>5. QED
        BY <2>1, <4>1, <4>2, <4>4 DEF Removing
    <3>3. QED
      BY <3>1, <3>2
  <2>4. QED
    BY <2>2, <2>3 DEF NumInv
<1>3. QED
  BY <1>1, <1>2
(* A new connection, and at most the call of connect() or logon().         *)
LEMMA NumLinked ==
    ASSUME Typed, Numbers, NEW c \in Slot, ob[c] = NULL, NEW o \in Obj, Linked(c, o),
           frames' = << >> \/ \E f : frames' = <<f>> /\ f[1] # "disconnect"
    PROVE  NumInv'
<1>1. Numbers'
  BY NumbersLinked
<1>2. CASE frames' = << >>
  BY <1>1, <1>2, RemovingNone DEF NumInv
<1>3. CASE \E f : frames' = <<f>> /\ f[1] # "disconnect"
  <2>1. PICK f : frames' = <<f>> /\ f[1] # "disconnect"
    BY <1>3
  <2>2. DOMAIN frames' = {1} /\ frames'[1] = f
    BY <2>1
  <2>3. Removing'
    BY <2>1, <2>2 DEF Removing
  <2>4. QED
    BY <1>1, <2>3 DEF NumInv
<1>4. QED
  BY <1>2, <1>3

(* A single new call, and the slots as they are.                           *)
LEMMA NumOneCall ==
    ASSUME Numbers, \A c \in Slot : ob'[c] = NULL <=> ob[c] = NULL,
           UNCHANGED <<closing, do_close, max_player, num_player>>,
           NEW f, frames' = <<f>>, f[1] # "disconnect"
    PROVE  NumInv'
<1>1. Numbers'
  BY NumbersSame DEF Numbers
<1>2. DOMAIN frames' = {1} /\ frames'[1] = f
  OBVIOUS
<1>3. Removing'
  BY <1>2 DEF Removing
<1>4. QED
  BY <1>1, <1>3 DEF NumInv

(* A call that is not made on top of others returns.                       *)
LEMMA LastReturns ==
    ASSUME Typed, Nesting, frames # << >>,
           Top[1] \in {"lpc", "connect", "logon", "new_player", "clean_up"}
    PROVE  Returned = << >> /\ Top = frames[1] /\ Len(frames) = 1
<1>1. frames \in Seq(Frame)
  BY DEF Typed, Frame
<1>2. PICK n \in Nat : Len(frames) = n + 1 /\ n = 0 /\ Top = frames[n + 1]
  BY TopFacts
<1>3. QED
  BY <1>1, <1>2, PopFacts DEF Returned

(* disconnect() is called from the backend, or for a connection that an    *)
(* outgoing one replaces or that is cleaned up.                            *)
LEMMA DisconnectReturns ==
    ASSUME Typed, Nesting, Removing, frames # << >>, Top[1] = "disconnect"
    PROVE  /\ Top[2] \in Slot /\ ob[Top[2]] # NULL
           /\ \/ Returned = << >> /\ Top = frames[1]
              \/ /\ Returned = <<frames[1]>> /\ Top = frames[2] /\ Len(frames) = 2
                 /\ frames[1][1] \in {"new_player", "clean_up"}
<1>1. frames \in Seq(Frame)
  BY DEF Typed, Frame
<1>2. PICK n \in Nat : /\ Len(frames) = n + 1 /\ DOMAIN frames = 1 .. n + 1
                       /\ Top = frames[n + 1] /\ FrameOK(Top)
                       /\ Top[1] = "disconnect" => n \in {0, 1}
  BY TopFacts
<1>3. n + 1 \in DOMAIN frames
  BY <1>2
<1>4. Top[2] \in Slot /\ ob[Top[2]] # NULL
  BY <1>2, <1>3 DEF FrameOK, Removing
<1>5. /\ Returned \in Seq(Frame) /\ Len(Returned) = n
      /\ \A i \in 1 .. n : Returned[i] = frames[i]
      /\ n = 0 => Returned = << >>
  BY <1>1, <1>2, PopFacts DEF Returned
<1>6. CASE n = 0
  BY <1>2, <1>4, <1>5, <1>6
<1>7. CASE n = 1
  <2>1. Returned = <<frames[1]>>
    BY <1>5, <1>7
  <2>2. frames[1][1] \in {"new_player", "clean_up"}
    BY <1>2, <1>3, <1>7 DEF Removing
  <2>3. Len(frames) = 2 /\ Top = frames[2]
    BY <1>2, <1>7
  <2>4. QED
    BY <1>4, <2>1, <2>2, <2>3
<1>8. QED
  BY <1>2, <1>6, <1>7
LEMMA NumStep ==
    ASSUME IInv, NumInv, [Next]_vars
    PROVE  NumInv'
<1>1. Typed /\ TwoWay /\ Nesting /\ Replacing /\ Numbers /\ Removing
  BY DEF IInv, NumInv
<1>2. closing \subseteq Used /\ do_close \subseteq Used
  BY <1>1 DEF Numbers
<1>3. CASE Execed \/ Return \/ Refused
  BY <1>2, <1>3, NumQuiet DEF Execed, Return, Refused, In, slots
<1>4. CASE Rejected
  <2>1. /\ frames # << >> /\ Top[1] = "connect" /\ ip[master_ob] = Top[2]
        /\ Removed(Top[2], Returned)
    BY <1>4 DEF Rejected, In
  <2>2. Top[2] \in Slot /\ ob[Top[2]] # NULL
    <3>1. Top[2] \in Slot
      BY <1>1, <2>1, TopFacts DEF FrameOK
    <3>2. QED
      BY <1>1, <2>1, <3>1, RolesAssumption, SlotFacts DEF TwoWay, Interactive
  <2>3. Returned = << >>
    BY <1>1, <2>1, LastReturns
  <2>4. PICK c \in Slot : c = Top[2]
    BY <2>2
  <2>5. QED
    BY <1>1, <2>1, <2>2, <2>3, <2>4, NumRemoved
<1>5. CASE Disconnected
  <2>1. frames # << >> /\ Top[1] = "disconnect" /\ TakenDown(Top[2]) /\ frames' = Returned
    BY <1>5 DEF Disconnected, In
  <2>2. PICK c \in Slot : c = Top[2] /\ ob[c] # NULL
    BY <1>1, <2>1, DisconnectReturns
  <2>3. frames' = << >> \/ \E f : frames' = <<f>> /\ f[1] # "disconnect"
    BY <1>1, <2>1, DisconnectReturns
  <2>4. QED
    BY <1>1, <2>1, <2>2, <2>3, NumTakenDown
<1>6. CASE Evaluate
  <2>1. frames' = << <<"lpc", NULL, NULL>> >> /\ UNCHANGED slots
    BY <1>6 DEF Evaluate, Backend, Called
  <2>2. QED
    BY <1>1, <2>1, NumOneCall DEF slots
<1>7. CASE Exec
  <2>1. /\ frames # << >> /\ frames' = Returned /\ ob' = ObAfter(Top[2], Top[3])
        /\ UNCHANGED <<closing, do_close, max_player, num_player>>
        /\ Top[1] = "valid_exec"
    BY <1>7 DEF Exec, In
  <2>2. Top[2] \in User /\ Top[3] \in Obj
    BY <1>1, <2>1, TopFacts DEF FrameOK
  <2>3. \A c \in Slot : ob'[c] = NULL <=> ob[c] = NULL
    <3>1. PICK new \in Obj, old \in Obj : new = Top[2] /\ old = Top[3] /\ ip[old] # NULL
      BY <1>7, <2>2, RolesAssumption DEF Exec, Interactive
    <3>2. ob' = [c \in Slot |-> CASE c = ip[old] -> new
                                  [] c # ip[old] /\ c = ip[new] -> old
                                  [] OTHER -> ob[c]]
      BY <2>1, <3>1 DEF ObAfter
    <3>3. \A c \in Slot : ob'[c] = IF c = ip[old] THEN new
                                   ELSE IF c = ip[new] THEN old ELSE ob[c]
      BY <3>2
    <3>4. /\ new # NULL /\ old # NULL
          /\ \A x \in Obj : ip[x] # NULL => ob[ip[x]] = x
      BY <1>1, RolesAssumption DEF TwoWay, Interactive
    <3>5. QED
      BY <3>3, <3>4, SlotFacts
  <2>4. QED
    BY <1>2, <2>1, <2>3, NumQuiet
<1>8. CASE StopSnoop \/ StartSnoop \/ OnlyEndSnoop
  BY <1>2, <1>8, NumQuiet DEF StopSnoop, StartSnoop, OnlyEndSnoop, In, slots
<1>9. CASE OutGivenUp
  BY <1>2, <1>9, NumQuiet DEF OutGivenUp, slots
<1>10. CASE OutFailed
  <2>1. PICK o : o = curr_obj
    OBVIOUS
  <2>2. frames' = << <<"logon", o, NULL>> >> /\ UNCHANGED slots
    BY <1>10, <2>1 DEF OutFailed, Waiting, Backend, Called
  <2>3. QED
    BY <1>1, <2>2, NumOneCall DEF slots
<1>11. CASE OutReplaced
  <2>1. frames # << >> /\ Top[1] = "new_player" /\ OutLinked(Top[2])
    BY <1>11 DEF OutReplaced, In
  <2>2. Top = frames[1] /\ Returned = << >>
    BY <1>1, <2>1, LastReturns
  <2>3. PICK c \in Slot : c = Top[2] /\ ob[c] = NULL
    BY <1>1, <2>1, <2>2 DEF Replacing
  <2>4. PICK o \in Obj : o = curr_obj
    BY <1>1, <2>1, <2>2, RolesAssumption DEF Replacing
  <2>5. Linked(c, o)
    BY <2>1, <2>3, <2>4 DEF OutLinked
  <2>6. frames' = << >> \/ frames' = << <<"logon", o, NULL>> >>
    BY <2>1, <2>2, <2>4 DEF OutLinked
  <2>7. QED
    BY <1>1, <2>3, <2>5, <2>6, NumLinked
<1>12. CASE LoggedOn \/ LogonError
  BY <1>2, <1>12, NumQuiet DEF LoggedOn, LogonError, In, slots
<1>13. CASE OutCleanedUp
  BY <1>2, <1>13, NumQuiet DEF OutCleanedUp, In, slots
<1>14. CASE OutCleanUp
  <2>1. CASE ip[curr_obj] # NULL
    <3>1. PICK g : g = <<"clean_up", NULL, NULL>>
      OBVIOUS
    <3>2. Removed(ip[curr_obj], <<g>>)
      BY <1>14, <2>1, <3>1 DEF OutCleanUp, Interactive
    <3>3. curr_obj \in Obj
      BY <1>1, <1>14, RolesAssumption DEF OutCleanUp, Typed
    <3>4. PICK c \in Slot : c = ip[curr_obj] /\ ob[c] # NULL
      BY <1>1, <2>1, <3>3, RolesAssumption DEF TwoWay, Interactive, Typed
    <3>5. QED
      BY <1>1, <3>1, <3>2, <3>4, NumRemoved
  <2>2. CASE ip[curr_obj] = NULL
    BY <1>2, <1>14, <2>2, NumQuiet DEF OutCleanUp, Interactive, slots
  <2>3. QED
    BY <2>1, <2>2
<1>15. ASSUME NEW c \in Slot, Accept(c) \/ Close(c) \/ OutConnected(c)
       PROVE  NumInv'
  <2>1. CASE Accept(c)
    <3>1. /\ ob[c] = NULL /\ Linked(c, master_ob)
          /\ frames' = << <<"connect", c, NULL>> >>
      BY <2>1 DEF Accept, FirstFree, Used, Backend, Called
    <3>2. PICK o \in Obj : o = master_ob
      BY RolesAssumption
    <3>3. QED
      BY <1>1, <3>1, <3>2, NumLinked
  <2>2. CASE Close(c)
    <3>1. ob[c] # NULL /\ Removed(c, << >>)
      BY <2>2 DEF Close, Used
    <3>2. PICK below : below = << >>
      OBVIOUS
    <3>3. Removed(c, below)
      BY <3>1, <3>2
    <3>4. QED
      BY <1>1, <3>1, <3>2, <3>3, NumRemoved
  <2>3. CASE OutConnected(c)
    <3>1. PICK o \in Obj : o = curr_obj
      BY <2>3 DEF OutConnected, Live
    <3>2. CASE ip[o] # NULL
      <4>1. PICK g : g = <<"new_player", c, NULL>>
        OBVIOUS
      <4>2. Removed(ip[o], <<g>>)
        BY <2>3, <3>1, <3>2, <4>1 DEF OutConnected, Interactive
      <4>3. PICK d \in Slot : d = ip[o] /\ ob[d] # NULL
        BY <1>1, <3>2, RolesAssumption DEF TwoWay, Interactive, Typed
      <4>4. QED
        BY <1>1, <4>1, <4>2, <4>3, NumRemoved
    <3>3. CASE ip[o] = NULL
      <4>1. ob[c] = NULL /\ Linked(c, o)
        BY <2>3, <3>1, <3>3 DEF OutConnected, FirstFree, Used, Interactive, OutLinked
      <4>2. frames' = << >> \/ frames' = << <<"logon", o, NULL>> >>
        BY <2>3, <3>1, <3>3 DEF OutConnected, Waiting, Interactive, OutLinked
      <4>3. QED
        BY <1>1, <4>1, <4>2, NumLinked
    <3>4. QED
      BY <3>2, <3>3
  <2>4. QED
    BY <1>15, <2>1, <2>2, <2>3
<1>16. ASSUME NEW o \in Obj, Rebind(o)
       PROVE  NumInv'
  <2>1. /\ frames # << >> /\ Top[1] = "connect" /\ ip[master_ob] = Top[2]
        /\ ob' = [ob EXCEPT ![Top[2]] = o]
        /\ frames' = Append(Returned, <<"logon", NULL, NULL>>)
        /\ UNCHANGED <<closing, do_close, max_player, num_player>>
    BY <1>16 DEF Rebind, In
  <2>2. Top[2] \in Slot /\ ob[Top[2]] # NULL
    <3>1. Top[2] \in Slot
      BY <1>1, <2>1, TopFacts DEF FrameOK
    <3>2. QED
      BY <1>1, <2>1, <3>1, RolesAssumption, SlotFacts DEF TwoWay, Interactive
  <2>3. \A c \in Slot : ob'[c] = NULL <=> ob[c] = NULL
    BY <1>1, <2>1, <2>2, RolesAssumption DEF Typed
  <2>4. frames' = << <<"logon", NULL, NULL>> >>
    BY <1>1, <2>1, LastReturns
  <2>5. QED
    BY <1>1, <2>1, <2>3, <2>4, NumOneCall
<1>17. ASSUME NEW o \in Obj, RemoveObject(o)
       PROVE  NumInv'
  <2>1. CASE ip[o] # NULL
    <3>1. PICK c \in Slot : c = ip[o] /\ ob[c] # NULL
      BY <1>1, <2>1, RolesAssumption DEF TwoWay, Interactive, Typed
    <3>2. TakenDown(c) /\ frames' = << >>
      BY <1>17, <2>1, <3>1 DEF RemoveObject, Interactive, Backend
    <3>3. QED
      BY <1>1, <3>1, <3>2, NumTakenDown
  <2>2. CASE ip[o] = NULL
    BY <1>2, <1>17, <2>2, NumQuiet DEF RemoveObject, Interactive, slots
  <2>3. QED
    BY <2>1, <2>2
<1>18. ASSUME NEW o \in Obj, Recycle(o) \/ Destruct(o) \/ NetConnect(o)
       PROVE  NumInv'
  BY <1>2, <1>18, NumQuiet DEF Recycle, Destruct, NetConnect, slots
<1>19. ASSUME NEW o \in Obj, MarkToClose(o)
       PROVE  NumInv'
  <2>1. ip[o] \in Used
    BY <1>1, <1>19, RolesAssumption DEF MarkToClose, TwoWay, Interactive, Typed, Used
  <2>2. QED
    BY <1>2, <1>19, <2>1, NumQuiet DEF MarkToClose
<1>20. ASSUME NEW x \in Obj, NEW y \in Obj, AskToExec(x, y)
       PROVE  NumInv'
  <2>1. PICK f \in Frame : f = <<"valid_exec", x, y>>
    BY DEF Frame, Calls, Ptr
  <2>2. frames # << >> /\ frames' = Append(frames, f) /\ UNCHANGED slots
    BY <1>20, <2>1 DEF AskToExec, LPC, Called
  <2>3. QED
    BY <2>1, <2>2, NumAsked
<1>21. ASSUME NEW x \in Obj, NEW y \in Obj \cup {NULL}, AskToSnoop(x, y)
       PROVE  NumInv'
  <2>1. PICK f \in Frame : f = <<"valid_snoop", x, y>>
    BY DEF Frame, Calls, Ptr
  <2>2. frames # << >> /\ frames' = Append(frames, f) /\ UNCHANGED slots
    BY <1>21, <2>1 DEF AskToSnoop, LPC, Called
  <2>3. QED
    BY <2>1, <2>2, NumAsked
<1>22. CASE UNCHANGED vars
  BY <1>2, <1>22, NumQuiet DEF vars, slots
<1>23. QED
  BY <1>3, <1>4, <1>5, <1>6, <1>7, <1>8, <1>9, <1>10, <1>11, <1>12, <1>13, <1>14, <1>15,
     <1>16, <1>17, <1>18, <1>19, <1>20, <1>21, <1>22 DEF Next
-----------------------------------------------------------------------------
(* ----- Every step keeps snoops and references ---------------------------- *)
(* What is said of the slots and objects, for each thing a step does.      *)
Watch == Snoops /\ Refs /\ NoSnoopLoop

LEMMA WatchSame ==
    ASSUME Watch, UNCHANGED <<ob, ip, snoop_on, snoop_by, curr_obj, ref>>
    PROVE  Watch'
<1>1. Snoops' /\ NoSnoopLoop'
  BY DEF Watch, Snoops, SnoopLinked, Used, Interactive, Slot, Ptr, NoSnoopLoop, Chain
<1>2. Refs'
  BY DEF Watch, Refs, Owed, Watched, Slot
<1>3. QED
  BY <1>1, <1>2 DEF Watch

(* The entry for an outgoing connection is given to x, which may be NULL.  *)
LEMMA WatchEntry ==
    ASSUME Watch, UNCHANGED <<ob, ip, snoop_on, snoop_by>>,
           \/ curr_obj' = NULL /\ ref' = Counting(<< >>, <<curr_obj>>)
           \/ curr_obj = NULL /\ ref' = Counting(<<curr_obj'>>, << >>)
    PROVE  Watch'
<1>1. Snoops' /\ NoSnoopLoop'
  BY DEF Watch, Snoops, SnoopLinked, Used, Interactive, Slot, Ptr, NoSnoopLoop, Chain
<1>2. \A x : Watching(x)' = Watching(x)
  BY WatchingSame
<1> PICK y : y = curr_obj'
  OBVIOUS
<1>3. \A x \in Obj : /\ Watching(x) \in Nat /\ One(curr_obj, x) \in {0, 1}
                     /\ One(NULL, x) = 0 /\ One(y, x) \in {0, 1}
  BY WatchingFacts, OneFacts, RolesAssumption DEF One
<1>4. \A x \in Obj : ref[x] = (IF ip[x] # NULL THEN 1 ELSE 0) + Watching(x) + One(curr_obj, x)
  BY RefsKnown DEF Watch
<1>5. CASE curr_obj' = NULL /\ ref' = Counting(<< >>, <<curr_obj>>)
  <2> PICK more, less : more = << >> /\ less = <<curr_obj>>
    OBVIOUS
  <2>1. ref' = Counting(more, less)
    BY <1>5
  <2>2. ASSUME NEW x \in Obj
        PROVE  ref[x] + Count(more, x) - Count(less, x)
                  = (IF ip'[x] # NULL THEN 1 ELSE 0) + Watching(x)' + One(curr_obj', x)
    <3>1. Count(more, x) = 0 /\ Count(less, x) = One(curr_obj, x)
      BY CountFacts
    <3>2. QED
      BY <1>2, <1>3, <1>4, <1>5, <3>1
  <2>3. Refs'
    BY ONLY <2>1, <2>2, RefsShown
  <2>4. QED
    BY <1>1, <2>3 DEF Watch
<1>6. CASE curr_obj = NULL /\ ref' = Counting(<<curr_obj'>>, << >>)
  <2> PICK more, less : more = <<y>> /\ less = << >>
    OBVIOUS
  <2>1. ref' = Counting(more, less)
    BY <1>6
  <2>2. ASSUME NEW x \in Obj
        PROVE  ref[x] + Count(more, x) - Count(less, x)
                  = (IF ip'[x] # NULL THEN 1 ELSE 0) + Watching(x)' + One(curr_obj', x)
    <3>1. Count(more, x) = One(y, x) /\ Count(less, x) = 0
      BY CountFacts
    <3>2. QED
      BY <1>2, <1>3, <1>4, <1>6, <3>1
  <2>3. Refs'
    BY ONLY <2>1, <2>2, RefsShown
  <2>4. QED
    BY <1>1, <2>3 DEF Watch
<1>7. QED
  BY <1>5, <1>6

LEMMA WatchLinked ==
    ASSUME Typed, TwoWay, Watch, NEW c \in Slot, ob[c] = NULL,
           NEW o \in Obj, o \notin Npc, ip[o] = NULL, Linked(c, o),
           ref' = Counting(<<o>>, << >>), UNCHANGED <<snoops, curr_obj>>
    PROVE  Watch'
<1>1. Snoops'
  BY SnoopsLinked DEF Watch
<1>2. Refs'
  BY RefsLinked DEF Watch
<1>3. NoSnoopLoop'
  BY LoopNames DEF Watch, snoops
<1>4. QED
  BY <1>1, <1>2, <1>3 DEF Watch

LEMMA WatchMoved ==
    ASSUME Typed, TwoWay, Watch, NEW new \in Obj, NEW old \in Obj,
           new \notin Npc, ip[old] # NULL, curr_obj' = curr_obj,
           \A d \in Slot : ob'[d] = IF d = ip[old] THEN new
                                    ELSE IF d = ip[new] THEN old ELSE ob[d],
           \A x \in Obj : ip'[x] = IF x = old THEN ip[new]
                                   ELSE IF x = new THEN ip[old] ELSE ip[x],
           snoop_on' = snoop_on, snoop_by' \in [Slot -> Ptr],
           \A d \in Slot : snoop_by'[d] =
              IF ip[new] # NULL /\ d = snoop_on[ip[new]] THEN old
              ELSE IF d = snoop_on[ip[old]] THEN new ELSE snoop_by[d],
           ref' = IF ip[new] # NULL THEN ref ELSE Counting(<<new>>, <<old>>)
    PROVE  Watch'
<1>1. Snoops /\ Refs /\ NoSnoopLoop
  BY DEF Watch
<1>2. Snoops'
  BY <1>1, SnoopsMoved
<1>3. Refs'
  BY <1>1, RefsMoved
<1>4. NoSnoopLoop'
  BY <1>1, LoopNames
<1>5. QED
  BY <1>2, <1>3, <1>4 DEF Watch

LEMMA WatchTakenDown ==
    ASSUME Typed, TwoWay, Watch, NEW c \in Slot, ob[c] # NULL, TakenDown(c),
           curr_obj' = curr_obj
    PROVE  Watch'
<1>1. Snoops /\ Refs /\ NoSnoopLoop
  BY DEF Watch
<1>2. Snoops'
  BY <1>1, SnoopsTakenDown
<1>3. Refs'
  BY <1>1, RefsTakenDown
<1>4. NoSnoopLoop'
  <2>1. \A d \in Slot : snoop_on'[d] = snoop_on[d] \/ snoop_on'[d] = NULL
    BY DEF TakenDown, SnoopOnWithout
  <2>2. NoLoop(snoop_on')
    BY <1>1, <2>1, LoopNames, LoopFewer DEF Snoops
  <2>3. QED
    BY <2>2, LoopNames
<1>5. QED
  BY <1>2, <1>3, <1>4 DEF Watch

LEMMA WatchStopped ==
    ASSUME Typed, TwoWay, Watch, StopSnoop, ip[Me] # NULL \/ Me \in Npc
    PROVE  Watch'
<1>1. Snoops /\ Refs /\ NoSnoopLoop
  BY DEF Watch
<1>2. Snoops'
  BY <1>1, SnoopsStopped
<1>3. Refs'
  BY <1>1, RefsStopped
<1>4. NoSnoopLoop'
  <2>1. \A d \in Slot : snoop_on'[d] = snoop_on[d] \/ snoop_on'[d] = NULL
    BY <1>1 DEF StopSnoop, Snoops
  <2>2. NoLoop(snoop_on')
    BY <1>1, <2>1, LoopNames, LoopFewer DEF Snoops
  <2>3. QED
    BY <2>2, LoopNames
<1>5. QED
  BY <1>2, <1>3, <1>4 DEF Watch

LEMMA WatchOnlyEnded ==
    ASSUME Typed, TwoWay, Watch, OnlyEndSnoop
    PROVE  Watch'
<1>1. Snoops /\ Refs /\ NoSnoopLoop
  BY DEF Watch
<1>2. Snoops'
  BY <1>1, SnoopsOnlyEnded
<1>3. Refs'
  BY <1>1, RefsOnlyEnded
<1>4. NoSnoopLoop'
  <2>1. \A d \in Slot : snoop_on'[d] = snoop_on[d] \/ snoop_on'[d] = NULL
    BY DEF OnlyEndSnoop
  <2>2. NoLoop(snoop_on')
    BY <1>1, <2>1, LoopNames, LoopFewer DEF Snoops
  <2>3. QED
    BY <2>2, LoopNames
<1>5. QED
  BY <1>2, <1>3, <1>4 DEF Watch

LEMMA WatchStarted ==
    ASSUME Typed, TwoWay, Watch, StartSnoop, ip[Me] # NULL \/ Me \in Npc
    PROVE  Watch'
<1>1. Snoops /\ Refs /\ NoSnoopLoop
  BY DEF Watch
<1>2. Snoops'
  BY <1>1, SnoopsStarted
<1>3. Refs'
  BY <1>1, RefsStarted
<1>4. NoSnoopLoop'
  <2>1. PICK me \in Obj, on \in Slot : \E p, b :
              /\ me = Me /\ ob[on] # NULL /\ ip[me] \notin Chain(on)
              /\ ip[me] = NULL => me \in Npc
              /\ p = IF snoop_by[on] = NULL THEN NULL ELSE ip[snoop_by[on]]
              /\ b = IF ip[me] = NULL \/ ip[me] = p THEN NULL ELSE snoop_on[ip[me]]
              /\ UNCHANGED <<ob, ip, curr_obj>>
              /\ snoop_on' = [d \in Slot |-> IF d = ip[me] THEN on
                                             ELSE IF d = p THEN NULL ELSE snoop_on[d]]
              /\ snoop_by' = [d \in Slot |-> IF d = on THEN me
                                             ELSE IF d = b THEN NULL ELSE snoop_by[d]]
              /\ ref' = Counting(IF ip[me] = NULL THEN <<me>> ELSE << >>, Monster(on))
    BY <1>1, StartFacts
  <2>2. /\ ip[me] \notin Chain(on)
        /\ ip[me] \in Slot => snoop_on'[ip[me]] = on
        /\ \A d \in Slot : d # ip[me] => snoop_on'[d] = snoop_on[d] \/ snoop_on'[d] = NULL
    BY <2>1
  <2>3. CASE ip[me] = NULL
    <3>1. \A d \in Slot : snoop_on'[d] = snoop_on[d] \/ snoop_on'[d] = NULL
      BY <2>2, <2>3, SlotFacts
    <3>2. NoLoop(snoop_on')
      BY <1>1, <3>1, LoopNames, LoopFewer DEF Snoops
    <3>3. QED
      BY <3>2, LoopNames
  <2>4. CASE ip[me] # NULL
    <3>1. PICK b \in Slot : b = ip[me]
      BY <2>4 DEF Typed
    <3>2. PICK f : f = snoop_on /\ f \in [Slot -> Slot \cup {NULL}] /\ NoLoop(f)
      BY <1>1, LoopNames DEF Snoops
    <3>3. b \notin ChainIn(f, on)
      BY <2>2, <3>1, <3>2, LoopNames
    <3>4. PICK g : g = snoop_on'
      OBVIOUS
    <3>5. g[b] = on /\ \A d \in Slot : d # b => g[d] = f[d] \/ g[d] = NULL
      BY <2>2, <3>1, <3>2, <3>4
    <3>6. NoLoop(g)
      BY <3>2, <3>3, <3>5, LoopMore
    <3>7. QED
      BY <3>4, <3>6, LoopNames
  <2>5. QED
    BY <2>3, <2>4
<1>5. QED
  BY <1>2, <1>3, <1>4 DEF Watch
(* What is said of the entry while it is not cleaned up.                   *)
Entered == /\ status \in {"ocNotUsed", "ocUsed", "ocLoggingOn"}
           /\ status = "ocNotUsed" <=> curr_obj = NULL

LEMMA EntryIs ==
    /\ ~CleaningUp => (Entry <=> Entered)
    /\ ~CleaningUp' => (Entry' <=> Entered')
BY DEF Entry, Entered

LEMMA EntryNone ==
    ASSUME frames' = << >> \/ \E f : frames' = <<f>> /\ f[1] # "clean_up", Entered'
    PROVE  Entry'
<1>1. ~CleaningUp'
  <2>1. CASE frames' = << >>
    BY <2>1 DEF CleaningUp
  <2>2. ASSUME NEW f, frames' = <<f>>, f[1] # "clean_up"
        PROVE  ~CleaningUp'
    <3>1. frames'[1] = f
      BY <2>2
    <3>2. QED
      BY <2>2, <3>1 DEF CleaningUp
  <2>3. QED
    BY <2>1, <2>2
<1>2. QED
  BY <1>1, EntryIs

LEMMA EntryPop ==
    ASSUME Typed, Nesting, frames # << >>, frames' = Returned, Top[1] # "clean_up", Entry,
           UNCHANGED outconn
    PROVE  Entry'
<1>1. frames \in Seq(Frame)
  BY DEF Typed, Frame
<1>2. PICK n \in Nat : Len(frames) = n + 1 /\ Top = frames[n + 1]
  BY TopFacts
<1>3. /\ frames' \in Seq(Frame) /\ Len(frames') = n
      /\ \A i \in 1 .. n : frames'[i] = frames[i]
      /\ n = 0 => frames' = << >>
  BY <1>1, <1>2, PopFacts DEF Returned
<1>4. CleaningUp' <=> CleaningUp
  <2>1. CASE n = 0
    BY <1>2, <1>3, <2>1 DEF CleaningUp
  <2>2. CASE n # 0
    <3>1. frames'[1] = frames[1] /\ frames' # << >>
      BY <1>3, <2>2, EmptySeq
    <3>2. QED
      BY <3>1 DEF CleaningUp
  <2>3. QED
    BY <2>1, <2>2
<1>5. QED
  BY <1>4 DEF Entry, outconn

LEMMA EntryPush ==
    ASSUME Typed, frames # << >>, NEW f \in Frame, frames' = Append(frames, f), Entry,
           UNCHANGED outconn
    PROVE  Entry'
<1>1. frames \in Seq(Frame)
  BY DEF Typed, Frame
<1>2. frames' # << >> /\ frames'[1] = frames[1]
  <2>1. Len(frames) \in Nat \ {0}
    BY <1>1, EmptySeq, LenProperties
  <2>2. 1 \in 1 .. Len(frames)
    BY <2>1
  <2>3. Len(frames') = Len(frames) + 1 /\ frames'[1] = frames[1] /\ frames' \in Seq(Frame)
    BY <1>1, <2>1, <2>2, AppendProperties
  <2>4. QED
    BY <2>1, <2>3, EmptySeq
<1>3. CleaningUp' <=> CleaningUp
  BY <1>2 DEF CleaningUp
<1>4. QED
  BY <1>3 DEF Entry, outconn

LEMMA EntryStays ==
    ASSUME Entry, UNCHANGED <<frames, outconn>>
    PROVE  Entry'
BY DEF Entry, CleaningUp, outconn

(* remove_interactive() once more.                                         *)
LEMMA WatchRemoved ==
    ASSUME Typed, TwoWay, Watch, NEW c \in Slot, ob[c] # NULL, NEW below, Removed(c, below),
           \/ below = << >>
           \/ \E f : below = <<f>> /\ f[1] \in {"new_player", "clean_up"},
           curr_obj' = curr_obj
    PROVE  /\ Watch' /\ Asking'
           /\ CleaningUp' <=> below # << >> /\ below[1][1] = "clean_up"
<1>1. CASE ob[c] \in destructed
  <2>1. TakenDown(c) /\ frames' = below
    BY <1>1 DEF Removed
  <2>2. Watch'
    BY <2>1, WatchTakenDown
  <2>3. Asking'
    <3>1. CASE below = << >>
      BY <2>1, <3>1, RemovingNone
    <3>2. ASSUME NEW f, below = <<f>>, f[1] \in {"new_player", "clean_up"}
          PROVE  Asking'
      BY <2>1, <3>2, RemovingOne
    <3>3. QED
      BY <3>1, <3>2
  <2>4. QED
    BY <2>1, <2>2, <2>3 DEF CleaningUp
<1>2. CASE ob[c] \notin destructed
  <2>1. /\ frames' = Append(below, <<"disconnect", c, NULL>>)
        /\ UNCHANGED <<ob, ip, snoop_on, snoop_by, ref>>
    BY <1>2 DEF Removed, snoops
  <2>2. Watch'
    BY <2>1, WatchSame
  <2>3. CASE below = << >>
    <3>1. PICK g : g = <<"disconnect", c, NULL>>
      OBVIOUS
    <3>2. frames' = <<g>> /\ frames'[1] = g
      BY <2>1, <2>3, <3>1
    <3>3. Asking'
      BY <2>1, <3>1, <3>2, RemovingOne
    <3>4. ~CleaningUp'
      BY <3>1, <3>2 DEF CleaningUp
    <3>5. QED
      BY <2>2, <2>3, <3>3, <3>4
  <2>4. ASSUME NEW f, below = <<f>>, f[1] \in {"new_player", "clean_up"}
        PROVE  Asking' /\ (CleaningUp' <=> below # << >> /\ below[1][1] = "clean_up")
    <3>1. PICK g : g = <<"disconnect", c, NULL>>
      OBVIOUS
    <3>2. DOMAIN frames' = {1, 2} /\ frames'[1] = f /\ frames'[2] = g
      BY <2>1, <2>4, <3>1, AppendTwo
    <3>3. Asking'
      BY <2>4, <3>1, <3>2 DEF Asking
    <3>4. frames' # << >> /\ below # << >> /\ below[1] = f
      BY <2>4, <3>2
    <3>5. QED
      BY <3>2, <3>3, <3>4 DEF CleaningUp
  <2>5. QED
    BY <2>2, <2>3, <2>4
<1>3. QED
  BY <1>1, <1>2
(* Whoever has asked to snoop still has his connection, or needs none.     *)
LEMMA AskerKnown ==
    ASSUME Typed, Nesting, Asking, frames # << >>, Top[1] = "valid_snoop"
    PROVE  ip[Me] # NULL \/ Me \in Npc
<1>1. PICK n \in Nat : DOMAIN frames = 1 .. n + 1 /\ Top = frames[n + 1]
  BY TopFacts
<1>2. n + 1 \in DOMAIN frames
  BY <1>1
<1>3. QED
  BY <1>1, <1>2 DEF Asking, Interactive, Me

(* A call returns that was made for neither outgoing connections nor       *)
(* disconnects.                                                            *)
LEMMA CallsReturn ==
    ASSUME Typed, Nesting, Asking, Entry, frames # << >>, frames' = Returned,
           UNCHANGED outconn, Top[1] # "clean_up",
           UNCHANGED ip \/ Top[1] # "valid_snoop"
    PROVE  Asking' /\ Entry'
BY AskingPop, EntryPop

(* ... and the steps of LPC code that leave the calls alone.               *)
LEMMA CallsStay ==
    ASSUME Asking, Entry, UNCHANGED <<frames, ip, outconn>>
    PROVE  Asking' /\ Entry'
BY AskingSame, EntryStays

LEMMA SnoopStopStep ==
    ASSUME IInv, SnoopInv, StopSnoop \/ StartSnoop \/ OnlyEndSnoop
    PROVE  Watch' /\ Asking' /\ Entry'
<1>1. Typed /\ TwoWay /\ Nesting /\ Asking /\ Entry /\ Watch
  BY DEF IInv, SnoopInv, Watch
<1>2. /\ frames # << >> /\ Top[1] = "valid_snoop" /\ frames' = Returned
      /\ UNCHANGED <<ip, outconn>>
  BY DEF StopSnoop, StartSnoop, OnlyEndSnoop, In, slots
<1>3. ip[Me] # NULL \/ Me \in Npc
  BY <1>1, <1>2, AskerKnown
<1>4. Watch'
  BY <1>1, <1>3, WatchStopped, WatchStarted, WatchOnlyEnded
<1>5. Asking' /\ Entry'
  BY <1>1, <1>2, CallsReturn
<1>6. QED
  BY <1>4, <1>5

LEMMA SnoopExecStep ==
    ASSUME Considerate, IInv, SnoopInv, Exec
    PROVE  Watch' /\ Asking' /\ Entry'
<1>1. Typed /\ TwoWay /\ Nesting /\ Asking /\ Entry /\ Watch
  BY DEF IInv, SnoopInv, Watch
<1>2. frames # << >> /\ Top[1] = "valid_exec" /\ frames' = Returned /\ UNCHANGED outconn
  BY DEF Exec, In
<1>3. Asking' /\ Entry'
  BY <1>1, <1>2, CallsReturn
<1>4. Top[2] \in User /\ Top[3] \in Obj
  BY <1>1, <1>2, TopFacts DEF FrameOK
<1>5. PICK new \in Obj, old \in Obj :
         /\ new = Top[2] /\ old = Top[3] /\ ip[old] # NULL /\ new \notin Npc
  BY <1>4, RolesAssumption DEF Exec, Interactive, Considerate
<1>6. /\ ip' = [ip EXCEPT ![new] = ip[old], ![old] = ip[new]]
      /\ ob' = [c \in Slot |-> CASE c = ip[old] -> new
                                 [] c # ip[old] /\ c = ip[new] -> old
                                 [] OTHER -> ob[c]]
      /\ snoop_by' = [d \in Slot |-> IF ip[new] # NULL /\ d = snoop_on[ip[new]] THEN old
                                     ELSE IF d = snoop_on[ip[old]] THEN new
                                     ELSE snoop_by[d]]
      /\ ref' = IF ip[new] # NULL THEN ref ELSE Counting(<<new>>, <<old>>)
      /\ snoop_on' = snoop_on /\ curr_obj' = curr_obj
  BY <1>5 DEF Exec, ObAfter, SnoopByAfter, Interactive, outconn
<1>7. \A d \in Slot : ob'[d] = IF d = ip[old] THEN new
                               ELSE IF d = ip[new] THEN old ELSE ob[d]
  BY <1>6
<1>8. \A x \in Obj : ip'[x] = IF x = old THEN ip[new]
                              ELSE IF x = new THEN ip[old] ELSE ip[x]
  BY <1>1, <1>6 DEF Typed
<1>9. snoop_by' \in [Slot -> Ptr]
  BY <1>1, <1>6 DEF Watch, Snoops, Ptr
<1>10. \A d \in Slot : snoop_by'[d] =
              IF ip[new] # NULL /\ d = snoop_on[ip[new]] THEN old
              ELSE IF d = snoop_on[ip[old]] THEN new ELSE snoop_by[d]
  BY <1>6
<1>11. Watch'
  <2>1. Typed /\ TwoWay /\ Watch /\ new \notin Npc /\ ip[old] # NULL
    BY <1>1, <1>5
  <2>2. /\ curr_obj' = curr_obj /\ snoop_on' = snoop_on
        /\ ref' = IF ip[new] # NULL THEN ref ELSE Counting(<<new>>, <<old>>)
    BY <1>6
  <2>3. QED
    BY ONLY <2>1, <2>2, <1>7, <1>8, <1>9, <1>10, WatchMoved, new \in Obj, old \in Obj
<1>12. QED
  BY <1>3, <1>11

LEMMA SnoopRebindStep ==
    ASSUME Considerate, IInv, SnoopInv, NEW o \in Obj, Rebind(o)
    PROVE  Watch' /\ Asking' /\ Entry'
<1>1. Typed /\ TwoWay /\ Nesting /\ Asking /\ Entry /\ Watch
  BY DEF IInv, SnoopInv, Watch
<1>2. /\ frames # << >> /\ Top[1] = "connect" /\ ip[master_ob] = Top[2]
      /\ o \in User /\ ip[o] = NULL
      /\ frames' = Append(Returned, <<"logon", NULL, NULL>>) /\ UNCHANGED outconn
  BY DEF Rebind, In, Interactive
<1>3. /\ Top[2] \in Slot /\ Returned = << >> /\ ~CleaningUp
  BY <1>1, <1>2, TopFacts, LastReturns DEF FrameOK, CleaningUp
<1>4. PICK f : f = <<"logon", NULL, NULL>> /\ frames' = <<f>>
  BY <1>2, <1>3
<1>5. Asking' /\ Entry'
  <2>1. Asking'
    BY <1>4, RemovingOne
  <2>2. Entered'
    BY <1>1, <1>2, <1>3, EntryIs DEF Entered, outconn
  <2>3. QED
    BY <1>4, <2>1, <2>2, EntryNone
<1>6. PICK m \in Obj : m = master_ob /\ ip[m] # NULL /\ o # m
  BY <1>2, <1>3, RolesAssumption, SlotFacts
<1>7. PICK c \in Slot : c = Top[2] /\ c = ip[m]
  BY <1>2, <1>3, <1>6
<1>8. /\ ip' = [ip EXCEPT ![m] = NULL, ![o] = c] /\ ob' = [ob EXCEPT ![c] = o]
      /\ ref' = Counting(<<o>>, <<m>>)
      /\ snoop_by' = IF snoop_on[c] = NULL THEN snoop_by
                     ELSE [snoop_by EXCEPT ![snoop_on[c]] = o]
      /\ snoop_on' = snoop_on /\ curr_obj' = curr_obj
  BY <1>6, <1>7 DEF Rebind, RebindRefs, outconn
<1>9. \A d \in Slot : ob'[d] = IF d = ip[m] THEN o
                               ELSE IF d = ip[o] THEN m ELSE ob[d]
  BY <1>1, <1>2, <1>7, <1>8, SlotFacts DEF Typed
<1>10. \A x \in Obj : ip'[x] = IF x = m THEN ip[o]
                               ELSE IF x = o THEN ip[m] ELSE ip[x]
  BY <1>1, <1>2, <1>6, <1>7, <1>8 DEF Typed
<1>11. snoop_on[c] \in Slot \cup {NULL} /\ snoop_by \in [Slot -> Ptr]
  BY <1>1 DEF Watch, Snoops
<1>12. snoop_by' \in [Slot -> Ptr]
  BY <1>8, <1>11 DEF Ptr
<1>13. \A d \in Slot : snoop_by'[d] =
              IF ip[o] # NULL /\ d = snoop_on[ip[o]] THEN m
              ELSE IF d = snoop_on[ip[m]] THEN o ELSE snoop_by[d]
  BY <1>2, <1>7, <1>8, <1>11, SlotFacts
<1>14. o \notin Npc
  BY <1>2 DEF Considerate
<1>15. ref' = IF ip[o] # NULL THEN ref ELSE Counting(<<o>>, <<m>>)
  BY <1>2, <1>8
<1>16. Watch'
  BY <1>1, <1>6, <1>8, <1>9, <1>10, <1>12, <1>13, <1>14, <1>15, WatchMoved
<1>17. QED
  BY <1>5, <1>16
LEMMA SnoopLinkStep ==
    ASSUME Considerate, IInv, SnoopInv, NEW c \in Slot, Accept(c) \/ OutConnected(c)
    PROVE  Watch' /\ Asking' /\ Entry'
<1>1. Typed /\ TwoWay /\ Nesting /\ Asking /\ Entry /\ Watch
  BY DEF IInv, SnoopInv, Watch
<1>2. frames = << >> /\ Entered /\ ob[c] = NULL
  BY <1>1, EntryIs DEF Accept, OutConnected, Waiting, Backend, FirstFree, Used, CleaningUp
<1>3. CASE Accept(c)
  <2>1. PICK o \in Obj : o = master_ob /\ o \notin Npc
    BY RolesAssumption DEF Considerate
  <2>2. /\ Linked(c, o) /\ ip[o] = NULL /\ ref' = Counting(<<o>>, << >>)
        /\ UNCHANGED <<snoops, outconn>>
        /\ frames' = << <<"connect", c, NULL>> >>
    BY <1>2, <1>3, <2>1 DEF Accept, Interactive, Called
  <2>3. Watch'
    BY <1>1, <1>2, <2>1, <2>2, WatchLinked DEF outconn
  <2>4. PICK f : f = <<"connect", c, NULL>> /\ frames' = <<f>>
    BY <2>2
  <2>5. Asking'
    BY <2>4, RemovingOne
  <2>6. Entry'
    BY <1>2, <2>2, <2>4, EntryNone DEF Entered, outconn
  <2>7. QED
    BY <2>3, <2>5, <2>6
<1>4. CASE OutConnected(c)
  <2>1. PICK o \in Obj : /\ o = curr_obj /\ o \notin Npc /\ o # NULL
                         /\ status' = "ocLoggingOn"
    BY <1>1, <1>4, RolesAssumption DEF OutConnected, Live, Typed, Considerate
  <2>2. CASE ip[o] # NULL
    <3>1. PICK g : g = <<"new_player", c, NULL>>
      OBVIOUS
    <3>2. Removed(ip[o], <<g>>) /\ curr_obj' = curr_obj
      BY <1>4, <2>1, <2>2, <3>1 DEF OutConnected, Interactive
    <3>3. PICK d \in Slot : d = ip[o] /\ ob[d] # NULL
      BY <1>1, <2>2, RolesAssumption DEF TwoWay, Interactive, Typed
    <3>4. PICK below : below = <<g>>
      OBVIOUS
    <3>5. /\ Watch' /\ Asking'
          /\ CleaningUp' <=> below # << >> /\ below[1][1] = "clean_up"
      BY <1>1, <3>1, <3>2, <3>3, <3>4, WatchRemoved
    <3>6. below[1] = g
      BY <3>4
    <3>7. Entry'
      BY <2>1, <3>1, <3>2, <3>5, <3>6, EntryIs DEF Entered
    <3>8. QED
      BY <3>5, <3>7
  <2>3. CASE ip[o] = NULL
    <3>1. /\ Linked(c, o) /\ ref' = Counting(<<o>>, << >>)
          /\ UNCHANGED <<snoops, curr_obj>>
          /\ frames' = << >> \/ frames' = << <<"logon", o, NULL>> >>
      BY <1>2, <1>4, <2>1, <2>3 DEF OutConnected, Interactive, OutLinked, Backend
    <3>2. Watch'
      BY <1>1, <1>2, <2>1, <2>3, <3>1, WatchLinked
    <3>3. Entered'
      BY <2>1, <3>1 DEF Entered
    <3>4. PICK f : f = <<"logon", o, NULL>>
      OBVIOUS
    <3>5. frames' = << >> \/ frames' = <<f>>
      BY <3>1, <3>4
    <3>6. Asking'
      BY <3>4, <3>5, RemovingNone, RemovingOne
    <3>7. Entry'
      BY <3>3, <3>4, <3>5, EntryNone
    <3>8. QED
      BY <3>2, <3>6, <3>7
  <2>4. QED
    BY <2>2, <2>3
<1>5. QED
  BY <1>3, <1>4

LEMMA SnoopReplaceStep ==
    ASSUME Considerate, IInv, SnoopInv, OutReplaced
    PROVE  Watch' /\ Asking' /\ Entry'
<1>1. Typed /\ TwoWay /\ Nesting /\ Replacing /\ Asking /\ Entry /\ Watch
  BY DEF IInv, SnoopInv, Watch
<1>2. frames # << >> /\ Top[1] = "new_player" /\ OutLinked(Top[2]) /\ status' = status
  BY DEF OutReplaced, In
<1>3. Top = frames[1] /\ Returned = << >> /\ Len(frames) = 1 /\ ~CleaningUp
  BY <1>1, <1>2, LastReturns DEF CleaningUp
<1>4. PICK c \in Slot : c = Top[2] /\ ob[c] = NULL
  BY <1>1, <1>2, <1>3 DEF Replacing
<1>5. PICK o \in Obj : /\ o = curr_obj /\ o \notin Npc /\ o # NULL /\ ip[o] = NULL
  <2>1. curr_obj \in Caller
    BY <1>1, <1>2, <1>3 DEF Replacing
  <2>2. Interactive(curr_obj) => Len(frames) > 1
    BY <1>1, <1>2, <1>3 DEF Replacing
  <2>3. ip[curr_obj] = NULL
    BY <1>3, <2>2 DEF Interactive
  <2>4. QED
    BY <2>1, <2>3, RolesAssumption DEF Considerate
<1>6. /\ Linked(c, o) /\ ref' = Counting(<<o>>, << >>) /\ UNCHANGED <<snoops, curr_obj>>
      /\ frames' = << >> \/ frames' = << <<"logon", o, NULL>> >>
  BY <1>2, <1>3, <1>4, <1>5 DEF OutLinked
<1>7. Watch'
  BY <1>1, <1>4, <1>5, <1>6, WatchLinked
<1>8. Entered'
  BY <1>1, <1>2, <1>3, <1>6, EntryIs DEF Entered
<1>9. PICK f : f = <<"logon", o, NULL>>
  OBVIOUS
<1>10. frames' = << >> \/ frames' = <<f>>
  BY <1>6, <1>9
<1>11. Asking'
  BY <1>9, <1>10, RemovingNone, RemovingOne
<1>12. Entry'
  BY <1>8, <1>9, <1>10, EntryNone
<1>13. QED
  BY <1>7, <1>11, <1>12

LEMMA SnoopRemoveStep ==
    ASSUME IInv, SnoopInv, Rejected \/ \E c \in Slot : Close(c)
    PROVE  Watch' /\ Asking' /\ Entry'
<1>1. Typed /\ TwoWay /\ Nesting /\ Asking /\ Entry /\ Watch
  BY DEF IInv, SnoopInv, Watch
<1>2. PICK c \in Slot : ob[c] # NULL /\ Removed(c, << >>) /\ UNCHANGED outconn /\ ~CleaningUp
  <2>1. CASE Rejected
    <3>1. /\ frames # << >> /\ Top[1] = "connect" /\ ip[master_ob] = Top[2]
          /\ Removed(Top[2], Returned) /\ UNCHANGED outconn
      BY <2>1 DEF Rejected, In
    <3>2. Returned = << >> /\ Top[2] \in Slot /\ ~CleaningUp
      BY <1>1, <3>1, LastReturns, TopFacts DEF FrameOK, CleaningUp
    <3>3. ob[Top[2]] # NULL
      BY <1>1, <3>1, <3>2, RolesAssumption, SlotFacts DEF TwoWay, Interactive
    <3>4. QED
      BY <3>1, <3>2, <3>3
  <2>2. CASE \E c \in Slot : Close(c)
    BY <2>2 DEF Close, Used, Backend, CleaningUp
  <2>3. QED
    BY <2>1, <2>2
<1>3. PICK below : below = << >>
  OBVIOUS
<1>4. /\ Watch' /\ Asking'
      /\ CleaningUp' <=> below # << >> /\ below[1][1] = "clean_up"
  BY <1>1, <1>2, <1>3, WatchRemoved DEF outconn
<1>5. Entry'
  BY <1>1, <1>2, <1>3, <1>4, EntryIs DEF Entered, outconn
<1>6. QED
  BY <1>4, <1>5

LEMMA SnoopDownStep ==
    ASSUME IInv, SnoopInv, Disconnected \/ \E o \in Obj : RemoveObject(o)
    PROVE  Watch' /\ Asking' /\ Entry'
<1>1. Typed /\ TwoWay /\ Nesting /\ Asking /\ Entry /\ Watch /\ Removing
  BY DEF IInv, SnoopInv, NumInv, Watch
<1>2. CASE Disconnected
  <2>1. /\ frames # << >> /\ Top[1] = "disconnect" /\ TakenDown(Top[2])
        /\ frames' = Returned /\ UNCHANGED outconn
    BY <1>2 DEF Disconnected, In
  <2>2. PICK c \in Slot : c = Top[2] /\ ob[c] # NULL
    BY <1>1, <2>1, DisconnectReturns
  <2>3. Watch'
    BY <1>1, <2>1, <2>2, WatchTakenDown DEF outconn
  <2>4. Asking' /\ Entry'
    BY <1>1, <2>1, CallsReturn
  <2>5. QED
    BY <2>3, <2>4
<1>3. ASSUME NEW o \in Obj, RemoveObject(o)
      PROVE  Watch' /\ Asking' /\ Entry'
  <2>1. frames = << >> /\ frames' = << >> /\ UNCHANGED outconn
    BY <1>3 DEF RemoveObject, Backend
  <2>2. Asking' /\ Entry'
    BY <1>1, <2>1, RemovingNone, EntryStays
  <2>3. CASE ip[o] # NULL
    <3>1. PICK c \in Slot : c = ip[o] /\ ob[c] # NULL
      BY <1>1, <2>3, RolesAssumption DEF TwoWay, Interactive, Typed
    <3>2. TakenDown(c)
      BY <1>3, <2>3, <3>1 DEF RemoveObject, Interactive
    <3>3. Watch'
      BY <1>1, <2>1, <3>1, <3>2, WatchTakenDown DEF outconn
    <3>4. QED
      BY <2>2, <3>3
  <2>4. CASE ip[o] = NULL
    BY <1>1, <1>3, <2>1, <2>2, <2>4, WatchSame
       DEF RemoveObject, Interactive, slots, snoops, outconn
  <2>5. QED
    BY <2>3, <2>4
<1>4. QED
  BY <1>2, <1>3
(* The entry for an outgoing connection is used, given up or cleaned up.   *)
LEMMA SnoopEntryStep ==
    ASSUME Considerate, IInv, SnoopInv,
           \/ OutGivenUp \/ OutFailed \/ LoggedOn \/ LogonError \/ OutCleanedUp
           \/ \E o \in Obj : NetConnect(o)
    PROVE  Watch' /\ Asking' /\ Entry'
<1>1. Typed /\ TwoWay /\ Nesting /\ Asking /\ Entry /\ Watch
  BY DEF IInv, SnoopInv, Watch
<1>2. CASE OutGivenUp
  <2>1. /\ frames = << >> /\ frames' = << >> /\ curr_obj' = NULL /\ status' = "ocNotUsed"
        /\ ref' = Counting(<< >>, <<curr_obj>>) /\ UNCHANGED <<ob, ip, snoop_on, snoop_by>>
    BY <1>2 DEF OutGivenUp, Waiting, Backend, OutDone, slots, snoops
  <2>2. Watch'
    BY <1>1, <2>1, WatchEntry
  <2>3. Asking' /\ Entry'
    BY <2>1, RemovingNone, EntryNone DEF Entered
  <2>4. QED
    BY <2>2, <2>3
<1>3. CASE OutFailed
  <2>1. PICK f : f = <<"logon", curr_obj, NULL>>
    OBVIOUS
  <2>2. /\ frames = << >> /\ frames' = <<f>> /\ status' = "ocLoggingOn" /\ curr_obj # NULL
        /\ UNCHANGED <<ob, ip, snoop_on, snoop_by, curr_obj, ref>>
    BY <1>3, <2>1, RolesAssumption
       DEF OutFailed, Waiting, Backend, Called, Live, slots, snoops
  <2>3. Watch'
    BY <1>1, <2>2, WatchSame
  <2>4. Asking'
    BY <2>1, <2>2, RemovingOne
  <2>5. Entry'
    BY <2>1, <2>2, EntryNone DEF Entered
  <2>6. QED
    BY <2>3, <2>4, <2>5
<1>4. CASE LoggedOn
  <2>1. /\ frames # << >> /\ Top[1] = "logon" /\ frames' = Returned
        /\ UNCHANGED <<ob, ip, snoop_on, snoop_by>>
        /\ \/ UNCHANGED <<outconn, ref>>
           \/ /\ curr_obj' = NULL /\ status' = "ocNotUsed"
              /\ ref' = Counting(<< >>, <<curr_obj>>)
    BY <1>4 DEF LoggedOn, In, OutDone, slots, snoops
  <2>2. frames' = << >> /\ ~CleaningUp
    BY <1>1, <2>1, LastReturns DEF CleaningUp
  <2>3. Watch'
    BY <1>1, <2>1, WatchEntry, WatchSame DEF outconn
  <2>4. Entered'
    BY <1>1, <2>1, <2>2, EntryIs DEF Entered, outconn
  <2>5. Asking' /\ Entry'
    BY <2>2, <2>4, RemovingNone, EntryNone
  <2>6. QED
    BY <2>3, <2>5
<1>5. CASE LogonError
  <2>1. /\ frames # << >> /\ Top[1] = "logon" /\ frames' = << >>
        /\ UNCHANGED <<ob, ip, snoop_on, snoop_by, curr_obj, status, ref>>
    BY <1>5 DEF LogonError, In, slots, snoops, outconn
  <2>2. ~CleaningUp
    BY <1>1, <2>1, LastReturns DEF CleaningUp
  <2>3. Watch'
    BY <1>1, <2>1, WatchSame
  <2>4. Entered'
    BY <1>1, <2>1, <2>2, EntryIs DEF Entered
  <2>5. Asking' /\ Entry'
    BY <2>1, <2>4, RemovingNone, EntryNone
  <2>6. QED
    BY <2>3, <2>5
<1>6. CASE OutCleanedUp
  <2>1. /\ frames # << >> /\ Top[1] = "clean_up" /\ frames' = Returned
        /\ UNCHANGED <<ob, ip, snoop_on, snoop_by, status>>
        /\ curr_obj' = IF status = "ocNotUsed" THEN NULL ELSE curr_obj
        /\ ref' = Counting(<< >>, <<curr_obj>>)
    BY <1>6 DEF OutCleanedUp, In, slots, snoops
  <2>2. frames' = << >> /\ CleaningUp
    BY <1>1, <2>1, LastReturns DEF CleaningUp
  <2>3. status = "ocNotUsed" /\ curr_obj' = NULL
    BY <1>1, <2>1, <2>2 DEF Entry
  <2>4. Watch'
    BY <1>1, <2>1, <2>3, WatchEntry
  <2>5. Asking' /\ Entry'
    BY <2>1, <2>2, <2>3, RemovingNone, EntryNone DEF Entered
  <2>6. QED
    BY <2>4, <2>5
<1>7. ASSUME NEW o \in Obj, NetConnect(o)
      PROVE  Watch' /\ Asking' /\ Entry'
  <2>1. /\ frames # << >> /\ Top[1] \in Calls /\ "net_connect" \in May[Top[1]]
        /\ status = "ocNotUsed" /\ status' = "ocUsed" /\ curr_obj' = o
        /\ ref' = Counting(<<o>>, << >>)
        /\ UNCHANGED <<ob, ip, snoop_on, snoop_by, frames>>
    BY <1>7 DEF NetConnect, LPC, slots, snoops
  <2>2. Top[1] \in {"lpc", "connect", "logon"}
    BY <2>1 DEF Considerate, Calls
  <2>3. ~CleaningUp
    BY <1>1, <2>1, <2>2, LastReturns DEF CleaningUp
  <2>4. curr_obj = NULL
    BY <1>1, <2>1, <2>3, EntryIs DEF Entered
  <2>5. Watch'
    BY <1>1, <2>1, <2>4, WatchEntry
  <2>6. Asking'
    BY <1>1, <2>1, AskingSame
  <2>7. Entry'
    <3>1. ~CleaningUp'
      BY <2>1, <2>3 DEF CleaningUp
    <3>2. Entered'
      BY <2>1, RolesAssumption DEF Entered
    <3>3. QED
      BY <3>1, <3>2, EntryIs
  <2>8. QED
    BY <2>5, <2>6, <2>7
<1>8. QED
  BY <1>2, <1>3, <1>4, <1>5, <1>6, <1>7

LEMMA SnoopCleanUpStep ==
    ASSUME IInv, SnoopInv, OutCleanUp
    PROVE  Watch' /\ Asking' /\ Entry'
<1>1. Typed /\ TwoWay /\ Nesting /\ Asking /\ Entry /\ Watch
  BY DEF IInv, SnoopInv, Watch
<1>2. PICK o \in Obj : o = curr_obj /\ o # NULL
  BY <1>1, RolesAssumption DEF OutCleanUp, Typed
<1>3. frames = << >> /\ status' = "ocNotUsed"
  BY DEF OutCleanUp, Backend
<1>4. CASE ip[o] # NULL
  <2>1. PICK g : g = <<"clean_up", NULL, NULL>>
    OBVIOUS
  <2>2. PICK below : below = <<g>>
    OBVIOUS
  <2>3. Removed(ip[o], below) /\ curr_obj' = curr_obj
    BY <1>2, <1>4, <2>1, <2>2 DEF OutCleanUp, Interactive
  <2>4. PICK d \in Slot : d = ip[o] /\ ob[d] # NULL
    BY <1>1, <1>4, RolesAssumption DEF TwoWay, Interactive, Typed
  <2>5. /\ Watch' /\ Asking'
        /\ CleaningUp' <=> below # << >> /\ below[1][1] = "clean_up"
    BY <1>1, <2>1, <2>2, <2>3, <2>4, WatchRemoved
  <2>6. below[1] = g /\ below # << >>
    BY <2>2
  <2>7. Entry'
    BY <1>3, <2>1, <2>5, <2>6 DEF Entry
  <2>8. QED
    BY <2>5, <2>7
<1>5. CASE ip[o] = NULL
  <2>1. /\ frames' = << >> /\ curr_obj' = NULL /\ ref' = Counting(<< >>, <<curr_obj>>)
        /\ UNCHANGED <<ob, ip, snoop_on, snoop_by>>
    BY <1>2, <1>3, <1>5 DEF OutCleanUp, Interactive, OutDone, slots, snoops
  <2>2. Watch'
    BY <1>1, <2>1, WatchEntry
  <2>3. Asking' /\ Entry'
    BY <1>3, <2>1, RemovingNone, EntryNone DEF Entered
  <2>4. QED
    BY <2>2, <2>3
<1>6. QED
  BY <1>4, <1>5

(* Questions to the master object.                                         *)
LEMMA SnoopAskStep ==
    ASSUME Considerate, IInv, SnoopInv, NEW x \in Obj, NEW y \in Obj \cup {NULL},
           (y \in Obj /\ AskToExec(x, y)) \/ AskToSnoop(x, y)
    PROVE  Watch' /\ Asking' /\ Entry'
<1>1. Typed /\ TwoWay /\ Nesting /\ Asking /\ Entry /\ Watch
  BY DEF IInv, SnoopInv, Watch
<1>2. /\ frames # << >> /\ UNCHANGED <<slots, snoops, outconn, ref>>
  BY DEF AskToExec, AskToSnoop, LPC
<1>3. Watch'
  BY <1>1, <1>2, WatchSame DEF slots, snoops, outconn
<1>4. CASE y \in Obj /\ AskToExec(x, y)
  <2>1. PICK f \in Frame : f = <<"valid_exec", x, y>>
    BY DEF Frame, Calls, Ptr
  <2>2. frames' = Append(frames, f) /\ Top[1] # "valid_snoop"
    BY <1>4, <2>1 DEF AskToExec, LPC, Called, Considerate
  <2>3. Asking'
    BY <1>1, <1>2, <2>1, <2>2, CallsPush DEF slots
  <2>4. Entry'
    BY <1>1, <1>2, <2>2, EntryPush
  <2>5. QED
    BY <1>3, <2>3, <2>4
<1>5. CASE AskToSnoop(x, y)
  <2>1. PICK f \in Frame : f = <<"valid_snoop", x, y>>
    BY DEF Frame, Calls, Ptr
  <2>2. frames' = Append(frames, f) /\ (Interactive(x) \/ x \in Npc)
    BY <1>5, <2>1 DEF AskToSnoop, Called
  <2>3. Asking'
    BY <1>1, <1>2, <2>1, <2>2, CallsPush DEF slots
  <2>4. Entry'
    BY <1>1, <1>2, <2>2, EntryPush
  <2>5. QED
    BY <1>3, <2>3, <2>4
<1>6. QED
  BY <1>4, <1>5

(* Steps that concern neither slots nor snoops nor the entry.              *)
LEMMA SnoopQuietStep ==
    ASSUME IInv, SnoopInv,
           \/ Execed \/ Evaluate \/ Return \/ Refused \/ UNCHANGED vars
           \/ \E o \in Obj : Recycle(o) \/ Destruct(o) \/ MarkToClose(o)
    PROVE  Watch' /\ Asking' /\ Entry'
<1>1. Typed /\ TwoWay /\ Nesting /\ Asking /\ Entry /\ Watch
  BY DEF IInv, SnoopInv, Watch
<1>2. UNCHANGED <<ob, ip, snoops, outconn, ref>>
  BY DEF Execed, Evaluate, Return, Refused, vars, Recycle, Destruct, MarkToClose, slots
<1>3. Watch'
  BY <1>1, <1>2, WatchSame DEF snoops, outconn
<1>4. CASE Execed \/ Return \/ Refused
  <2>1. frames # << >> /\ frames' = Returned /\ Top[1] # "clean_up"
    BY <1>4 DEF Execed, Return, Refused, In
  <2>2. QED
    BY <1>1, <1>2, <1>3, <2>1, CallsReturn
<1>5. CASE Evaluate
  <2>1. PICK f : f = <<"lpc", NULL, NULL>> /\ frames' = <<f>> /\ ~CleaningUp
    BY <1>5 DEF Evaluate, Backend, Called, CleaningUp
  <2>2. Asking'
    BY <2>1, RemovingOne
  <2>3. Entry'
    BY <1>1, <1>2, <2>1, EntryIs, EntryNone DEF Entered, outconn
  <2>4. QED
    BY <1>3, <2>2, <2>3
<1>6. CASE \/ UNCHANGED vars
           \/ \E o \in Obj : Recycle(o) \/ Destruct(o) \/ MarkToClose(o)
  <2>1. UNCHANGED frames
    BY <1>6 DEF vars, Recycle, Destruct, MarkToClose
  <2>2. QED
    BY <1>1, <1>2, <1>3, <2>1, CallsStay
<1>7. QED
  BY <1>4, <1>5, <1>6
LEMMA SnoopStep ==
    ASSUME Considerate, IInv, SnoopInv, [Next]_vars
    PROVE  SnoopInv'
<1>1. NumInv'
  BY NumStep DEF SnoopInv
<1>2. CASE \/ Execed \/ Evaluate \/ Return \/ Refused \/ UNCHANGED vars
           \/ \E o \in Obj : Recycle(o) \/ Destruct(o) \/ MarkToClose(o)
  BY <1>1, <1>2, SnoopQuietStep DEF Watch, SnoopInv
<1>3. CASE \/ OutGivenUp \/ OutFailed \/ LoggedOn \/ LogonError \/ OutCleanedUp
           \/ \E o \in Obj : NetConnect(o)
  BY <1>1, <1>3, SnoopEntryStep DEF Watch, SnoopInv
<1>4. CASE OutCleanUp
  BY <1>1, <1>4, SnoopCleanUpStep DEF Watch, SnoopInv
<1>5. CASE Rejected \/ \E c \in Slot : Close(c)
  BY <1>1, <1>5, SnoopRemoveStep DEF Watch, SnoopInv
<1>6. CASE Disconnected \/ \E o \in Obj : RemoveObject(o)
  BY <1>1, <1>6, SnoopDownStep DEF Watch, SnoopInv
<1>7. CASE \E c \in Slot : Accept(c) \/ OutConnected(c)
  BY <1>1, <1>7, SnoopLinkStep DEF Watch, SnoopInv
<1>8. CASE OutReplaced
  BY <1>1, <1>8, SnoopReplaceStep DEF Watch, SnoopInv
<1>9. CASE \E o \in Obj : Rebind(o)
  BY <1>1, <1>9, SnoopRebindStep DEF Watch, SnoopInv
<1>10. CASE Exec
  BY <1>1, <1>10, SnoopExecStep DEF Watch, SnoopInv
<1>11. CASE StopSnoop \/ StartSnoop \/ OnlyEndSnoop
  BY <1>1, <1>11, SnoopStopStep DEF Watch, SnoopInv
<1>12. ASSUME NEW x \in Obj, NEW y \in Obj, AskToExec(x, y)
       PROVE  SnoopInv'
  BY <1>1, <1>12, SnoopAskStep DEF Watch, SnoopInv
<1>13. ASSUME NEW x \in Obj, NEW y \in Obj \cup {NULL}, AskToSnoop(x, y)
       PROVE  SnoopInv'
  BY <1>1, <1>13, SnoopAskStep DEF Watch, SnoopInv
<1>14. QED
  BY <1>2, <1>3, <1>4, <1>5, <1>6, <1>7, <1>8, <1>9, <1>10, <1>11, <1>12, <1>13 DEF Next

LEMMA NumInit == Init => NumInv
<1> SUFFICES ASSUME Init PROVE NumInv
  OBVIOUS
<1>1. /\ ob = [c \in Slot |-> NULL] /\ closing = {} /\ do_close = {}
      /\ max_player = -1 /\ num_player = 0 /\ frames = << >>
  BY DEF Init
<1>2. Used = {} /\ Cardinality(Used) = 0
  BY <1>1, FS_EmptySet DEF Used
<1>3. Numbers
  BY <1>1, <1>2, LimitsAssumption DEF Numbers, Reached
<1>4. Removing
  BY <1>1 DEF Removing
<1>5. QED
  BY <1>3, <1>4 DEF NumInv

LEMMA SnoopInit == Init => SnoopInv
<1> SUFFICES ASSUME Init PROVE SnoopInv
  OBVIOUS
<1>1. /\ ob = [c \in Slot |-> NULL] /\ ip = [o \in Obj |-> NULL]
      /\ snoop_on = [c \in Slot |-> NULL] /\ snoop_by = [c \in Slot |-> NULL]
      /\ curr_obj = NULL /\ status = "ocNotUsed" /\ ref = [o \in Obj |-> 0]
      /\ frames = << >>
  BY DEF Init
<1>2. Snoops /\ NoSnoopLoop
  BY <1>1, RolesAssumption DEF Snoops, SnoopLinked, NoSnoopLoop, Interactive, Ptr
<1>3. Refs
  <2>1. \A o \in Obj : Watched(o) = {}
    BY <1>1, RolesAssumption DEF Watched
  <2>2. \A o \in Obj : Cardinality(Watched(o)) = 0
    BY <2>1, FS_EmptySet
  <2>3. \A o \in Obj : Owed(o) = 0
    BY <1>1, <2>2, RolesAssumption DEF Owed
  <2>4. QED
    BY <1>1, <2>3 DEF Refs
<1>4. Asking /\ Entry
  BY <1>1 DEF Asking, Entry
<1>5. QED
  BY <1>2, <1>3, <1>4, NumInit DEF SnoopInv

-----------------------------------------------------------------------------
(* ----- The theorems ------------------------------------------------------ *)
(* The numbers that get_message() goes by are right, and the connection    *)
(* that disconnect() is called for stays in its slot.                      *)
THEOREM NumbersInvariant == Spec => []NumInv
<1>1. Init => NumInv
  BY NumInit
<1>2. IInv /\ NumInv /\ [Next]_vars => NumInv'
  BY NumStep
<1>3. QED
  BY <1>1, <1>2, ConnectionsInvariant, PTL DEF Spec

(* get_message() reaches everybody who is connected, and num_player counts *)
(* them, whatever LPC code does while connections come and go.             *)
THEOREM AllReached == Spec => []Reached
<1>1. NumInv => Reached
  BY DEF NumInv, Numbers
<1>2. QED
  BY <1>1, NumbersInvariant, PTL

(* Snoops, the calls that set them, the entry for outgoing connections and *)
(* the references stay as they should be, as long as LPC code behaves.     *)
THEOREM SnoopInvariant ==
    ASSUME Considerate
    PROVE  Spec => []SnoopInv
<1>1. Init => SnoopInv
  BY SnoopInit
<1>2. IInv /\ SnoopInv /\ [Next]_vars => SnoopInv'
  BY SnoopStep
<1>3. QED
  BY <1>1, <1>2, ConnectionsInvariant, PTL DEF Spec

(* The two ends of a snoop agree after every exec(), set_snoop() and       *)
(* remove_interactive().                                                   *)
THEOREM SnoopsAgree ==
    ASSUME Considerate
    PROVE  Spec => []SnoopLinked
<1>1. SnoopInv => SnoopLinked
  BY DEF SnoopInv, Snoops
<1>2. QED
  BY <1>1, SnoopInvariant, PTL

(* The check of set_snoop() keeps snoops from running in circles, among    *)
(* any number of connections and however they are moved about: the         *)
(* recursion of add_message() ends.                                        *)
THEOREM NoLoops ==
    ASSUME Considerate
    PROVE  Spec => []NoSnoopLoop
<1>1. SnoopInv => NoSnoopLoop
  BY DEF SnoopInv
<1>2. QED
  BY <1>1, SnoopInvariant, PTL

(* Each step of comm.c counts the references to objects as                 *)
(* count_comm_extra_refs() adds them up.                                   *)
THEOREM RefsCounted ==
    ASSUME Considerate
    PROVE  Spec => []RefsExact
<1>1. ASSUME IInv, SnoopInv
      PROVE  RefsExact
  <2>1. Typed /\ TwoWay /\ Snoops /\ Refs
    BY <1>1 DEF IInv, SnoopInv
  <2> SUFFICES ASSUME NEW o \in Obj
               PROVE  ref[o] = Cardinality({c \in Slot : ob[c] = o})
                             + (IF Interactive(o) THEN 0
                                ELSE Cardinality({c \in Slot : snoop_by[c] = o}))
                             + (IF curr_obj = o THEN 1 ELSE 0)
    BY DEF RefsExact
  <2>2. ref[o] = (IF ip[o] # NULL THEN 1 ELSE 0) + Watching(o) + One(curr_obj, o)
    BY <2>1, RefsKnown
  <2>3. Cardinality({c \in Slot : ob[c] = o}) = IF ip[o] # NULL THEN 1 ELSE 0
    <3>1. {c \in Slot : ob[c] = o} = IF ip[o] # NULL THEN {ip[o]} ELSE {}
      BY <2>1, EndFacts
    <3>2. QED
      BY <3>1, FS_EmptySet, FS_Singleton
  <2>4. Watching(o) = IF ip[o] # NULL THEN 0 ELSE Cardinality({c \in Slot : snoop_by[c] = o})
    <3>1. CASE o \in Npc
      BY <2>1, <3>1, EndFacts DEF Watching, Watched
    <3>2. CASE o \notin Npc
      <4>1. ip[o] = NULL => {c \in Slot : snoop_by[c] = o} = {}
        BY <2>1, <3>2, EndFacts
      <4>2. QED
        BY <3>2, <4>1, FS_EmptySet DEF Watching
    <3>3. QED
      BY <3>1, <3>2
  <2>5. QED
    BY <2>2, <2>3, <2>4 DEF One, Interactive
<1>2. IInv /\ SnoopInv => RefsExact
  BY <1>1
<1>3. QED
  BY <1>2, SnoopInvariant, ConnectionsInvariant, PTL

(* The types, with the check of comm.c:8778 that "shouldn't happen": an    *)
(* entry for an outgoing connection that is in use has an object.          *)
THEOREM ConnectionsTyped ==
    ASSUME Considerate
    PROVE  Spec => []TypeOK
<1>1. ASSUME IInv, SnoopInv
      PROVE  TypeOK
  <2>1. Typed /\ Numbers /\ Snoops /\ Entry /\ Refs
    BY <1>1 DEF IInv, SnoopInv, NumInv
  <2>2. ref \in [Obj -> Nat]
    <3>1. \A o \in Obj : Owed(o) \in Nat
      <4> SUFFICES ASSUME NEW o \in Obj PROVE Owed(o) \in Nat
        OBVIOUS
      <4>1. One(curr_obj, o) \in {0, 1}
        BY OneFacts
      <4>2. QED
        BY <4>1, WatchingFacts
    <3>2. QED
      BY <2>1, <3>1 DEF Refs
  <2>3. num_player \in Nat
    BY <2>1, SlotFacts, FS_CardinalityType DEF Numbers, Reached
  <2>4. curr_obj \in Ptr
    BY <2>1, RolesAssumption DEF Typed, Ptr
  <2>5. \A i \in DOMAIN frames : frames[i][1] \in Calls \cup {"new_player", "clean_up"}
    <3>1. frames \in Seq(Frame) /\ DOMAIN frames = 1 .. Len(frames)
      BY <2>1, LenProperties DEF Typed, Frame
    <3>2. \A i \in DOMAIN frames : frames[i] \in Frame
      BY <3>1, ElementOfSeq
    <3>3. QED
      BY <3>2 DEF Frame
  <2>6. QED
    BY <2>1, <2>2, <2>3, <2>4, <2>5 DEF TypeOK, Typed, Numbers, Snoops, Entry
<1>2. IInv /\ SnoopInv => TypeOK
  BY <1>1
<1>3. QED
  BY <1>2, SnoopInvariant, ConnectionsInvariant, PTL
=============================================================================
