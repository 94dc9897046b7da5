--------------------------- MODULE CommandsProofs ---------------------------
(***************************************************************************)
(* Proofs about Commands: the lists of handlers stay in order, nobody gets *)
(* more than his share of a cycle or of a second, and the echo comes back. *)
(***************************************************************************)
EXTENDS Commands, Induction

(* input_to() sets at most one handler in an evaluation, and on top of it  *)
(* only the editor can lie.                                                *)
NowFirst(list) ==
    \A i \in 1 .. Len(list) :
        list[i].now => /\ ~IsEd(list[i])
                       /\ \A j \in 1 .. i - 1 : IsEd(list[j])

GoodList(c, list) ==
    /\ list \in Seq(Handler) /\ Len(list) <= MaxHandlers[c] /\ NowFirst(list)
    /\ \A i \in 1 .. Len(list) : /\ <<list[i].type, list[i].noecho>> \in Asks[c]
                                 /\ IsEd(list[i]) => list[i].noecho = {}

Places ==
    /\ players \subseteq Slot /\ do_close \subseteq players /\ readfds \subseteq Slot
    /\ NextCmdGiver \in Slot \cup {-1} /\ CmdsGiven \in 0 .. ALLOWED_ED_CMDS
    /\ eval \in {Idle, <<"lpc", -1>>} \cup ({"lpc", "ed", "input_to"} \X Slot)

Arrays ==
    /\ text \in [Slot -> Nat] /\ given \in [Slot -> Nat] /\ spent \in [Slot -> Nat]
    /\ numCmds \in [Slot -> Nat \cup {-1}]
    /\ input_handler \in [Slot -> Seq(Handler)]
    /\ noecho \in [Slot -> SUBSET (Flags \cup {STALE})]

(* A free slot holds nothing that its next user could inherit.             *)
Vacant ==
    \A c \in Slot \ players :
        input_handler[c] = << >> /\ noecho[c] = {} /\ text[c] = 0 /\ spent[c] = 0

Lists == \A c \in Slot : GoodList(c, input_handler[c])

(* The connections that the scan has still to reach gave no line in this   *)
(* cycle; the one at hand gave as many as were counted.                    *)
Turns ==
    /\ \A c \in readfds : c <= NextCmdGiver => text[c] = 0
    /\ \A c \in Slot :
          /\ c < NextCmdGiver => given[c] = 0
          /\ c = NextCmdGiver => /\ given[c] <= CmdsGiven
                                 /\ given[c] > 0 => <<"INPUT_ED", {}>> \in Asks[c]
          /\ given[c] <= IF <<"INPUT_ED", {}>> \in Asks[c] THEN ALLOWED_ED_CMDS + 1 ELSE 1

(* .numCmds falls short of the lines of this second by one at most, the    *)
(* first, which is counted as 0.                                           *)
Seconds ==
    \A c \in Slot : MaxNumCmds[c] >= 0 => /\ numCmds[c] <= MaxNumCmds[c]
                                          /\ spent[c] <= numCmds[c] + 1

IInv == Places /\ Arrays /\ Vacant /\ Lists /\ Turns /\ Seconds

(* The echo is off only for the handler of the next line, or while the     *)
(* function is called that the line went to: then NOECHO_STALE says so.    *)
EchoFollows ==
    \A c \in Slot : EchoOff(noecho[c]) => \/ EchoOff(ModeOf(input_handler[c]))
                                          \/ eval = <<"input_to", c>> /\ STALE \in noecho[c]

-----------------------------------------------------------------------------
(* ----- Lists of handlers ------------------------------------------------ *)
LEMMA SlotFacts == Slot \subseteq Nat /\ -1 \notin Slot
BY DEF Slot

(* The list is a sequence, with a length and elements.                     *)
LEMMA ListFacts ==
    ASSUME NEW list \in Seq(Handler)
    PROVE  /\ Len(list) \in Nat /\ DOMAIN list = 1 .. Len(list)
           /\ \A i \in 1 .. Len(list) : list[i] \in Handler
BY LenProperties, ElementOfSeq

LEMMA RemoveKeeps ==
    ASSUME NEW c \in Slot, NEW list, GoodList(c, list), NEW i \in 1 .. Len(list)
    PROVE  GoodList(c, RemoveAt(list, i)) /\ Len(RemoveAt(list, i)) = Len(list) - 1
<1> DEFINE left == RemoveAt(list, i)
<1>1. list \in Seq(Handler)
  BY DEF GoodList
<1>2. /\ Len(list) \in Nat /\ left \in Seq(Handler) /\ Len(left) = Len(list) - 1
      /\ \A j \in 1 .. Len(list) - 1 : left[j] = IF j < i THEN list[j] ELSE list[j + 1]
  BY <1>1, ListFacts, RemoveAtFacts
<1> HIDE DEF left
<1>3. NowFirst(left)
  <2> SUFFICES ASSUME NEW j \in 1 .. Len(left), left[j].now
               PROVE  ~IsEd(left[j]) /\ \A k \in 1 .. j - 1 : IsEd(left[k])
    BY DEF NowFirst
  <2>1. PICK m \in 1 .. Len(list) : left[j] = list[m] /\ m = IF j < i THEN j ELSE j + 1
    BY <1>2
  <2>2. ~IsEd(list[m]) /\ \A k \in 1 .. m - 1 : IsEd(list[k])
    BY <2>1 DEF GoodList, NowFirst
  <2>3. ASSUME NEW k \in 1 .. j - 1
        PROVE  IsEd(left[k])
    <3>1. left[k] = IF k < i THEN list[k] ELSE list[k + 1]
      BY <1>2
    <3>2. IF k < i THEN k \in 1 .. m - 1 ELSE k + 1 \in 1 .. m - 1
      BY <1>2, <2>1
    <3>3. QED
      BY <2>2, <3>1, <3>2
  <2>4. QED
    BY <2>1, <2>2, <2>3
<1>4. \A j \in 1 .. Len(left) : \E m \in 1 .. Len(list) : left[j] = list[m]
  BY <1>2
<1>5. MaxHandlers[c] \in Nat /\ Len(left) <= MaxHandlers[c]
  BY <1>2, LimitsAssumption DEF GoodList
<1>6. GoodList(c, left)
  BY <1>2, <1>3, <1>4, <1>5 DEF GoodList
<1>7. QED
  BY <1>2, <1>6 DEF left

(* A handler on top, which may be a new input_to() if no other is in force. *)
LEMMA PushKeeps ==
    ASSUME NEW c \in Slot, NEW list, GoodList(c, list), Len(list) < MaxHandlers[c],
           NEW h \in Handler, <<h.type, h.noecho>> \in Asks[c],
           \/ IsEd(h) /\ h.noecho = {} /\ ~h.now
           \/ ~IsEd(h) /\ \A j \in 1 .. Len(list) : ~list[j].now
    PROVE  GoodList(c, <<h>> \o list) /\ (<<h>> \o list) # << >> /\ (<<h>> \o list)[1] = h
<1> DEFINE new == <<h>> \o list
<1>1. list \in Seq(Handler) /\ Len(list) \in Nat /\ MaxHandlers[c] \in Nat
  BY ListFacts, LimitsAssumption DEF GoodList
<1>2. <<h>> \in Seq(Handler) /\ Len(<<h>>) = 1 /\ <<h>>[1] = h
  OBVIOUS
<1>3. /\ new \in Seq(Handler) /\ Len(new) = Len(list) + 1 /\ new[1] = h
      /\ \A j \in 2 .. Len(list) + 1 : new[j] = list[j - 1]
  <2>1. /\ new \in Seq(Handler) /\ Len(new) = Len(<<h>>) + Len(list)
        /\ \A j \in 1 .. Len(<<h>>) + Len(list) :
              new[j] = IF j <= Len(<<h>>) THEN <<h>>[j] ELSE list[j - Len(<<h>>)]
    BY <1>1, <1>2, ConcatProperties
  <2> HIDE DEF new
  <2>2. QED
    BY <1>1, <1>2, <2>1
<1> HIDE DEF new
<1>4. NowFirst(new)
  <2> SUFFICES ASSUME NEW j \in 1 .. Len(new), new[j].now
               PROVE  ~IsEd(new[j]) /\ \A k \in 1 .. j - 1 : IsEd(new[k])
    BY DEF NowFirst
  <2>1. CASE j = 1
    BY <1>3, <2>1
  <2>2. CASE j # 1
    <3>1. j \in 2 .. Len(list) + 1 /\ j - 1 \in 1 .. Len(list)
      BY <1>1, <1>3, <2>2
    <3>2. new[j] = list[j - 1] /\ list[j - 1].now
      BY <1>3, <3>1
    <3>3. IsEd(h) /\ ~IsEd(list[j - 1]) /\ \A k \in 1 .. j - 1 - 1 : IsEd(list[k])
      BY <3>1, <3>2 DEF GoodList, NowFirst
    <3>4. ASSUME NEW k \in 1 .. j - 1
          PROVE  IsEd(new[k])
      <4>1. CASE k = 1
        BY <1>3, <3>3, <4>1
      <4>2. CASE k # 1
        <5>1. k \in 2 .. Len(list) + 1 /\ k - 1 \in 1 .. j - 1 - 1
          BY <1>1, <1>3, <4>2
        <5>2. QED
          BY <1>3, <3>3, <5>1
      <4>3. QED
        BY <4>1, <4>2
    <3>5. QED
      BY <3>2, <3>3, <3>4
  <2>3. QED
    BY <2>1, <2>2
<1>5. ASSUME NEW j \in 1 .. Len(new)
      PROVE  <<new[j].type, new[j].noecho>> \in Asks[c] /\ (IsEd(new[j]) => new[j].noecho = {})
  <2>1. CASE j = 1
    BY <1>3, <2>1
  <2>2. CASE j # 1
    <3>1. j \in 2 .. Len(list) + 1 /\ j - 1 \in 1 .. Len(list)
      BY <1>1, <1>3, <2>2
    <3>2. QED
      BY <1>3, <3>1 DEF GoodList
  <2>3. QED
    BY <2>1, <2>2
<1>6. Len(new) <= MaxHandlers[c] /\ new # << >>
  BY <1>1, <1>3
<1>7. GoodList(c, new)
  BY <1>3, <1>4, <1>5, <1>6 DEF GoodList
<1>8. QED
  BY <1>3, <1>6, <1>7 DEF new

(* A handler at the end of the list does not count as one of now.          *)
LEMMA AppendKeeps ==
    ASSUME NEW c \in Slot, NEW list, GoodList(c, list), Len(list) < MaxHandlers[c],
           NEW h \in Handler, <<h.type, h.noecho>> \in Asks[c], ~IsEd(h), ~h.now
    PROVE  /\ GoodList(c, Append(list, h)) /\ Append(list, h) # << >>
           /\ Append(list, h)[1] = IF list = << >> THEN h ELSE list[1]
<1> DEFINE new == Append(list, h)
<1>1. list \in Seq(Handler) /\ Len(list) \in Nat /\ MaxHandlers[c] \in Nat
  BY ListFacts, LimitsAssumption DEF GoodList
<1>2. /\ new \in Seq(Handler) /\ Len(new) = Len(list) + 1 /\ new[Len(list) + 1] = h
      /\ \A j \in 1 .. Len(list) : new[j] = list[j]
  BY <1>1, AppendProperties
<1>3. list = << >> <=> Len(list) = 0
  BY <1>1, EmptySeq
<1> HIDE DEF new
<1>4. NowFirst(new)
  BY <1>1, <1>2 DEF GoodList, NowFirst
<1>5. \A j \in 1 .. Len(new) : /\ <<new[j].type, new[j].noecho>> \in Asks[c]
                               /\ IsEd(new[j]) => new[j].noecho = {}
  <2> SUFFICES ASSUME NEW j \in 1 .. Len(new)
               PROVE  /\ <<new[j].type, new[j].noecho>> \in Asks[c]
                      /\ IsEd(new[j]) => new[j].noecho = {}
    OBVIOUS
  <2>1. new[j] = h \/ \E m \in 1 .. Len(list) : new[j] = list[m]
    BY <1>1, <1>2
  <2>2. QED
    BY <2>1 DEF GoodList
<1>6. Len(new) <= MaxHandlers[c] /\ new # << >>
  BY <1>1, <1>2
<1>7. GoodList(c, new)
  BY <1>2, <1>4, <1>5, <1>6 DEF GoodList
<1>8. new[1] = IF list = << >> THEN h ELSE list[1]
  BY <1>1, <1>2, <1>3
<1>9. QED
  BY <1>6, <1>7, <1>8 DEF new

LEMMA EmptyGood ==
    ASSUME NEW c \in Slot
    PROVE  GoodList(c, << >>)
BY LimitsAssumption DEF GoodList, NowFirst

(* The handlers are older than the next evaluation, and otherwise the same. *)
LEMMA PastKeeps ==
    ASSUME NEW c \in Slot, NEW list, GoodList(c, list)
    PROVE  /\ GoodList(c, [i \in DOMAIN list |-> [list[i] EXCEPT !.now = FALSE]])
           /\ ModeOf([i \in DOMAIN list |-> [list[i] EXCEPT !.now = FALSE]]) = ModeOf(list)
           /\ list = << >> => [i \in DOMAIN list |-> [list[i] EXCEPT !.now = FALSE]] = << >>
<1> DEFINE new == [i \in DOMAIN list |-> [list[i] EXCEPT !.now = FALSE]]
<1>1. list \in Seq(Handler) /\ Len(list) \in Nat /\ DOMAIN list = 1 .. Len(list)
      /\ \A i \in 1 .. Len(list) : list[i] \in Handler
  BY ListFacts DEF GoodList
<1>2. new = [i \in 1 .. Len(list) |-> [list[i] EXCEPT !.now = FALSE]]
  BY <1>1
<1>3. \A i \in 1 .. Len(list) : /\ new[i] \in Handler /\ new[i].now = FALSE
                                /\ new[i].type = list[i].type /\ new[i].noecho = list[i].noecho
  <2> SUFFICES ASSUME NEW i \in 1 .. Len(list)
               PROVE  /\ new[i] \in Handler /\ new[i].now = FALSE
                      /\ new[i].type = list[i].type /\ new[i].noecho = list[i].noecho
    OBVIOUS
  <2>1. new[i] = [list[i] EXCEPT !.now = FALSE]
    BY <1>2
  <2>2. list[i] \in Handler
    BY <1>1
  <2>3. QED
    BY <2>1, <2>2 DEF Handler
<1> HIDE DEF new
<1>4. new \in Seq(Handler) /\ Len(new) = Len(list)
  BY <1>1, <1>2, <1>3
<1>5. GoodList(c, new)
  BY <1>3, <1>4 DEF GoodList, NowFirst, IsEd
<1>6. list = << >> <=> new = << >>
  BY <1>1, <1>4, EmptySeq
<1>7. ModeOf(new) = ModeOf(list)
  <2>1. CASE list = << >>
    BY <1>6, <2>1 DEF ModeOf
  <2>2. CASE list # << >>
    <3>1. 1 \in 1 .. Len(list)
      BY <1>1, <2>2, EmptySeq
    <3>2. QED
      BY <1>3, <1>6, <2>2, <3>1 DEF ModeOf
  <2>3. QED
    BY <2>1, <2>2
<1>8. QED
  BY <1>5, <1>6, <1>7 DEF new

-----------------------------------------------------------------------------
(* ----- Parts of several actions ---------------------------------------- *)
(* The scan starts at a slot.                                              *)
LEMMA StartsAtSlot ==
    ASSUME players \subseteq Slot
    PROVE  StartCmdGiver \in Slot
<1>1. PICK n \in Nat : n = MAX_PLAYERS - 1 /\ Slot = 0 .. n
  BY LimitsAssumption DEF Slot
<1>2. CASE players = {}
  BY <1>1, <1>2 DEF StartCmdGiver
<1>3. CASE players # {}
  <2>1. Max(players) \in players
    BY <1>1, <1>3, MaxFacts
  <2>2. QED
    BY <1>3, <2>1 DEF StartCmdGiver
<1>4. QED
  BY <1>2, <1>3

(* Slots are emptied.                                                      *)
LEMMA EmptiedKeeps ==
    ASSUME Places, Arrays, Lists, Seconds, NEW S \in SUBSET Slot, Emptied(S)
    PROVE  /\ players' = players \ S
           /\ players' \subseteq Slot /\ do_close' \subseteq players'
           /\ spent' \in [Slot -> Nat] /\ numCmds' \in [Slot -> Nat \cup {-1}]
           /\ input_handler' \in [Slot -> Seq(Handler)]
           /\ noecho' \in [Slot -> SUBSET (Flags \cup {STALE})]
           /\ \A c \in Slot : c \in S => /\ input_handler'[c] = << >> /\ noecho'[c] = {}
                                         /\ numCmds'[c] = 0 /\ spent'[c] = 0
           /\ \A c \in Slot : c \notin S => /\ input_handler'[c] = input_handler[c]
                                            /\ noecho'[c] = noecho[c]
                                            /\ numCmds'[c] = numCmds[c] /\ spent'[c] = spent[c]
           /\ Lists' /\ Seconds'
<1>1. << >> \in Seq(Handler)
  OBVIOUS
<1>2. /\ players' = players \ S
      /\ players' \subseteq Slot /\ do_close' \subseteq players'
  BY DEF Emptied, Places
<1>3. spent' \in [Slot -> Nat] /\ numCmds' \in [Slot -> Nat \cup {-1}]
  BY DEF Emptied, Cleared, Arrays
<1>4. input_handler' \in [Slot -> Seq(Handler)]
  BY <1>1 DEF Emptied, Cleared, Arrays
<1>5. noecho' \in [Slot -> SUBSET (Flags \cup {STALE})]
  BY DEF Emptied, Cleared, Arrays
<1>6. \A c \in Slot : c \in S => /\ input_handler'[c] = << >> /\ noecho'[c] = {}
                                 /\ numCmds'[c] = 0 /\ spent'[c] = 0
  BY DEF Emptied, Cleared
<1>7. \A c \in Slot : c \notin S => /\ input_handler'[c] = input_handler[c]
                                    /\ noecho'[c] = noecho[c]
                                    /\ numCmds'[c] = numCmds[c] /\ spent'[c] = spent[c]
  BY DEF Emptied, Cleared
<1>8. Lists'
  BY <1>6, <1>7, EmptyGood DEF Lists
<1>9. Seconds'
  <2>1. \A c \in Slot : MaxNumCmds[c] \in Nat \cup {-1}
    BY LimitsAssumption
  <2>2. QED
    BY <1>6, <1>7, <2>1 DEF Seconds
<1>10. QED
  BY <1>2, <1>3, <1>4, <1>5, <1>6, <1>7, <1>8, <1>9

(* A line is taken: what it does to the scan and the counts.               *)
LEMMA TakeLineKeeps ==
    ASSUME IInv, NEW lines, TakeLine(lines)
    PROVE  /\ Here \in players /\ Here \in Slot /\ eval = Idle /\ UNCHANGED conns
           /\ readfds' \subseteq Slot
           /\ NextCmdGiver' \in Slot \cup {-1} /\ CmdsGiven' \in 0 .. ALLOWED_ED_CMDS
           /\ text' \in [Slot -> Nat] /\ given' \in [Slot -> Nat] /\ spent' \in [Slot -> Nat]
           /\ numCmds' \in [Slot -> Nat \cup {-1}]
           /\ \A c \in Slot \ {Here} : text'[c] = text[c] /\ spent'[c] = spent[c]
           /\ Turns' /\ Seconds'
<1> USE DEF IInv
<1>1. /\ Here \in players /\ Here \in Slot /\ eval = Idle /\ UNCHANGED conns
      /\ ~LimitReached(Here)
  BY DEF TakeLine, Scanning, Places
<1>2. PICK h \in Slot : h = Here
  BY <1>1
<1>3. h \in Nat /\ h = NextCmdGiver
  BY <1>2, SlotFacts DEF Here
<1>4. h - 1 \in Slot \cup {-1}
  BY <1>3, LimitsAssumption DEF Slot
<1>5. lines - 1 \in Nat
  <2>1. MaxLines[h] \in Nat /\ text[h] \in Nat
    BY LimitsAssumption DEF Arrays
  <2>2. lines \in 1 .. MaxLines[h] \/ (text[h] > 0 /\ lines = text[h])
    BY <1>2 DEF TakeLine
  <2>3. QED
    BY <2>1, <2>2
<1>6. /\ text' = [text EXCEPT ![h] = lines - 1]
      /\ given' = [given EXCEPT ![h] = @ + 1]
      /\ numCmds' = IF MaxNumCmds[h] < 0 THEN numCmds ELSE [numCmds EXCEPT ![h] = @ + 1]
      /\ spent' = IF MaxNumCmds[h] < 0 THEN spent ELSE [spent EXCEPT ![h] = @ + 1]
  BY <1>2 DEF TakeLine, Counted
<1>7. /\ text' \in [Slot -> Nat] /\ given' \in [Slot -> Nat] /\ spent' \in [Slot -> Nat]
      /\ numCmds' \in [Slot -> Nat \cup {-1}]
  <2>1. given[h] + 1 \in Nat /\ spent[h] + 1 \in Nat /\ numCmds[h] + 1 \in Nat \cup {-1}
    <3>1. given[h] \in Nat /\ spent[h] \in Nat /\ (numCmds[h] \in Nat \/ numCmds[h] = -1)
      BY DEF Arrays
    <3>2. QED
      BY <3>1
  <2>2. text' \in [Slot -> Nat] /\ given' \in [Slot -> Nat]
    BY <1>5, <1>6, <2>1 DEF Arrays
  <2>3. spent' \in [Slot -> Nat]
    BY <1>6, <2>1 DEF Arrays
  <2>4. numCmds' \in [Slot -> Nat \cup {-1}]
    BY <1>6, <2>1 DEF Arrays
  <2>5. QED
    BY <2>2, <2>3, <2>4
<1>8. \A c \in Slot \ {Here} :
         text'[c] = text[c] /\ given'[c] = given[c] /\ spent'[c] = spent[c] /\ numCmds'[c] = numCmds[c]
  BY <1>2, <1>6 DEF Arrays
<1>9. Seconds'
  <2> SUFFICES ASSUME NEW c \in Slot, MaxNumCmds[c] >= 0
               PROVE  numCmds'[c] <= MaxNumCmds[c] /\ spent'[c] <= numCmds'[c] + 1
    BY DEF Seconds
  <2>1. /\ numCmds[c] <= MaxNumCmds[c] /\ spent[c] <= numCmds[c] + 1 /\ MaxNumCmds[c] \in Int
        /\ numCmds[c] \in Int /\ spent[c] \in Int
    BY LimitsAssumption DEF Seconds, Arrays
  <2>2. CASE c = h
    <3>1. numCmds'[c] = numCmds[c] + 1 /\ spent'[c] = spent[c] + 1
      BY <1>6, <2>1, <2>2 DEF Arrays
    <3>2. ~(numCmds[c] >= MaxNumCmds[c])
      BY <1>1, <1>2, <2>2 DEF LimitReached
    <3>3. QED
      BY <2>1, <3>1, <3>2
  <2>3. CASE c # h
    BY <1>2, <1>8, <2>1, <2>3
  <2>4. QED
    BY <2>2, <2>3
<1>10. /\ given'[h] = given[h] + 1 /\ given[h] \in Nat /\ given[h] <= CmdsGiven
       /\ given[h] > 0 => <<"INPUT_ED", {}>> \in Asks[h]
       /\ CmdsGiven \in Nat /\ CmdsGiven <= ALLOWED_ED_CMDS /\ ALLOWED_ED_CMDS \in Nat
  BY <1>3, <1>6, LimitsAssumption DEF Turns, Arrays, Places
<1>11. \A c \in Slot : /\ c \in Nat /\ given[c] \in Nat
                       /\ c < h => given[c] = 0
                       /\ c \in readfds /\ c <= h => text[c] = 0
                       /\ given[c] <= IF <<"INPUT_ED", {}>> \in Asks[c]
                                      THEN ALLOWED_ED_CMDS + 1 ELSE 1
  BY <1>3, SlotFacts DEF Turns, Arrays
<1>12. CASE StaysWith(Here)
  <2>1. /\ CmdsGiven' = CmdsGiven + 1 /\ readfds' = readfds \ {h} /\ NextCmdGiver' = h
    BY <1>2, <1>3, <1>12 DEF TakeLine
  <2>2. CmdsGiven < ALLOWED_ED_CMDS /\ <<"INPUT_ED", {}>> \in Asks[h]
    <3>1. input_handler[h] # << >> /\ IsEd(input_handler[h][1]) /\ CmdsGiven < ALLOWED_ED_CMDS
      BY <1>2, <1>12 DEF StaysWith, Editing, Handlers
    <3>2. GoodList(h, input_handler[h])
      BY DEF Lists
    <3>3. 1 \in 1 .. Len(input_handler[h])
      BY <3>1, <3>2, ListFacts, EmptySeq DEF GoodList
    <3>4. QED
      BY <3>1, <3>2, <3>3 DEF GoodList, IsEd
  <2>3. /\ readfds' \subseteq Slot
        /\ NextCmdGiver' \in Slot \cup {-1} /\ CmdsGiven' \in 0 .. ALLOWED_ED_CMDS
    BY <1>10, <2>1, <2>2 DEF Places
  <2>4. \A c \in readfds' : c <= NextCmdGiver' => text'[c] = 0
    BY <1>2, <1>8, <1>11, <2>1 DEF Places
  <2>5. ASSUME NEW c \in Slot
        PROVE  /\ c < NextCmdGiver' => given'[c] = 0
               /\ c = NextCmdGiver' => /\ given'[c] <= CmdsGiven'
                                       /\ given'[c] > 0 => <<"INPUT_ED", {}>> \in Asks[c]
               /\ given'[c] <= IF <<"INPUT_ED", {}>> \in Asks[c] THEN ALLOWED_ED_CMDS + 1 ELSE 1
    <3>1. CASE c = h
      BY <1>10, <1>3, <2>1, <2>2, <3>1
    <3>2. CASE c # h
      BY <1>2, <1>8, <1>11, <2>1, <3>2
    <3>3. QED
      BY <3>1, <3>2
  <2>6. Turns'
    BY <2>4, <2>5 DEF Turns
  <2>7. QED
    BY <1>1, <1>7, <1>8, <1>9, <2>3, <2>6
<1>13. CASE ~StaysWith(Here)
  <2>1. /\ CmdsGiven' = 0 /\ readfds' = readfds /\ NextCmdGiver' = h - 1
    BY <1>2, <1>3, <1>13 DEF TakeLine, DecreaseCmdGiver
  <2>3. /\ readfds' \subseteq Slot
        /\ NextCmdGiver' \in Slot \cup {-1} /\ CmdsGiven' \in 0 .. ALLOWED_ED_CMDS
    BY <1>4, <1>10, <2>1 DEF Places
  <2>4. \A c \in readfds' : c <= NextCmdGiver' => text'[c] = 0
    <3> SUFFICES ASSUME NEW c \in readfds, c <= h - 1 PROVE text'[c] = 0
      BY <2>1
    <3>1. c \in Slot /\ c # h /\ c <= h
      BY <1>3, SlotFacts DEF Places
    <3>2. QED
      BY <1>2, <1>8, <1>11, <3>1
  <2>5. ASSUME NEW c \in Slot
        PROVE  /\ c < NextCmdGiver' => given'[c] = 0
               /\ c = NextCmdGiver' => /\ given'[c] <= CmdsGiven'
                                       /\ given'[c] > 0 => <<"INPUT_ED", {}>> \in Asks[c]
               /\ given'[c] <= IF <<"INPUT_ED", {}>> \in Asks[c] THEN ALLOWED_ED_CMDS + 1 ELSE 1
    <3>1. CASE c = h
      BY <1>3, <1>10, <2>1, <3>1
    <3>2. CASE c # h
      <4>1. given'[c] = given[c]
        BY <1>2, <1>8, <3>2
      <4>2. c <= h - 1 => given[c] = 0
        BY <1>3, <1>11
      <4>3. QED
        BY <1>3, <1>11, <2>1, <4>1, <4>2
    <3>3. QED
      BY <3>1, <3>2
  <2>6. Turns'
    BY <2>4, <2>5 DEF Turns
  <2>7. QED
    BY <1>1, <1>7, <1>8, <1>9, <2>3, <2>6
<1>14. QED
  BY <1>12, <1>13

-----------------------------------------------------------------------------
(* ----- The actions, one by one ----------------------------------------- *)
Kept == IInv' /\ (Habits = {} /\ EchoFollows => EchoFollows')

LEMMA InitKept == Init => IInv /\ EchoFollows
<1> SUFFICES ASSUME Init PROVE IInv /\ EchoFollows
  OBVIOUS
<1> USE DEF Init
<1>1. Places
  BY LimitsAssumption DEF Places, Idle
<1>2. Arrays
  <2>1. << >> \in Seq(Handler)
    OBVIOUS
  <2>2. QED
    BY <2>1 DEF Arrays
<1>3. Vacant
  BY DEF Vacant
<1>4. Lists
  BY EmptyGood DEF Lists
<1>5. Turns
  BY LimitsAssumption, SlotFacts DEF Turns
<1>6. Seconds
  BY LimitsAssumption DEF Seconds
<1>7. EchoFollows
  BY DEF EchoFollows, EchoOff
<1>8. QED
  BY <1>1, <1>2, <1>3, <1>4, <1>5, <1>6, <1>7 DEF IInv

LEMMA SelectKept == ASSUME IInv, Select PROVE Kept
<1> USE DEF IInv
<1>1. /\ Emptied(do_close) /\ do_close \in SUBSET Slot /\ players \subseteq Slot /\ eval = Idle
      /\ readfds' \in SUBSET {c \in players' : text[c] = 0}
      /\ text' = [c \in Slot |-> IF c \in do_close THEN 0 ELSE text[c]]
      /\ given' = [c \in Slot |-> 0] /\ CmdsGiven' = 0
      /\ NextCmdGiver' = StartCmdGiver /\ eval' \in {Idle, <<"lpc", -1>>}
  BY DEF Select, Places, Cleared
<1>2. /\ players' = players \ do_close
      /\ players' \subseteq Slot /\ do_close' \subseteq players'
      /\ spent' \in [Slot -> Nat] /\ numCmds' \in [Slot -> Nat \cup {-1}]
      /\ input_handler' \in [Slot -> Seq(Handler)]
      /\ noecho' \in [Slot -> SUBSET (Flags \cup {STALE})]
      /\ \A c \in Slot : c \in do_close => /\ input_handler'[c] = << >> /\ noecho'[c] = {}
                                           /\ numCmds'[c] = 0 /\ spent'[c] = 0
      /\ \A c \in Slot : c \notin do_close => /\ input_handler'[c] = input_handler[c]
                                              /\ noecho'[c] = noecho[c]
                                              /\ numCmds'[c] = numCmds[c] /\ spent'[c] = spent[c]
      /\ Lists' /\ Seconds'
  BY <1>1, EmptiedKeeps
<1>3. NextCmdGiver' \in Slot
  BY <1>1, StartsAtSlot
<1>4. Places'
  BY <1>1, <1>2, <1>3, LimitsAssumption DEF Places
<1>5. Arrays'
  BY <1>1, <1>2 DEF Arrays
<1>6. Vacant'
  BY <1>1, <1>2 DEF Vacant
<1>7. Turns'
  <2>1. \A c \in readfds' : text'[c] = 0
    BY <1>1, <1>2
  <2>2. QED
    BY <1>1, <2>1, LimitsAssumption DEF Turns
<1>8. EchoFollows => EchoFollows'
  BY <1>1, <1>2 DEF EchoFollows, EchoOff, Idle
<1>9. QED
  BY <1>2, <1>4, <1>5, <1>6, <1>7, <1>8 DEF Kept

LEMMA NewPlayerKept == ASSUME IInv, NEW c \in Slot, NewPlayer(c) PROVE Kept
<1> USE DEF IInv
<1>1. /\ players' = players \cup {c} /\ c \notin players
      /\ numCmds' = [numCmds EXCEPT ![c] = 0]
      /\ eval = <<"lpc", -1>> /\ eval' = <<"lpc", c>>
      /\ UNCHANGED <<do_close, text, scan, handlers, given, spent>>
  BY DEF NewPlayer
<1>2. Places' /\ Arrays' /\ Vacant' /\ Lists' /\ Turns'
  BY <1>1 DEF Places, Arrays, Vacant, Lists, Turns, scan, handlers
<1>3. Seconds'
  <2> SUFFICES ASSUME NEW d \in Slot, MaxNumCmds[d] >= 0
               PROVE  numCmds'[d] <= MaxNumCmds[d] /\ spent'[d] <= numCmds'[d] + 1
    BY DEF Seconds
  <2>1. CASE d = c
    BY <1>1, <2>1 DEF Arrays, Vacant
  <2>2. CASE d # c
    BY <1>1, <2>2 DEF Arrays, Seconds
  <2>3. QED
    BY <2>1, <2>2
<1>4. EchoFollows => EchoFollows'
  BY <1>1 DEF EchoFollows, handlers
<1>5. QED
  BY <1>2, <1>3, <1>4 DEF Kept

LEMMA LeaveKept == ASSUME IInv, NEW c \in Slot, Leave(c) PROVE Kept
<1> USE DEF IInv
<1>1. /\ Emptied({c}) /\ eval = Idle /\ UNCHANGED <<scan, eval>>
      /\ text' = [d \in Slot |-> IF d \in {c} THEN 0 ELSE text[d]]
      /\ given' = [d \in Slot |-> IF d \in {c} THEN 0 ELSE given[d]]
  BY DEF Leave, Cleared
<1>2. /\ players' = players \ {c}
      /\ players' \subseteq Slot /\ do_close' \subseteq players'
      /\ spent' \in [Slot -> Nat] /\ numCmds' \in [Slot -> Nat \cup {-1}]
      /\ input_handler' \in [Slot -> Seq(Handler)]
      /\ noecho' \in [Slot -> SUBSET (Flags \cup {STALE})]
      /\ \A d \in Slot : d \in {c} => /\ input_handler'[d] = << >> /\ noecho'[d] = {}
                                      /\ numCmds'[d] = 0 /\ spent'[d] = 0
      /\ \A d \in Slot : d \notin {c} => /\ input_handler'[d] = input_handler[d]
                                         /\ noecho'[d] = noecho[d]
                                         /\ numCmds'[d] = numCmds[d] /\ spent'[d] = spent[d]
      /\ Lists' /\ Seconds'
  BY <1>1, EmptiedKeeps
<1>3. Places'
  BY <1>1, <1>2 DEF Places, scan
<1>4. Arrays'
  BY <1>1, <1>2 DEF Arrays
<1>5. Vacant'
  BY <1>1, <1>2 DEF Vacant
<1>6. Turns'
  <2>1. CmdsGiven \in Nat /\ ALLOWED_ED_CMDS \in Nat
    BY LimitsAssumption DEF Places
  <2>2. \A d \in Slot : d # c => text'[d] = text[d] /\ given'[d] = given[d]
    BY <1>1
  <2>3. text'[c] = 0 /\ given'[c] = 0
    BY <1>1
  <2>4. UNCHANGED <<readfds, NextCmdGiver, CmdsGiven>> /\ readfds \subseteq Slot
    BY <1>1 DEF scan, Places
  <2>5. \A d \in readfds' : d <= NextCmdGiver' => text'[d] = 0
    BY <2>2, <2>3, <2>4 DEF Turns
  <2>6. QED
    BY <2>1, <2>2, <2>3, <2>4, <2>5 DEF Turns
<1>7. EchoFollows => EchoFollows'
  BY <1>1, <1>2 DEF EchoFollows, EchoOff
<1>8. QED
  BY <1>2, <1>3, <1>4, <1>5, <1>6, <1>7 DEF Kept

(* The scan goes on to the next connection.                                *)
LEMMA DownwardsKeeps ==
    ASSUME IInv, Scanning, DecreaseCmdGiver, UNCHANGED <<text, readfds, CmdsGiven>>,
           given' \in [Slot -> Nat], \A c \in Slot : given'[c] \in {given[c], 0}
    PROVE  Turns' /\ NextCmdGiver' \in Slot \cup {-1}
<1>1. /\ NextCmdGiver \in Slot /\ NextCmdGiver \in Nat /\ NextCmdGiver' = NextCmdGiver - 1
      /\ NextCmdGiver' \in Slot \cup {-1}
  BY LimitsAssumption, SlotFacts DEF IInv, Places, Scanning, DecreaseCmdGiver, Slot
<1>2. readfds \subseteq Slot /\ readfds' = readfds /\ text' = text /\ CmdsGiven' = CmdsGiven
      /\ CmdsGiven \in Nat /\ ALLOWED_ED_CMDS \in Nat /\ Slot \subseteq Nat
  BY LimitsAssumption, SlotFacts DEF IInv, Places
<1>3. \A c \in readfds' : c <= NextCmdGiver' => text'[c] = 0
  <2> SUFFICES ASSUME NEW c \in readfds, c <= NextCmdGiver - 1 PROVE text[c] = 0
    BY <1>1, <1>2
  <2>1. c \in Nat /\ c <= NextCmdGiver
    BY <1>1, <1>2
  <2>2. QED
    BY <2>1 DEF IInv, Turns
<1>4. ASSUME NEW c \in Slot
      PROVE  /\ c < NextCmdGiver' => given'[c] = 0
             /\ c = NextCmdGiver' => /\ given'[c] <= CmdsGiven'
                                     /\ given'[c] > 0 => <<"INPUT_ED", {}>> \in Asks[c]
             /\ given'[c] <= IF <<"INPUT_ED", {}>> \in Asks[c] THEN ALLOWED_ED_CMDS + 1 ELSE 1
  <2>1. /\ c < NextCmdGiver => given[c] = 0
        /\ given[c] <= IF <<"INPUT_ED", {}>> \in Asks[c] THEN ALLOWED_ED_CMDS + 1 ELSE 1
    BY DEF IInv, Turns
  <2>2. given'[c] = given[c] \/ given'[c] = 0
    OBVIOUS
  <2>3. QED
    BY <1>1, <1>2, <2>1, <2>2
<1>5. Turns'
  BY <1>3, <1>4 DEF Turns
<1>6. QED
  BY <1>1, <1>5

LEMMA PassOverKept ==
    ASSUME IInv, PassOver \/ ReadPart
    PROVE  Kept
<1>1. /\ Scanning /\ DecreaseCmdGiver
      /\ UNCHANGED <<conns, text, readfds, CmdsGiven, handlers, counts, eval>>
  BY DEF PassOver, ReadPart, Readable
<1>2. given' \in [Slot -> Nat] /\ given' = given
  BY <1>1 DEF IInv, Arrays, counts
<1>3. Turns' /\ NextCmdGiver' \in Slot \cup {-1}
  BY <1>1, <1>2, DownwardsKeeps
<1>4. Places' /\ Arrays' /\ Vacant' /\ Lists' /\ Seconds'
  BY <1>1, <1>3 DEF IInv, Places, Arrays, Vacant, Lists, Seconds, conns, handlers, counts
<1>5. EchoFollows => EchoFollows'
  BY <1>1 DEF EchoFollows, handlers
<1>6. QED
  BY <1>3, <1>4, <1>5 DEF Kept, IInv

LEMMA ReadEndKept == ASSUME IInv, ReadEnd PROVE Kept
<1> USE DEF IInv
<1>1. /\ Emptied({Here}) /\ Scanning /\ DecreaseCmdGiver /\ eval = Idle
      /\ UNCHANGED <<text, readfds, CmdsGiven, eval>>
      /\ given' = [d \in Slot |-> IF d \in {Here} THEN 0 ELSE given[d]]
      /\ Here \in players \cap readfds
  BY DEF ReadEnd, Readable, Scanning, Cleared
<1>2. PICK h \in Slot : h = Here /\ h = NextCmdGiver /\ h \in readfds
  BY <1>1 DEF Places, Here
<1>3. /\ players' = players \ {h}
      /\ players' \subseteq Slot /\ do_close' \subseteq players'
      /\ spent' \in [Slot -> Nat] /\ numCmds' \in [Slot -> Nat \cup {-1}]
      /\ input_handler' \in [Slot -> Seq(Handler)]
      /\ noecho' \in [Slot -> SUBSET (Flags \cup {STALE})]
      /\ \A d \in Slot : d \in {h} => /\ input_handler'[d] = << >> /\ noecho'[d] = {}
                                      /\ numCmds'[d] = 0 /\ spent'[d] = 0
      /\ \A d \in Slot : d \notin {h} => /\ input_handler'[d] = input_handler[d]
                                         /\ noecho'[d] = noecho[d]
                                         /\ numCmds'[d] = numCmds[d] /\ spent'[d] = spent[d]
      /\ Lists' /\ Seconds'
  BY <1>1, <1>2, EmptiedKeeps
<1>4. given' \in [Slot -> Nat] /\ \A c \in Slot : given'[c] \in {given[c], 0}
  BY <1>1 DEF Arrays
<1>5. Turns' /\ NextCmdGiver' \in Slot \cup {-1}
  BY <1>1, <1>4, DownwardsKeeps
<1>6. text[h] = 0
  BY <1>2, SlotFacts DEF Turns
<1>7. Places'
  BY <1>1, <1>3, <1>5 DEF Places
<1>8. Arrays'
  BY <1>1, <1>3, <1>4 DEF Arrays
<1>9. Vacant'
  BY <1>1, <1>3, <1>6 DEF Vacant
<1>10. EchoFollows => EchoFollows'
  BY <1>1, <1>3 DEF EchoFollows, EchoOff
<1>11. QED
  BY <1>3, <1>5, <1>7, <1>8, <1>9, <1>10 DEF Kept

(* ----- Lines ------------------------------------------------------------ *)
(* The rest of an action that takes a line is a matter of the handlers of  *)
(* the connection, the input mode and the evaluation that begins.          *)
LEMMA LineKept ==
    ASSUME IInv, NEW lines, TakeLine(lines),
           NEW list, GoodList(Here, list), input_handler' = [input_handler EXCEPT ![Here] = list],
           NEW mode \in SUBSET (Flags \cup {STALE}), noecho' = [noecho EXCEPT ![Here] = mode],
           eval' \in {"lpc", "ed", "input_to"} \X {Here},
           \/ EchoOff(mode) => EchoOff(ModeOf(list))
           \/ EchoFollows => (EchoOff(mode) => EchoOff(ModeOf(list)))
           \/ eval' = <<"input_to", Here>> /\ (EchoOff(mode) => STALE \in mode)
    PROVE  Kept
<1>1. /\ Here \in players /\ Here \in Slot /\ eval = Idle /\ UNCHANGED conns
      /\ readfds' \subseteq Slot
      /\ NextCmdGiver' \in Slot \cup {-1} /\ CmdsGiven' \in 0 .. ALLOWED_ED_CMDS
      /\ text' \in [Slot -> Nat] /\ given' \in [Slot -> Nat] /\ spent' \in [Slot -> Nat]
      /\ numCmds' \in [Slot -> Nat \cup {-1}]
      /\ \A c \in Slot \ {Here} : text'[c] = text[c] /\ spent'[c] = spent[c]
      /\ Turns' /\ Seconds'
  BY TakeLineKeeps
<1>2. list \in Seq(Handler)
  BY DEF GoodList
<1>3. PICK h : h = Here
  OBVIOUS
<1>4. /\ input_handler'[h] = list /\ noecho'[h] = mode
      /\ \A c \in Slot : c # h => input_handler'[c] = input_handler[c] /\ noecho'[c] = noecho[c]
  BY <1>1, <1>3 DEF IInv, Arrays
<1>5. Places'
  BY <1>1 DEF IInv, Places, conns
<1>6. Arrays'
  BY <1>1, <1>2 DEF IInv, Arrays
<1>7. Vacant'
  BY <1>1, <1>3, <1>4 DEF IInv, Vacant, conns
<1>8. Lists'
  BY <1>3, <1>4 DEF IInv, Lists
<1>9. EchoFollows => EchoFollows'
  <2> SUFFICES ASSUME EchoFollows, NEW c \in Slot, EchoOff(noecho'[c])
               PROVE  \/ EchoOff(ModeOf(input_handler'[c]))
                      \/ eval' = <<"input_to", c>> /\ STALE \in noecho'[c]
    BY DEF EchoFollows
  <2>1. CASE c = h
    BY <1>3, <1>4, <2>1
  <2>2. CASE c # h
    BY <1>1, <1>4, <2>2 DEF EchoFollows, Idle
  <2>3. QED
    BY <2>1, <2>2
<1>10. QED
  BY <1>1, <1>5, <1>6, <1>7, <1>8, <1>9 DEF Kept, IInv

(* The list and the mode of the connection at hand, as they are.           *)
LEMMA HereFacts ==
    ASSUME IInv, NEW lines, TakeLine(lines)
    PROVE  /\ Here \in Slot /\ GoodList(Here, Handlers(Here))
           /\ noecho[Here] \in SUBSET (Flags \cup {STALE})
           /\ EchoFollows => (EchoOff(noecho[Here]) => EchoOff(ModeOf(Handlers(Here))))
           /\ input_handler = [input_handler EXCEPT ![Here] = Handlers(Here)]
           /\ noecho = [noecho EXCEPT ![Here] = noecho[Here]]
<1>1. Here \in Slot /\ eval = Idle
  BY TakeLineKeeps
<1>2. GoodList(Here, Handlers(Here)) /\ noecho[Here] \in SUBSET (Flags \cup {STALE})
  BY <1>1 DEF IInv, Lists, Arrays, Handlers
<1>3. EchoFollows => (EchoOff(noecho[Here]) => EchoOff(ModeOf(Handlers(Here))))
  BY <1>1 DEF EchoFollows, Handlers, Idle
<1>4. input_handler = [input_handler EXCEPT ![Here] = Handlers(Here)]
  BY <1>1 DEF IInv, Arrays, Handlers
<1>5. noecho = [noecho EXCEPT ![Here] = noecho[Here]]
  BY <1>1 DEF IInv, Arrays
<1>6. QED
  BY <1>1, <1>2, <1>3, <1>4, <1>5

LEMMA CommandKept ==
    ASSUME IInv, NEW lines, NEW bang, Command(lines, bang) \/ EdCommand(lines, bang)
    PROVE  Kept
<1>1. TakeLine(lines) /\ UNCHANGED handlers /\ eval' \in {"lpc", "ed", "input_to"} \X {Here}
  BY DEF Command, EdCommand
<1>2. PICK list : list = Handlers(Here)
  OBVIOUS
<1>3. PICK mode : mode = noecho[Here]
  OBVIOUS
<1>4. /\ GoodList(Here, list) /\ mode \in SUBSET (Flags \cup {STALE})
      /\ EchoFollows => (EchoOff(mode) => EchoOff(ModeOf(list)))
      /\ input_handler' = [input_handler EXCEPT ![Here] = list]
      /\ noecho' = [noecho EXCEPT ![Here] = mode]
  BY <1>1, <1>2, <1>3, HereFacts DEF handlers
<1>5. QED
  BY <1>1, <1>4, LineKept

(* The handler for a line is one of the list.                              *)
LEMMA HandlerForFacts ==
    ASSUME NEW c \in Slot, GoodList(c, Handlers(c)), NEW bang, HandlerFor(c, bang) # 0
    PROVE  HandlerFor(c, bang) \in 1 .. Len(Handlers(c))
<1> DEFINE fit == {i \in DOMAIN Handlers(c) :
                      bang => "IGNORE_BANG" \in Handlers(c)[i].noecho}
<1>1. DOMAIN Handlers(c) = 1 .. Len(Handlers(c)) /\ Len(Handlers(c)) \in Nat
  BY ListFacts DEF GoodList
<1>2. fit \in SUBSET Nat /\ fit \subseteq 1 .. Len(Handlers(c))
  BY <1>1
<1>3. HandlerFor(c, bang) = IF fit = {} THEN 0 ELSE Min(fit)
  BY DEF HandlerFor
<1> HIDE DEF fit
<1>4. QED
  BY <1>2, <1>3, MinFacts

LEMMA CallInputToKept ==
    ASSUME IInv, NEW lines, NEW bang, CallInputTo(lines, bang)
    PROVE  Kept
<1>1. PICK i : i = HandlerFor(Here, bang)
  OBVIOUS
<1>2. /\ TakeLine(lines) /\ i # 0
      /\ input_handler' = [input_handler EXCEPT ![Here] = RemoveAt(@, i)]
      /\ noecho' = MarkedStale(Here) /\ eval' = <<"input_to", Here>>
  BY <1>1 DEF CallInputTo
<1>3. /\ Here \in Slot /\ GoodList(Here, Handlers(Here))
      /\ noecho[Here] \in SUBSET (Flags \cup {STALE})
      /\ noecho = [noecho EXCEPT ![Here] = noecho[Here]]
  BY <1>2, HereFacts
<1>4. i \in 1 .. Len(Handlers(Here))
  BY <1>1, <1>2, <1>3, HandlerForFacts
<1>5. PICK list : list = RemoveAt(Handlers(Here), i)
  OBVIOUS
<1>6. GoodList(Here, list)
  BY <1>3, <1>4, <1>5, RemoveKeeps
<1>7. input_handler' = [input_handler EXCEPT ![Here] = list]
  BY <1>2, <1>5 DEF Handlers
<1>8. PICK mode : mode = IF noecho[Here] = {} THEN {} ELSE noecho[Here] \cup {STALE}
  OBVIOUS
<1>9. mode \in SUBSET (Flags \cup {STALE}) /\ (EchoOff(mode) => STALE \in mode)
  BY <1>3, <1>8 DEF EchoOff
<1>10. noecho' = [noecho EXCEPT ![Here] = mode]
  BY <1>2, <1>3, <1>8 DEF MarkedStale
<1>11. eval' \in {"lpc", "ed", "input_to"} \X {Here}
  BY <1>2
<1>12. QED
  BY <1>2, <1>6, <1>7, <1>9, <1>10, <1>11, LineKept

LEMMA ModeFacts ==
    ASSUME NEW c \in Slot, NEW list, GoodList(c, list)
    PROVE  ModeOf(list) \in SUBSET (Flags \cup {STALE})
<1>1. CASE list = << >>
  BY <1>1 DEF ModeOf
<1>2. CASE list # << >>
  <2>1. list \in Seq(Handler) /\ 1 \in 1 .. Len(list)
    BY <1>2, ListFacts, EmptySeq DEF GoodList
  <2>2. list[1] \in Handler
    BY <2>1, ListFacts
  <2>3. QED
    BY <1>2, <2>2 DEF ModeOf, Handler
<1>3. QED
  BY <1>1, <1>2

LEMMA LostInputToKept ==
    ASSUME IInv, NEW lines, NEW bang, LostInputTo(lines, bang)
    PROVE  Kept
<1>1. PICK i : i = HandlerFor(Here, bang)
  OBVIOUS
<1>2. PICK list : list = RemoveAt(Handlers(Here), i)
  OBVIOUS
<1>3. /\ TakeLine(lines) /\ i # 0
      /\ input_handler' = [input_handler EXCEPT ![Here] = list]
      /\ noecho' = IF MarkedStale(Here)[Here] = {} THEN noecho ELSE set_noecho(Here, ModeOf(list))
      /\ eval' = <<"lpc", Here>>
  BY <1>1, <1>2 DEF LostInputTo
<1>4. /\ Here \in Slot /\ GoodList(Here, Handlers(Here))
      /\ noecho[Here] \in SUBSET (Flags \cup {STALE})
      /\ noecho = [noecho EXCEPT ![Here] = noecho[Here]]
  BY <1>3, HereFacts
<1>5. i \in 1 .. Len(Handlers(Here))
  BY <1>1, <1>3, <1>4, HandlerForFacts
<1>6. GoodList(Here, list)
  BY <1>2, <1>4, <1>5, RemoveKeeps
<1>7. PICK mode : mode = IF noecho[Here] = {} THEN {} ELSE ModeOf(list)
  OBVIOUS
<1>8. mode \in SUBSET (Flags \cup {STALE}) /\ (EchoOff(mode) => EchoOff(ModeOf(list)))
  BY <1>4, <1>6, <1>7, ModeFacts DEF EchoOff
<1>9. noecho' = [noecho EXCEPT ![Here] = mode]
  <2>1. noecho[Here] = {} <=> MarkedStale(Here)[Here] = {}
    BY <1>4 DEF MarkedStale, IInv, Arrays
  <2>2. QED
    BY <1>3, <1>4, <1>7, <2>1 DEF set_noecho
<1>10. eval' \in {"lpc", "ed", "input_to"} \X {Here}
  BY <1>3
<1>11. QED
  BY <1>3, <1>6, <1>8, <1>9, <1>10, LineKept

(* ----- LPC code --------------------------------------------------------- *)
(* Code changes the handlers of a connection and their mode, and nothing   *)
(* else but the evaluation, if it is the editor's.                         *)
LEMMA HandlersKept ==
    ASSUME IInv, NEW c \in Slot, c \in players,
           NEW list, GoodList(c, list), input_handler' = [input_handler EXCEPT ![c] = list],
           NEW mode \in SUBSET (Flags \cup {STALE}), noecho' = [noecho EXCEPT ![c] = mode],
           UNCHANGED <<conns, text, scan, counts>>,
           eval' = eval \/ (eval = <<"ed", c>> /\ eval' = <<"lpc", c>>),
           Habits = {} /\ EchoFollows /\ EchoOff(mode) =>
               EchoOff(ModeOf(list)) \/ (eval' = <<"input_to", c>> /\ STALE \in mode)
    PROVE  Kept
<1>1. list \in Seq(Handler)
  BY DEF GoodList
<1>2. /\ input_handler'[c] = list /\ noecho'[c] = mode
      /\ \A d \in Slot : d # c => input_handler'[d] = input_handler[d] /\ noecho'[d] = noecho[d]
  BY DEF IInv, Arrays
<1>3. Places'
  BY DEF IInv, Places, conns, scan
<1>4. Arrays'
  BY <1>1 DEF IInv, Arrays, counts
<1>5. Vacant'
  BY <1>2 DEF IInv, Vacant, conns, counts
<1>6. Lists'
  BY <1>2 DEF IInv, Lists
<1>7. Turns' /\ Seconds'
  BY DEF IInv, Turns, Seconds, scan, counts
<1>8. Habits = {} /\ EchoFollows => EchoFollows'
  <2> SUFFICES ASSUME Habits = {}, EchoFollows, NEW d \in Slot, EchoOff(noecho'[d])
               PROVE  \/ EchoOff(ModeOf(input_handler'[d]))
                      \/ eval' = <<"input_to", d>> /\ STALE \in noecho'[d]
    BY DEF EchoFollows
  <2>1. CASE d = c
    BY <1>2, <2>1
  <2>2. CASE d # c
    <3>1. /\ EchoOff(noecho[d]) /\ input_handler'[d] = input_handler[d]
          /\ noecho'[d] = noecho[d]
      BY <1>2, <2>2
    <3>2. CASE EchoOff(ModeOf(input_handler[d]))
      BY <3>1, <3>2
    <3>3. CASE eval = <<"input_to", d>> /\ STALE \in noecho[d]
      BY <3>1, <3>3
    <3>4. QED
      BY <3>1, <3>2, <3>3 DEF EchoFollows
  <2>3. QED
    BY <2>1, <2>2
<1>9. QED
  BY <1>3, <1>4, <1>5, <1>6, <1>7, <1>8 DEF Kept, IInv

(* The list and the mode of a connection.                                  *)
LEMMA ConnectionFacts ==
    ASSUME IInv, NEW c \in Slot
    PROVE  /\ GoodList(c, Handlers(c)) /\ noecho[c] \in SUBSET (Flags \cup {STALE})
           /\ Handlers(c) \in Seq(Handler)
           /\ Len(Handlers(c)) \in Nat /\ DOMAIN Handlers(c) = 1 .. Len(Handlers(c))
           /\ \A i \in 1 .. Len(Handlers(c)) : Handlers(c)[i] \in Handler
           /\ Handlers(c) = << >> <=> Len(Handlers(c)) = 0
           /\ noecho = [noecho EXCEPT ![c] = noecho[c]]
<1>1. GoodList(c, Handlers(c)) /\ noecho[c] \in SUBSET (Flags \cup {STALE})
  BY DEF IInv, Lists, Arrays, Handlers
<1>2. Handlers(c) \in Seq(Handler)
  BY <1>1 DEF GoodList
<1>3. /\ Len(Handlers(c)) \in Nat /\ DOMAIN Handlers(c) = 1 .. Len(Handlers(c))
      /\ \A i \in 1 .. Len(Handlers(c)) : Handlers(c)[i] \in Handler
  BY <1>2, ListFacts
<1>4. Handlers(c) = << >> <=> Len(Handlers(c)) = 0
  BY <1>2, EmptySeq
<1>5. noecho = [noecho EXCEPT ![c] = noecho[c]]
  BY DEF IInv, Arrays
<1>6. QED
  BY <1>1, <1>2, <1>3, <1>4, <1>5

(* An input_to() in force is the first of its kind.                        *)
LEMMA SetAlreadyFacts ==
    ASSUME IInv, NEW c \in Slot, ~SetAlready(c)
    PROVE  \A j \in 1 .. Len(Handlers(c)) : ~Handlers(c)[j].now
<1> SUFFICES ASSUME NEW j \in 1 .. Len(Handlers(c)), Handlers(c)[j].now
             PROVE  FALSE
  OBVIOUS
<1>1. ~IsEd(Handlers(c)[j]) /\ \A k \in 1 .. j - 1 : IsEd(Handlers(c)[k])
  BY ConnectionFacts DEF GoodList, NowFirst
<1>2. j \in FirstInputTo(c)
  BY <1>1, ConnectionFacts DEF FirstInputTo, IsInputTo
<1>3. QED
  BY <1>2 DEF SetAlready

LEMMA InputToKept ==
    ASSUME IInv, NEW c \in Slot, NEW flags \in SUBSET Flags, NEW append \in BOOLEAN,
           InputTo(c, flags, append)
    PROVE  Kept
<1>1. PICK h : h = [type |-> "INPUT_TO", noecho |-> flags, now |-> ~append]
  OBVIOUS
<1>2. /\ h \in Handler /\ h.noecho = flags /\ h.now = ~append /\ h.type = "INPUT_TO"
      /\ ~IsEd(h)
  BY <1>1 DEF Handler, Types, IsEd
<1>3. PICK list : list = IF append THEN Append(Handlers(c), h) ELSE <<h>> \o Handlers(c)
  OBVIOUS
<1>4. PICK mode : mode = flags
  OBVIOUS
<1>5. /\ c \in players /\ <<"INPUT_TO", flags>> \in Asks[c]
      /\ Len(Handlers(c)) < MaxHandlers[c]
      /\ append \/ ~SetAlready(c)
      /\ append => \/ Handlers(c) = << >> \/ "append" \in Habits
                   \/ EchoOff(flags) = EchoOff(ModeOf(Handlers(c)))
      /\ AddHandler(c, h, append)
      /\ UNCHANGED <<conns, text, scan, counts, eval>>
  BY <1>1 DEF InputTo, Evaluating
<1>6. input_handler' = [input_handler EXCEPT ![c] = list]
  BY <1>3, <1>5 DEF AddHandler, Handlers
<1>7. noecho' = [noecho EXCEPT ![c] = mode]
  BY <1>2, <1>4, <1>5, ConnectionFacts DEF AddHandler, set_noecho
<1>8. GoodList(c, list) /\ (Habits = {} => (EchoOff(mode) => EchoOff(ModeOf(list))))
  <2>1. CASE append
    <3>1. /\ GoodList(c, list) /\ list # << >>
          /\ list[1] = IF Handlers(c) = << >> THEN h ELSE Handlers(c)[1]
      <4>1. list = Append(Handlers(c), h) /\ ~h.now
        BY <1>2, <1>3, <2>1
      <4>2. GoodList(c, Handlers(c)) /\ <<h.type, h.noecho>> \in Asks[c]
        BY <1>2, <1>5, ConnectionFacts
      <4>3. QED
        BY <1>2, <1>5, <4>1, <4>2, AppendKeeps
    <3>2. QED
      BY <1>2, <1>4, <1>5, <2>1, <3>1 DEF ModeOf
  <2>2. CASE ~append
    <3>1. GoodList(c, list) /\ list # << >> /\ list[1] = h
      BY <1>2, <1>3, <1>5, <2>2, PushKeeps, SetAlreadyFacts, ConnectionFacts
    <3>2. QED
      BY <1>2, <1>4, <3>1 DEF ModeOf
  <2>3. QED
    BY <2>1, <2>2
<1>9. mode \in SUBSET (Flags \cup {STALE})
  BY <1>4
<1>10. QED
  BY <1>5, <1>6, <1>7, <1>8, <1>9, HandlersKept

LEMMA RemoveInputToKept ==
    ASSUME IInv, NEW c \in Slot, NEW i, remove_input_to(c, i)
    PROVE  Kept
<1>1. PICK list : list = RemoveAt(Handlers(c), i)
  OBVIOUS
<1>2. PICK mode : mode = IF i > 1 THEN noecho[c] ELSE IF list # << >> THEN ModeOf(list)
                         ELSE IF noecho[c] = {} THEN {} ELSE noecho[c] \cup {STALE}
  OBVIOUS
<1>3. /\ c \in players /\ i \in 1 .. Len(Handlers(c)) /\ Len(Handlers(c)) \in Nat
      /\ Len(Handlers(c)) > 1 \/ ~EchoOff(noecho[c]) \/ eval = <<"input_to", c>>
            \/ "remove last" \in Habits
      /\ UNCHANGED <<conns, text, scan, counts, eval>>
      /\ input_handler' = [input_handler EXCEPT ![c] = list]
  BY <1>1, ConnectionFacts DEF remove_input_to, Evaluating, Handlers
<1>4. GoodList(c, list) /\ Len(list) = Len(Handlers(c)) - 1
  BY <1>1, <1>3, ConnectionFacts, RemoveKeeps
<1>5. noecho' = [noecho EXCEPT ![c] = mode]
  BY <1>1, <1>2, ConnectionFacts DEF remove_input_to, ModeWithout, set_noecho, MarkedStale
<1>6. mode \in SUBSET (Flags \cup {STALE})
  BY <1>2, <1>4, ModeFacts, ConnectionFacts
<1>7. list = << >> <=> Len(list) = 0
  BY <1>4, EmptySeq DEF GoodList
<1>8. Habits = {} /\ EchoFollows /\ EchoOff(mode) =>
          EchoOff(ModeOf(list)) \/ (eval' = <<"input_to", c>> /\ STALE \in mode)
  <2> SUFFICES ASSUME Habits = {}, EchoFollows, EchoOff(mode)
               PROVE  EchoOff(ModeOf(list)) \/ (eval' = <<"input_to", c>> /\ STALE \in mode)
    OBVIOUS
  <2>1. CASE i > 1
    <3>1. Len(Handlers(c)) > 1 /\ list # << >> /\ Handlers(c) # << >>
      BY <1>3, <1>4, <1>7, <2>1, ConnectionFacts
    <3>2. list[1] = Handlers(c)[1]
      <4>1. Handlers(c) \in Seq(Handler)
        BY ConnectionFacts
      <4>2. \A j \in 1 .. Len(Handlers(c)) - 1 :
               list[j] = IF j < i THEN Handlers(c)[j] ELSE Handlers(c)[j + 1]
        BY <1>1, <1>3, <4>1, RemoveAtFacts
      <4>3. QED
        BY <1>3, <2>1, <3>1, <4>2
    <3>3. ModeOf(list) = ModeOf(Handlers(c)) /\ mode = noecho[c]
      BY <1>2, <2>1, <3>1, <3>2 DEF ModeOf
    <3>4. QED
      BY <1>3, <3>3 DEF EchoFollows, Handlers
  <2>2. CASE ~(i > 1) /\ list # << >>
    BY <1>2, <2>2
  <2>3. CASE ~(i > 1) /\ list = << >>
    <3>1. mode = IF noecho[c] = {} THEN {} ELSE noecho[c] \cup {STALE}
      BY <1>2, <2>3
    <3>2. EchoOff(noecho[c]) /\ STALE \in mode
      BY <3>1 DEF EchoOff, STALE
    <3>3. Len(Handlers(c)) = 1
      <4>1. Len(list) = 0
        BY <1>7, <2>3
      <4>2. PICK n \in Nat : n = Len(Handlers(c))
        BY <1>3
      <4>3. 0 = n - 1
        BY <1>4, <4>1, <4>2
      <4>4. QED
        BY <4>2, <4>3
    <3>4. QED
      BY <1>3, <3>2, <3>3
  <2>4. QED
    BY <2>1, <2>2, <2>3
<1>9. QED
  BY <1>3, <1>4, <1>5, <1>6, <1>8, HandlersKept

LEMMA EdStartKept == ASSUME IInv, NEW c \in Slot, ed_start(c) PROVE Kept
<1>1. PICK h : h = [type |-> "INPUT_ED", noecho |-> {}, now |-> FALSE]
  OBVIOUS
<1>2. /\ h \in Handler /\ h.noecho = {} /\ h.now = FALSE /\ h.type = "INPUT_ED" /\ IsEd(h)
  BY <1>1 DEF Handler, Types, IsEd
<1>3. PICK list : list = <<h>> \o Handlers(c)
  OBVIOUS
<1>4. PICK mode : mode = {}
  OBVIOUS
<1>5. /\ c \in players /\ <<"INPUT_ED", {}>> \in Asks[c]
      /\ Len(Handlers(c)) < MaxHandlers[c]
      /\ AddHandler(c, h, FALSE)
      /\ UNCHANGED <<conns, text, scan, counts, eval>>
  BY <1>1 DEF ed_start, Evaluating
<1>6. input_handler' = [input_handler EXCEPT ![c] = list]
  BY <1>3, <1>5 DEF AddHandler, Handlers
<1>7. noecho' = [noecho EXCEPT ![c] = mode]
  BY <1>2, <1>4, <1>5, ConnectionFacts DEF AddHandler, set_noecho
<1>8. GoodList(c, list)
  BY <1>2, <1>3, <1>5, PushKeeps, ConnectionFacts
<1>9. mode \in SUBSET (Flags \cup {STALE}) /\ ~EchoOff(mode)
  BY <1>4 DEF EchoOff
<1>10. QED
  BY <1>5, <1>6, <1>7, <1>8, <1>9, HandlersKept

(* The editor, which never asks for NOECHO, leaves.                        *)
LEMMA EdQuitKept == ASSUME IInv, EdQuit PROVE Kept
<1>1. PICK c \in Slot : eval = <<"ed", c>>
  BY DEF EdQuit, IInv, Places, Idle
<1>2. eval[1] = "ed" /\ eval[2] = c
  BY <1>1
<1>3. PICK i \in DOMAIN Handlers(c) :
          /\ IsEd(Handlers(c)[i])
          /\ input_handler' = [input_handler EXCEPT ![c] = RemoveAt(@, i)]
  BY <1>2 DEF EdQuit
<1>4. PICK list : list = RemoveAt(Handlers(c), i)
  OBVIOUS
<1>5. PICK mode : mode = noecho[c]
  OBVIOUS
<1>6. /\ i \in 1 .. Len(Handlers(c)) /\ Len(Handlers(c)) \in Nat
      /\ mode \in SUBSET (Flags \cup {STALE}) /\ Handlers(c) # << >>
  BY <1>3, <1>5, ConnectionFacts
<1>7. c \in players
  BY <1>6 DEF IInv, Vacant, Handlers
<1>8. /\ input_handler' = [input_handler EXCEPT ![c] = list]
      /\ noecho' = [noecho EXCEPT ![c] = mode]
      /\ UNCHANGED <<conns, text, scan, counts>> /\ eval' = <<"lpc", c>>
  BY <1>2, <1>3, <1>4, <1>5, ConnectionFacts DEF EdQuit, Handlers
<1>9. GoodList(c, list) /\ Len(list) = Len(Handlers(c)) - 1
  BY <1>4, <1>6, ConnectionFacts, RemoveKeeps
<1>10. ASSUME EchoFollows, EchoOff(mode)
       PROVE  EchoOff(ModeOf(list))
  <2>1. EchoOff(Handlers(c)[1].noecho)
    BY <1>1, <1>5, <1>6, <1>10 DEF EchoFollows, Handlers, ModeOf
  <2>2. i # 1
    BY <1>3, <1>6, <2>1, ConnectionFacts DEF GoodList, EchoOff
  <2>3. list[1] = Handlers(c)[1] /\ Len(list) # 0
    BY <1>4, <1>6, <1>9, <2>2, ConnectionFacts, RemoveAtFacts
  <2>4. list # << >>
    BY <1>9, <2>3, EmptySeq DEF GoodList
  <2>5. QED
    BY <2>1, <2>3, <2>4 DEF ModeOf
<1>11. QED
  BY <1>1, <1>6, <1>7, <1>8, <1>9, <1>10, HandlersKept

LEMMA MarkToCloseKept == ASSUME IInv, NEW c \in Slot, MarkToClose(c) PROVE Kept
<1>1. /\ c \in players /\ do_close' = do_close \cup {c}
      /\ UNCHANGED <<players, text, scan, handlers, counts, eval>>
  BY DEF MarkToClose, Evaluating
<1>2. Places' /\ Arrays' /\ Vacant' /\ Lists' /\ Turns' /\ Seconds'
  BY <1>1 DEF IInv, Places, Arrays, Vacant, Lists, Turns, Seconds, scan, handlers, counts
<1>3. EchoFollows => EchoFollows'
  BY <1>1 DEF EchoFollows, handlers
<1>4. QED
  BY <1>2, <1>3 DEF Kept, IInv

LEMMA TickKept == ASSUME IInv, Tick PROVE Kept
<1>1. /\ numCmds' = [c \in Slot |-> IF MaxNumCmds[c] < 0 THEN 0 ELSE -1]
      /\ spent' = [c \in Slot |-> 0]
      /\ UNCHANGED <<conns, text, scan, handlers, given, eval>>
  BY DEF Tick
<1>2. Places' /\ Arrays' /\ Vacant' /\ Lists' /\ Turns'
  BY <1>1 DEF IInv, Places, Arrays, Vacant, Lists, Turns, conns, scan, handlers
<1>3. Seconds'
  <2>1. \A c \in Slot : MaxNumCmds[c] \in Nat \cup {-1}
    BY LimitsAssumption
  <2>2. QED
    BY <1>1, <2>1 DEF Seconds
<1>4. EchoFollows => EchoFollows'
  BY <1>1 DEF EchoFollows, handlers
<1>5. QED
  BY <1>2, <1>3, <1>4 DEF Kept, IInv

(* The handlers get older, and nothing else about them changes.            *)
LEMMA PastKept ==
    ASSUME IInv, input_handler' = Past
    PROVE  /\ input_handler' \in [Slot -> Seq(Handler)]
           /\ \A c \in Slot : /\ GoodList(c, input_handler'[c])
                              /\ ModeOf(input_handler'[c]) = ModeOf(input_handler[c])
                              /\ input_handler[c] = << >> => input_handler'[c] = << >>
<1>1. ASSUME NEW c \in Slot
      PROVE  /\ GoodList(c, input_handler'[c])
             /\ ModeOf(input_handler'[c]) = ModeOf(input_handler[c])
             /\ input_handler[c] = << >> => input_handler'[c] = << >>
  <2>1. GoodList(c, input_handler[c])
    BY DEF IInv, Lists
  <2>2. input_handler'[c] = [i \in DOMAIN input_handler[c] |->
                                [input_handler[c][i] EXCEPT !.now = FALSE]]
    BY DEF Past, Handlers
  <2>3. QED
    BY <2>1, <2>2, PastKeeps
<1>2. \A c \in Slot : input_handler'[c] \in Seq(Handler)
  BY <1>1 DEF GoodList
<1>3. DOMAIN input_handler' = Slot /\ input_handler' = [c \in Slot |-> input_handler'[c]]
  BY DEF Past
<1>4. QED
  BY <1>1, <1>2, <1>3

(* The evaluation ends; a mode that nothing asked for again is settled.    *)
LEMMA ReturnKept == ASSUME IInv, Return PROVE Kept
<1>1. /\ eval # Idle /\ eval' = Idle
      /\ noecho' = IF eval[1] = "input_to" THEN Settled(eval[2]) ELSE noecho
      /\ input_handler' = Past
      /\ UNCHANGED <<conns, text, scan, counts>>
  BY DEF Return
<1>2. ASSUME NEW c \in Slot
      PROVE  /\ GoodList(c, input_handler'[c])
             /\ ModeOf(input_handler'[c]) = ModeOf(input_handler[c])
             /\ input_handler[c] = << >> => input_handler'[c] = << >>
  BY <1>1, PastKept
<1>3. input_handler' \in [Slot -> Seq(Handler)]
  BY <1>1, PastKept
<1>4. PICK c : c = eval[2]
  OBVIOUS
<1>5. eval[1] = "input_to" => c \in Slot /\ eval = <<"input_to", c>>
  BY <1>1, <1>4 DEF IInv, Places, Idle
<1>6. \A d \in Slot : eval = <<"input_to", d>> => eval[1] = "input_to" /\ c = d
  BY <1>4
<1>7. ASSUME NEW d \in Slot
      PROVE  noecho'[d] = IF eval = <<"input_to", d>> /\ STALE \in noecho[d]
                          THEN ModeOf(input_handler[d]) ELSE noecho[d]
  <2>1. CASE eval = <<"input_to", d>>
    <3>1. noecho' = Settled(d)
      BY <1>1, <1>4, <1>6, <2>1
    <3>2. QED
      BY <2>1, <3>1 DEF Settled, set_noecho, Handlers, IInv, Arrays
  <2>2. CASE eval # <<"input_to", d>>
    <3>1. CASE eval[1] = "input_to"
      <4>1. c \in Slot /\ c # d /\ noecho' = Settled(c)
        BY <1>1, <1>4, <1>5, <2>2, <3>1
      <4>2. QED
        BY <2>2, <4>1 DEF Settled, set_noecho, IInv, Arrays
    <3>2. CASE eval[1] # "input_to"
      BY <1>1, <2>2, <3>2
    <3>3. QED
      BY <3>1, <3>2
  <2>3. QED
    BY <2>1, <2>2
<1>8. noecho' \in [Slot -> SUBSET (Flags \cup {STALE})]
  <2>1. CASE eval[1] = "input_to"
    <3>1. c \in Slot /\ noecho' = Settled(c)
      BY <1>1, <1>4, <1>5, <2>1
    <3>2. ModeOf(Handlers(c)) \in SUBSET (Flags \cup {STALE})
      BY <3>1, ModeFacts, ConnectionFacts
    <3>3. QED
      BY <3>1, <3>2 DEF Settled, set_noecho, IInv, Arrays
  <2>2. CASE eval[1] # "input_to"
    BY <1>1, <2>2 DEF IInv, Arrays
  <2>3. QED
    BY <2>1, <2>2
<1>9. Places' /\ Turns' /\ Seconds'
  BY <1>1 DEF IInv, Places, Turns, Seconds, conns, scan, counts
<1>10. Arrays'
  BY <1>1, <1>3, <1>8 DEF IInv, Arrays, counts
<1>11. Vacant'
  <2> SUFFICES ASSUME NEW d \in Slot \ players
               PROVE  /\ input_handler'[d] = << >> /\ noecho'[d] = {}
                      /\ text'[d] = 0 /\ spent'[d] = 0
    BY <1>1 DEF Vacant, conns
  <2>1. /\ input_handler[d] = << >> /\ noecho[d] = {} /\ text'[d] = 0 /\ spent'[d] = 0
    BY <1>1 DEF IInv, Vacant, counts
  <2>2. QED
    BY <1>2, <1>7, <2>1
<1>12. Lists'
  BY <1>2 DEF Lists
<1>13. EchoFollows => EchoFollows'
  <2> SUFFICES ASSUME EchoFollows, NEW d \in Slot, EchoOff(noecho'[d])
               PROVE  EchoOff(ModeOf(input_handler'[d]))
    BY DEF EchoFollows
  <2>1. QED
    BY <1>2, <1>7 DEF EchoFollows
<1>14. QED
  BY <1>9, <1>10, <1>11, <1>12, <1>13 DEF Kept, IInv

(* errorf() leaves no stale mode: what stays off is off for a handler.     *)
LEMMA EchoResetKeeps ==
    ASSUME IInv, noecho' = EchoReset(eval[2])
    PROVE  /\ noecho' \in [Slot -> SUBSET (Flags \cup {STALE})]
           /\ \A c \in Slot : /\ noecho'[c] \in {noecho[c], {}}
                              /\ eval = <<"input_to", c>> => STALE \notin noecho'[c]
<1>1. noecho \in [Slot -> SUBSET (Flags \cup {STALE})]
  BY DEF IInv, Arrays
<1>2. PICK e : e = eval[2]
  OBVIOUS
<1>3. CASE e \in Slot /\ STALE \in noecho[e]
  <2>1. noecho' = [noecho EXCEPT ![e] = {}]
    BY <1>2, <1>3 DEF EchoReset, set_noecho
  <2>2. \A c \in Slot : eval = <<"input_to", c>> => c = e
    BY <1>2
  <2>3. QED
    BY <1>1, <1>3, <2>1, <2>2
<1>4. CASE ~(e \in Slot /\ STALE \in noecho[e])
  <2>1. noecho' = noecho
    BY <1>2, <1>4 DEF EchoReset
  <2>2. \A c \in Slot : eval = <<"input_to", c>> => c = e
    BY <1>2
  <2>3. QED
    BY <1>1, <1>4, <2>1, <2>2
<1>5. QED
  BY <1>3, <1>4

LEMMA ErrorKept == ASSUME IInv, Error PROVE Kept
<1>1. /\ eval' = Idle /\ noecho' = EchoReset(eval[2]) /\ input_handler' = Past
      /\ UNCHANGED <<conns, text, scan, counts>>
  BY DEF Error
<1>2. /\ noecho' \in [Slot -> SUBSET (Flags \cup {STALE})]
      /\ \A c \in Slot : /\ noecho'[c] \in {noecho[c], {}}
                         /\ eval = <<"input_to", c>> => STALE \notin noecho'[c]
  BY <1>1, EchoResetKeeps
<1>3. /\ input_handler' \in [Slot -> Seq(Handler)]
      /\ \A c \in Slot : /\ GoodList(c, input_handler'[c])
                         /\ ModeOf(input_handler'[c]) = ModeOf(input_handler[c])
                         /\ input_handler[c] = << >> => input_handler'[c] = << >>
  BY <1>1, PastKept
<1>4. Places' /\ Turns' /\ Seconds'
  BY <1>1 DEF IInv, Places, Turns, Seconds, conns, scan, counts
<1>5. Arrays' /\ Lists'
  BY <1>1, <1>2, <1>3 DEF IInv, Arrays, Lists, counts
<1>6. Vacant'
  BY <1>1, <1>2, <1>3 DEF IInv, Vacant, conns, counts
<1>7. EchoFollows => EchoFollows'
  <2> SUFFICES ASSUME EchoFollows, NEW c \in Slot, EchoOff(noecho'[c])
               PROVE  EchoOff(ModeOf(input_handler'[c]))
    BY DEF EchoFollows
  <2>1. noecho'[c] = noecho[c] /\ EchoOff(noecho[c])
    BY <1>2 DEF EchoOff
  <2>2. QED
    BY <1>2, <1>3, <2>1 DEF EchoFollows
<1>8. QED
  BY <1>4, <1>5, <1>6, <1>7 DEF Kept, IInv

LEMMA CatchPublishedKept == ASSUME IInv, CatchPublished PROVE Kept
<1>1. /\ noecho' = EchoReset(eval[2])
      /\ UNCHANGED <<conns, text, scan, input_handler, counts, eval>>
  BY DEF CatchPublished
<1>2. /\ noecho' \in [Slot -> SUBSET (Flags \cup {STALE})]
      /\ \A c \in Slot : /\ noecho'[c] \in {noecho[c], {}}
                         /\ eval = <<"input_to", c>> => STALE \notin noecho'[c]
  BY <1>1, EchoResetKeeps
<1>3. Places' /\ Turns' /\ Seconds' /\ Arrays' /\ Lists'
  BY <1>1, <1>2 DEF IInv, Places, Arrays, Lists, Turns, Seconds, conns, scan, counts
<1>4. Vacant'
  BY <1>1, <1>2 DEF IInv, Vacant, conns, counts
<1>5. EchoFollows => EchoFollows'
  <2> SUFFICES ASSUME EchoFollows, NEW c \in Slot, EchoOff(noecho'[c])
               PROVE  EchoOff(ModeOf(input_handler'[c]))
    BY DEF EchoFollows
  <2>1. noecho'[c] = noecho[c] /\ EchoOff(noecho[c])
    BY <1>2 DEF EchoOff
  <2>2. QED
    BY <1>1, <1>2, <2>1 DEF EchoFollows
<1>6. QED
  BY <1>3, <1>4, <1>5 DEF Kept, IInv

-----------------------------------------------------------------------------
(* ----- The specification ------------------------------------------------ *)
LEMMA NextKept == ASSUME IInv, [Next]_vars PROVE Kept
<1>1. CASE GetMessage
  <2>1. CASE Select \/ PassOver \/ ReadPart \/ ReadEnd
    BY <2>1, SelectKept, PassOverKept, ReadEndKept
  <2>2. ASSUME NEW lines, NEW bang \in BOOLEAN,
               \/ Command(lines, bang) \/ EdCommand(lines, bang)
               \/ CallInputTo(lines, bang) \/ LostInputTo(lines, bang)
        PROVE  Kept
    BY <2>2, CommandKept, CallInputToKept, LostInputToKept
  <2>3. QED
    BY <1>1, <2>1, <2>2 DEF GetMessage
<1>2. CASE EdQuit \/ Return \/ Error \/ CatchPublished \/ Tick
  BY <1>2, EdQuitKept, ReturnKept, ErrorKept, CatchPublishedKept, TickKept
<1>3. ASSUME NEW c \in Slot,
             \/ NewPlayer(c) \/ Leave(c) \/ MarkToClose(c) \/ ed_start(c)
             \/ \E flags \in SUBSET Flags, append \in BOOLEAN : InputTo(c, flags, append)
             \/ \E i \in 1 .. MaxHandlers[c] : remove_input_to(c, i)
      PROVE  Kept
  BY <1>3, NewPlayerKept, LeaveKept, MarkToCloseKept, EdStartKept, InputToKept, RemoveInputToKept
<1>4. CASE UNCHANGED vars
  <2>1. UNCHANGED <<players, do_close, text, readfds, NextCmdGiver, CmdsGiven, numCmds,
                    input_handler, noecho, eval, given, spent>>
    BY <1>4 DEF vars, conns, scan, handlers, counts
  <2>2. IInv'
    BY <2>1 DEF IInv, Places, Arrays, Vacant, Lists, Turns, Seconds
  <2>3. EchoFollows => EchoFollows'
    BY <2>1 DEF EchoFollows
  <2>4. QED
    BY <2>2, <2>3 DEF Kept
<1>5. QED
  BY <1>1, <1>2, <1>3, <1>4 DEF Next

(* The inductive invariant holds, whatever LPC code does.                  *)
THEOREM Invariance == Spec => []IInv
<1>1. Init => IInv
  BY InitKept
<1>2. IInv /\ [Next]_vars => IInv'
  BY NextKept DEF Kept
<1>3. QED
  BY <1>1, <1>2, PTL DEF Spec

(* The variables have their types, and no slot that new_player() takes     *)
(* holds handlers, modes or lines of the user who had it before.           *)
THEOREM TypeCorrectness == Spec => []TypeOK
<1>1. IInv => TypeOK
  <2> SUFFICES ASSUME IInv PROVE TypeOK
    OBVIOUS
  <2>1. \A c \in Slot : /\ Handlers(c) \in Seq(Handler) /\ Len(Handlers(c)) <= MaxHandlers[c]
                        /\ noecho[c] \subseteq Flags \cup {STALE}
                        /\ c \notin players => /\ Handlers(c) = << >> /\ noecho[c] = {}
                                               /\ text[c] = 0
    BY DEF IInv, Arrays, Lists, GoodList, Vacant, Handlers
  <2>2. QED
    BY <2>1 DEF IInv, Places, Arrays, TypeOK
<1>2. QED
  BY <1>1, Invariance, PTL

(* In a cycle of get_message() a user gives one command, or one more than  *)
(* ALLOWED_ED_CMDS if he edits, and in a second one more than his limit.   *)
THEOREM Limited == Spec => []CommandsLimited
<1>1. IInv => CommandsLimited
  <2> SUFFICES ASSUME IInv, NEW c \in Slot
               PROVE  /\ given[c] <= IF <<"INPUT_ED", {}>> \in Asks[c]
                                     THEN ALLOWED_ED_CMDS + 1 ELSE 1
                      /\ MaxNumCmds[c] >= 0 => spent[c] <= MaxNumCmds[c] + 1
    BY DEF CommandsLimited
  <2>1. /\ given[c] <= IF <<"INPUT_ED", {}>> \in Asks[c] THEN ALLOWED_ED_CMDS + 1 ELSE 1
        /\ MaxNumCmds[c] >= 0 => numCmds[c] <= MaxNumCmds[c] /\ spent[c] <= numCmds[c] + 1
    BY DEF IInv, Turns, Seconds
  <2>2. spent[c] \in Int /\ numCmds[c] \in Int /\ MaxNumCmds[c] \in Int
    BY LimitsAssumption DEF IInv, Arrays
  <2>3. QED
    BY <2>1, <2>2
<1>2. QED
  BY <1>1, Invariance, PTL

(* Only the first input_to() of an evaluation has an effect.               *)
THEOREM OneInputTo == Spec => []OneInputToPerEvaluation
<1>1. IInv => OneInputToPerEvaluation
  <2> SUFFICES ASSUME IInv, NEW c \in Slot
               PROVE  Cardinality({i \in DOMAIN Handlers(c) : Handlers(c)[i].now}) <= 1
    BY DEF OneInputToPerEvaluation
  <2> DEFINE new == {i \in DOMAIN Handlers(c) : Handlers(c)[i].now}
  <2>1. ASSUME NEW i \in new, NEW j \in new, i < j
        PROVE  FALSE
    <3>1. i \in 1 .. j - 1
      BY <2>1, ConnectionFacts
    <3>2. ~IsEd(Handlers(c)[i]) /\ IsEd(Handlers(c)[i])
      BY <3>1, ConnectionFacts DEF GoodList, NowFirst
    <3>3. QED
      BY <3>2
  <2>2. new \subseteq Nat
    BY ConnectionFacts
  <2>3. new = {} \/ \E i \in new : new = {i}
    BY <2>1, <2>2
  <2> HIDE DEF new
  <2>4. Cardinality(new) = 0 \/ Cardinality(new) = 1
    BY <2>3, FS_EmptySet, FS_Singleton
  <2>5. QED
    BY <2>4 DEF new
<1>2. QED
  BY <1>1, Invariance, PTL

(* Code that thinks of the echo - it appends no handler with another mode, *)
(* and removes no last one that hides the input - always gets it back,     *)
(* wherever it fails.                                                      *)
THEOREM EchoReturns ==
    ASSUME Habits = {}
    PROVE  Spec => []EchoComesBack
<1>1. Init => IInv /\ EchoFollows
  BY InitKept
<1>2. IInv /\ EchoFollows /\ [Next]_vars => EchoFollows'
  BY NextKept DEF Kept
<1>3. EchoFollows => EchoComesBack
  BY DEF EchoFollows, EchoComesBack, Idle, Handlers
<1>4. QED
  BY <1>1, <1>2, <1>3, Invariance, PTL DEF Spec
=============================================================================
