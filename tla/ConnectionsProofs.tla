--------------------------- MODULE ConnectionsProofs ---------------------------
(***************************************************************************)
(* Proofs about Connections, for any number of slots, users and callers,   *)
(* any depth of calls and whatever LPC code does in which call.            *)
(***************************************************************************)
EXTENDS Connections, SequenceTheorems, TLAPS

(* A call in progress.                                                     *)
Frame == (Calls \cup {"new_player", "clean_up"}) \X (Slot \cup Ptr) \X Ptr

-----------------------------------------------------------------------------
(* ----- The stack of calls ---------------------------------------------- *)
(* What is left of a sequence without its last element.                    *)
LEMMA PopFacts ==
    ASSUME NEW F, NEW s \in Seq(F), NEW n \in Nat, Len(s) = n + 1
    PROVE  /\ SubSeq(s, 1, Len(s) - 1) \in Seq(F)
           /\ Len(SubSeq(s, 1, Len(s) - 1)) = n
           /\ \A i \in 1 .. n : SubSeq(s, 1, Len(s) - 1)[i] = s[i]
           /\ n = 0 => SubSeq(s, 1, Len(s) - 1) = << >>
<1>1. Len(s) - 1 = n
  OBVIOUS
<1>2. \A i \in 1 .. n : s[i] \in F
  BY ElementOfSeq
<1>3. /\ SubSeq(s, 1, n) \in Seq(F)
      /\ Len(SubSeq(s, 1, n)) = IF 1 <= n THEN n - 1 + 1 ELSE 0
      /\ \A i \in 1 .. n - 1 + 1 : SubSeq(s, 1, n)[i] = s[1 + i - 1]
  BY <1>2, SubSeqProperties
<1>4. n = 0 => SubSeq(s, 1, n) = << >>
  BY SubSeqEmpty
<1>5. QED
  BY <1>1, <1>3, <1>4

(* The last call, and the calls that are never made on top of another one. *)
LEMMA TopFacts ==
    ASSUME Typed, Nesting, frames # << >>
    PROVE  \E n \in Nat :
              /\ Len(frames) = n + 1 /\ DOMAIN frames = 1 .. n + 1
              /\ Top = frames[n + 1] /\ Top \in Frame /\ FrameOK(Top)
              /\ Top[1] \in {"lpc", "connect", "logon", "new_player", "clean_up"}
                   => n = 0
              /\ Top[1] = "disconnect" => n \in {0, 1}
<1>1. frames \in Seq(Frame)
  BY DEF Typed, Frame
<1>2. Len(frames) \in Nat \ {0} /\ DOMAIN frames = 1 .. Len(frames)
  BY <1>1, EmptySeq, LenProperties
<1>3. PICK n \in Nat : Len(frames) = n + 1
  <2>1. \A k \in Nat \ {0} : k - 1 \in Nat /\ k = (k - 1) + 1
    OBVIOUS
  <2>2. QED
    BY <1>2, <2>1
<1>4. Top = frames[n + 1] /\ Top \in Frame /\ n + 1 \in DOMAIN frames
  BY <1>1, <1>2, <1>3, ElementOfSeq DEF Top
<1>5. /\ FrameOK(Top)
      /\ n + 1 > 1 => Top[1] \in {"disconnect", "valid_exec", "valid_snoop"}
      /\ n + 1 > 2 => Top[1] # "disconnect"
  BY <1>4 DEF Nesting
<1>6. /\ Top[1] \in {"lpc", "connect", "logon", "new_player", "clean_up"} => n = 0
      /\ Top[1] = "disconnect" => n \in {0, 1}
  BY <1>3, <1>5
<1>7. QED
  BY <1>2, <1>3, <1>4, <1>5, <1>6

(* The last call returns, and the calls below are as they were.            *)
LEMMA PopKeeps ==
    ASSUME Typed, Nesting, frames # << >>, frames' = Returned,
           UNCHANGED <<destructed, newly_destructed>>
    PROVE  /\ frames' \in Seq(Frame) /\ Nesting'
           /\ \E n \in Nat :
                /\ Len(frames) = n + 1 /\ Top = frames[n + 1] /\ Len(frames') = n
                /\ n = 0 => frames' = << >>
                /\ n > 0 => frames' # << >> /\ frames'[1] = frames[1]
                /\ n > 1 => frames'[2] = frames[2]
                /\ Top[1] \in {"lpc", "connect", "logon", "new_player", "clean_up"}
                     => n = 0
                /\ Top[1] = "disconnect" => n \in {0, 1}
<1>1. frames \in Seq(Frame)
  BY DEF Typed, Frame
<1>2. PICK n \in Nat :
        /\ Len(frames) = n + 1 /\ DOMAIN frames = 1 .. n + 1
        /\ Top = frames[n + 1]
        /\ Top[1] \in {"lpc", "connect", "logon", "new_player", "clean_up"} => n = 0
        /\ Top[1] = "disconnect" => n \in {0, 1}
  BY TopFacts
<1>3. /\ frames' \in Seq(Frame) /\ Len(frames') = n
      /\ \A i \in 1 .. n : frames'[i] = frames[i]
      /\ n = 0 => frames' = << >>
  BY <1>1, <1>2, PopFacts DEF Returned
<1>4. DOMAIN frames' = 1 .. n
  BY <1>3, LenProperties
<1>5. n > 0 => frames' # << >> /\ frames'[1] = frames[1]
  BY <1>2, <1>3, EmptySeq
<1>6. n > 1 => frames'[2] = frames[2]
  BY <1>2, <1>3
<1>7. Nesting'
  BY <1>2, <1>3, <1>4 DEF Nesting, FrameOK, Gone, Slot
<1>8. QED
  BY <1>2, <1>3, <1>5, <1>6, <1>7

(* A call that has nothing to say about connections returns.               *)
LEMMA ReturnKeeps ==
    ASSUME IInv, frames # << >>, frames' = Returned,
           UNCHANGED <<ob, ip, destructed, newly_destructed>>,
           Top[1] # "disconnect",
           Top[1] = "connect" => ip[master_ob] # Top[2],
           \/ UNCHANGED <<curr_obj, status>>
           \/ /\ Top[1] \in {"logon", "clean_up"}
              /\ curr_obj' \in Caller \cup {NULL}
    PROVE  IInv'
<1>1. Typed /\ TwoWay /\ MasterFree /\ Nesting /\ Replacing
  BY DEF IInv
<1>2. curr_obj' \in Caller \cup {NULL}
  BY <1>1 DEF Typed
<1>3. PICK n \in Nat :
        /\ Len(frames) = n + 1 /\ Top = frames[n + 1] /\ Len(frames') = n
        /\ n = 0 => frames' = << >>
        /\ n > 0 => frames' # << >> /\ frames'[1] = frames[1]
        /\ n > 1 => frames'[2] = frames[2]
        /\ Top[1] \in {"lpc", "connect", "logon", "new_player", "clean_up"} => n = 0
  BY <1>1, PopKeeps
<1>4. frames' \in Seq(Frame) /\ Nesting'
  BY <1>1, PopKeeps
<1>5. Typed'
  BY <1>1, <1>2, <1>4 DEF Typed, Frame, Slot, Ptr
<1>6. TwoWay'
  BY <1>1 DEF TwoWay, Used, Interactive, Slot
<1>7. MasterFree'
  <2>1. CASE n = 0
    <3>1. ~Interactive(master_ob)
      BY <1>1, <1>3, <2>1 DEF MasterFree
    <3>2. QED
      BY <3>1 DEF MasterFree, Interactive
  <2>2. CASE n > 0
    BY <1>1, <1>3, <2>2 DEF MasterFree, Interactive
  <2>3. QED
    BY <1>3, <2>1, <2>2
<1>8. Replacing'
  <2> SUFFICES ASSUME frames' # << >>, frames'[1][1] = "new_player"
               PROVE  Replacing'
    BY DEF Replacing
  <2>1. n > 0 /\ frames[1][1] = "new_player" /\ frames'[1] = frames[1]
    BY <1>3
  <2>2. UNCHANGED <<curr_obj, status>>
    BY <1>3, <2>1
  <2>3. Interactive(curr_obj) => n > 1
    <3>1. Interactive(curr_obj) => frames[2][1] = "disconnect"
      BY <1>1, <1>3, <2>1 DEF Replacing
    <3>2. n = 1 => Top = frames[2]
      BY <1>3
    <3>3. QED
      BY <1>3, <2>1, <3>1, <3>2
  <2>4. QED
    BY <1>1, <1>3, <2>1, <2>2, <2>3 DEF Replacing, Interactive, Gone, Slot
<1>9. QED
  BY <1>4, <1>5, <1>6, <1>7, <1>8 DEF IInv

(* LPC code asks for an exec() or a snoop().                               *)
LEMMA AskingKeeps ==
    ASSUME IInv, frames # << >>,
           NEW f \in Frame, f[1] \in {"valid_exec", "valid_snoop"}, FrameOK(f),
           frames' = Append(frames, f),
           UNCHANGED <<ob, ip, curr_obj, status, destructed, newly_destructed>>
    PROVE  IInv'
<1>1. Typed /\ TwoWay /\ MasterFree /\ Nesting /\ Replacing
  BY DEF IInv
<1>2. frames \in Seq(Frame)
  BY <1>1 DEF Typed, Frame
<1>3. PICK n \in Nat : Len(frames) = n + 1 /\ DOMAIN frames = 1 .. n + 1
  BY <1>1, TopFacts
<1>4. /\ frames' \in Seq(Frame) /\ frames' # << >> /\ Len(frames') = n + 2
      /\ \A i \in 1 .. n + 1 : frames'[i] = frames[i]
      /\ frames'[n + 2] = f
  <2>1. n + 1 \in Nat /\ n + 1 + 1 = n + 2
    OBVIOUS
  <2>2. QED
    BY <1>2, <1>3, <2>1, AppendProperties
<1>5. DOMAIN frames' = 1 .. n + 2
  BY <1>4, LenProperties
<1>6. frames'[1] = frames[1] /\ (n > 0 => frames'[2] = frames[2])
  BY <1>4
<1>7. Typed'
  BY <1>1, <1>4 DEF Typed, Frame, Slot, Ptr
<1>8. TwoWay'
  BY <1>1 DEF TwoWay, Used, Interactive, Slot
<1>9. MasterFree'
  BY <1>1, <1>4, <1>6 DEF MasterFree, Interactive
<1>10. Nesting'
  <2> SUFFICES ASSUME NEW i \in 1 .. n + 2
               PROVE  /\ FrameOK(frames[i])'
                      /\ i > 1 => frames'[i][1] \in {"disconnect", "valid_exec", "valid_snoop"}
                      /\ i > 2 => frames'[i][1] # "disconnect"
    BY <1>5 DEF Nesting
  <2>1. CASE i = n + 2
    BY <1>3, <1>4, <2>1 DEF FrameOK, Gone, Slot
  <2>2. CASE i \in 1 .. n + 1
    BY <1>1, <1>3, <1>4, <2>2 DEF Nesting, FrameOK, Gone, Slot
  <2>3. QED
    BY <1>3, <2>1, <2>2
<1>11. Replacing'
  BY <1>1, <1>3, <1>4, <1>6 DEF Replacing, Interactive, Gone, Slot
<1>12. QED
  BY <1>7, <1>8, <1>9, <1>10, <1>11 DEF IInv

(* No call is left, or a single one.                                       *)
LEMMA NoCall ==
    ASSUME frames' = << >>
    PROVE  frames' \in Seq(Frame) /\ Nesting' /\ Replacing'
<1>1. frames' \in Seq(Frame) /\ DOMAIN frames' = {}
  BY EmptySeq
<1>2. QED
  BY <1>1 DEF Nesting, Replacing

LEMMA OneCall ==
    ASSUME NEW f \in Frame, FrameOK(f)', f[1] # "new_player",
           frames' = <<f>>
    PROVE  /\ frames' \in Seq(Frame) /\ frames' # << >> /\ frames'[1] = f
           /\ Nesting' /\ Replacing'
<1>1. /\ frames' \in Seq(Frame) /\ frames' # << >> /\ frames'[1] = f
      /\ DOMAIN frames' = {1}
  OBVIOUS
<1>2. QED
  BY <1>1 DEF Nesting, Replacing, FrameOK, Gone

-----------------------------------------------------------------------------
(* ----- Connections come and go ----------------------------------------- *)
(* A new connection in a free slot for an object that has none.            *)
LEMMA LinkingKeeps ==
    ASSUME Typed, TwoWay, NEW c \in Slot, ob[c] = NULL,
           NEW o \in Obj \ Gone, ~Interactive(o),
           ob' = [ob EXCEPT ![c] = o], ip' = [ip EXCEPT ![o] = c],
           UNCHANGED <<destructed, newly_destructed>>
    PROVE  /\ ob' \in [Slot -> Ptr] /\ ip' \in [Obj -> Slot \cup {NULL}]
           /\ TwoWay'
<1> USE NullAssumption, RolesAssumption
<1>1. ob' \in [Slot -> Ptr] /\ ip' \in [Obj -> Slot \cup {NULL}]
  BY DEF Typed, Ptr
<1>2. /\ \A d \in Slot : ob'[d] = IF d = c THEN o ELSE ob[d]
      /\ \A x \in Obj : ip'[x] = IF x = o THEN c ELSE ip[x]
  BY DEF Typed
<1>3. \A d \in Slot : ob[d] # NULL => ob[d] \in Obj /\ ip[ob[d]] = d /\ ob[d] # o
  BY DEF Typed, TwoWay, Used, Interactive, Ptr, Slot
<1>4. ASSUME NEW d \in Slot, ob'[d] # NULL
      PROVE  ip'[ob'[d]] = d
  <2>1. CASE d = c
    BY <1>2, <2>1
  <2>2. CASE d # c
    BY <1>2, <1>3, <1>4, <2>2
  <2>3. QED
    BY <2>1, <2>2
<1>5. ASSUME NEW x \in Obj, ip'[x] # NULL
      PROVE  ob'[ip'[x]] = x /\ x \notin (destructed \ newly_destructed)'
  BY <1>5 DEF Typed, TwoWay, Interactive, Ptr, Gone, Slot
<1>6. QED
  BY <1>1, <1>4, <1>5 DEF TwoWay, Used, Interactive, Slot

(* The connection of slot c is taken down.                                 *)
LEMMA TakingDownKeeps ==
    ASSUME Typed, TwoWay, NEW c \in Slot, TakenDown(c),
           \A x \in Obj : x \in Gone' => x \in Gone \/ x = ob[c]
    PROVE  /\ ob' \in [Slot -> Ptr] /\ ip' \in [Obj -> Slot \cup {NULL}]
           /\ TwoWay'
           /\ \A d \in Slot : ob[d] = NULL => ob'[d] = NULL
           /\ \A x \in Obj : ip[x] \in {NULL, c} => ip'[x] = NULL
           /\ \A x \in Obj : ip'[x] \in {NULL, ip[x]}
<1> USE NullAssumption, RolesAssumption
<1>1. ob' = [ob EXCEPT ![c] = NULL] /\ ip' = [ip EXCEPT ![ob[c]] = NULL]
  BY DEF TakenDown
<1>2. ob' \in [Slot -> Ptr] /\ ip' \in [Obj -> Slot \cup {NULL}]
  BY <1>1 DEF Typed, Ptr
<1>3. /\ \A d \in Slot : ob'[d] = IF d = c THEN NULL ELSE ob[d]
      /\ \A x \in Obj : ip'[x] = IF x = ob[c] THEN NULL ELSE ip[x]
  BY <1>1 DEF Typed, Ptr
<1>4. ASSUME NEW d \in Slot, ob'[d] # NULL
      PROVE  ip'[ob'[d]] = d
  BY <1>3, <1>4 DEF Typed, TwoWay, Used, Ptr
<1>5. ASSUME NEW x \in Obj, ip'[x] # NULL
      PROVE  ob'[ip'[x]] = x /\ x \notin Gone'
  BY <1>3, <1>5 DEF Typed, TwoWay, Used, Interactive, Ptr, Gone
<1>6. TwoWay'
  BY <1>4, <1>5 DEF TwoWay, Used, Interactive, Slot, Gone
<1>7. \A x \in Obj : ip[x] = c => x = ob[c]
  BY DEF TwoWay, Interactive, Slot
<1>8. QED
  BY <1>2, <1>3, <1>6, <1>7

-----------------------------------------------------------------------------
(* ----- The steps ------------------------------------------------------- *)
(* accept, and the answer of connect().                                    *)
LEMMA AcceptKeeps ==
    ASSUME IInv, NEW c \in Slot, Accept(c)
    PROVE  IInv'
<1> USE NullAssumption, RolesAssumption, DisjointAssumption
<1> DEFINE f == <<"connect", c, NULL>>
<1>1. Typed /\ TwoWay
  BY DEF IInv
<1>2. /\ ob' = [ob EXCEPT ![c] = master_ob] /\ ip' = [ip EXCEPT ![master_ob] = c]
      /\ ob[c] = NULL /\ ~Interactive(master_ob)
      /\ UNCHANGED <<destructed, newly_destructed, curr_obj, status>>
  BY DEF Accept, Linked, FirstFree, Used, life, outconn
<1>3. master_ob \in Obj \ Gone
  BY <1>1 DEF Typed, Gone
<1>4. /\ ob' \in [Slot -> Ptr] /\ ip' \in [Obj -> Slot \cup {NULL}]
      /\ TwoWay' /\ ip'[master_ob] = c
  BY <1>1, <1>2, <1>3, LinkingKeeps DEF Typed
<1>5. frames' = <<f>>
  BY DEF Accept, Backend, Called
<1>6. f \in Frame /\ FrameOK(f)' /\ f[1] = "connect" /\ f[2] = c
  BY DEF Frame, Calls, Ptr, FrameOK, Slot
<1>7. /\ frames' \in Seq(Frame) /\ frames' # << >> /\ frames'[1] = f
      /\ Nesting' /\ Replacing'
  BY <1>5, <1>6, OneCall
<1>8. Typed'
  BY <1>1, <1>2, <1>4, <1>7 DEF Typed, Frame, Slot, Ptr
<1>9. MasterFree'
  BY <1>4, <1>6, <1>7 DEF MasterFree, Interactive
<1>10. QED
  BY <1>4, <1>7, <1>8, <1>9 DEF IInv

LEMMA RebindKeeps ==
    ASSUME IInv, NEW o \in Obj, Rebind(o)
    PROVE  IInv'
<1> USE NullAssumption, RolesAssumption, DisjointAssumption
<1> DEFINE c == Top[2]
           f == <<"logon", NULL, NULL>>
<1>1. Typed /\ TwoWay /\ Nesting
  BY DEF IInv
<1>2. /\ frames # << >> /\ Top[1] = "connect" /\ ip[master_ob] = c
      /\ o \in User /\ o \notin destructed /\ ip[o] = NULL
      /\ ip' = [ip EXCEPT ![master_ob] = NULL, ![o] = c]
      /\ ob' = [ob EXCEPT ![c] = o]
      /\ frames' = Append(Returned, f)
      /\ UNCHANGED <<destructed, newly_destructed, curr_obj, status>>
  BY DEF Rebind, In, Live, Interactive, life, outconn
<1>3. frames' = <<f>>
  <2>1. PICK n \in Nat : Len(frames) = n + 1 /\ n = 0
    BY <1>1, <1>2, TopFacts
  <2>2. Returned = << >>
    BY <1>1, <2>1, PopFacts DEF Returned, Typed, Frame
  <2>3. QED
    BY <1>2, <2>2
<1>4. c \in Slot /\ o # master_ob /\ ob[c] = master_ob
  <2>1. FrameOK(Top)
    BY <1>1, <1>2, TopFacts
  <2>2. c \in Slot
    BY <1>2, <2>1 DEF FrameOK
  <2>3. QED
    BY <1>1, <1>2, <2>2 DEF TwoWay, Interactive, Slot
<1>5. /\ \A d \in Slot : ob'[d] = IF d = c THEN o ELSE ob[d]
      /\ \A x \in Obj : ip'[x] = IF x = o THEN c ELSE IF x = master_ob THEN NULL ELSE ip[x]
  BY <1>1, <1>2, <1>4 DEF Typed
<1>6. ob' \in [Slot -> Ptr] /\ ip' \in [Obj -> Slot \cup {NULL}]
  BY <1>1, <1>2, <1>4 DEF Typed, Ptr
<1>7. \A d \in Slot : ob[d] # NULL => ob[d] \in Obj /\ ip[ob[d]] = d /\ ob[d] # o
  BY <1>1, <1>2 DEF Typed, TwoWay, Used, Ptr, Slot
<1>8. ASSUME NEW d \in Slot, ob'[d] # NULL
      PROVE  ip'[ob'[d]] = d
  <2>1. CASE d = c
    BY <1>4, <1>5, <2>1
  <2>2. CASE d # c
    <3>1. ob'[d] = ob[d] /\ ob[d] \in Obj /\ ip[ob[d]] = d /\ ob[d] # o
      BY <1>5, <1>7, <1>8, <2>2
    <3>2. ob[d] # master_ob
      BY <1>2, <2>2, <3>1
    <3>3. QED
      BY <1>5, <3>1, <3>2
  <2>3. QED
    BY <2>1, <2>2
<1>9. ASSUME NEW x \in Obj, ip'[x] # NULL
      PROVE  ob'[ip'[x]] = x /\ x \notin (destructed \ newly_destructed)'
  <2>1. CASE x = o
    <3>1. ip'[o] = c /\ ob'[c] = o
      BY <1>2, <1>4, <1>5
    <3>2. QED
      BY <1>2, <2>1, <3>1
  <2>2. CASE x # o
    BY <1>1, <1>2, <1>4, <1>5, <1>9, <2>2 DEF Typed, TwoWay, Interactive
  <2>3. QED
    BY <2>1, <2>2
<1>10. TwoWay'
  BY <1>6, <1>8, <1>9 DEF TwoWay, Used, Interactive, Slot
<1>11. /\ frames' \in Seq(Frame) /\ Nesting' /\ Replacing'
  <2>1. f \in Frame /\ FrameOK(f)' /\ f[1] # "new_player"
    BY DEF Frame, Calls, Ptr, FrameOK
  <2>2. QED
    BY <1>3, <2>1, OneCall
<1>12. Typed'
  BY <1>1, <1>2, <1>6, <1>11 DEF Typed, Frame, Slot, Ptr
<1>13. MasterFree'
  BY <1>4, <1>5 DEF MasterFree, Interactive
<1>14. QED
  BY <1>10, <1>11, <1>12, <1>13 DEF IInv

(* remove_interactive(), called from the backend, from new_player() after  *)
(* connect(), and as a last step of what waits below.                      *)
LEMMA ClosingKeeps ==
    ASSUME IInv, NEW c \in Slot, ob[c] # NULL, Removed(c, << >>),
           Backend \/ ob[c] = master_ob,
           UNCHANGED <<destructed, newly_destructed, curr_obj, status>>
    PROVE  IInv'
<1> USE NullAssumption, RolesAssumption, DisjointAssumption
<1>1. Typed /\ TwoWay /\ MasterFree
  BY DEF IInv
<1>2. CASE ob[c] \in destructed
  <2>1. TakenDown(c) /\ frames' = << >>
    BY <1>2 DEF Removed
  <2>2. Backend
    BY <1>1, <1>2 DEF Typed
  <2>3. frames' \in Seq(Frame) /\ Nesting' /\ Replacing'
    BY <2>1, NoCall
  <2>4. \A x \in Obj : x \in Gone' => x \in Gone \/ x = ob[c]
    BY DEF Gone
  <2>5. /\ ob' \in [Slot -> Ptr] /\ ip' \in [Obj -> Slot \cup {NULL}] /\ TwoWay'
        /\ \A x \in Obj : ip'[x] \in {NULL, ip[x]}
    BY <1>1, <2>1, <2>4, TakingDownKeeps
  <2>6. ip'[master_ob] = NULL
    BY <1>1, <2>2, <2>5 DEF MasterFree, Backend, Interactive
  <2>7. Typed' /\ MasterFree'
    BY <1>1, <2>3, <2>5, <2>6 DEF Typed, Frame, Slot, Ptr, MasterFree, Interactive
  <2>8. QED
    BY <2>3, <2>5, <2>7 DEF IInv
<1>3. CASE ob[c] \notin destructed
  <2> DEFINE f == <<"disconnect", c, NULL>>
  <2>1. frames' = <<f>> /\ UNCHANGED <<ob, ip>>
    BY <1>3 DEF Removed
  <2>2. f \in Frame /\ FrameOK(f)' /\ f[1] = "disconnect" /\ f[2] = c
    BY DEF Frame, Calls, Ptr, FrameOK, Slot
  <2>3. /\ frames' \in Seq(Frame) /\ frames' # << >> /\ frames'[1] = f
        /\ Nesting' /\ Replacing'
    BY <2>1, <2>2, OneCall
  <2>4. Typed' /\ TwoWay'
    BY <1>1, <2>1, <2>3 DEF Typed, Frame, Slot, Ptr, TwoWay, Used, Interactive
  <2>5. Interactive(master_ob) => ip[master_ob] = c
    BY <1>1 DEF MasterFree, Backend, TwoWay, Used
  <2>6. MasterFree'
    BY <2>1, <2>2, <2>3, <2>5 DEF MasterFree, Interactive
  <2>7. QED
    BY <2>3, <2>4, <2>6 DEF IInv
<1>4. QED
  BY <1>2, <1>3

LEMMA RejectedKeeps ==
    ASSUME IInv, Rejected
    PROVE  IInv'
<1>1. Typed /\ TwoWay /\ Nesting
  BY DEF IInv
<1>2. /\ frames # << >> /\ Top[1] = "connect" /\ ip[master_ob] = Top[2]
      /\ Removed(Top[2], Returned)
      /\ UNCHANGED <<destructed, newly_destructed, curr_obj, status>>
  BY DEF Rejected, In, life, outconn
<1>3. PICK n \in Nat : Len(frames) = n + 1 /\ n = 0 /\ FrameOK(Top)
  BY <1>1, <1>2, TopFacts
<1>4. Returned = << >>
  BY <1>1, <1>3, PopFacts DEF Returned, Typed, Frame
<1>5. Top[2] \in Slot /\ Top[2] # NULL
  BY <1>2, <1>3, NullAssumption DEF FrameOK, Slot
<1>6. ob[Top[2]] = master_ob /\ master_ob # NULL
  BY <1>1, <1>2, <1>5, RolesAssumption DEF TwoWay, Interactive
<1>7. QED
  BY <1>2, <1>4, <1>5, <1>6, ClosingKeeps

LEMMA DisconnectedKeeps ==
    ASSUME IInv, Disconnected
    PROVE  IInv'
<1> USE NullAssumption, RolesAssumption
<1> DEFINE c == Top[2]
<1>1. Typed /\ TwoWay /\ MasterFree /\ Nesting /\ Replacing
  BY DEF IInv
<1>2. /\ frames # << >> /\ Top[1] = "disconnect" /\ TakenDown(c) /\ frames' = Returned
      /\ UNCHANGED <<destructed, newly_destructed, curr_obj, status>>
  BY DEF Disconnected, In, life, outconn
<1>3. PICK n \in Nat :
        /\ Len(frames) = n + 1 /\ Top = frames[n + 1] /\ Len(frames') = n
        /\ n = 0 => frames' = << >>
        /\ n > 0 => frames' # << >> /\ frames'[1] = frames[1]
        /\ n \in {0, 1}
  BY <1>1, <1>2, PopKeeps
<1>4. frames' \in Seq(Frame) /\ Nesting'
  BY <1>1, <1>2, PopKeeps
<1>5. c \in Slot
  <2>1. FrameOK(Top)
    BY <1>1, <1>2, TopFacts
  <2>2. QED
    BY <1>2, <2>1 DEF FrameOK
<1>6. \A x \in Obj : x \in Gone' => x \in Gone \/ x = ob[c]
  BY <1>2 DEF Gone
<1>7. /\ ob' \in [Slot -> Ptr] /\ ip' \in [Obj -> Slot \cup {NULL}] /\ TwoWay'
      /\ \A d \in Slot : ob[d] = NULL => ob'[d] = NULL
      /\ \A x \in Obj : ip[x] \in {NULL, c} => ip'[x] = NULL
      /\ \A x \in Obj : ip'[x] \in {NULL, ip[x]}
  BY <1>1, <1>2, <1>5, <1>6, TakingDownKeeps
<1>8. Typed'
  BY <1>1, <1>2, <1>4, <1>7 DEF Typed, Frame, Slot, Ptr
<1>9. MasterFree'
  <2>1. CASE n = 0
    <3>1. ip[master_ob] \in {NULL, c}
      BY <1>1, <1>3, <2>1 DEF MasterFree, Interactive
    <3>2. QED
      BY <1>7, <3>1 DEF MasterFree, Interactive
  <2>2. CASE n = 1
    BY <1>1, <1>3, <1>7, <2>2 DEF MasterFree, Interactive
  <2>3. QED
    BY <1>3, <2>1, <2>2
<1>10. Replacing'
  <2> SUFFICES ASSUME frames' # << >>, frames'[1][1] = "new_player"
               PROVE  Replacing'
    BY DEF Replacing
  <2>1. n = 1 /\ frames[1][1] = "new_player" /\ frames'[1] = frames[1] /\ Top = frames[2]
    BY <1>3
  <2>2. /\ frames[1][2] \in Slot /\ ob[frames[1][2]] = NULL
        /\ curr_obj \in Caller \ Gone /\ status = "ocLoggingOn"
        /\ ip[curr_obj] \in {NULL, c}
    BY <1>1, <1>2, <2>1 DEF Replacing, Interactive
  <2>3. ip'[curr_obj] = NULL
    BY <1>7, <2>2
  <2>4. QED
    BY <1>2, <1>7, <2>1, <2>2, <2>3 DEF Replacing, Interactive, Gone, Slot
<1>11. QED
  BY <1>4, <1>7, <1>8, <1>9, <1>10 DEF IInv

(* remove_object() takes a connection down without asking, recycling an    *)
(* object that is gone and destructing another one do not touch any.       *)
LEMMA LifeKeeps ==
    ASSUME IInv, NEW o \in Obj, RemoveObject(o) \/ Recycle(o) \/ Destruct(o)
    PROVE  IInv'
<1> USE NullAssumption, RolesAssumption
<1>1. Typed /\ TwoWay /\ MasterFree /\ Nesting /\ Replacing
  BY DEF IInv
<1>2. CASE RemoveObject(o)
  <2>1. /\ frames = << >> /\ frames' = << >>
        /\ UNCHANGED <<destructed, curr_obj, status>>
        /\ o \in newly_destructed /\ newly_destructed' = newly_destructed \ {o}
    BY <1>2 DEF RemoveObject, Backend, outconn
  <2>2. frames' \in Seq(Frame) /\ Nesting' /\ Replacing' /\ ip[master_ob] = NULL
    BY <1>1, <2>1, NoCall DEF MasterFree, Interactive
  <2>3. /\ ob' \in [Slot -> Ptr] /\ ip' \in [Obj -> Slot \cup {NULL}] /\ TwoWay'
        /\ ip'[master_ob] = NULL
    <3>1. CASE Interactive(o)
      <4>1. TakenDown(ip[o]) /\ ip[o] \in Slot /\ ob[ip[o]] = o
        BY <1>1, <1>2, <3>1 DEF RemoveObject, Typed, TwoWay, Interactive
      <4>2. \A x \in Obj : x \in Gone' => x \in Gone \/ x = ob[ip[o]]
        BY <2>1, <4>1 DEF Gone
      <4>3. QED
        BY <1>1, <2>2, <4>1, <4>2, TakingDownKeeps
    <3>2. CASE ~Interactive(o)
      <4>1. UNCHANGED <<ob, ip>>
        BY <1>2, <3>2 DEF RemoveObject, slots
      <4>2. QED
        BY <1>1, <2>1, <2>2, <3>2, <4>1 DEF Typed, Ptr, Slot, TwoWay, Used, Interactive
    <3>3. QED
      BY <3>1, <3>2
  <2>4. Typed' /\ MasterFree'
    BY <1>1, <2>1, <2>2, <2>3 DEF Typed, Frame, Slot, Ptr, MasterFree, Interactive
  <2>5. QED
    BY <2>2, <2>3, <2>4 DEF IInv
<1>3. CASE Recycle(o)
  <2>1. /\ frames = << >> /\ frames' = << >>
        /\ UNCHANGED <<ob, ip, newly_destructed, curr_obj, status>>
        /\ destructed' = destructed \ {o} /\ o \notin newly_destructed
    BY <1>3 DEF Recycle, Backend, outconn, slots
  <2>2. frames' \in Seq(Frame) /\ Nesting' /\ Replacing'
    BY <2>1, NoCall
  <2>3. Typed' /\ MasterFree'
    BY <1>1, <2>1, <2>2 DEF Typed, Frame, Slot, Ptr, MasterFree, Interactive
  <2>4. TwoWay'
    BY <1>1, <2>1 DEF TwoWay, Used, Interactive, Slot
  <2>5. QED
    BY <2>2, <2>3, <2>4 DEF IInv
<1>4. CASE Destruct(o)
  <2>1. /\ UNCHANGED <<ob, ip, curr_obj, status, frames>>
        /\ destructed' = destructed \cup {o} /\ o \notin destructed /\ o # master_ob
        /\ newly_destructed' = newly_destructed \cup {o}
    BY <1>4 DEF Destruct, Live, outconn, slots
  <2>2. Gone' = Gone
    BY <1>1, <2>1 DEF Gone, Typed
  <2>3. Typed' /\ MasterFree'
    BY <1>1, <2>1 DEF Typed, Slot, Ptr, MasterFree, Interactive
  <2>4. TwoWay'
    BY <1>1, <2>1, <2>2 DEF TwoWay, Used, Interactive, Slot, Gone
  <2>5. Nesting' /\ Replacing'
    BY <1>1, <2>1, <2>2 DEF Nesting, FrameOK, Replacing, Interactive, Slot
  <2>6. QED
    BY <2>3, <2>4, <2>5 DEF IInv
<1>5. QED
  BY <1>2, <1>3, <1>4

(* exec(), from the answer of valid_exec() on.                             *)
LEMMA ExecKeeps ==
    ASSUME IInv, Exec
    PROVE  IInv'
<1> USE NullAssumption, RolesAssumption, DisjointAssumption
<1>1. Typed /\ TwoWay /\ MasterFree /\ Nesting /\ Replacing
  BY DEF IInv
<1>2. PICK new, old : new = Top[2] /\ old = Top[3]
  OBVIOUS
<1>3. /\ frames # << >> /\ Top[1] = "valid_exec" /\ ip[old] # NULL
      /\ ip[new] # NULL => old \in User
      /\ ip' = [ip EXCEPT ![new] = ip[old], ![old] = ip[new]]
      /\ ob' = ObAfter(new, old) /\ frames' = Returned
      /\ UNCHANGED <<destructed, newly_destructed, curr_obj, status>>
  BY <1>2 DEF Exec, In, Interactive, life, outconn
<1>4. new \in User \ Gone /\ old \in Obj /\ new \in Obj
  <2>1. FrameOK(Top)
    BY <1>1, <1>3, TopFacts
  <2>2. QED
    BY <1>2, <1>3, <2>1 DEF FrameOK
<1>5. PICK n \in Nat :
        /\ Len(frames) = n + 1 /\ Top = frames[n + 1] /\ Len(frames') = n
        /\ n = 0 => frames' = << >>
        /\ n > 0 => frames' # << >> /\ frames'[1] = frames[1]
        /\ n > 1 => frames'[2] = frames[2]
  BY <1>1, <1>3, PopKeeps
<1>6. frames' \in Seq(Frame) /\ Nesting'
  BY <1>1, <1>3, PopKeeps
<1>7. /\ ip[old] \in Slot /\ ob[ip[old]] = old /\ old \notin Gone
      /\ ip[new] # NULL => ip[new] \in Slot /\ ob[ip[new]] = new
  BY <1>1, <1>3, <1>4 DEF Typed, TwoWay, Interactive, Gone
<1>8. /\ \A d \in Slot : ob'[d] = IF d = ip[old] THEN new
                                ELSE IF d = ip[new] THEN old ELSE ob[d]
      /\ \A x \in Obj : ip'[x] = IF x = old THEN ip[new]
                               ELSE IF x = new THEN ip[old] ELSE ip[x]
  BY <1>1, <1>3, <1>4 DEF ObAfter, Typed
<1>9. ob' \in [Slot -> Ptr] /\ ip' \in [Obj -> Slot \cup {NULL}]
  <2>1. ob' = [d \in Slot |-> IF d = ip[old] THEN new
                              ELSE IF d = ip[new] THEN old ELSE ob[d]]
    BY <1>3 DEF ObAfter
  <2>2. ob' \in [Slot -> Ptr]
    BY <1>1, <1>4, <2>1 DEF Typed, Ptr
  <2>3. ip' \in [Obj -> Slot \cup {NULL}]
    BY <1>1, <1>3, <1>4 DEF Typed
  <2>4. QED
    BY <2>2, <2>3
<1>10. ASSUME NEW d \in Slot, ob'[d] # NULL
       PROVE  ip'[ob'[d]] = d
  <2>1. CASE d = ip[old]
    <3>1. ob'[d] = new
      BY <1>8, <2>1
    <3>2. ip'[new] = d
      <4>1. CASE new = old
        BY <1>4, <1>8, <2>1, <4>1
      <4>2. CASE new # old
        BY <1>4, <1>8, <2>1, <4>2
      <4>3. QED
        BY <4>1, <4>2
    <3>3. QED
      BY <3>1, <3>2
  <2>2. CASE d # ip[old] /\ d = ip[new]
    BY <1>4, <1>8, <2>2
  <2>3. CASE d # ip[old] /\ d # ip[new]
    <3>1. ob'[d] = ob[d] /\ ob[d] # NULL
      BY <1>8, <1>10, <2>3
    <3>2. ob[d] \in Obj /\ ip[ob[d]] = d
      BY <1>1, <3>1 DEF Typed, TwoWay, Used, Ptr
    <3>3. ob[d] # old /\ ob[d] # new
      BY <2>3, <3>2
    <3>4. QED
      BY <1>8, <3>1, <3>2, <3>3
  <2>4. QED
    BY <2>1, <2>2, <2>3
<1>11. ASSUME NEW x \in Obj, ip'[x] # NULL
       PROVE  ob'[ip'[x]] = x /\ x \notin Gone
  <2>1. CASE x = old
    BY <1>4, <1>7, <1>8, <1>11, <2>1
  <2>2. CASE x # old /\ x = new
    BY <1>4, <1>7, <1>8, <2>2
  <2>3. CASE x # old /\ x # new
    <3>1. ip'[x] = ip[x] /\ ip[x] \in Slot /\ ob[ip[x]] = x /\ x \notin Gone
      BY <1>1, <1>8, <1>11, <2>3 DEF Typed, TwoWay, Interactive, Gone
    <3>2. ip[x] # ip[old] /\ (ip[new] # NULL => ip[x] # ip[new])
      BY <1>7, <2>3, <3>1
    <3>3. ip[x] # NULL
      BY <1>11, <3>1
    <3>4. QED
      BY <1>8, <3>1, <3>2, <3>3
  <2>4. QED
    BY <2>1, <2>2, <2>3
<1>12. TwoWay'
  BY <1>3, <1>9, <1>10, <1>11 DEF TwoWay, Used, Interactive, Slot, Gone
<1>13. Typed'
  BY <1>1, <1>3, <1>6, <1>9 DEF Typed, Frame, Slot, Ptr
<1>14. ip'[master_ob] \in {NULL, ip[master_ob]}
  BY <1>3, <1>4, <1>8
<1>15. MasterFree'
  <2>1. CASE n = 0
    <3>1. ip[master_ob] = NULL
      BY <1>1, <1>3, <1>5, <2>1 DEF MasterFree, Interactive
    <3>2. QED
      BY <1>14, <3>1 DEF MasterFree, Interactive
  <2>2. CASE n > 0
    BY <1>1, <1>5, <1>14, <2>2 DEF MasterFree, Interactive
  <2>3. QED
    BY <1>5, <2>1, <2>2
<1>16. Replacing'
  <2> SUFFICES ASSUME frames' # << >>, frames'[1][1] = "new_player"
               PROVE  Replacing'
    BY DEF Replacing
  <2>1. n > 0 /\ frames[1][1] = "new_player" /\ frames'[1] = frames[1]
    BY <1>5
  <2>2. /\ frames[1][2] \in Slot /\ ob[frames[1][2]] = NULL
        /\ curr_obj \in Caller \ Gone /\ status = "ocLoggingOn"
    BY <1>1, <1>3, <2>1 DEF Replacing
  <2>3. ob'[frames[1][2]] = NULL
    <3>1. frames[1][2] # ip[old]
      BY <1>4, <1>7, <2>2
    <3>2. frames[1][2] # ip[new]
      BY <1>4, <1>7, <2>2 DEF Slot
    <3>3. QED
      BY <1>8, <2>2, <3>1, <3>2
  <2>4. curr_obj # new /\ curr_obj \in Obj /\ ip'[curr_obj] \in {NULL, ip[curr_obj]}
    BY <1>3, <1>4, <1>8, <2>2
  <2>5. Interactive(curr_obj) => n > 1
    <3>1. Interactive(curr_obj) => frames[2][1] = "disconnect"
      BY <1>1, <1>3, <2>1 DEF Replacing
    <3>2. n = 1 => Top = frames[2]
      BY <1>5
    <3>3. QED
      BY <1>3, <1>5, <2>1, <3>1, <3>2
  <2>6. ip'[curr_obj] # NULL =>
          n > 1 /\ frames'[2] = frames[2] /\ frames[2][1] = "disconnect"
            /\ frames[2][2] = ip[curr_obj] /\ ip'[curr_obj] = ip[curr_obj]
    BY <1>1, <1>3, <1>5, <2>1, <2>4, <2>5 DEF Replacing, Interactive
  <2>7. Len(frames') = n
    BY <1>5
  <2>8. QED
    BY <1>3, <2>1, <2>2, <2>3, <2>6, <2>7 DEF Replacing, Interactive, Gone, Slot
<1>17. QED
  BY <1>6, <1>12, <1>13, <1>15, <1>16 DEF IInv

(* An outgoing connection, for an object that has no connection.           *)
LEMMA OutLinkedKeeps ==
    ASSUME IInv, NEW c \in Slot, ob[c] = NULL, OutLinked(c),
           curr_obj \in Caller \ Gone, ~Interactive(curr_obj), ~Interactive(master_ob),
           status' = "ocLoggingOn", Backend \/ Returned = << >>
    PROVE  IInv'
<1> USE NullAssumption, RolesAssumption, DisjointAssumption
<1> PICK o : o = curr_obj
  OBVIOUS
<1> DEFINE f == <<"logon", o, NULL>>
<1>1. Typed /\ TwoWay
  BY DEF IInv
<1>2. /\ ob' = [ob EXCEPT ![c] = curr_obj] /\ ip' = [ip EXCEPT ![curr_obj] = c]
      /\ UNCHANGED <<destructed, newly_destructed, curr_obj>>
  BY DEF OutLinked, Linked, life
<1>3. /\ ob' \in [Slot -> Ptr] /\ ip' \in [Obj -> Slot \cup {NULL}] /\ TwoWay'
      /\ ip'[master_ob] = NULL
  BY <1>1, <1>2, LinkingKeeps DEF Typed, Interactive
<1>4. frames' = << >> \/ frames' = <<f>>
  <2>1. frames' = << >> \/ frames' = Append(IF Backend THEN << >> ELSE Returned, f)
    BY DEF OutLinked
  <2>2. (IF Backend THEN << >> ELSE Returned) = << >>
    OBVIOUS
  <2>3. Append(<< >>, f) = <<f>>
    OBVIOUS
  <2>4. QED
    BY <2>1, <2>2, <2>3
<1>5. frames' \in Seq(Frame) /\ Nesting' /\ Replacing'
  <2>1. f \in Frame /\ f[1] = "logon"
    BY DEF Frame, Calls, Ptr
  <2>2. FrameOK(f)'
    BY <2>1 DEF FrameOK
  <2>3. CASE frames' = << >>
    BY <2>3, NoCall
  <2>4. CASE frames' = <<f>>
    BY <2>1, <2>2, <2>4, OneCall
  <2>5. QED
    BY <1>4, <2>3, <2>4
<1>6. Typed' /\ MasterFree'
  BY <1>1, <1>2, <1>3, <1>5 DEF Typed, Frame, Slot, Ptr, MasterFree, Interactive
<1>7. QED
  BY <1>3, <1>5, <1>6 DEF IInv

(* The connection that the object has is removed first, from new_player()  *)
(* or from the clean up of its entry: two calls are in progress.           *)
LEMMA TwoCallsKeep ==
    ASSUME IInv, Backend, NEW g \in Frame, NEW c \in Slot,
           frames' = << g, <<"disconnect", c, NULL>> >>,
           UNCHANGED <<ob, ip, curr_obj, destructed, newly_destructed>>,
           \/ g[1] = "clean_up"
           \/ /\ g[1] = "new_player" /\ g[2] \in Slot /\ ob[g[2]] = NULL
              /\ curr_obj \in Caller \ Gone /\ status' = "ocLoggingOn"
              /\ c = ip[curr_obj]
    PROVE  IInv'
<1> USE NullAssumption
<1> DEFINE f == <<"disconnect", c, NULL>>
<1>1. Typed /\ TwoWay /\ MasterFree
  BY DEF IInv
<1>2. f \in Frame /\ f[1] = "disconnect" /\ f[2] = c
  BY DEF Frame, Calls, Ptr
<1>3. /\ frames' \in Seq(Frame) /\ frames' # << >> /\ Len(frames') = 2
      /\ frames'[1] = g /\ frames'[2] = f /\ DOMAIN frames' = {1, 2}
  BY <1>2
<1>4. Typed' /\ TwoWay' /\ MasterFree'
  BY <1>1, <1>3 DEF Typed, Frame, Slot, Ptr, TwoWay, Used, Interactive, MasterFree, Backend
<1>5. Nesting'
  BY <1>2, <1>3 DEF Nesting, FrameOK, Slot
<1>6. Replacing'
  BY <1>2, <1>3 DEF Replacing, Interactive, Gone, Slot
<1>7. QED
  BY <1>4, <1>5, <1>6 DEF IInv

LEMMA OutConnectedKeeps ==
    ASSUME IInv, NEW c \in Slot, OutConnected(c)
    PROVE  IInv'
<1> USE NullAssumption, RolesAssumption
<1>1. Typed /\ TwoWay
  BY DEF IInv
<1>2. /\ Backend /\ status' = "ocLoggingOn" /\ ob[c] = NULL /\ ~Interactive(master_ob)
      /\ curr_obj \in Obj /\ curr_obj \notin destructed /\ curr_obj \in Caller \ Gone
  BY <1>1 DEF OutConnected, Waiting, FirstFree, Used, Live, Typed, Gone
<1>3. CASE Interactive(curr_obj)
  <2> DEFINE g == <<"new_player", c, NULL>>
  <2>1. /\ Removed(ip[curr_obj], <<g>>)
        /\ UNCHANGED <<curr_obj, destructed, newly_destructed>>
    BY <1>3 DEF OutConnected, life
  <2>2. ip[curr_obj] \in Slot /\ ob[ip[curr_obj]] = curr_obj
    BY <1>1, <1>2, <1>3 DEF Typed, TwoWay, Interactive
  <2>3. frames' = << g, <<"disconnect", ip[curr_obj], NULL>> >> /\ UNCHANGED <<ob, ip>>
    BY <1>2, <2>1, <2>2 DEF Removed
  <2>4. g \in Frame /\ g[1] = "new_player" /\ g[2] = c
    BY DEF Frame, Ptr
  <2>5. PICK d \in Slot : d = ip[curr_obj]
    BY <2>2
  <2>6. frames' = << g, <<"disconnect", d, NULL>> >>
    BY <2>3, <2>5
  <2> HIDE DEF g
  <2>7. QED
    BY <1>2, <2>1, <2>3, <2>4, <2>5, <2>6, TwoCallsKeep
<1>4. CASE ~Interactive(curr_obj)
  <2>1. OutLinked(c)
    BY <1>4 DEF OutConnected
  <2>2. QED
    BY <1>2, <1>4, <2>1, OutLinkedKeeps
<1>5. QED
  BY <1>3, <1>4

LEMMA OutReplacedKeeps ==
    ASSUME IInv, OutReplaced
    PROVE  IInv'
<1>1. Typed /\ TwoWay /\ Nesting /\ MasterFree /\ Replacing
  BY DEF IInv
<1>2. frames # << >> /\ Top[1] = "new_player" /\ OutLinked(Top[2]) /\ status' = status
  BY DEF OutReplaced, In
<1>3. PICK n \in Nat : Len(frames) = n + 1 /\ n = 0 /\ Top = frames[1]
  <2>1. PICK n \in Nat : Len(frames) = n + 1 /\ n = 0 /\ Top = frames[n + 1]
    BY <1>1, <1>2, TopFacts
  <2>2. QED
    BY <2>1
<1>4. Returned = << >>
  BY <1>1, <1>3, PopFacts DEF Returned, Typed, Frame
<1>5. /\ Top[2] \in Slot /\ ob[Top[2]] = NULL
      /\ curr_obj \in Caller \ Gone /\ status' = "ocLoggingOn"
      /\ ~Interactive(curr_obj)
  <2>1. ~(Len(frames) > 1)
    BY <1>3
  <2>2. QED
    BY <1>1, <1>2, <1>3, <2>1 DEF Replacing
<1>6. ~Interactive(master_ob)
  BY <1>1, <1>2, <1>3 DEF MasterFree
<1>7. QED
  BY <1>2, <1>4, <1>5, <1>6, OutLinkedKeeps

LEMMA OutCleanUpKeeps ==
    ASSUME IInv, OutCleanUp
    PROVE  IInv'
<1> USE NullAssumption, RolesAssumption
<1>1. Typed /\ TwoWay /\ MasterFree
  BY DEF IInv
<1>2. Backend /\ frames = << >> /\ curr_obj \in Obj
  BY <1>1 DEF OutCleanUp, Backend, Typed
<1>3. CASE ~Interactive(curr_obj)
  <2>1. /\ UNCHANGED <<ob, ip, destructed, newly_destructed>> /\ frames' = << >>
        /\ curr_obj' = NULL
    BY <1>2, <1>3 DEF OutCleanUp, OutDone, slots, life
  <2>2. frames' \in Seq(Frame) /\ Nesting' /\ Replacing'
    BY <2>1, NoCall
  <2>3. Typed' /\ TwoWay' /\ MasterFree'
    BY <1>1, <1>2, <2>1, <2>2
       DEF Typed, Frame, Slot, Ptr, TwoWay, Used, MasterFree, Interactive
  <2>4. QED
    BY <2>2, <2>3 DEF IInv
<1>4. CASE Interactive(curr_obj)
  <2> DEFINE g == <<"clean_up", NULL, NULL>>
  <2>1. /\ Removed(ip[curr_obj], <<g>>)
        /\ UNCHANGED <<curr_obj, destructed, newly_destructed>>
    BY <1>4 DEF OutCleanUp, life
  <2>2. ip[curr_obj] \in Slot /\ ob[ip[curr_obj]] = curr_obj
    BY <1>1, <1>2, <1>4 DEF Typed, TwoWay, Interactive
  <2>3. g \in Frame /\ FrameOK(g)' /\ g[1] = "clean_up"
    BY DEF Frame, Ptr, FrameOK
  <2>4. CASE curr_obj \in destructed
    <3>1. TakenDown(ip[curr_obj]) /\ frames' = <<g>>
      BY <2>1, <2>2, <2>4 DEF Removed
    <3>2. \A x \in Obj : x \in Gone' => x \in Gone \/ x = ob[ip[curr_obj]]
      BY <2>1 DEF Gone
    <3>3. PICK d \in Slot : d = ip[curr_obj]
      BY <2>2
    <3>4. /\ ob' \in [Slot -> Ptr] /\ ip' \in [Obj -> Slot \cup {NULL}] /\ TwoWay'
          /\ \A x \in Obj : ip'[x] \in {NULL, ip[x]}
      BY <1>1, <3>1, <3>2, <3>3, TakingDownKeeps
    <3>5. /\ frames' \in Seq(Frame) /\ frames' # << >> /\ frames'[1] = g
          /\ Nesting' /\ Replacing'
      BY <2>3, <3>1, OneCall
    <3>6. ip'[master_ob] = NULL
      BY <1>1, <1>2, <3>4 DEF MasterFree, Interactive
    <3>7. Typed' /\ MasterFree'
      BY <1>1, <2>1, <3>4, <3>5, <3>6 DEF Typed, Frame, Slot, Ptr, MasterFree, Interactive
    <3>8. QED
      BY <3>4, <3>5, <3>7 DEF IInv
  <2>5. CASE curr_obj \notin destructed
    <3>1. frames' = << g, <<"disconnect", ip[curr_obj], NULL>> >> /\ UNCHANGED <<ob, ip>>
      BY <2>1, <2>2, <2>5 DEF Removed
    <3>2. PICK d \in Slot : d = ip[curr_obj]
      BY <2>2
    <3>3. frames' = << g, <<"disconnect", d, NULL>> >>
      BY <3>1, <3>2
    <3> HIDE DEF g
    <3>4. QED
      BY <1>2, <2>1, <2>3, <3>1, <3>3, TwoCallsKeep
  <2>6. QED
    BY <2>4, <2>5
<1>5. QED
  BY <1>3, <1>4

(* No step of the driver or of LPC code breaks the invariant.              *)
LEMMA StepKeeps ==
    ASSUME IInv, [Next]_vars
    PROVE  IInv'
<1> USE NullAssumption, RolesAssumption
<1>1. Typed /\ TwoWay /\ MasterFree /\ Nesting /\ Replacing
  BY DEF IInv
<1>2. CASE Execed
  BY <1>2, ReturnKeeps DEF Execed, In, slots, life, outconn
<1>3. CASE Rejected
  BY <1>3, RejectedKeeps
<1>4. CASE Disconnected
  BY <1>4, DisconnectedKeeps
<1>5. CASE Evaluate
  <2> DEFINE f == <<"lpc", NULL, NULL>>
  <2>1. frames' = <<f>> /\ UNCHANGED <<ob, ip, life, outconn>> /\ frames = << >>
    BY <1>5 DEF Evaluate, Backend, Called, slots
  <2>2. f \in Frame /\ FrameOK(f)' /\ f[1] = "lpc"
    BY DEF Frame, Calls, Ptr, FrameOK
  <2>3. frames' \in Seq(Frame) /\ Nesting' /\ Replacing'
    BY <2>1, <2>2, OneCall
  <2>4. Typed' /\ TwoWay' /\ MasterFree'
    BY <1>1, <2>1, <2>3
       DEF Typed, Frame, Slot, Ptr, TwoWay, Used, MasterFree, Interactive, life, outconn
  <2>5. QED
    BY <2>3, <2>4 DEF IInv
<1>6. CASE Return
  BY <1>6, ReturnKeeps DEF Return, In, slots, life, outconn
<1>7. CASE Exec
  BY <1>7, ExecKeeps
<1>8. CASE Refused
  BY <1>8, ReturnKeeps DEF Refused, In, slots, life, outconn
<1>9. CASE StopSnoop \/ StartSnoop \/ OnlyEndSnoop
  BY <1>9, ReturnKeeps DEF StopSnoop, StartSnoop, OnlyEndSnoop, In, slots, life, outconn
<1>10. CASE OutGivenUp \/ OutFailed
  <2>1. /\ frames = << >> /\ UNCHANGED <<ob, ip, life>>
        /\ curr_obj' \in Caller \cup {NULL}
    BY <1>1, <1>10 DEF OutGivenUp, OutFailed, Waiting, Backend, OutDone, slots, Typed
  <2>2. frames' \in Seq(Frame) /\ Nesting' /\ Replacing'
    <3>1. CASE OutGivenUp
      BY <2>1, <3>1, NoCall DEF OutGivenUp
    <3>2. CASE OutFailed
      <4> PICK o : o = curr_obj
        OBVIOUS
      <4>1. frames' = << <<"logon", o, NULL>> >> /\ o \in Obj
        BY <2>1, <3>2 DEF OutFailed, Called, Live
      <4>2. <<"logon", o, NULL>> \in Frame /\ FrameOK(<<"logon", o, NULL>>)'
        BY <4>1 DEF Frame, Calls, Ptr, FrameOK
      <4>3. QED
        BY <4>1, <4>2, OneCall
    <3>3. QED
      BY <1>10, <3>1, <3>2
  <2>3. Typed' /\ TwoWay' /\ MasterFree'
    BY <1>1, <2>1, <2>2
       DEF Typed, Frame, Slot, Ptr, TwoWay, Used, MasterFree, Interactive, life
  <2>4. QED
    BY <2>2, <2>3 DEF IInv
<1>11. CASE OutReplaced
  BY <1>11, OutReplacedKeeps
<1>12. CASE LoggedOn
  BY <1>12, ReturnKeeps DEF LoggedOn, In, OutDone, slots, life, outconn
<1>13. CASE LogonError
  <2>1. /\ frames' = << >> /\ UNCHANGED <<ob, ip, life, outconn>>
        /\ frames # << >> /\ Top[1] = "logon"
    BY <1>13 DEF LogonError, In, slots
  <2>2. PICK n \in Nat : n = 0 /\ Top = frames[n + 1]
    BY <1>1, <2>1, TopFacts
  <2>3. ~Interactive(master_ob)
    BY <1>1, <2>1, <2>2 DEF MasterFree
  <2>4. frames' \in Seq(Frame) /\ Nesting' /\ Replacing'
    BY <2>1, NoCall
  <2>5. Typed' /\ TwoWay' /\ MasterFree'
    BY <1>1, <2>1, <2>3, <2>4
       DEF Typed, Frame, Slot, Ptr, TwoWay, Used, MasterFree, Interactive, life, outconn
  <2>6. QED
    BY <2>4, <2>5 DEF IInv
<1>14. CASE OutCleanUp
  BY <1>14, OutCleanUpKeeps
<1>15. CASE OutCleanedUp
  BY <1>1, <1>15, ReturnKeeps DEF OutCleanedUp, In, slots, life, Typed
<1>16. CASE \E c \in Slot : Accept(c) \/ Close(c) \/ OutConnected(c)
  <2>1. PICK c \in Slot : Accept(c) \/ Close(c) \/ OutConnected(c)
    BY <1>16
  <2>2. CASE Close(c)
    <3>1. /\ ob[c] # NULL /\ Removed(c, << >>) /\ Backend
          /\ UNCHANGED <<destructed, newly_destructed, curr_obj, status>>
      BY <2>2 DEF Close, Used, outconn, life
    <3>2. QED
      BY <3>1, ClosingKeeps
  <2>3. QED
    BY <2>1, <2>2, AcceptKeeps, OutConnectedKeeps
<1>17. CASE \E o \in Obj : \/ Rebind(o) \/ RemoveObject(o) \/ Recycle(o)
                            \/ Destruct(o) \/ MarkToClose(o) \/ NetConnect(o)
  <2>1. PICK o \in Obj : \/ Rebind(o) \/ RemoveObject(o) \/ Recycle(o)
                         \/ Destruct(o) \/ MarkToClose(o) \/ NetConnect(o)
    BY <1>17
  <2>2. CASE MarkToClose(o)
    BY <1>1, <2>2
       DEF MarkToClose, outconn, life, IInv, Typed, Slot, Ptr, TwoWay, Used,
           Interactive, MasterFree, Nesting, FrameOK, Replacing, Gone
  <2>3. CASE NetConnect(o)
    <3>1. /\ UNCHANGED <<ob, ip, life, frames>> /\ status = "ocNotUsed"
          /\ curr_obj' \in Caller
      BY <2>3 DEF NetConnect, slots
    <3>2. Replacing'
      BY <1>1, <3>1 DEF Replacing
    <3>3. Typed' /\ TwoWay' /\ MasterFree' /\ Nesting'
      BY <1>1, <3>1
         DEF Typed, Slot, Ptr, TwoWay, Used, MasterFree, Interactive, Nesting, FrameOK,
             Gone, life
    <3>4. QED
      BY <3>2, <3>3 DEF IInv
  <2>4. QED
    BY <2>1, <2>2, <2>3, RebindKeeps, LifeKeeps
<1>18. CASE \E x, y \in Obj : AskToExec(x, y)
  <2>1. PICK x \in Obj, y \in Obj : AskToExec(x, y)
    BY <1>18
  <2> DEFINE f == <<"valid_exec", x, y>>
  <2>2. /\ frames # << >> /\ frames' = Append(frames, f)
        /\ UNCHANGED <<ob, ip, curr_obj, status, destructed, newly_destructed>>
        /\ x \in User \ Gone
    BY <2>1 DEF AskToExec, LPC, Called, Live, Gone, slots, life, outconn
  <2>3. f \in Frame /\ FrameOK(f) /\ f[1] = "valid_exec"
    BY <2>2 DEF Frame, Calls, Ptr, FrameOK
  <2>4. QED
    BY <2>2, <2>3, AskingKeeps
<1>19. CASE \E x \in Obj, y \in Obj \cup {NULL} : AskToSnoop(x, y)
  <2>1. PICK x \in Obj, y \in Obj \cup {NULL} : AskToSnoop(x, y)
    BY <1>19
  <2> DEFINE f == <<"valid_snoop", x, y>>
  <2>2. /\ frames # << >> /\ frames' = Append(frames, f)
        /\ UNCHANGED <<ob, ip, curr_obj, status, destructed, newly_destructed>>
    BY <2>1 DEF AskToSnoop, LPC, Called, slots, life, outconn
  <2>3. f \in Frame /\ FrameOK(f) /\ f[1] = "valid_snoop"
    BY DEF Frame, Calls, Ptr, FrameOK
  <2>4. QED
    BY <2>2, <2>3, AskingKeeps
<1>20. CASE UNCHANGED vars
  BY <1>1, <1>20
     DEF vars, slots, outconn, life, IInv, Typed, Slot, Ptr, TwoWay, Used, Interactive,
         MasterFree, Nesting, FrameOK, Replacing, Gone
<1>21. QED
  BY <1>2, <1>3, <1>4, <1>5, <1>6, <1>7, <1>8, <1>9, <1>10, <1>11, <1>12, <1>13,
     <1>14, <1>15, <1>16, <1>17, <1>18, <1>19, <1>20 DEF Next

LEMMA InitHolds == Init => IInv
<1> USE NullAssumption, RolesAssumption
<1> SUFFICES ASSUME Init PROVE IInv
  OBVIOUS
<1>1. /\ ob = [c \in Slot |-> NULL] /\ ip = [o \in Obj |-> NULL] /\ curr_obj = NULL
      /\ destructed = {} /\ newly_destructed = {} /\ frames = << >>
  BY DEF Init
<1>2. frames \in Seq(Frame) /\ DOMAIN frames = {}
  BY <1>1, EmptySeq
<1>3. Typed
  BY <1>1, <1>2 DEF Typed, Ptr, Frame
<1>4. TwoWay /\ MasterFree
  BY <1>1 DEF TwoWay, Used, Interactive, MasterFree
<1>5. Nesting /\ Replacing
  BY <1>1, <1>2 DEF Nesting, Replacing
<1>6. QED
  BY <1>3, <1>4, <1>5 DEF IInv

-----------------------------------------------------------------------------
(* ----- The theorems ---------------------------------------------------- *)
(* The invariant holds in every state the driver reaches.                  *)
THEOREM ConnectionsInvariant == Spec => []IInv
<1>1. Init => IInv
  BY InitHolds
<1>2. IInv /\ [Next]_vars => IInv'
  BY StepKeeps
<1>3. QED
  BY <1>1, <1>2, PTL DEF Spec

(* However many objects exec(), destruct and connect in which call of the  *)
(* driver, a connection and its object know each other, and an object that *)
(* has been removed is known to no connection (comm.c, new_player(),       *)
(* remove_interactive(), f_exec()).                                        *)
THEOREM TwoWayHolds == Spec => []TwoWay
<1>1. IInv => TwoWay
  BY DEF IInv
<1>2. QED
  BY <1>1, ConnectionsInvariant, PTL

(* The connection of the master object is the one whose connect() or       *)
(* disconnect() is the first call in progress, so the check of             *)
(* new_player() (comm.c:3546) turns nobody away for ever.                  *)
THEOREM MasterIsFree == Spec => []MasterFree
<1>1. IInv => MasterFree
  BY DEF IInv
<1>2. QED
  BY <1>1, ConnectionsInvariant, PTL
=============================================================================
