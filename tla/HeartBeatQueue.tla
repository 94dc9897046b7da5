---------------------------- MODULE HeartBeatQueue ----------------------------
(***************************************************************************)
(* What the heart beat list of src/src/heartbeat.c amounts to: a queue of  *)
(* the registered objects in the order in which they will be served.  A    *)
(* served object goes to the end, a new one joins at the end, so nobody is *)
(* overtaken.  A cycle without players forgets the position: the queue is  *)
(* then turned to some other starting point (Turn).                        *)
(***************************************************************************)
EXTENDS Integers, SequencesExt

CONSTANTS Obj, heart_beat_interval,
          MayTurn       \* whether there can be cycles without players

VARIABLES queue,        \* registered objects, the next to be served first
          since         \* seconds since they were served, at most an interval

qvars == <<queue, since>>

Ages == 0 .. heart_beat_interval
Older(age, d) == IF age + d < heart_beat_interval THEN age + d ELSE heart_beat_interval

Init == queue = << >> /\ since = [o \in Obj |-> 0]

Join(o) == /\ o \notin ToSet(queue)
           /\ queue' = Append(queue, o)
           /\ since' = [since EXCEPT ![o] = 0]

Quit(o) == \E k \in 1 .. Len(queue) :
               /\ queue[k] = o
               /\ queue' = RemoveAt(queue, k)
               /\ since' = [since EXCEPT ![o] = 0]

Serve == /\ queue # << >>
         /\ since[Head(queue)] >= heart_beat_interval
         /\ queue' = Append(Tail(queue), Head(queue))
         /\ since' = [since EXCEPT ![Head(queue)] = 0]

Tick(d) == /\ since' = [o \in Obj |->
                          IF o \in ToSet(queue) THEN Older(since[o], d) ELSE 0]
           /\ UNCHANGED queue

Turn == /\ MayTurn
        /\ \E k \in 1 .. Len(queue) :
              queue' = SubSeq(queue, k, Len(queue)) \o SubSeq(queue, 1, k - 1)
        /\ UNCHANGED since

Next == \/ \E o \in Obj : Join(o) \/ Quit(o)
        \/ Serve
        \/ \E d \in Ages : Tick(d)
        \/ Turn

Spec == Init /\ [][Next]_qvars
=============================================================================
