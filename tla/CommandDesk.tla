---------------------------- MODULE CommandDesk ----------------------------
(***************************************************************************)
(* What a sender of setpoints may rely on of sub_control, whatever the     *)
(* switch, the EKF and the sensors do: while it is not armed a command is  *)
(* rejected, while the pose is being reset it waits its turn, and once the *)
(* node holds it is taken up at once.  Nothing that waits is overtaken,    *)
(* lost or left unacknowledged, but for a release or a restart, which drop *)
(* all of it.                                                              *)
(***************************************************************************)
EXTENDS Naturals, Sequences

CONSTANT Ids   \* of commands; 0 is of one without

VARIABLES
  desk,    \* "closed" (killed or not armed), "queueing" or "open"
  queue,   \* the ids of the commands that wait
  ack      \* the id acknowledged last, and whether as rejected

deskVars == <<desk, queue, ack>>

Init == desk = "closed" /\ queue = <<>> /\ ack = [id |-> 0, rejected |-> FALSE]

\* A kill.  What waits is of no more use, but still there.
Close == desk' = "closed" /\ UNCHANGED <<queue, ack>>

\* A release: what waited is dropped.
Drop == desk = "closed" /\ queue' = <<>> /\ UNCHANGED <<desk, ack>>

\* The node is started again.
Restart == desk' = "closed" /\ queue' = <<>> /\ ack' = [id |-> 0, rejected |-> FALSE]

\* The node arms, with nothing waiting.
Arm ==
  /\ desk = "closed"
  /\ desk' \in {"queueing", "open"}
  /\ queue' = <<>>
  /\ UNCHANGED ack

\* Not armed, or malformed.
Reject ==
  /\ \E id \in Ids \ {0} : ack' = [id |-> id, rejected |-> TRUE]
  /\ UNCHANGED <<desk, queue>>

Enqueue ==
  /\ desk = "queueing"
  /\ \E id \in Ids : queue' = Append(queue, id)
  /\ UNCHANGED <<desk, ack>>

Take ==
  /\ desk = "open"
  /\ \E id \in Ids \ {0}, rejected \in BOOLEAN : ack' = [id |-> id, rejected |-> rejected]
  /\ UNCHANGED <<desk, queue>>

\* reset_pose.
Suspend == desk = "open" /\ desk' = "queueing" /\ UNCHANGED <<queue, ack>>

\* Of the first n that wait, the last with an id.
AcknowledgesLast(n) ==
  \/ \E i \in 1 .. n, rejected \in BOOLEAN :
       /\ queue[i] # 0 /\ \A j \in i + 1 .. n : queue[j] = 0
       /\ ack' = [id |-> queue[i], rejected |-> rejected]
  \/ (\A i \in 1 .. n : queue[i] = 0) /\ UNCHANGED ack

\* The first of those that wait are taken up; the desk opens once none is left.
TakeUp ==
  /\ desk = "queueing"
  /\ \E n \in 0 .. Len(queue) :
        /\ AcknowledgesLast(n)
        /\ queue' = SubSeq(queue, n + 1, Len(queue))
        /\ desk' = "queueing" \/ (desk' = "open" /\ n = Len(queue))

Next == Close \/ Drop \/ Restart \/ Arm \/ Reject \/ Enqueue \/ Take \/ Suspend \/ TakeUp

Spec == Init /\ [][Next]_deskVars
=============================================================================
