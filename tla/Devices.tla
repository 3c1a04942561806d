------------------------------- MODULE Devices -------------------------------
(***************************************************************************)
(* The servers of the actuators: sub_low, which writes a line to the board *)
(* and answers; and the simulated torpedo launcher and dropper, which      *)
(* release what is glued in place and may take their time.                 *)
(***************************************************************************)
EXTENDS ServiceCall

VARIABLES
  launched,   \* the torpedoes that have left
  releasing,  \* of each torpedo: the requests its glue is being released for
  launches,   \* of each torpedo: how often it was pushed (a history)
  released,   \* the balls that were dropped
  opened,     \* the droppers opened, and not closed since: with any the servo is told
              \* to open, with none to close
  dropping,   \* the dropper that was opened and still has its ball, or None
  inFlight,   \* the ball whose glue is being released, or None
  turned      \* the gate's servo has turned past release_angle

devices == <<launched, releasing, launches, released, opened, dropping, inFlight, turned>>

DevicesInit ==
  /\ launched = {} /\ releasing = [i \in Items |-> {}] /\ launches = [i \in Items |-> 0]
  /\ released = {} /\ opened = {} /\ dropping = None /\ inFlight = None /\ turned = FALSE

-----------------------------------------------------------------------------
\* SubLow::actuate: not connected, the write fails, or the line is written.
Actuate ==
  /\ service = "actuate"
  /\ \E r \in Request, ok \in BOOLEAN : Takes(r) /\ Responds(r.id, ok)
  /\ UNCHANGED <<service, leaf, future, nextId, devices>>

-----------------------------------------------------------------------------
\* Variant: a torpedo is spent only once it has left.
SpentOnceGone(i) == i \in launched

Spent(i) == i \in launched \/ releasing[i] # {}

\* launch_callback: answered at once, or once the glue has let go.
LaunchCallback ==
  /\ service = "launch"
  /\ \E r \in Request :
       /\ Takes(r)
       /\ \/ ~r.open /\ Responds(r.id, TRUE) /\ UNCHANGED releasing
          \/ r.open /\ Responds(r.id, FALSE) /\ UNCHANGED releasing
          \/ /\ r.open /\ ~Spent(r.item)
             /\ releasing' = [releasing EXCEPT ![r.item] = @ \cup {r.id}]
             /\ UNCHANGED <<answers, done>>
  /\ UNCHANGED <<service, leaf, future, nextId, launched, launches, released, opened,
                 dropping, inFlight, turned>>

\* The glue's answer: pushed, or still in its tube.
GlueAnswers(i, id) ==
  /\ id \in releasing[i]
  /\ releasing' = [releasing EXCEPT ![i] = @ \ {id}]
  /\ \/ /\ launched' = launched \cup {i}
        /\ launches' = [launches EXCEPT ![i] = @ + 1]
        /\ Responds(id, TRUE)
     \/ /\ UNCHANGED <<launched, launches>>
        /\ Responds(id, FALSE)
  /\ UNCHANGED <<service, leaf, future, requests, nextId, released, opened, dropping, inFlight,
                 turned>>

-----------------------------------------------------------------------------
\* Variant: a dropper is opened whatever the other is doing.
MayOpenAlways(i) == i \notin released

MayOpen(i) == i \notin released /\ dropping \in {None, i}

\* set_dropper_callback.  Both droppers share the gate.
SetDropperCallback ==
  /\ service = "drop"
  /\ \E r \in Request :
       /\ Takes(r)
       /\ \/ /\ r.open /\ MayOpen(r.item)
             /\ dropping' = r.item /\ opened' = opened \cup {r.item}
             /\ Responds(r.id, TRUE)
          \/ /\ r.open /\ ~MayOpen(r.item)
             /\ Responds(r.id, FALSE)
             /\ UNCHANGED <<opened, dropping>>
          \/ /\ ~r.open
             /\ dropping' = None /\ opened' = {}
             /\ Responds(r.id, TRUE)
  /\ UNCHANGED <<service, leaf, future, nextId, launched, releasing, launches, released, inFlight,
                 turned>>

\* The servo gets past release_angle, on its way to where it was told to go.
Turn ==
  /\ turned # (opened # {})
  /\ turned' = ~turned
  /\ UNCHANGED <<call, launched, releasing, launches, released, opened, dropping, inFlight>>

\* joint_state_callback, and the glue service is there.
JointStateCallback ==
  /\ dropping # None /\ inFlight = None /\ turned
  /\ inFlight' = dropping
  /\ UNCHANGED <<call, launched, releasing, launches, released, opened, dropping, turned>>

\* The glue's answer; a release that failed is asked for again.
BallLetGo ==
  /\ inFlight # None
  /\ released' = released \cup {inFlight}
  /\ dropping' = IF dropping = inFlight THEN None ELSE dropping
  /\ inFlight' = None
  /\ UNCHANGED <<call, launched, releasing, launches, opened, turned>>

BallStuck ==
  /\ inFlight # None
  /\ inFlight' = None
  /\ UNCHANGED <<call, launched, releasing, launches, released, opened, dropping, turned>>
=============================================================================
