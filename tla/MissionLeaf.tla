---------------------------- MODULE MissionLeaf -----------------------------
(***************************************************************************)
(* What the leaves of a mission tree have in common: a leaf is one object  *)
(* that the tree starts, ticks, halts and starts again, so that what an    *)
(* activation does not reset is still there in the next.                   *)
(*                                                                         *)
(* A tick reads the camera's latest frame, the errors of the controller    *)
(* and the clock.  What it finds in them (a bearing, a range, a distance   *)
(* travelled) is chosen freely.  The deadline is counted in ticks, any     *)
(* other period may or may not have passed.  The kill switch is not seen   *)
(* here: MissionNode::execute tests it under the lock of the tick, so a    *)
(* tick never finds the vehicle killed, and a kill halts the leaf.         *)
(***************************************************************************)
EXTENDS Naturals

CONSTANTS
  Leaves,     \* the leaves: [name, ports], the ports being the options set
  Deadline,   \* bound: ticks until a leaf times out
  Frames,     \* how many frames it takes where a leaf wants more than one
  Steps       \* bound: the last step of a sweep, counted from 0

\* The leaves that end when the controller reports the vehicle arrived, and
\* those that let time, a rate or a speed decide.
ArrivalNames ==
  {"PosSetpoint", "AttSetpoint", "AddAttSetpoint", "AltitudeSetpoint", "MoveRelative",
   "NavigateToTransform"}
MotionNames == ArrivalNames \cup {"TimedVelocity", "Spin", "WaitUntilHit", "OctagonSurfaceSweep"}

Names ==
  {"WaitForDetection", "SelectGateRole", "SearchForDetection", "AlignToDetection",
   "LateralAlignToDetection", "SweepAngle", "ForwardContinuousAlign",
   "ForwardFixedTransit", "OrientToDetectionAtDist", "SquareUpToGate",
   "DownForwardAlign", "DownSweepAlign", "DownAlignToDetection"} \cup MotionNames

ASSUME LeafAssumption ==
  /\ \A l \in Leaves : l.name \in Names
  /\ Deadline \in Nat
  /\ Frames \in Nat \ {0}
  /\ Steps \in Nat

VARIABLES
  leaf,    \* the leaf, with its ports
  act,     \* its present or last activation: the members of the object
  match    \* the latest frame is of the task asked for, and shows the object

vars == <<leaf, act, match>>

Results == {"success", "failure"}
Phases == {"none", "SURVEY", "SEARCH", "yaw", "sample", "look", "approach", "square",
           "settle", "rise"}
Flags == {"returning", "locked", "velocity_target", "moving", "seen", "seen_close",
          "filtered", "candidate", "settling", "left_points", "lone", "right_next",
          "diverted"}

\* motion: what the activation last asked of the axes it drives, "ahead" being a
\* target that runs ahead of the vehicle and is not meant to be reached; left: until
\* deadline_; unseen: the latest frame is newer than last_processed_; own: a
\* frame arrived since the start; error: what control_errors say since they
\* were last counted; on: the Boolean members that hold; evidence: the frames
\* in agreement that this activation has used up (no member, a history).
Activation ==
  [status : Results \cup {"idle", "running"},
   motion : {"before", "target", "ahead", "hold", "velocity"},
   left : 0 .. Deadline, unseen : BOOLEAN, own : BOOLEAN,
   error : {"stale", "far", "near"}, phase : Phases, on : SUBSET Flags,
   count : 0 .. Frames, accepted : 0 .. Frames, index : 0 .. Steps,
   evidence : 0 .. Frames]

Init ==
  /\ leaf \in Leaves
  /\ act = [status |-> "idle", motion |-> "before", left |-> 0, unseen |-> FALSE,
            own |-> FALSE, error |-> "stale", phase |-> "none", on |-> {},
            count |-> 0, accepted |-> 0, index |-> 0, evidence |-> 0]
  /\ match = FALSE

-----------------------------------------------------------------------------
\* How an activation x goes on.

Running == act.status = "running"
Is(name) == leaf.name = name
Port(option) == option \in leaf.ports

\* onStart, up to what a leaf resets for itself.
Begun == [act EXCEPT !.status = "running", !.motion = "before", !.left = Deadline,
                     !.unseen = FALSE, !.own = FALSE, !.error = "stale", !.evidence = 0]

Ends(x, result) == [x EXCEPT !.status = result]
Asks(x, motion) == [x EXCEPT !.motion = motion]

Sets(x, flag) == [x EXCEPT !.on = @ \cup {flag}]
Clears(x, flags) == [x EXCEPT !.on = @ \ flags]

\* One more, counted no further than anything asks for.
Bump(n) == IF n < Frames THEN n + 1 ELSE n

TimedOut(x) == x.left = 0

\* A frame since the last one processed, or one that came after the start.
NewMatch(x) == match /\ x.unseen
OwnMatch(x) == match /\ x.own

\* The frame is used: it agrees with those before it, or starts over.
Agrees(x) == [x EXCEPT !.unseen = FALSE,
                       !.evidence = IF x.unseen THEN Bump(@) ELSE @]
StartsOver(x) == [x EXCEPT !.unseen = FALSE, !.evidence = 0]
Looks(x) == [x EXCEPT !.unseen = FALSE]

\* A target sent: nothing has arrived there yet.
Commands(x) == [x EXCEPT !.motion = "target", !.evidence = 0]

\* The errors of the controller since the last count of their updates.
CountsUpdates(x) == [x EXCEPT !.error = "stale"]

-----------------------------------------------------------------------------
\* What comes to the leaf from outside.

\* A frame of the camera is processed by its vision node.
Frame ==
  /\ match' \in BOOLEAN
  /\ act' = [act EXCEPT !.unseen = TRUE, !.own = TRUE]
  /\ UNCHANGED leaf

\* The controller reports on the command it follows.
Errors ==
  /\ Running
  /\ \E what \in {"far", "near"} :
        act' = [act EXCEPT !.error = what,
                           !.evidence = IF leaf.name \notin MotionNames THEN @
                                        ELSE IF what = "near" THEN 1 ELSE 0]
  /\ UNCHANGED <<leaf, match>>

\* FrameTimeout: the time runs from the start, or from the first frame on.
Armed == ~Port("after_first_frame") \/ act.own

Time ==
  /\ Running /\ Armed /\ act.left > 0
  /\ ~Port("no_timeout")
  /\ act' = [act EXCEPT !.left = @ - 1]
  /\ UNCHANGED <<leaf, match>>

\* Ports out of range, or no usable camera: nothing is asked for.
Refuse ==
  /\ ~Running
  /\ act' = [Begun EXCEPT !.status = "failure"]
  /\ UNCHANGED <<leaf, match>>
=============================================================================
