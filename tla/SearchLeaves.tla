---------------------------- MODULE SearchLeaves ----------------------------
(***************************************************************************)
(* The leaves that look for an object and centre on it.                    *)
(***************************************************************************)
EXTENDS MissionLeaf

\* A tick that changes nothing needs no action: RUNNING without a step.

StartWaitForDetection == act' = Begun

WaitCheck ==
  \/ /\ OwnMatch(act)
     /\ act' = Ends(Agrees(act), "success")
  \/ /\ ~OwnMatch(act) /\ TimedOut(act)
     /\ act' = Ends(act, "failure")

-----------------------------------------------------------------------------
\* SelectGateRole: phase is candidate_, count candidate_frames_.

Roles == {"SURVEY", "SEARCH"}

StartSelectGateRole == act' = [Begun EXCEPT !.phase = "none", !.count = 0]

\* The frame's role is that of the candidate, or begins the count again.
CountsRole(role) ==
  LET same == role = act.phase
      n == IF same THEN Bump(act.count) ELSE 1
      x == IF same THEN Agrees(act) ELSE [StartsOver(act) EXCEPT !.evidence = 1]
  IN  act' = [x EXCEPT !.phase = role, !.count = n,
                       !.status = IF n = Frames THEN "success" ELSE @]

SelectGateRoleCheck ==
  \/ /\ TimedOut(act)
     /\ act' = Ends(act, "failure")
  \/ /\ ~TimedOut(act) /\ NewMatch(act)
     /\ \/ act' = [StartsOver(act) EXCEPT !.phase = "none", !.count = 0]
        \/ \E role \in Roles : CountsRole(role)

-----------------------------------------------------------------------------
\* SearchForDetection.  check() finds nothing yet when onStart calls it.

StartSearchForDetection == act' = Clears(Asks(Begun, "velocity"), {"returning"})

SearchCheck ==
  \/ /\ OwnMatch(act)
     /\ act' = Ends(Asks(Agrees(act), "hold"), "success")
  \/ /\ ~OwnMatch(act)
     /\ \/ /\ Port("sweep") /\ "returning" \notin act.on       \* far enough left
           /\ act' = Sets(Asks(act, "velocity"), "returning")
        \/ /\ Port("sweep") /\ "returning" \in act.on          \* and right again
           /\ act' = Ends(Asks(act, "hold"), "failure")
        \/ /\ TimedOut(act)
           /\ act' = Ends(Asks(act, "hold"), "failure")

-----------------------------------------------------------------------------
\* AlignToDetection: one frame within the tolerance is enough.

StartAlignToDetection == act' = Begun

AlignTick ==
  \/ /\ TimedOut(act)
     /\ act' = Ends(act, "failure")
  \/ /\ ~TimedOut(act) /\ NewMatch(act)
     /\ \/ act' = Ends(Agrees(act), "success")
        \/ act' = Asks(StartsOver(act), "target")

-----------------------------------------------------------------------------
\* LateralAlignToDetection.  accepted is accepted_frames_ or, with a target to
\* lock, locked_frames_; count is settled_frames_.

\* Within tolerance: counted until there are enough.
LateralSettles(x) ==
  LET y == [x EXCEPT !.count = Bump(@)]
  IN  IF y.count < Frames THEN y ELSE Ends(y, "success")

\* tickLockedTarget: near the point locked on, or not; a range is left to it.
TickLockedTarget(x) ==
  \/ act' = LateralSettles(x)
  \/ /\ Port("use_detection_distance") /\ x.count + 1 >= Frames
     /\ act' = Ends([x EXCEPT !.count = Bump(@)], "failure")
  \/ act' = [x EXCEPT !.count = 0]

\* tickVelocityTarget: there, or on its way, the velocity sent again at times.
TickVelocityTarget(x) ==
  \/ act' = Ends(Asks(x, "hold"), "success")
  \/ \E y \in {x, Asks(x, "velocity")} : act' = y

\* skipFrame.
SkipFrame(x) ==
  \/ "velocity_target" \in x.on /\ TickVelocityTarget(x)
  \/ "velocity_target" \notin x.on /\ act' = x

\* filterBearing rejects a jump, and the frames counted towards a lock with it.
RejectBearing(x) ==
  IF Port("lock_target") THEN SkipFrame([StartsOver(x) EXCEPT !.accepted = 0])
  ELSE SkipFrame(Looks(x))

\* lockTarget.
LockTarget(x) ==
  LET y == Asks(Sets([x EXCEPT !.count = 0], "locked"), "target")
  IN  IF Port("reset_timeout_on_lock") THEN [y EXCEPT !.left = Deadline] ELSE y

\* A frame whose bearing filterBearing takes.
Accepted(x) == Sets([Agrees(x) EXCEPT !.accepted = Bump(@)], "filtered")

\* A frame counted towards the lock.
AcceptForLock(x) ==
  LET y == Accepted(x)
  IN  \/ y.accepted < Frames /\ act' = y
      \/ y.accepted = Frames /\ TickLockedTarget(LockTarget(y))

\* A frame to move by: settled, or a correction.
AcceptForMove(x) ==
  LET y == Accepted(x)
      velocity == Port("velocity_alignment")
      off == [y EXCEPT !.count = 0]
  IN  \/ act' = LateralSettles(IF velocity THEN Asks(y, "hold") ELSE y)
      \/ velocity /\ y.accepted < Frames /\ act' = off
      \/ velocity /\ y.accepted = Frames /\ TickVelocityTarget(Sets(off, "velocity_target"))
      \/ ~velocity /\ \E z \in {off, Asks(off, "target")} : act' = [z EXCEPT !.evidence = 0]

LateralWithoutMatch(x) ==
  \/ "velocity_target" \in x.on /\ TickVelocityTarget(x)
  \/ Port("loss") /\ act' = Ends(Asks(x, "hold"), "failure")
  \/ "velocity_target" \notin x.on /\ act' = x

LateralTick(x) ==
  \/ /\ TimedOut(x)
     /\ act' = Ends(Asks(x, "hold"), "failure")
  \/ /\ ~TimedOut(x) /\ "locked" \in x.on
     /\ TickLockedTarget(x)
  \/ /\ ~TimedOut(x) /\ "locked" \notin x.on /\ ~NewMatch(x)
     /\ LateralWithoutMatch(x)
  \/ /\ ~TimedOut(x) /\ "locked" \notin x.on /\ NewMatch(x)
     /\ \/ Port("use_detection_distance") /\ SkipFrame(Looks(x))     \* no range
        \/ "filtered" \in x.on /\ RejectBearing(x)
        \/ Port("lock_target") /\ AcceptForLock(x)
        \/ ~Port("lock_target") /\ AcceptForMove(x)

\* The frame the tree waited for may still be steered on.
StartLateralAlignToDetection ==
  \E recent \in BOOLEAN :
     LateralTick([Begun EXCEPT !.unseen = recent, !.accepted = 0, !.count = 0, !.on = {}])

-----------------------------------------------------------------------------
\* SweepAngle: index is angle_index_, count detection_count_.

BeginYawMove(x) == CountsUpdates([x EXCEPT !.phase = "yaw", !.left = Deadline])

StartSweepAngle ==
  act' = BeginYawMove([Begun EXCEPT !.index = 0, !.count = 0])

TickYawMove ==
  \/ /\ TimedOut(act)
     /\ act' = Ends(act, "failure")
  \/ /\ ~TimedOut(act) /\ act.error = "near"
     /\ act' = [StartsOver(act) EXCEPT !.phase = "sample", !.count = 0, !.left = Deadline]

TickSampleDetections ==
  \/ /\ NewMatch(act)
     /\ LET x == [Agrees(act) EXCEPT !.count = Bump(@)]
        IN  act' = IF x.count = Frames THEN Ends(x, "success") ELSE x
  \/ /\ TimedOut(act)          \* nothing, or nothing on the side asked for
     /\ act' = IF act.index < Steps THEN BeginYawMove([act EXCEPT !.index = @ + 1])
               ELSE Ends(act, "failure")

SweepAngleTick ==
  \/ act.phase = "yaw" /\ TickYawMove
  \/ act.phase = "sample" /\ TickSampleDetections
=============================================================================
