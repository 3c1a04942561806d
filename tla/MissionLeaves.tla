--------------------------- MODULE MissionLeaves ----------------------------
(***************************************************************************)
(* The leaves of the mission trees, each by itself: which of them it is,   *)
(* and with which options, is chosen at the beginning.                     *)
(***************************************************************************)
EXTENDS SearchLeaves, ApproachLeaves, DownLeaves, MotionLeaves

\* onStart of each leaf.
Start ==
  /\ ~Running
  /\ \/ Is("WaitForDetection") /\ StartWaitForDetection
     \/ Is("SelectGateRole") /\ StartSelectGateRole
     \/ Is("SearchForDetection") /\ StartSearchForDetection
     \/ Is("AlignToDetection") /\ StartAlignToDetection
     \/ Is("LateralAlignToDetection") /\ StartLateralAlignToDetection
     \/ Is("SweepAngle") /\ StartSweepAngle
     \/ Is("ForwardContinuousAlign") /\ StartForwardContinuousAlign
     \/ Is("ForwardFixedTransit") /\ StartForwardFixedTransit
     \/ Is("OrientToDetectionAtDist") /\ StartOrientToDetectionAtDist
     \/ Is("SquareUpToGate") /\ StartSquareUpToGate
     \/ Is("DownForwardAlign") /\ StartDownForwardAlign
     \/ Is("DownSweepAlign") /\ StartDownSweepAlign
     \/ Is("DownAlignToDetection") /\ StartDownAlignToDetection
     \/ Is("PosSetpoint") /\ StartPosSetpoint
     \/ Is("AttSetpoint") /\ StartAttSetpoint
     \/ Is("AddAttSetpoint") /\ StartAddAttSetpoint
     \/ Is("AltitudeSetpoint") /\ StartAltitudeSetpoint
     \/ Is("MoveRelative") /\ StartMoveRelative
     \/ Is("NavigateToTransform") /\ StartNavigateToTransform
     \/ Is("TimedVelocity") /\ StartTimedVelocity
     \/ Is("Spin") /\ StartSpin
     \/ Is("WaitUntilHit") /\ StartWaitUntilHit
     \/ Is("OctagonSurfaceSweep") /\ StartOctagonSurfaceSweep
  /\ UNCHANGED <<leaf, match>>

\* onRunning of each leaf.
Tick ==
  /\ Running
  /\ \/ Is("WaitForDetection") /\ WaitCheck
     \/ Is("SelectGateRole") /\ SelectGateRoleCheck
     \/ Is("SearchForDetection") /\ SearchCheck
     \/ Is("AlignToDetection") /\ AlignTick
     \/ Is("LateralAlignToDetection") /\ LateralTick(act)
     \/ Is("SweepAngle") /\ SweepAngleTick
     \/ Is("ForwardContinuousAlign") /\ ForwardContinuousAlignTick
     \/ Is("ForwardFixedTransit") /\ ForwardFixedTransitTick
     \/ Is("OrientToDetectionAtDist") /\ OrientTick
     \/ Is("SquareUpToGate") /\ SquareUpTick
     \/ Is("DownForwardAlign") /\ DownForwardAlignTick
     \/ Is("DownSweepAlign") /\ DownSweepAlignTick
     \/ Is("DownAlignToDetection") /\ DownAlignToDetectionTick
     \/ leaf.name \in ArrivalNames /\ CheckErrors
     \/ Is("TimedVelocity") /\ TimedVelocityTick
     \/ Is("Spin") /\ SpinTick
     \/ Is("WaitUntilHit") /\ WaitUntilHitTick
     \/ Is("OctagonSurfaceSweep") /\ OctagonTick
  /\ UNCHANGED <<leaf, match>>

\* The leaves whose onHalted holds, whatever they were doing.
HoldingNames ==
  {"SearchForDetection", "LateralAlignToDetection", "SquareUpToGate", "DownForwardAlign",
   "TimedVelocity"}

\* onHalted of each leaf.
Halted(x) ==
  IF leaf.name \in HoldingNames THEN Asks(x, "hold")
  ELSE IF leaf.name \in {"ForwardContinuousAlign", "ForwardFixedTransit"} THEN Stop(x)
  ELSE IF Is("Spin") THEN HaltedSpin(x)
  ELSE x

\* The tree halts the leaf: a reactive condition, an interrupt, a kill.
Halt ==
  /\ Running
  /\ act' = Ends(Halted(act), "idle")
  /\ UNCHANGED <<leaf, match>>

Next == Start \/ Refuse \/ Tick \/ Halt \/ Frame \/ Errors \/ Time

\* MissionNode::execute ticks every 50 ms while it runs, and time passes.
Fairness == WF_vars(Tick) /\ WF_vars(Time)

Spec == Init /\ [][Next]_vars

FairSpec == Spec /\ Fairness

-----------------------------------------------------------------------------
TypeOK == leaf \in Leaves /\ act \in Activation /\ match \in BOOLEAN

\* What the leaf asks for carries the vehicle on until something else is asked.
Drives(x) == x.motion \in {"velocity", "ahead"}

Contract == INSTANCE ActionNode WITH status <- act.status, driving <- Drives(act)

\* Each leaf keeps the contract of an action that moves the vehicle: a velocity,
\* a rate or a target that runs ahead is in force only while it runs, and every
\* way of ending, onHalted included, replaces it.
KeepsContract == Contract!Spec

\* The frames, or the near report, that an activation needs before it may succeed.
Needed(x) ==
  IF leaf.name \in {"SelectGateRole", "SweepAngle", "OrientToDetectionAtDist"} THEN Frames
  ELSE IF Is("LateralAlignToDetection") /\ ~Port("velocity_alignment") THEN Frames
  ELSE IF Is("DownAlignToDetection") /\ Port("orient") /\ Port("require_orientation") THEN Frames
  ELSE IF leaf.name \in {"WaitForDetection", "SearchForDetection", "AlignToDetection",
                         "LateralAlignToDetection", "SquareUpToGate", "DownSweepAlign",
                         "DownAlignToDetection", "OctagonSurfaceSweep"}
       THEN 1
  ELSE IF Is("DownForwardAlign") /\ Port("sweep") THEN 1
  ELSE IF leaf.name \in ArrivalNames \cup {"Spin"} /\ x.motion = "target" THEN 1
  ELSE 0

\* A leaf succeeds only on what came in its own activation and agrees: frames,
\* as many as it asks for without one that contradicts them, or a report of the
\* controller since the target it ends on was sent (in Spin, not one of the turn).
\* Counters, locked targets and fixes of the activation before, halted or failed,
\* count for nothing.
SucceedsOnEvidence == act.status = "success" => act.evidence >= Needed(act)

\* SquareUpToGate takes medians of what it observed only once there is some: it
\* leaves the phase LOOK with a facing and a point of the left panel.
MediansOfSome ==
  Is("SquareUpToGate") /\ act.status \in {"running", "success"} /\ act.phase # "look"
    => act.count > 0 /\ "left_points" \in act.on

\* ForwardContinuousAlign sets the vehicle moving only after as many frames in a
\* row that show the object as it needs.
MovesOnRow ==
  [][Is("ForwardContinuousAlign") /\ act.motion # "velocity" /\ act'.motion = "velocity"
       => act'.evidence = Frames]_vars

\* A leaf that was started ends: every wait in it has a deadline.  The octagon's
\* turns each have one of their own, a search without a timeout none, and one
\* that counts from the first frame waits for it.
Bounded == ~Is("OctagonSurfaceSweep") /\ ~Port("no_timeout") /\ ~Port("after_first_frame")
EveryLeafEnds == Bounded /\ Running ~> ~Running

\* What an activation has behind it of the stages that are timed each by itself:
\* the looks and turns of a sweep, its passes, the lock on a target, the way back.
Stages(x) ==
  LET one(flag) == IF flag \in x.on THEN 1 ELSE 0
  IN  IF Is("SweepAngle") THEN 2 * x.index + (IF x.phase = "sample" THEN 1 ELSE 0)
      ELSE IF Is("DownSweepAlign") THEN 4 * x.index + 2 * (1 - one("right_next")) + one("moving")
      ELSE IF Is("LateralAlignToDetection") THEN one("locked")
      ELSE IF Is("SearchForDetection") THEN one("returning")
      ELSE 0

\* The time of an activation runs out: a leaf that goes on past its deadline, or
\* gives itself time anew, has a stage behind it, of which there are few.
TimeRunsOut ==
  [][~Is("OctagonSurfaceSweep") /\ Running /\ Running' =>
       \/ Stages(act') > Stages(act)
       \/ Stages(act') = Stages(act) /\ act'.left <= act.left /\ (Tick => act.left > 0 \/ act'.count > act.count)]_vars
=============================================================================
