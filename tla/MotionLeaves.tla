---------------------------- MODULE MotionLeaves ----------------------------
(***************************************************************************)
(* The leaves that move without the cameras, and OctagonSurfaceSweep, which *)
(* turns and rises by the controller's errors.                             *)
(***************************************************************************)
EXTENDS MissionLeaf

-----------------------------------------------------------------------------
\* The leaves of ArrivalNames send a target, and wait for the controller to
\* report them near it in errors that came since.  With no axis given there is
\* nothing to wait for.

StartSetpoint(may_be_empty) ==
  \/ act' = CountsUpdates(Commands(Begun))
  \/ may_be_empty /\ act' = Ends(Begun, "success")

StartPosSetpoint == StartSetpoint(Port("no_axes"))
StartAttSetpoint == StartSetpoint(Port("no_axes"))
StartAddAttSetpoint == StartSetpoint(Port("no_axes"))
StartMoveRelative == StartSetpoint(Port("no_axes"))
StartAltitudeSetpoint == StartSetpoint(FALSE)
StartNavigateToTransform == StartSetpoint(FALSE)

\* checkErrors().
CheckErrors ==
  \/ act.error = "near" /\ act' = Ends(act, "success")
  \/ act.error # "near" /\ TimedOut(act) /\ act' = Ends(act, "failure")

-----------------------------------------------------------------------------
\* TimedVelocity.

StartTimedVelocity == act' = Asks(Begun, "velocity")

TimedVelocityTick == TimedOut(act) /\ act' = Ends(Asks(act, "hold"), "success")

-----------------------------------------------------------------------------
\* Spin: a rate, and a target for the last quarter turn.

\* settle().
\* Variant: the errors that were counted during the turn stand.
SettleAtOnce(x) == Sets(Commands(x), "settling")

Settle(x) == CountsUpdates(Sets(Commands(x), "settling"))

StartSpin ==
  \/ act' = Ends(Begun, "success")             \* no turn to speak of
  \/ act' = Settle(Begun)                      \* a short one
  \/ act' = Clears(Asks(Begun, "velocity"), {"settling"})

\* Turned far enough, by the rates reported; then arrived; or out of time,
\* when it holds the heading it got to.
SpinTick ==
  LET settling == "settling" \in act.on
      arrived == settling /\ act.error = "near"
  IN  \/ arrived /\ act' = Ends(act, "success")
      \/ /\ ~settling /\ act.error # "stale"
         /\ act' = IF TimedOut(act) THEN Ends(Commands(Settle(act)), "failure") ELSE Settle(act)
      \/ ~arrived /\ TimedOut(act) /\ act' = Ends(Commands(act), "failure")

\* Variant: halted in the turn, it turns on.
HaltedSpinTurnsOn(x) == x

\* onHalted(): a rate is ended, a target kept.
HaltedSpin(x) == IF "settling" \in x.on THEN x ELSE Asks(x, "hold")

-----------------------------------------------------------------------------
\* WaitUntilHit sends nothing: slow already, slowed down, or out of time.

StartWaitUntilHit == act' \in {Ends(Begun, "success"), Begun}

WaitUntilHitTick ==
  \/ act' = Ends(act, "success")
  \/ TimedOut(act) /\ act' = Ends(act, "failure")

-----------------------------------------------------------------------------
\* OctagonSurfaceSweep: phase "rise" is surfacing_.

Turn(x) == CountsUpdates([Commands(x) EXCEPT !.phase = "yaw", !.left = Deadline])
Rise(x) == CountsUpdates([Commands(x) EXCEPT !.phase = "rise", !.left = Deadline])

StartOctagonSurfaceSweep == act' = Turn(Clears(Begun, {"diverted"}))

\* inspectLatestFrame(), for a frame of the task: rise, or turn aside once.
InspectLatestFrame ==
  \/ act' = Rise(Looks(act))
  \/ "diverted" \notin act.on /\ act' = Turn(Sets(Looks(act), "diverted"))

\* The turn or the rise goes on, or ends.
OctagonGoesOn(x) ==
  \/ TimedOut(x) /\ act' = Ends(x, "failure")
  \/ ~TimedOut(x) /\ x.phase = "rise" /\ x.error = "near" /\ act' = Ends(x, "success")
  \/ ~TimedOut(x) /\ x.phase = "yaw" /\ x.error = "near" /\ act' = Turn(x)
  \/ ~TimedOut(x) /\ x.error # "near" /\ act' = x

OctagonTick ==
  LET inspects == act.phase = "yaw" /\ NewMatch(act)
  IN  \/ inspects /\ (InspectLatestFrame \/ OctagonGoesOn(Looks(act)))
      \/ ~inspects /\ OctagonGoesOn(act)
=============================================================================
