----------------------------- MODULE DownLeaves -----------------------------
(***************************************************************************)
(* The leaves that steer by the down camera.                               *)
(***************************************************************************)
EXTENDS MissionLeaf

-----------------------------------------------------------------------------
\* DownForwardAlign, and DownForwardSweepAlign with the option "sweep".  The
\* targets run ahead of the vehicle.

StartDownForwardAlign == act' = Begun

\* finish().
DownFinish(x) ==
  Ends(Asks(x, "hold"), IF Port("sweep") THEN "failure" ELSE "success")

\* Variant: the deadline is not looked at.
DownForwardAlignTickOn ==
  \/ act' = DownFinish(act)
  \/ /\ Port("sweep") /\ NewMatch(act)
     /\ act' = Ends(Asks(Agrees(act), "hold"), "success")
  \/ /\ ~(Port("sweep") /\ NewMatch(act))
     /\ act' = Asks(IF NewMatch(act) THEN Agrees(act) ELSE act, "ahead")

DownForwardAlignTick ==
  \/ act' = DownFinish(act)                    \* max_dist away, or out of time
  \/ /\ ~TimedOut(act) /\ Port("sweep") /\ NewMatch(act)
     /\ act' = Ends(Asks(Agrees(act), "hold"), "success")
  \/ /\ ~TimedOut(act) /\ ~(Port("sweep") /\ NewMatch(act))
     /\ act' = Asks(IF NewMatch(act) THEN Agrees(act) ELSE act, "ahead")

-----------------------------------------------------------------------------
\* DownSweepAlign: index is completed_sweeps_.

StartDownSweepAlign ==
  act' = Sets(Clears([Begun EXCEPT !.index = 0], {"moving"}), "right_next")

\* beginMove().
BeginMove(x) ==
  Sets(CountsUpdates([Asks(x, "target") EXCEPT !.left = Deadline]), "moving")

\* Variant: passes are not counted.
AtSideUncounted(x) ==
  LET y == [Clears(x, {"moving"}) EXCEPT !.left = Deadline]
  IN  IF "right_next" \in y.on THEN Clears(y, {"right_next"}) ELSE Sets(y, "right_next")

\* At the side: the pass is complete on the left.
AtSide(x) ==
  LET y == [Clears(x, {"moving"}) EXCEPT !.left = Deadline]
  IN  IF "right_next" \in y.on THEN Clears(y, {"right_next"})
      ELSE Sets([y EXCEPT !.index = @ + 1], "right_next")

\* Variant: one pass too many.
SweepsDoneLate == act.index > Steps

SweepsDone == act.index >= Steps

DownSweepAlignTick ==
  \/ /\ NewMatch(act)
     /\ act' = Ends(IF "moving" \in act.on THEN Asks(Agrees(act), "hold") ELSE Agrees(act),
                    "success")
  \/ /\ ~NewMatch(act) /\ "moving" \notin act.on /\ TimedOut(act)
     /\ act' = IF SweepsDone THEN Ends(act, "failure") ELSE BeginMove(act)
  \/ /\ ~NewMatch(act) /\ "moving" \in act.on
     /\ \/ TimedOut(act) /\ act' = Ends(act, "failure")
        \/ ~TimedOut(act) /\ act.error = "near" /\ act' = AtSide(act)

-----------------------------------------------------------------------------
\* DownAlignToDetection: count is orientation_frames_.

StartDownAlignToDetection == act' = [Begun EXCEPT !.count = 0]

\* filterOrientation(): none, one that jumped, or one that agrees.
Orientations(x) ==
  LET anew == [StartsOver(x) EXCEPT !.evidence = 1]
  IN  {[anew EXCEPT !.count = 0], [anew EXCEPT !.count = 1]}
      \cup (IF x.count > 0 THEN {[Agrees(x) EXCEPT !.count = Bump(@)]} ELSE {})

DownAlignToDetectionTick ==
  \/ /\ TimedOut(act)
     /\ act' = Ends(act, "failure")
  \/ /\ ~TimedOut(act) /\ NewMatch(act)
     /\ \E x \in IF Port("orient") THEN Orientations(act) ELSE {Agrees(act)} :
           \/ /\ Port("orient") /\ Port("require_orientation") => x.count = Frames
              /\ act' = Ends(x, "success")
           \/ \E y \in {x, Asks(x, "target")} : act' = y
=============================================================================
