--------------------------- MODULE ApproachLeaves ---------------------------
(***************************************************************************)
(* The leaves that move towards what the front camera sees, or through it. *)
(***************************************************************************)
EXTENDS MissionLeaf

\* stop(): a hold, for a vehicle this leaf has set moving.
Stop(x) == IF "moving" \in x.on THEN Clears(Asks(x, "hold"), {"moving"}) ELSE x

Moves(x) == Sets(Asks(x, "velocity"), "moving")

-----------------------------------------------------------------------------
\* ForwardContinuousAlign: count is consecutive_frames_.

StartForwardContinuousAlign ==
  act' = Clears([Begun EXCEPT !.count = 0], {"moving", "seen", "seen_close"})

\* A frame came since the last that showed it, and misses it.
Missed == ~match /\ act.unseen

\* Variant: the row goes on.
RowUnbroken(x) == x

RowBroken(x) == [x EXCEPT !.count = 0]

AfterMiss == IF Missed THEN RowBroken([act EXCEPT !.evidence = 0]) ELSE act

\* A frame shows it: steered on, moved on once there are enough in a row.
ForwardMatch ==
  LET x == Sets([Agrees(act) EXCEPT !.count = Bump(@)], "seen")
      confirmed == x.count = Frames
      y == IF confirmed /\ "moving" \notin x.on THEN Moves(x) ELSE x
  IN  \/ act' = y
      \/ /\ confirmed                        \* and it is close
         /\ act' = IF Port("stop_on_close") THEN Ends(Stop(y), "success")
                   ELSE Sets(y, "seen_close")

\* detection_loss_msec without a frame that shows it.
ForwardLoss(x) ==
  LET passed == Port("loss_is_success") /\ "seen_close" \in x.on
  IN  /\ "seen" \in x.on
      /\ \/ passed /\ act' = Ends(Stop(x), "success")
         \/ ~passed /\ ~Port("continue_on_loss") /\ act' = Ends(Stop(x), "failure")
         \/ ~passed /\ Port("continue_on_loss") /\ act' = Clears(x, {"seen"})

ForwardContinuousAlignTick ==
  \/ act' = Ends(Stop(act), "success")         \* max_dist travelled, or out of time
  \/ ~TimedOut(act) /\ NewMatch(act) /\ ForwardMatch
  \/ ~TimedOut(act) /\ ~NewMatch(act) /\ (act' = AfterMiss \/ ForwardLoss(AfterMiss))

-----------------------------------------------------------------------------
\* ForwardFixedTransit: no frames, a distance along the heading.

StartForwardFixedTransit == act' = Moves(Begun)

\* Passed; or moved backwards, stuck, or out of time.
ForwardFixedTransitTick ==
  \E result \in Results : act' = Ends(Stop(act), result)

-----------------------------------------------------------------------------
\* OrientToDetectionAtDist: count is settled_frames_.

StartOrientToDetectionAtDist ==
  act' = Clears([Begun EXCEPT !.count = 0], {"filtered", "candidate"})

\* A frame used: in the envelope, or a correction once update_msec is over.
Orients(x) ==
  LET y == Sets(x, "filtered")
      n == Bump(y.count)
  IN  \/ act' = [Agrees(y) EXCEPT !.count = n,
                                  !.status = IF n = Frames THEN "success" ELSE @]
      \/ \E z \in {y, Asks(y, "target")} : act' = [StartsOver(z) EXCEPT !.count = 0]

\* confirmed(): near the filtered observation, or the second near a candidate.
Confirmed(x) ==
  \/ "filtered" \in x.on /\ Orients(Clears(x, {"candidate"}))
  \/ /\ "candidate" \in x.on
     /\ Orients(Clears([x EXCEPT !.count = 0, !.evidence = 0], {"candidate"}))

OrientTick ==
  \/ /\ TimedOut(act)
     /\ act' = Ends(act, "failure")
  \/ /\ ~TimedOut(act) /\ NewMatch(act)
     /\ \/ /\ Port("require_heading")          \* without a heading it only looks, or turns
           /\ \E z \in {act, Asks(act, "target")} : act' = Clears(Looks(z), {"candidate"})
        \/ /\ "filtered" \notin act.on         \* no range yet
           /\ act' = Looks(act)
        \/ /\ Port("require_heading")          \* a candidate, to be confirmed
           /\ act' = Sets(Looks(act), "candidate")
        \/ Port("require_heading") /\ Confirmed(act)
        \/ ~Port("require_heading") /\ Orients(act)

-----------------------------------------------------------------------------
\* SquareUpToGate: count is facings_.size().

StartSquareUpToGate ==
  act' = Clears([Begun EXCEPT !.phase = "look", !.count = 0],
                {"left_points", "lone", "settling"})

\* observe(): a facing when both panels are in view and not too slanted; a
\* point of the left panel when it has a range.
Observations(x) ==
  LET facings == {x, [x EXCEPT !.count = Bump(@)]}
      both == facings \cup {Sets(y, "left_points") : y \in facings}
      single == IF "left_points" \in x.on THEN {x} ELSE {x, Sets(x, "lone")}
  IN  both \cup single

\* The time to find the facing is over: what there is must do.
\* Variant: the lone fixes are not fallen back on.
MakesDoEmpty(x) == [x EXCEPT !.count = IF @ = 0 THEN 1 ELSE @]

MakesDo(x) ==
  Sets([x EXCEPT !.count = IF @ = 0 THEN 1 ELSE @], "left_points")

\* approach(): to the standoff point, square there, and still so settle_msec on.
Approach(x) ==
  \/ \E y \in {x, Asks(x, "target")} : act' = Clears(y, {"settling"})
  \/ /\ \E y \in {x, Asks(x, "target")} :
           act' = [Sets(y, "settling") EXCEPT !.phase = "square"]
  \/ act' = Ends([Sets(Asks(x, "target"), "settling") EXCEPT !.phase = "square"], "success")
  \/ \E y \in {x, Asks(x, "target")} :
        act' = [Clears(y, {"settling"}) EXCEPT !.phase = "square"]

\* After the frame of this tick, if there was one.
SquareUpGoesOn(x) ==
  LET complete == x.count = Frames /\ "left_points" \in x.on
      approached == [x EXCEPT !.phase = "approach"]
  IN  \/ x.phase # "look" /\ Approach(x)
      \/ x.phase = "look" /\ complete /\ Approach(approached)
      \/ x.phase = "look" /\ ~complete
         /\ \/ act' = x
            \/ /\ {"left_points", "lone"} \cap x.on = {}
               /\ act' = Ends(Asks(x, "hold"), "failure")
            \/ /\ {"left_points", "lone"} \cap x.on # {}
               /\ Approach(MakesDo(approached))

SquareUpTick ==
  \/ /\ TimedOut(act)
     /\ act' = Ends(Asks(act, "hold"), "failure")
  \/ /\ ~TimedOut(act) /\ NewMatch(act)
     /\ \E x \in Observations(Agrees(act)) :
           \E y \in IF x.phase = "look" THEN {x, Asks(x, "target")} ELSE {x} :
              SquareUpGoesOn(y)
  \/ /\ ~TimedOut(act) /\ ~NewMatch(act)
     /\ \/ Port("loss") /\ act' = Ends(Asks(act, "hold"), "failure")
        \/ SquareUpGoesOn(act)
=============================================================================
