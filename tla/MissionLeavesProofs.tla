------------------------ MODULE MissionLeavesProofs ------------------------
(***************************************************************************)
(* Proofs about MissionLeaves, for every set of leaves and options.        *)
(*                                                                         *)
(* The invariant is about one activation: one that ended does not drive    *)
(* the vehicle, one that succeeded has the evidence it needs, and one that *)
(* runs drives only with the flag by which it will stop, and counts no     *)
(* more than its evidence covers.  Each leaf has its own short form of it  *)
(* (the lemmas after the fields), and each of its steps is followed        *)
(* through the helpers it is made of, one activation at a time.            *)
(***************************************************************************)
EXTENDS MissionLeaves, TLAPS

USE LeafAssumption

\* By what a running activation knows that it drives, and so will stop.
MayDrive(x) ==
  \/ leaf.name \in {"SearchForDetection", "DownForwardAlign", "TimedVelocity"}
  \/ leaf.name \in {"ForwardContinuousAlign", "ForwardFixedTransit"} /\ "moving" \in x.on
  \/ Is("Spin") /\ "settling" \notin x.on
  \/ Is("LateralAlignToDetection") /\ "velocity_target" \in x.on

\* What the counters of a running activation are worth.
Counted(x) ==
  /\ leaf.name \in {"SelectGateRole", "OrientToDetectionAtDist"} => x.count <= x.evidence
  /\ leaf.name = "DownAlignToDetection" /\ Port("orient") => x.count <= x.evidence
  /\ Is("SweepAngle") /\ x.phase = "sample" => x.count <= x.evidence
  /\ leaf.name \in {"WaitForDetection", "SearchForDetection"} => (x.own => x.unseen)
  /\ leaf.name \in MotionNames /\ x.error = "near" => x.evidence = 1
  /\ Is("DownSweepAlign") /\ "moving" \in x.on => x.index < Steps

\* LateralAlignToDetection: a lock has all its frames, a velocity at least one.
AlignsLaterally(x) ==
  /\ "velocity_target" \in x.on => Port("velocity_alignment") /\ ~Port("lock_target") /\ x.evidence > 0
  /\ "locked" \in x.on => Port("lock_target") /\ x.evidence = Frames
  /\ "locked" \notin x.on /\ Port("lock_target") => x.accepted <= x.evidence
  /\ ~Port("lock_target") /\ ~Port("velocity_alignment") => x.count <= x.evidence

\* SquareUpToGate: what it has seen came with a frame, and it left the phase
\* "look" with what it needs.
Squared(x) ==
  /\ x.count > 0 \/ "left_points" \in x.on \/ "lone" \in x.on => x.evidence > 0
  /\ x.phase # "look" => x.count > 0 /\ "left_points" \in x.on

\* The invariant, of an activation x.
Good(x) ==
  /\ x \in Activation
  /\ x.status # "running" => ~Drives(x)
  /\ x.status = "success" => x.evidence >= Needed(x)
  /\ x.status = "running" =>
       /\ Drives(x) => MayDrive(x)
       /\ Counted(x)
       /\ Is("LateralAlignToDetection") => AlignsLaterally(x)
  /\ Is("SquareUpToGate") /\ x.status \in {"running", "success"} => Squared(x)

\* Good, and not as if halted.
Goes(x) == Good(x) /\ x.status # "idle"

Inv == leaf \in Leaves /\ match \in BOOLEAN /\ Good(act)

LEMMA Fields ==
  ASSUME NEW x \in Activation
  PROVE  /\ x.status \in Results \cup {"idle", "running"}
         /\ x.motion \in {"before", "target", "ahead", "hold", "velocity"}
         /\ x.left \in 0 .. Deadline /\ x.unseen \in BOOLEAN /\ x.own \in BOOLEAN
         /\ x.error \in {"stale", "far", "near"} /\ x.phase \in Phases /\ x.on \in SUBSET Flags
         /\ x.count \in 0 .. Frames /\ x.accepted \in 0 .. Frames
         /\ x.index \in 0 .. Steps /\ x.evidence \in 0 .. Frames
         /\ x.evidence \in Nat /\ x.count \in Nat /\ x.accepted \in Nat
  BY DEF Activation

LEMMA BumpFacts ==
  ASSUME NEW n \in 0 .. Frames
  PROVE  /\ Bump(n) \in 0 .. Frames /\ Bump(n) >= n /\ Bump(n) > 0
         /\ n < Frames => Bump(n) = n + 1
         /\ n = Frames => Bump(n) = Frames
         /\ \A m \in 0 .. Frames : m <= n => Bump(m) <= Bump(n)
  BY DEF Bump

LEMMA ZeroFits == 0 \in 0 .. Frames /\ 0 \in 0 .. Steps /\ Deadline \in 0 .. Deadline /\ 1 \in 0 .. Frames
  OBVIOUS

LEMMA BegunFields ==
  ASSUME act \in Activation
  PROVE  /\ Begun \in Activation
         /\ Begun.status = "running" /\ Begun.motion = "before" /\ Begun.left = Deadline
         /\ Begun.unseen = FALSE /\ Begun.own = FALSE /\ Begun.error = "stale" /\ Begun.evidence = 0
         /\ Begun.phase = act.phase /\ Begun.on = act.on /\ Begun.count = act.count
         /\ Begun.accepted = act.accepted /\ Begun.index = act.index
<1>1. Begun \in Activation
  BY ZeroFits DEF Begun, Activation
<1> QED
  BY <1>1 DEF Begun, Activation

LEMMA EndsFields ==
  ASSUME NEW x \in Activation, NEW result \in Results \cup {"idle"}
  PROVE  LET y == Ends(x, result)
         IN  /\ y \in Activation
             /\ y.status = result
             /\ y.motion = x.motion /\ y.left = x.left /\ y.unseen = x.unseen /\ y.own = x.own
             /\ y.error = x.error /\ y.phase = x.phase /\ y.on = x.on /\ y.count = x.count
             /\ y.accepted = x.accepted /\ y.index = x.index /\ y.evidence = x.evidence
  BY DEF Ends, Activation

LEMMA AsksFields ==
  ASSUME NEW x \in Activation,
         NEW motion \in {"before", "target", "ahead", "hold", "velocity"}
  PROVE  LET y == Asks(x, motion)
         IN  /\ y \in Activation
             /\ y.motion = motion
             /\ y.status = x.status /\ y.left = x.left /\ y.unseen = x.unseen /\ y.own = x.own
             /\ y.error = x.error /\ y.phase = x.phase /\ y.on = x.on /\ y.count = x.count
             /\ y.accepted = x.accepted /\ y.index = x.index /\ y.evidence = x.evidence
  BY DEF Asks, Activation

LEMMA SetsFields ==
  ASSUME NEW x \in Activation, NEW flag \in Flags
  PROVE  LET y == Sets(x, flag)
         IN  /\ y \in Activation
             /\ y.on = x.on \cup {flag}
             /\ y.status = x.status /\ y.motion = x.motion /\ y.left = x.left
             /\ y.unseen = x.unseen /\ y.own = x.own /\ y.error = x.error /\ y.phase = x.phase
             /\ y.count = x.count /\ y.accepted = x.accepted /\ y.index = x.index
             /\ y.evidence = x.evidence
  BY DEF Sets, Activation

LEMMA ClearsFields ==
  ASSUME NEW x \in Activation, NEW flags
  PROVE  LET y == Clears(x, flags)
         IN  /\ y \in Activation
             /\ y.on = x.on \ flags
             /\ y.status = x.status /\ y.motion = x.motion /\ y.left = x.left
             /\ y.unseen = x.unseen /\ y.own = x.own /\ y.error = x.error /\ y.phase = x.phase
             /\ y.count = x.count /\ y.accepted = x.accepted /\ y.index = x.index
             /\ y.evidence = x.evidence
  BY DEF Clears, Activation

LEMMA AgreesFields ==
  ASSUME NEW x \in Activation
  PROVE  LET y == Agrees(x)
         IN  /\ y \in Activation
             /\ y.unseen = FALSE
             /\ y.evidence = IF x.unseen THEN Bump(x.evidence) ELSE x.evidence
             /\ y.status = x.status /\ y.motion = x.motion /\ y.left = x.left /\ y.own = x.own
             /\ y.error = x.error /\ y.phase = x.phase /\ y.on = x.on /\ y.count = x.count
             /\ y.accepted = x.accepted /\ y.index = x.index
  BY BumpFacts DEF Agrees, Activation

LEMMA StartsOverFields ==
  ASSUME NEW x \in Activation
  PROVE  LET y == StartsOver(x)
         IN  /\ y \in Activation
             /\ y.unseen = FALSE
             /\ y.evidence = 0
             /\ y.status = x.status /\ y.motion = x.motion /\ y.left = x.left /\ y.own = x.own
             /\ y.error = x.error /\ y.phase = x.phase /\ y.on = x.on /\ y.count = x.count
             /\ y.accepted = x.accepted /\ y.index = x.index
  BY ZeroFits DEF StartsOver, Activation

LEMMA LooksFields ==
  ASSUME NEW x \in Activation
  PROVE  LET y == Looks(x)
         IN  /\ y \in Activation
             /\ y.unseen = FALSE
             /\ y.status = x.status /\ y.motion = x.motion /\ y.left = x.left /\ y.own = x.own
             /\ y.error = x.error /\ y.phase = x.phase /\ y.on = x.on /\ y.count = x.count
             /\ y.accepted = x.accepted /\ y.index = x.index /\ y.evidence = x.evidence
  BY DEF Looks, Activation

LEMMA CommandsFields ==
  ASSUME NEW x \in Activation
  PROVE  LET y == Commands(x)
         IN  /\ y \in Activation
             /\ y.motion = "target"
             /\ y.evidence = 0
             /\ y.status = x.status /\ y.left = x.left /\ y.unseen = x.unseen /\ y.own = x.own
             /\ y.error = x.error /\ y.phase = x.phase /\ y.on = x.on /\ y.count = x.count
             /\ y.accepted = x.accepted /\ y.index = x.index
  BY ZeroFits DEF Commands, Activation

LEMMA CountsUpdatesFields ==
  ASSUME NEW x \in Activation
  PROVE  LET y == CountsUpdates(x)
         IN  /\ y \in Activation
             /\ y.error = "stale"
             /\ y.status = x.status /\ y.motion = x.motion /\ y.left = x.left
             /\ y.unseen = x.unseen /\ y.own = x.own /\ y.phase = x.phase /\ y.on = x.on
             /\ y.count = x.count /\ y.accepted = x.accepted /\ y.index = x.index
             /\ y.evidence = x.evidence
  BY DEF CountsUpdates, Activation

-----------------------------------------------------------------------------
(* What it is for each leaf. *)

LEMMA GoodWait ==
  ASSUME Is("WaitForDetection"), NEW x
  PROVE  Goes(x) <=>
            /\ x \in Activation /\ x.status # "idle"
            /\ ~Drives(x)
            /\ x.status = "success" => x.evidence >= 1
            /\ x.status = "running" => (x.own => x.unseen)
  BY Fields DEF Good, Goes, Is, MayDrive, Needed, Counted, ArrivalNames, MotionNames

LEMMA GoodSelect ==
  ASSUME leaf.name \in {"SelectGateRole", "OrientToDetectionAtDist"}, NEW x
  PROVE  Goes(x) <=>
            /\ x \in Activation /\ x.status # "idle"
            /\ ~Drives(x)
            /\ x.status = "success" => x.evidence >= Frames
            /\ x.status = "running" => x.count <= x.evidence
  BY Fields DEF Good, Goes, Is, MayDrive, Needed, Counted, ArrivalNames, MotionNames

LEMMA GoodSearch ==
  ASSUME Is("SearchForDetection"), NEW x
  PROVE  Goes(x) <=>
            /\ x \in Activation /\ x.status # "idle"
            /\ x.status # "running" => ~Drives(x)
            /\ x.status = "success" => x.evidence >= 1
            /\ x.status = "running" => (x.own => x.unseen)
  BY Fields DEF Good, Goes, Is, MayDrive, Needed, Counted, ArrivalNames, MotionNames

LEMMA GoodAlign ==
  ASSUME Is("AlignToDetection"), NEW x
  PROVE  Goes(x) <=>
            /\ x \in Activation /\ x.status # "idle"
            /\ ~Drives(x)
            /\ x.status = "success" => x.evidence >= 1
  BY Fields DEF Good, Goes, Is, MayDrive, Needed, Counted, ArrivalNames, MotionNames

LEMMA GoodLateral ==
  ASSUME Is("LateralAlignToDetection"), NEW x
  PROVE  Goes(x) <=>
            /\ x \in Activation /\ x.status # "idle"
            /\ x.status # "running" => ~Drives(x)
            /\ x.status = "success" => x.evidence >= (IF Port("velocity_alignment") THEN 1 ELSE Frames)
            /\ x.status = "running" => (Drives(x) => "velocity_target" \in x.on) /\ AlignsLaterally(x)
  BY Fields DEF Good, Goes, Is, MayDrive, Needed, Counted, ArrivalNames, MotionNames

LEMMA GoodSweepAngle ==
  ASSUME Is("SweepAngle"), NEW x
  PROVE  Goes(x) <=>
            /\ x \in Activation /\ x.status # "idle"
            /\ ~Drives(x)
            /\ x.status = "success" => x.evidence >= Frames
            /\ x.status = "running" => (x.phase = "sample" => x.count <= x.evidence)
  BY Fields DEF Good, Goes, Is, MayDrive, Needed, Counted, ArrivalNames, MotionNames

LEMMA GoodForward ==
  ASSUME leaf.name \in {"ForwardContinuousAlign", "ForwardFixedTransit"}, NEW x
  PROVE  Goes(x) <=>
            /\ x \in Activation /\ x.status # "idle"
            /\ x.status # "running" => ~Drives(x)
            /\ x.status = "running" => (Drives(x) => "moving" \in x.on)
  BY Fields DEF Good, Goes, Is, MayDrive, Needed, Counted, ArrivalNames, MotionNames

LEMMA GoodSquareUp ==
  ASSUME Is("SquareUpToGate"), NEW x
  PROVE  Goes(x) <=>
            /\ x \in Activation /\ x.status # "idle"
            /\ ~Drives(x)
            /\ x.status = "success" => x.evidence >= 1
            /\ x.status \in {"running", "success"} => Squared(x)
  BY Fields DEF Good, Goes, Is, MayDrive, Needed, Counted, ArrivalNames, MotionNames

LEMMA GoodDownForward ==
  ASSUME Is("DownForwardAlign"), NEW x
  PROVE  Goes(x) <=>
            /\ x \in Activation /\ x.status # "idle"
            /\ x.status # "running" => ~Drives(x)
            /\ Port("sweep") /\ x.status = "success" => x.evidence >= 1
  BY Fields DEF Good, Goes, Is, MayDrive, Needed, Counted, ArrivalNames, MotionNames

LEMMA GoodDownSweep ==
  ASSUME Is("DownSweepAlign"), NEW x
  PROVE  Goes(x) <=>
            /\ x \in Activation /\ x.status # "idle"
            /\ ~Drives(x)
            /\ x.status = "success" => x.evidence >= 1
            /\ x.status = "running" => ("moving" \in x.on => x.index < Steps)
  BY Fields DEF Good, Goes, Is, MayDrive, Needed, Counted, ArrivalNames, MotionNames

LEMMA GoodDownAlign ==
  ASSUME Is("DownAlignToDetection"), NEW x
  PROVE  Goes(x) <=>
            /\ x \in Activation /\ x.status # "idle"
            /\ ~Drives(x)
            /\ x.status = "success" => x.evidence >= (IF Port("orient") /\ Port("require_orientation") THEN Frames ELSE 1)
            /\ x.status = "running" => (Port("orient") => x.count <= x.evidence)
  BY Fields DEF Good, Goes, Is, MayDrive, Needed, Counted, ArrivalNames, MotionNames

LEMMA GoodArrival ==
  ASSUME leaf.name \in ArrivalNames, NEW x
  PROVE  Goes(x) <=>
            /\ x \in Activation /\ x.status # "idle"
            /\ ~Drives(x)
            /\ x.status = "success" /\ x.motion = "target" => x.evidence >= 1
            /\ x.status = "running" => (x.error = "near" => x.evidence = 1)
  BY Fields DEF Good, Goes, Is, MayDrive, Needed, Counted, ArrivalNames, MotionNames

LEMMA GoodTimedVelocity ==
  ASSUME Is("TimedVelocity"), NEW x
  PROVE  Goes(x) <=>
            /\ x \in Activation /\ x.status # "idle"
            /\ x.status # "running" => ~Drives(x)
            /\ x.status = "running" => (x.error = "near" => x.evidence = 1)
  BY Fields DEF Good, Goes, Is, MayDrive, Needed, Counted, ArrivalNames, MotionNames

LEMMA GoodSpin ==
  ASSUME Is("Spin"), NEW x
  PROVE  Goes(x) <=>
            /\ x \in Activation /\ x.status # "idle"
            /\ x.status # "running" => ~Drives(x)
            /\ x.status = "success" /\ x.motion = "target" => x.evidence >= 1
            /\ x.status = "running" => (Drives(x) => "settling" \notin x.on) /\ (x.error = "near" => x.evidence = 1)
  BY Fields DEF Good, Goes, Is, MayDrive, Needed, Counted, ArrivalNames, MotionNames

LEMMA GoodWaitUntilHit ==
  ASSUME Is("WaitUntilHit"), NEW x
  PROVE  Goes(x) <=>
            /\ x \in Activation /\ x.status # "idle"
            /\ ~Drives(x)
            /\ x.status = "running" => (x.error = "near" => x.evidence = 1)
  BY Fields DEF Good, Goes, Is, MayDrive, Needed, Counted, ArrivalNames, MotionNames

LEMMA GoodOctagon ==
  ASSUME Is("OctagonSurfaceSweep"), NEW x
  PROVE  Goes(x) <=>
            /\ x \in Activation /\ x.status # "idle"
            /\ ~Drives(x)
            /\ x.status = "success" => x.evidence >= 1
            /\ x.status = "running" => (x.error = "near" => x.evidence = 1)
  BY Fields DEF Good, Goes, Is, MayDrive, Needed, Counted, ArrivalNames, MotionNames

LEMMA InvFacts == ASSUME Inv PROVE act \in Activation /\ Good(act) /\ (Running => Goes(act))
  BY DEF Inv, Good, Goes, Running

\* A new frame counts.
LEMMA NewCounts ==
  ASSUME NEW x \in Activation, x.unseen
  PROVE  Agrees(x).evidence = Bump(x.evidence) /\ Agrees(x).evidence >= 1
<1>1. x.evidence \in 0 .. Frames
  BY Fields
<1>2. Bump(x.evidence) \in 0 .. Frames /\ Bump(x.evidence) > 0
  BY <1>1, BumpFacts
<1>3. Agrees(x).evidence = Bump(x.evidence)
  BY AgreesFields
<1> QED
  BY <1>2, <1>3

-----------------------------------------------------------------------------
(* The leaves that look for an object and centre on it. *)

LEMMA WaitForDetectionGood ==
  ASSUME Inv, Is("WaitForDetection"), StartWaitForDetection \/ (Running /\ WaitCheck)
  PROVE  Goes(act')
<1>1. CASE StartWaitForDetection
  <2>1. act' = Begun /\ act \in Activation
    BY <1>1, InvFacts DEF StartWaitForDetection
  <2>2. act' \in Activation /\ act'.status = "running" /\ act'.motion = "before" /\ act'.own = FALSE
    BY <2>1, BegunFields
  <2> QED
    BY <2>2, GoodWait DEF Drives
<1>2. CASE Running /\ WaitCheck
  <2>1. act \in Activation /\ ~Drives(act) /\ (act.own => act.unseen)
    BY <1>2, InvFacts, GoodWait DEF Running
  <2>2. ASSUME act' = Ends(Agrees(act), "success"), act.unseen PROVE Goes(act')
    <3>1. Agrees(act) \in Activation /\ ~Drives(Agrees(act)) /\ Agrees(act).evidence >= 1
      BY <2>1, <2>2, AgreesFields, NewCounts DEF Drives
    <3> QED
      BY <2>2, <3>1, GoodWait, EndsFields DEF Results, Drives
  <2>3. ASSUME act' = Ends(act, "failure") PROVE Goes(act')
    BY <2>1, <2>3, GoodWait, EndsFields DEF Results, Drives
  <2> QED
    BY <1>2, <2>1, <2>2, <2>3 DEF WaitCheck, OwnMatch
<1> QED
  BY <1>1, <1>2

LEMMA RoleCounted ==
  ASSUME Is("SelectGateRole"), NEW x \in Activation, ~Drives(x), x.status = "running",
         NEW n \in 0 .. Frames, n <= x.evidence, NEW role \in Phases,
         NEW y, y = [x EXCEPT !.phase = role, !.count = n,
                              !.status = IF n = Frames THEN "success" ELSE x.status]
  PROVE  Goes(y)
<1> DEFINE status == IF n = Frames THEN "success" ELSE x.status
<1>1. status \in Results \cup {"idle", "running"}
  BY DEF Results
<1>2. (status = "success" => n = Frames) /\ status # "idle"
  OBVIOUS
<1>3. y = [x EXCEPT !.phase = role, !.count = n, !.status = status]
  OBVIOUS
<1> HIDE DEF status
<1>4. /\ y \in Activation /\ y.motion = x.motion /\ y.count = n /\ y.evidence = x.evidence
      /\ y.status = status
  BY <1>1, <1>3 DEF Activation
<1> QED
  BY <1>2, <1>4, GoodSelect DEF Is, Drives

LEMMA SelectGateRoleGood ==
  ASSUME Inv, Is("SelectGateRole"), StartSelectGateRole \/ (Running /\ SelectGateRoleCheck)
  PROVE  Goes(act')
<1>1. CASE StartSelectGateRole
  <2>1. Begun \in Activation /\ Begun.status = "running" /\ Begun.motion = "before" /\ Begun.evidence = 0
    BY InvFacts, BegunFields
  <2>2. act' = [Begun EXCEPT !.phase = "none", !.count = 0]
    BY <1>1 DEF StartSelectGateRole
  <2>3. /\ act' \in Activation /\ act'.status = "running" /\ act'.motion = "before"
        /\ act'.count = 0 /\ act'.evidence = 0
    BY <2>1, <2>2, ZeroFits DEF Activation, Phases
  <2> QED
    BY <2>3, GoodSelect DEF Is, Drives
<1>2. CASE Running /\ SelectGateRoleCheck
  <2>1. act \in Activation /\ ~Drives(act) /\ act.count <= act.evidence /\ act.status = "running"
    BY <1>2, InvFacts, GoodSelect DEF Running, Is
  <2>2. ASSUME act' = Ends(act, "failure") PROVE Goes(act')
    BY <2>1, <2>2, GoodSelect, EndsFields DEF Results, Drives, Is
  <2>3. ASSUME act' = [StartsOver(act) EXCEPT !.phase = "none", !.count = 0] PROVE Goes(act')
    <3>1. /\ StartsOver(act) \in Activation /\ ~Drives(StartsOver(act))
          /\ StartsOver(act).evidence = 0 /\ StartsOver(act).status = "running"
      BY <2>1, StartsOverFields DEF Drives
    <3>2. /\ act' \in Activation /\ ~Drives(act') /\ act'.count = 0 /\ act'.evidence = 0
          /\ act'.status = "running"
      BY <2>3, <3>1, ZeroFits DEF Activation, Phases, Drives
    <3> QED
      BY <3>2, GoodSelect DEF Is
  <2>4. ASSUME NEW role \in Roles, CountsRole(role), act.unseen PROVE Goes(act')
    <3>1. role \in Phases /\ act.count \in 0 .. Frames /\ act.evidence \in 0 .. Frames
      BY <2>1, Fields DEF Roles, Phases
    <3>2. CASE role = act.phase
      <4> DEFINE x == Agrees(act)
                 n == Bump(act.count)
      <4>1. /\ x \in Activation /\ ~Drives(x) /\ x.status = "running"
            /\ x.evidence = Bump(act.evidence)
        BY <2>1, <2>4, AgreesFields DEF Drives
      <4>2. n \in 0 .. Frames /\ n <= x.evidence
        BY <2>1, <3>1, <4>1, BumpFacts
      <4>3. act' = [x EXCEPT !.phase = role, !.count = n,
                             !.status = IF n = Frames THEN "success" ELSE x.status]
        BY <2>4, <3>2 DEF CountsRole
      <4> HIDE DEF x, n
      <4> QED
        BY <3>1, <4>1, <4>2, <4>3, RoleCounted
    <3>3. CASE role # act.phase
      <4> DEFINE x == [StartsOver(act) EXCEPT !.evidence = 1]
                 n == 1
      <4>1. /\ StartsOver(act) \in Activation /\ ~Drives(StartsOver(act))
            /\ StartsOver(act).status = "running"
        BY <2>1, StartsOverFields DEF Drives
      <4>2. x \in Activation /\ ~Drives(x) /\ x.status = "running" /\ x.evidence = 1
        BY <4>1, ZeroFits DEF Activation, Drives
      <4>3. act' = [x EXCEPT !.phase = role, !.count = n,
                             !.status = IF n = Frames THEN "success" ELSE x.status]
        BY <2>4, <3>3 DEF CountsRole
      <4>4. n \in 0 .. Frames /\ n <= x.evidence
        BY <4>2, ZeroFits
      <4> HIDE DEF x, n
      <4> QED
        BY <3>1, <4>2, <4>3, <4>4, RoleCounted
    <3> QED
      BY <3>2, <3>3
  <2> QED
    BY <1>2, <2>2, <2>3, <2>4 DEF SelectGateRoleCheck, NewMatch
<1> QED
  BY <1>1, <1>2

LEMMA SearchForDetectionGood ==
  ASSUME Inv, Is("SearchForDetection"), StartSearchForDetection \/ (Running /\ SearchCheck)
  PROVE  Goes(act')
<1>1. CASE StartSearchForDetection
  <2>1. Begun \in Activation /\ Begun.status = "running" /\ Begun.own = FALSE
    BY InvFacts, BegunFields
  <2>2. /\ Asks(Begun, "velocity") \in Activation /\ Asks(Begun, "velocity").status = "running"
        /\ Asks(Begun, "velocity").own = FALSE
    BY <2>1, AsksFields
  <2>3. act' \in Activation /\ act'.status = "running" /\ act'.own = FALSE
    BY <1>1, <2>2, ClearsFields DEF StartSearchForDetection
  <2> QED
    BY <2>3, GoodSearch
<1>2. CASE Running /\ SearchCheck
  <2>1. act \in Activation /\ act.status = "running" /\ (act.own => act.unseen)
    BY <1>2, InvFacts, GoodSearch DEF Running
  <2>2. ASSUME act' = Ends(Asks(Agrees(act), "hold"), "success"), act.unseen PROVE Goes(act')
    <3>1. Agrees(act) \in Activation /\ Agrees(act).evidence >= 1
      BY <2>1, <2>2, AgreesFields, NewCounts
    <3>2. /\ Asks(Agrees(act), "hold") \in Activation /\ ~Drives(Asks(Agrees(act), "hold"))
          /\ Asks(Agrees(act), "hold").evidence >= 1
      BY <3>1, AsksFields DEF Drives
    <3> QED
      BY <2>2, <3>2, GoodSearch, EndsFields DEF Results, Drives
  <2>3. ASSUME act' = Ends(Asks(act, "hold"), "failure") PROVE Goes(act')
    <3>1. Asks(act, "hold") \in Activation /\ ~Drives(Asks(act, "hold"))
      BY <2>1, AsksFields DEF Drives
    <3> QED
      BY <2>3, <3>1, GoodSearch, EndsFields DEF Results, Drives
  <2>4. ASSUME act' = Sets(Asks(act, "velocity"), "returning") PROVE Goes(act')
    <3>1. /\ Asks(act, "velocity") \in Activation /\ Asks(act, "velocity").status = "running"
          /\ Asks(act, "velocity").own = act.own /\ Asks(act, "velocity").unseen = act.unseen
      BY <2>1, AsksFields
    <3>2. "returning" \in Flags
      BY DEF Flags
    <3> QED
      BY <2>1, <2>4, <3>1, <3>2, GoodSearch, SetsFields
  <2> QED
    BY <1>2, <2>1, <2>2, <2>3, <2>4 DEF SearchCheck, OwnMatch
<1> QED
  BY <1>1, <1>2

LEMMA AlignToDetectionGood ==
  ASSUME Inv, Is("AlignToDetection"), StartAlignToDetection \/ (Running /\ AlignTick)
  PROVE  Goes(act')
<1>1. CASE StartAlignToDetection
  <2>1. act' \in Activation /\ act'.status = "running" /\ ~Drives(act')
    BY <1>1, InvFacts, BegunFields DEF StartAlignToDetection, Drives
  <2> QED
    BY <2>1, GoodAlign
<1>2. CASE Running /\ AlignTick
  <2>1. act \in Activation /\ act.status = "running" /\ ~Drives(act)
    BY <1>2, InvFacts, GoodAlign DEF Running
  <2>2. ASSUME act' = Ends(act, "failure") PROVE Goes(act')
    BY <2>1, <2>2, GoodAlign, EndsFields DEF Results, Drives
  <2>3. ASSUME act' = Ends(Agrees(act), "success"), act.unseen PROVE Goes(act')
    <3>1. Agrees(act) \in Activation /\ ~Drives(Agrees(act)) /\ Agrees(act).evidence >= 1
      BY <2>1, <2>3, AgreesFields, NewCounts DEF Drives
    <3> QED
      BY <2>3, <3>1, GoodAlign, EndsFields DEF Results, Drives
  <2>4. ASSUME act' = Asks(StartsOver(act), "target") PROVE Goes(act')
    <3>1. StartsOver(act) \in Activation /\ StartsOver(act).status = "running"
      BY <2>1, StartsOverFields
    <3> QED
      BY <2>4, <3>1, GoodAlign, AsksFields DEF Drives
  <2> QED
    BY <1>2, <2>2, <2>3, <2>4 DEF AlignTick, NewMatch
<1> QED
  BY <1>1, <1>2

-----------------------------------------------------------------------------
(* LateralAlignToDetection.  An activation x that goes on, and what may     *)
(* become of it.                                                           *)

Aligns(x) ==
  /\ x \in Activation /\ x.status = "running"
  /\ Drives(x) => "velocity_target" \in x.on
  /\ AlignsLaterally(x)

LEMMA AlignsFacts ==
  ASSUME NEW x, Aligns(x)
  PROVE  /\ x \in Activation /\ x.status = "running"
         /\ x.count \in 0 .. Frames /\ x.evidence \in 0 .. Frames /\ x.accepted \in 0 .. Frames
         /\ Drives(x) => "velocity_target" \in x.on
         /\ "velocity_target" \in x.on
              => Port("velocity_alignment") /\ ~Port("lock_target") /\ x.evidence > 0
         /\ "locked" \in x.on => Port("lock_target") /\ x.evidence = Frames
         /\ "locked" \notin x.on /\ Port("lock_target") => x.accepted <= x.evidence
         /\ ~Port("lock_target") /\ ~Port("velocity_alignment") => x.count <= x.evidence
  BY Fields DEF Aligns, AlignsLaterally

LEMMA AlignsGood ==
  ASSUME Is("LateralAlignToDetection"), NEW x, Aligns(x)
  PROVE  Goes(x)
  BY GoodLateral DEF Aligns

\* An activation may fail once it holds, and so may one that does not drive.
LEMMA FailsGood ==
  ASSUME Is("LateralAlignToDetection"), NEW x \in Activation
  PROVE  /\ Goes(Ends(Asks(x, "hold"), "failure"))
         /\ ~Drives(x) => Goes(Ends(x, "failure"))
         /\ x.evidence > 0 /\ Port("velocity_alignment") => Goes(Ends(Asks(x, "hold"), "success"))
<1>1. /\ Asks(x, "hold") \in Activation /\ ~Drives(Asks(x, "hold"))
      /\ Asks(x, "hold").evidence = x.evidence
  BY AsksFields DEF Drives
<1>2. Goes(Ends(Asks(x, "hold"), "failure"))
  BY <1>1, EndsFields, GoodLateral DEF Results, Drives
<1>3. ~Drives(x) => Goes(Ends(x, "failure"))
  BY EndsFields, GoodLateral DEF Results, Drives
<1>4. x.evidence > 0 /\ Port("velocity_alignment") => Goes(Ends(Asks(x, "hold"), "success"))
  <2>1. x.evidence \in 0 .. Frames
    BY Fields
  <2>2. x.evidence > 0 => x.evidence >= 1
    BY <2>1
  <2> QED
    BY <1>1, <2>2, EndsFields, GoodLateral DEF Results, Drives
<1> QED
  BY <1>2, <1>3, <1>4

\* One more frame within tolerance, or none: the count of a locked or a moving
\* activation says nothing, that of another is covered by the evidence.
LEMMA CountsGood ==
  ASSUME NEW x, Aligns(x), NEW n \in 0 .. Frames,
         ~Port("lock_target") /\ ~Port("velocity_alignment") => n <= x.evidence
  PROVE  Aligns([x EXCEPT !.count = n])
<1> DEFINE y == [x EXCEPT !.count = n]
<1>1. /\ y \in Activation /\ y.status = x.status /\ y.motion = x.motion /\ y.on = x.on
      /\ y.evidence = x.evidence /\ y.accepted = x.accepted /\ y.count = n
  BY AlignsFacts DEF Activation
<1> HIDE DEF y
<1>2. Aligns(y)
  BY <1>1, AlignsFacts DEF Aligns, AlignsLaterally, Drives
<1> QED
  BY <1>2 DEF y

LEMMA SettlesGood ==
  ASSUME Is("LateralAlignToDetection"), NEW x, Aligns(x), ~Drives(x),
         ~Port("lock_target") /\ ~Port("velocity_alignment") => x.count < x.evidence \/ x.evidence = Frames,
         Port("velocity_alignment") => x.evidence >= 1,
         Port("lock_target") => x.evidence = Frames
  PROVE  Goes(LateralSettles(x))
<1> DEFINE n == Bump(x.count)
           y == [x EXCEPT !.count = n]
<1>1. n \in 0 .. Frames /\ (n = Frames \/ n = x.count + 1)
  BY AlignsFacts, BumpFacts DEF Bump
<1>2. ~Port("lock_target") /\ ~Port("velocity_alignment") => n <= x.evidence
  BY <1>1, AlignsFacts, BumpFacts
<1>3. Aligns(y)
  BY <1>1, <1>2, CountsGood
<1>4. y \in Activation /\ y.count = n /\ y.motion = x.motion /\ y.evidence = x.evidence
  BY <1>1, AlignsFacts DEF Activation
<1>5. LateralSettles(x) = IF y.count < Frames THEN y ELSE Ends(y, "success")
  BY DEF LateralSettles
<1> HIDE DEF n, y
<1>6. CASE y.count < Frames
  BY <1>3, <1>5, <1>6, AlignsGood
<1>7. CASE ~(y.count < Frames)
  <2>1. n = Frames
    BY <1>1, <1>4, <1>7
  <2>2. x.evidence >= IF Port("velocity_alignment") THEN 1 ELSE Frames
    BY <1>2, <2>1, AlignsFacts
  <2>3. /\ Ends(y, "success") \in Activation /\ ~Drives(Ends(y, "success"))
        /\ Ends(y, "success").evidence = x.evidence /\ Ends(y, "success").status = "success"
    BY <1>4, EndsFields DEF Results, Drives
  <2> QED
    BY <1>5, <1>7, <2>2, <2>3, GoodLateral
<1> QED
  BY <1>6, <1>7

LEMMA TickLockedGood ==
  ASSUME Is("LateralAlignToDetection"), NEW x, Aligns(x), "locked" \in x.on, TickLockedTarget(x)
  PROVE  Goes(act')
<1>1. Port("lock_target") /\ x.evidence = Frames /\ ~Drives(x)
  BY AlignsFacts
<1>2. ASSUME act' = LateralSettles(x) PROVE Goes(act')
  BY <1>1, <1>2, AlignsFacts, SettlesGood
<1>3. ASSUME NEW n \in 0 .. Frames, NEW y, y = [x EXCEPT !.count = n]
      PROVE  Aligns(y) /\ y \in Activation /\ ~Drives(y)
  <2>1. Aligns(y)
    BY <1>1, <1>3, CountsGood
  <2>2. y.motion = x.motion
    BY <1>3, AlignsFacts DEF Activation
  <2> QED
    BY <1>1, <2>1, <2>2 DEF Aligns, Drives
<1>4. ASSUME act' = Ends([x EXCEPT !.count = Bump(@)], "failure") PROVE Goes(act')
  <2> DEFINE n == Bump(x.count)
             y == [x EXCEPT !.count = n]
  <2>1. n \in 0 .. Frames
    BY AlignsFacts, BumpFacts
  <2>2. act' = Ends(y, "failure")
    BY <1>4
  <2>3. y \in Activation /\ ~Drives(y)
    BY <1>3, <2>1
  <2> HIDE DEF n, y
  <2> QED
    BY <2>2, <2>3, FailsGood
<1>5. ASSUME act' = [x EXCEPT !.count = 0] PROVE Goes(act')
  <2>1. Aligns(act')
    BY <1>3, <1>5, ZeroFits
  <2> QED
    BY <2>1, AlignsGood
<1> QED
  BY <1>2, <1>4, <1>5 DEF TickLockedTarget

LEMMA TickVelocityGood ==
  ASSUME Is("LateralAlignToDetection"), NEW x, Aligns(x), "velocity_target" \in x.on,
         TickVelocityTarget(x)
  PROVE  Goes(act')
<1>1. ASSUME act' = Ends(Asks(x, "hold"), "success") PROVE Goes(act')
  BY <1>1, AlignsFacts, FailsGood
<1>2. ASSUME act' = x PROVE Goes(act')
  BY <1>2, AlignsGood
<1>3. ASSUME act' = Asks(x, "velocity") PROVE Goes(act')
  <2>1. /\ act' \in Activation /\ act'.status = "running" /\ act'.on = x.on
        /\ act'.count = x.count /\ act'.accepted = x.accepted /\ act'.evidence = x.evidence
    BY <1>3, AlignsFacts, AsksFields
  <2>2. AlignsLaterally(act')
    BY <2>1, AlignsFacts DEF AlignsLaterally
  <2>3. Aligns(act')
    BY <2>1, <2>2 DEF Aligns
  <2> QED
    BY <2>3, AlignsGood
<1> QED
  BY <1>1, <1>2, <1>3 DEF TickVelocityTarget

LEMMA SkipFrameGood ==
  ASSUME Is("LateralAlignToDetection"), NEW x, Aligns(x), SkipFrame(x)
  PROVE  Goes(act')
  BY TickVelocityGood, AlignsGood DEF SkipFrame

LEMMA LooksAlign ==
  ASSUME NEW x, Aligns(x)
  PROVE  Aligns(Looks(x))
<1> DEFINE y == Looks(x)
<1>0. x \in Activation /\ x.status = "running"
  BY DEF Aligns
<1>1. /\ y \in Activation /\ y.status = "running" /\ y.motion = x.motion /\ y.on = x.on
      /\ y.count = x.count /\ y.accepted = x.accepted /\ y.evidence = x.evidence
  BY <1>0, LooksFields
<1> HIDE DEF y
<1>2. Aligns(y)
  BY <1>1, AlignsFacts DEF Aligns, AlignsLaterally, Drives
<1> QED
  BY <1>2 DEF y

LEMMA RejectBearingGood ==
  ASSUME Is("LateralAlignToDetection"), NEW x, Aligns(x), "locked" \notin x.on, RejectBearing(x)
  PROVE  Goes(act')
<1>1. CASE Port("lock_target")
  <2> DEFINE y == StartsOver(x)
             z == [y EXCEPT !.accepted = 0]
  <2>1. /\ y \in Activation /\ y.status = "running" /\ y.motion = x.motion /\ y.on = x.on
        /\ y.evidence = 0
    BY AlignsFacts, StartsOverFields
  <2>2. SkipFrame(z)
    BY <1>1 DEF RejectBearing
  <2> HIDE DEF y
  <2>3. /\ z \in Activation /\ z.status = "running" /\ z.motion = x.motion /\ z.on = x.on
        /\ z.evidence = 0 /\ z.accepted = 0
    BY <2>1, ZeroFits DEF Activation
  <2> HIDE DEF z
  <2>4. "velocity_target" \notin x.on /\ ~Drives(x)
    BY <1>1, AlignsFacts
  <2>5. Aligns(z)
    BY <1>1, <2>3, <2>4 DEF Aligns, AlignsLaterally, Drives
  <2> QED
    BY <2>2, <2>5, SkipFrameGood
<1>2. CASE ~Port("lock_target")
  BY <1>2, LooksAlign, SkipFrameGood DEF RejectBearing
<1> QED
  BY <1>1, <1>2

\* A frame is taken: it counts as evidence before it counts towards anything.
LEMMA AcceptedFacts ==
  ASSUME NEW x, Aligns(x), "locked" \notin x.on, x.unseen
  PROVE  LET y == Accepted(x)
         IN  /\ Aligns(y) /\ y.evidence >= 1 /\ "locked" \notin y.on
             /\ y.accepted <= y.evidence \/ ~Port("lock_target")
             /\ (~Port("lock_target") /\ ~Port("velocity_alignment"))
                  => (y.count < y.evidence \/ y.evidence = Frames)
<1> DEFINE u == Agrees(x)
           n == Bump(u.accepted)
           v == [u EXCEPT !.accepted = n]
           y == Accepted(x)
<1>1. /\ u \in Activation /\ u.status = "running" /\ u.motion = x.motion /\ u.on = x.on
      /\ u.count = x.count /\ u.accepted = x.accepted /\ u.evidence = Bump(x.evidence)
      /\ u.evidence >= 1
  <2>1. x \in Activation /\ x.status = "running"
    BY DEF Aligns
  <2>2. u.evidence = Bump(x.evidence) /\ u.evidence >= 1
    BY <2>1, NewCounts
  <2> QED
    BY <2>1, <2>2, AgreesFields
<1>2. /\ n \in 0 .. Frames /\ n = Bump(x.accepted)
      /\ x.accepted <= x.evidence => n <= Bump(x.evidence)
  BY <1>1, AlignsFacts, BumpFacts
<1>3. y = Sets(v, "filtered")
  BY DEF Accepted
<1> HIDE DEF u, n, y
<1>4. /\ v \in Activation /\ v.status = "running" /\ v.motion = x.motion /\ v.on = x.on
      /\ v.count = x.count /\ v.accepted = n /\ v.evidence = u.evidence
  BY <1>1, <1>2 DEF Activation
<1>5. "filtered" \in Flags
  BY DEF Flags
<1> HIDE DEF v
<1>6. /\ y \in Activation /\ y.status = "running" /\ y.motion = x.motion
      /\ y.on = x.on \cup {"filtered"}
      /\ y.count = x.count /\ y.accepted = n /\ y.evidence = Bump(x.evidence) /\ y.evidence >= 1
  BY <1>1, <1>3, <1>4, <1>5, SetsFields
<1>7. Bump(x.evidence) = x.evidence + 1 \/ Bump(x.evidence) = Frames
  BY AlignsFacts, BumpFacts
<1>8. /\ x.evidence \in Nat /\ x.count \in Nat /\ x.evidence <= Frames
  BY AlignsFacts
<1>9. Bump(x.evidence) \in Nat /\ Bump(x.evidence) >= x.evidence
  BY AlignsFacts, BumpFacts
<1>10. AlignsLaterally(y)
  BY <1>2, <1>6, <1>8, <1>9, AlignsFacts DEF AlignsLaterally
<1>11. Aligns(y)
  BY <1>6, <1>10, AlignsFacts DEF Aligns, Drives
<1>12. "locked" \notin y.on
  BY <1>6
<1>13. y.accepted <= y.evidence \/ ~Port("lock_target")
  BY <1>11, <1>12, AlignsFacts
<1>14. (~Port("lock_target") /\ ~Port("velocity_alignment"))
          => (y.count < y.evidence \/ y.evidence = Frames)
  BY <1>6, <1>7, <1>8, AlignsFacts
<1> QED
  BY <1>6, <1>11, <1>12, <1>13, <1>14 DEF y

LEMMA AcceptForLockGood ==
  ASSUME Is("LateralAlignToDetection"), NEW x, Aligns(x), "locked" \notin x.on, x.unseen,
         Port("lock_target"), AcceptForLock(x)
  PROVE  Goes(act')
<1> DEFINE y == Accepted(x)
<1>1. Aligns(y) /\ y.accepted <= y.evidence /\ "locked" \notin y.on
  BY AcceptedFacts
<1>2. CASE act' = y
  BY <1>1, <1>2, AlignsGood
<1>3. CASE y.accepted = Frames /\ TickLockedTarget(LockTarget(y))
  <2> DEFINE u == [y EXCEPT !.count = 0]
             v == Sets(u, "locked")
             w == Asks(v, "target")
             z == LockTarget(y)
  <2>1. z = IF Port("reset_timeout_on_lock") THEN [w EXCEPT !.left = Deadline] ELSE w
    BY DEF LockTarget
  <2>2. TickLockedTarget(z)
    BY <1>3
  <2> HIDE DEF z
  <2>3. y.accepted = Frames
    BY <1>3
  <2> HIDE DEF y
  <2>4. y \in Activation /\ y.evidence \in 0 .. Frames /\ y.status = "running"
    BY <1>1, AlignsFacts
  <2>5. y.evidence = Frames /\ "velocity_target" \notin y.on
    BY <1>1, <2>3, <2>4, AlignsFacts
  <2>6. /\ u \in Activation /\ u.status = "running" /\ u.on = y.on /\ u.evidence = Frames
    BY <2>4, <2>5, ZeroFits DEF Activation
  <2> HIDE DEF u
  <2>7. "locked" \in Flags
    BY DEF Flags
  <2>8. /\ v \in Activation /\ v.status = "running" /\ v.on = y.on \cup {"locked"}
        /\ v.evidence = Frames
    BY <2>6, <2>7, SetsFields
  <2> HIDE DEF v
  <2>9. /\ w \in Activation /\ w.status = "running" /\ w.on = y.on \cup {"locked"}
        /\ w.evidence = Frames /\ w.motion = "target"
    BY <2>8, AsksFields
  <2> HIDE DEF w
  <2>10. /\ z \in Activation /\ z.status = "running" /\ z.on = y.on \cup {"locked"}
         /\ z.evidence = Frames /\ z.motion = "target"
    BY <2>1, <2>9, ZeroFits DEF Activation
  <2>11. "locked" \in z.on /\ "velocity_target" \notin z.on /\ ~Drives(z)
    BY <2>5, <2>10 DEF Drives
  <2>12. Aligns(z)
    BY <2>10, <2>11 DEF Aligns, AlignsLaterally
  <2> QED
    BY <2>2, <2>11, <2>12, TickLockedGood
<1> QED
  BY <1>2, <1>3 DEF AcceptForLock

LEMMA AcceptForMoveGood ==
  ASSUME Is("LateralAlignToDetection"), NEW x, Aligns(x), "locked" \notin x.on, x.unseen,
         ~Port("lock_target"), AcceptForMove(x)
  PROVE  Goes(act')
<1> DEFINE y == Accepted(x)
           off == [y EXCEPT !.count = 0]
<1>1. /\ Aligns(y) /\ y.evidence >= 1 /\ "locked" \notin y.on
      /\ ~Port("velocity_alignment") => (y.count < y.evidence \/ y.evidence = Frames)
  BY AcceptedFacts
<1>2. \/ Port("velocity_alignment") /\ act' = LateralSettles(Asks(y, "hold"))
      \/ ~Port("velocity_alignment") /\ act' = LateralSettles(y)
      \/ act' = off
      \/ Port("velocity_alignment") /\ TickVelocityTarget(Sets(off, "velocity_target"))
      \/ ~Port("velocity_alignment") /\ act' = [off EXCEPT !.evidence = 0]
      \/ ~Port("velocity_alignment") /\ act' = [Asks(off, "target") EXCEPT !.evidence = 0]
  BY DEF AcceptForMove
<1> HIDE DEF y
<1>3. /\ y \in Activation /\ y.status = "running" /\ y.evidence \in 0 .. Frames
      /\ Drives(y) => "velocity_target" \in y.on
      /\ "velocity_target" \in y.on => Port("velocity_alignment")
  BY <1>1, AlignsFacts
<1>4. /\ off \in Activation /\ off.status = "running" /\ off.count = 0 /\ off.on = y.on
      /\ off.evidence = y.evidence /\ off.motion = y.motion
  BY <1>3, ZeroFits DEF Activation
<1>5. Aligns(off)
  BY <1>1, <1>3, ZeroFits, CountsGood
<1> HIDE DEF off
<1>6. CASE Port("velocity_alignment") /\ act' = LateralSettles(Asks(y, "hold"))
  <2> DEFINE z == Asks(y, "hold")
  <2>1. /\ z \in Activation /\ z.status = "running" /\ z.on = y.on /\ z.evidence = y.evidence
        /\ z.motion = "hold"
    BY <1>3, AsksFields
  <2>2. act' = LateralSettles(z)
    BY <1>6
  <2> HIDE DEF z
  <2>3. ~Drives(z)
    BY <2>1 DEF Drives
  <2>4. y.evidence > 0
    BY <1>1, <1>3
  <2>5. Aligns(z)
    BY <1>1, <1>6, <2>1, <2>3, <2>4 DEF Aligns, AlignsLaterally
  <2> QED
    BY <1>1, <1>6, <2>1, <2>2, <2>3, <2>5, SettlesGood
<1>7. CASE ~Port("velocity_alignment") /\ act' = LateralSettles(y)
  <2>1. ~Drives(y)
    BY <1>3, <1>7
  <2> QED
    BY <1>1, <1>7, <2>1, SettlesGood
<1>8. CASE act' = off
  BY <1>5, <1>8, AlignsGood
<1>9. CASE Port("velocity_alignment") /\ TickVelocityTarget(Sets(off, "velocity_target"))
  <2> DEFINE z == Sets(off, "velocity_target")
  <2>1. "velocity_target" \in Flags
    BY DEF Flags
  <2>2. /\ z \in Activation /\ z.status = "running" /\ z.on = y.on \cup {"velocity_target"}
        /\ z.evidence = y.evidence
    BY <1>4, <2>1, SetsFields
  <2>3. TickVelocityTarget(z)
    BY <1>9
  <2> HIDE DEF z
  <2>4. y.evidence > 0 /\ "locked" \notin z.on /\ "velocity_target" \in z.on
    BY <1>1, <1>3, <2>2
  <2>5. Aligns(z)
    BY <1>9, <2>2, <2>4 DEF Aligns, AlignsLaterally
  <2> QED
    BY <2>3, <2>4, <2>5, TickVelocityGood
<1>10. ASSUME NEW z, z \in Activation, z.status = "running", z.on = y.on, z.count = 0,
              z.motion = y.motion \/ z.motion = "target", ~Port("velocity_alignment"),
              act' = [z EXCEPT !.evidence = 0]
       PROVE  Goes(act')
  <2>1. /\ act' \in Activation /\ act'.status = "running" /\ act'.on = y.on
        /\ act'.count = 0 /\ act'.evidence = 0 /\ act'.motion = z.motion
    BY <1>10, ZeroFits DEF Activation
  <2>2. "velocity_target" \notin y.on /\ ~Drives(y)
    BY <1>3, <1>10
  <2>3. ~Drives(act')
    BY <1>10, <2>1, <2>2 DEF Drives
  <2>4. AlignsLaterally(act')
    BY <1>1, <2>1, <2>2 DEF AlignsLaterally
  <2>5. Aligns(act')
    BY <2>1, <2>3, <2>4 DEF Aligns
  <2> QED
    BY <2>5, AlignsGood
<1>11. CASE ~Port("velocity_alignment") /\ act' = [off EXCEPT !.evidence = 0]
  BY <1>4, <1>10, <1>11
<1>12. CASE ~Port("velocity_alignment") /\ act' = [Asks(off, "target") EXCEPT !.evidence = 0]
  <2> DEFINE z == Asks(off, "target")
  <2>1. /\ z \in Activation /\ z.status = "running" /\ z.on = y.on /\ z.count = 0
        /\ z.motion = "target"
    BY <1>4, AsksFields
  <2>2. act' = [z EXCEPT !.evidence = 0]
    BY <1>12
  <2> HIDE DEF z
  <2> QED
    BY <1>10, <1>12, <2>1, <2>2
<1> QED
  BY <1>2, <1>6, <1>7, <1>8, <1>9, <1>11, <1>12

LEMMA LateralTickGood ==
  ASSUME Is("LateralAlignToDetection"), NEW x, Aligns(x), LateralTick(x)
  PROVE  Goes(act')
<1>1. x \in Activation
  BY DEF Aligns
<1>2. CASE act' = Ends(Asks(x, "hold"), "failure")
  BY <1>1, <1>2, FailsGood
<1>3. CASE "locked" \in x.on /\ TickLockedTarget(x)
  BY <1>3, TickLockedGood
<1>4. CASE LateralWithoutMatch(x)
  BY <1>1, <1>4, FailsGood, TickVelocityGood, AlignsGood DEF LateralWithoutMatch
<1>5. CASE SkipFrame(Looks(x))
  BY <1>5, LooksAlign, SkipFrameGood
<1>6. CASE "locked" \notin x.on /\ RejectBearing(x)
  BY <1>6, RejectBearingGood
<1>7. CASE "locked" \notin x.on /\ NewMatch(x) /\ Port("lock_target") /\ AcceptForLock(x)
  BY <1>7, AcceptForLockGood DEF NewMatch
<1>8. CASE "locked" \notin x.on /\ NewMatch(x) /\ ~Port("lock_target") /\ AcceptForMove(x)
  BY <1>8, AcceptForMoveGood DEF NewMatch
<1> QED
  BY <1>2, <1>3, <1>4, <1>5, <1>6, <1>7, <1>8 DEF LateralTick

LEMMA LateralAlignGood ==
  ASSUME Inv, Is("LateralAlignToDetection"),
         StartLateralAlignToDetection \/ (Running /\ LateralTick(act))
  PROVE  Goes(act')
<1>1. CASE StartLateralAlignToDetection
  <2>1. PICK recent \in BOOLEAN :
           LateralTick([Begun EXCEPT !.unseen = recent, !.accepted = 0, !.count = 0, !.on = {}])
    BY <1>1 DEF StartLateralAlignToDetection
  <2> DEFINE x == [Begun EXCEPT !.unseen = recent, !.accepted = 0, !.count = 0, !.on = {}]
  <2>2. Begun \in Activation /\ Begun.status = "running" /\ Begun.motion = "before" /\ Begun.evidence = 0
    BY InvFacts, BegunFields
  <2>3. /\ x \in Activation /\ x.status = "running" /\ x.motion = "before" /\ x.evidence = 0
        /\ x.accepted = 0 /\ x.count = 0 /\ x.on = {}
    BY <2>2, ZeroFits DEF Activation
  <2>4. LateralTick(x)
    BY <2>1
  <2> HIDE DEF x
  <2>5. Aligns(x)
    BY <2>3 DEF Aligns, AlignsLaterally, Drives
  <2> QED
    BY <2>4, <2>5, LateralTickGood
<1>2. CASE Running /\ LateralTick(act)
  <2>1. Aligns(act)
    BY <1>2, InvFacts, GoodLateral DEF Running, Aligns
  <2> QED
    BY <1>2, <2>1, LateralTickGood
<1> QED
  BY <1>1, <1>2

-----------------------------------------------------------------------------
LEMMA YawMoveGood ==
  ASSUME Is("SweepAngle"), NEW x \in Activation, x.status = "running", ~Drives(x)
  PROVE  Goes(BeginYawMove(x))
<1> DEFINE u == [x EXCEPT !.phase = "yaw", !.left = Deadline]
<1>1. u \in Activation /\ u.status = "running" /\ u.phase = "yaw" /\ u.motion = x.motion
  BY ZeroFits DEF Activation, Phases
<1>2. BeginYawMove(x) = CountsUpdates(u)
  BY DEF BeginYawMove
<1> HIDE DEF u
<1>3. /\ BeginYawMove(x) \in Activation /\ BeginYawMove(x).phase = "yaw"
      /\ BeginYawMove(x).status = "running" /\ BeginYawMove(x).motion = x.motion
  BY <1>1, <1>2, CountsUpdatesFields
<1> QED
  BY <1>3, GoodSweepAngle DEF Drives

LEMMA SweepAngleGood ==
  ASSUME Inv, Is("SweepAngle"), StartSweepAngle \/ (Running /\ SweepAngleTick)
  PROVE  Goes(act')
<1>1. CASE StartSweepAngle
  <2> DEFINE x == [Begun EXCEPT !.index = 0, !.count = 0]
  <2>1. Begun \in Activation /\ Begun.status = "running" /\ Begun.motion = "before"
    BY InvFacts, BegunFields
  <2>2. x \in Activation /\ x.status = "running" /\ ~Drives(x)
    BY <2>1, ZeroFits DEF Activation, Drives
  <2>3. act' = BeginYawMove(x)
    BY <1>1 DEF StartSweepAngle
  <2> HIDE DEF x
  <2> QED
    BY <2>2, <2>3, YawMoveGood
<1>2. CASE Running /\ SweepAngleTick
  <2>1. /\ act \in Activation /\ act.status = "running" /\ ~Drives(act)
        /\ act.phase = "sample" => act.count <= act.evidence
    BY <1>2, InvFacts, GoodSweepAngle DEF Running
  <2>2. ASSUME act' = Ends(act, "failure") PROVE Goes(act')
    BY <2>1, <2>2, GoodSweepAngle, EndsFields DEF Results, Drives
  <2>3. ASSUME act' = [StartsOver(act) EXCEPT !.phase = "sample", !.count = 0, !.left = Deadline]
        PROVE  Goes(act')
    <3> DEFINE x == StartsOver(act)
    <3>1. x \in Activation /\ ~Drives(x) /\ x.evidence = 0 /\ x.status = "running"
      BY <2>1, StartsOverFields DEF Drives
    <3>2. act' = [x EXCEPT !.phase = "sample", !.count = 0, !.left = Deadline]
      BY <2>3
    <3> HIDE DEF x
    <3>3. "sample" \in Phases
      BY DEF Phases
    <3>4. act' \in Activation
      BY <3>1, <3>2, <3>3, ZeroFits DEF Activation
    <3>5. /\ act'.motion = x.motion /\ act'.count = 0 /\ act'.evidence = 0
          /\ act'.status = "running"
      BY <3>1, <3>2 DEF Activation
    <3> QED
      BY <3>1, <3>4, <3>5, GoodSweepAngle DEF Drives
  <2>4. ASSUME act.phase = "sample", act.unseen,
               NEW x, x = [Agrees(act) EXCEPT !.count = Bump(@)],
               act' = IF x.count = Frames THEN Ends(x, "success") ELSE x
        PROVE  Goes(act')
    <3> DEFINE u == Agrees(act)
               n == Bump(u.count)
    <3>1. /\ u \in Activation /\ ~Drives(u) /\ u.status = "running"
          /\ u.evidence = Bump(act.evidence) /\ u.count = act.count
      BY <2>1, <2>4, AgreesFields DEF Drives
    <3>2. act.evidence \in 0 .. Frames /\ act.count \in 0 .. Frames
      BY <2>1, Fields
    <3>3. n \in 0 .. Frames /\ n <= u.evidence
      BY <2>1, <2>4, <3>1, <3>2, BumpFacts
    <3>4. x = [u EXCEPT !.count = n]
      BY <2>4
    <3> HIDE DEF u, n
    <3>5. /\ x \in Activation /\ ~Drives(x) /\ x.status = "running"
          /\ x.count = n /\ x.evidence = u.evidence
      BY <3>1, <3>3, <3>4 DEF Activation, Drives
    <3>6. CASE x.count = Frames
      <4>1. act' = Ends(x, "success") /\ x.evidence >= Frames
        BY <2>4, <3>3, <3>5, <3>6
      <4> QED
        BY <3>5, <4>1, EndsFields, GoodSweepAngle DEF Results, Drives
    <3>7. CASE x.count # Frames
      BY <2>4, <3>3, <3>5, <3>7, GoodSweepAngle
    <3> QED
      BY <3>6, <3>7
  <2>5. ASSUME act' = BeginYawMove([act EXCEPT !.index = @ + 1]), act.index < Steps
        PROVE  Goes(act')
    <3> DEFINE x == [act EXCEPT !.index = @ + 1]
    <3>1. act.index \in 0 .. Steps
      BY <2>1, Fields
    <3>2. act.index + 1 \in 0 .. Steps
      BY <2>5, <3>1
    <3>3. x \in Activation /\ x.status = "running" /\ ~Drives(x)
      BY <2>1, <3>2 DEF Activation, Drives
    <3>4. act' = BeginYawMove(x)
      BY <2>5
    <3> HIDE DEF x
    <3> QED
      BY <3>3, <3>4, YawMoveGood
  <2>6. CASE act.phase = "yaw" /\ TickYawMove
    BY <2>2, <2>3, <2>6 DEF TickYawMove
  <2>7. CASE act.phase = "sample" /\ TickSampleDetections
    BY <2>2, <2>4, <2>5, <2>7 DEF TickSampleDetections, NewMatch
  <2> QED
    BY <1>2, <2>6, <2>7 DEF SweepAngleTick
<1> QED
  BY <1>1, <1>2

-----------------------------------------------------------------------------
(* The leaves that move ahead: what they set moving they know of. *)

Moving(x) ==
  x \in Activation /\ x.status = "running" /\ (Drives(x) => "moving" \in x.on)

LEMMA StopFields ==
  ASSUME NEW x, Moving(x)
  PROVE  Stop(x) \in Activation /\ ~Drives(Stop(x))
<1>1. CASE "moving" \in x.on
  <2>1. Asks(x, "hold") \in Activation /\ ~Drives(Asks(x, "hold"))
    BY AsksFields DEF Moving, Drives
  <2> QED
    BY <1>1, <2>1, ClearsFields DEF Stop, Drives
<1>2. CASE "moving" \notin x.on
  BY <1>2 DEF Stop, Moving
<1> QED
  BY <1>1, <1>2

LEMMA StopsGood ==
  ASSUME leaf.name \in {"ForwardContinuousAlign", "ForwardFixedTransit"}, NEW x, Moving(x),
         NEW result \in Results
  PROVE  Goes(Ends(Stop(x), result))
<1>1. Stop(x) \in Activation /\ ~Drives(Stop(x))
  BY StopFields
<1>2. /\ Ends(Stop(x), result) \in Activation /\ ~Drives(Ends(Stop(x), result))
      /\ Ends(Stop(x), result).status = result
  BY <1>1, EndsFields DEF Drives
<1> QED
  BY <1>2, GoodForward DEF Results

LEMMA MovesGood ==
  ASSUME NEW x \in Activation, x.status = "running"
  PROVE  Moving(Moves(x))
<1>1. Asks(x, "velocity") \in Activation /\ Asks(x, "velocity").status = "running"
  BY AsksFields
<1>2. "moving" \in Flags
  BY DEF Flags
<1>3. /\ Moves(x) \in Activation /\ Moves(x).status = "running"
      /\ Moves(x).on = Asks(x, "velocity").on \cup {"moving"}
  BY <1>1, <1>2, SetsFields DEF Moves
<1> QED
  BY <1>3 DEF Moving

LEMMA MovingGood ==
  ASSUME leaf.name \in {"ForwardContinuousAlign", "ForwardFixedTransit"}, NEW x, Moving(x)
  PROVE  Goes(x)
  BY GoodForward DEF Moving

\* What leaves the motion and the status alone, and does not forget the motion.
LEMMA StillMoving ==
  ASSUME NEW x, Moving(x), NEW y \in Activation, y.status = x.status, y.motion = x.motion,
         "moving" \in x.on => "moving" \in y.on
  PROVE  Moving(y)
  BY DEF Moving, Drives

LEMMA ForwardFixedTransitGood ==
  ASSUME Inv, Is("ForwardFixedTransit"),
         StartForwardFixedTransit \/ (Running /\ ForwardFixedTransitTick)
  PROVE  Goes(act')
<1>1. CASE StartForwardFixedTransit
  <2>1. Moving(act')
    BY <1>1, InvFacts, BegunFields, MovesGood DEF StartForwardFixedTransit
  <2> QED
    BY <2>1, MovingGood DEF Is
<1>2. CASE Running /\ ForwardFixedTransitTick
  <2>1. Moving(act)
    BY <1>2, InvFacts, GoodForward DEF Running, Is, Moving
  <2> QED
    BY <1>2, <2>1, StopsGood DEF ForwardFixedTransitTick, Is
<1> QED
  BY <1>1, <1>2

LEMMA ForwardMatchGood ==
  ASSUME Is("ForwardContinuousAlign"), Moving(act), ForwardMatch
  PROVE  Goes(act')
<1> DEFINE a == Agrees(act)
           n == Bump(a.count)
           b == [a EXCEPT !.count = n]
           x == Sets(b, "seen")
           y == IF x.count = Frames /\ "moving" \notin x.on THEN Moves(x) ELSE x
<1>1. /\ a \in Activation /\ a.status = "running" /\ a.motion = act.motion /\ a.on = act.on
      /\ a.count = act.count
  BY AgreesFields DEF Moving
<1>2. n \in 0 .. Frames
  BY <1>1, Fields, BumpFacts
<1>3. \/ act' = y
      \/ act' = Ends(Stop(y), "success")
      \/ act' = Sets(y, "seen_close")
  BY DEF ForwardMatch
<1> HIDE DEF a, n
<1>4. b \in Activation /\ b.status = "running" /\ b.motion = act.motion /\ b.on = act.on
  BY <1>1, <1>2 DEF Activation
<1> HIDE DEF b
<1>5. "seen" \in Flags /\ "seen_close" \in Flags
  BY DEF Flags
<1>6. /\ x \in Activation /\ x.status = "running" /\ x.motion = act.motion
      /\ x.on = act.on \cup {"seen"}
  BY <1>4, <1>5, SetsFields
<1> HIDE DEF x
<1>7. Moving(x)
  BY <1>6 DEF Moving, Drives
<1>8. Moving(y)
  BY <1>6, <1>7, MovesGood
<1> HIDE DEF y
<1>9. Moving(Sets(y, "seen_close"))
  BY <1>5, <1>8, SetsFields DEF Moving, Drives
<1> QED
  BY <1>3, <1>8, <1>9, StopsGood, MovingGood DEF Is, Results

LEMMA AfterMissMoving ==
  ASSUME Moving(act)
  PROVE  Moving(AfterMiss)
<1>1. CASE Missed
  <2> DEFINE x == [act EXCEPT !.evidence = 0]
  <2>1. /\ x \in Activation /\ x.status = "running" /\ x.motion = act.motion /\ x.on = act.on
    BY ZeroFits DEF Activation, Moving
  <2>2. AfterMiss = [x EXCEPT !.count = 0]
    BY <1>1 DEF AfterMiss, RowBroken
  <2> HIDE DEF x
  <2>3. /\ AfterMiss \in Activation /\ AfterMiss.status = "running"
        /\ AfterMiss.motion = act.motion /\ AfterMiss.on = act.on
    BY <2>1, <2>2, ZeroFits DEF Activation
  <2> QED
    BY <2>3 DEF Moving, Drives
<1>2. CASE ~Missed
  BY <1>2 DEF AfterMiss
<1> QED
  BY <1>1, <1>2

LEMMA ForwardContinuousAlignGood ==
  ASSUME Inv, Is("ForwardContinuousAlign"),
         StartForwardContinuousAlign \/ (Running /\ ForwardContinuousAlignTick)
  PROVE  Goes(act')
<1>1. CASE StartForwardContinuousAlign
  <2> DEFINE x == [Begun EXCEPT !.count = 0]
  <2>1. Begun \in Activation /\ Begun.status = "running" /\ Begun.motion = "before"
    BY InvFacts, BegunFields
  <2>2. x \in Activation /\ x.status = "running" /\ x.motion = "before"
    BY <2>1, ZeroFits DEF Activation
  <2>3. act' = Clears(x, {"moving", "seen", "seen_close"})
    BY <1>1 DEF StartForwardContinuousAlign
  <2> HIDE DEF x
  <2>4. Moving(act')
    BY <2>2, <2>3, ClearsFields DEF Moving, Drives
  <2> QED
    BY <2>4, MovingGood DEF Is
<1>2. CASE Running /\ ForwardContinuousAlignTick
  <2>1. Moving(act)
    BY <1>2, InvFacts, GoodForward DEF Running, Is, Moving
  <2>2. Moving(AfterMiss)
    BY <2>1, AfterMissMoving
  <2>3. CASE act' = Ends(Stop(act), "success")
    BY <2>1, <2>3, StopsGood DEF Is, Results
  <2>4. CASE ForwardMatch
    BY <2>1, <2>4, ForwardMatchGood
  <2>5. CASE act' = AfterMiss
    BY <2>2, <2>5, MovingGood DEF Is
  <2>6. CASE ForwardLoss(AfterMiss)
    <3>1. \/ act' = Ends(Stop(AfterMiss), "success")
          \/ act' = Ends(Stop(AfterMiss), "failure")
          \/ act' = Clears(AfterMiss, {"seen"})
      BY <2>6 DEF ForwardLoss
    <3>2. Moving(Clears(AfterMiss, {"seen"}))
      <4>1. AfterMiss \in Activation
        BY <2>2 DEF Moving
      <4> QED
        BY <2>2, <4>1, ClearsFields DEF Moving, Drives
    <3> QED
      BY <2>2, <3>1, <3>2, StopsGood, MovingGood DEF Is, Results
  <2> QED
    BY <1>2, <2>3, <2>4, <2>5, <2>6 DEF ForwardContinuousAlignTick
<1> QED
  BY <1>1, <1>2

-----------------------------------------------------------------------------
(* OrientToDetectionAtDist. *)

Orienting(x) ==
  x \in Activation /\ x.status = "running" /\ ~Drives(x) /\ x.count <= x.evidence

LEMMA OrientingGood ==
  ASSUME Is("OrientToDetectionAtDist"), NEW x, Orienting(x)
  PROVE  Goes(x) /\ Goes(Ends(x, "failure"))
<1>1. Goes(x)
  BY GoodSelect DEF Is, Orienting
<1>2. x \in Activation /\ ~Drives(x)
  BY DEF Orienting
<1>3. Goes(Ends(x, "failure"))
  BY <1>2, EndsFields, GoodSelect DEF Is, Results, Drives
<1> QED
  BY <1>1, <1>3

LEMMA OrientsGood ==
  ASSUME Is("OrientToDetectionAtDist"), NEW x, Orienting(x), x.unseen, Orients(x)
  PROVE  Goes(act')
<1> DEFINE y == Sets(x, "filtered")
           n == Bump(y.count)
<1>1. "filtered" \in Flags
  BY DEF Flags
<1>2. /\ y \in Activation /\ y.status = "running" /\ y.motion = x.motion
      /\ y.count = x.count /\ y.evidence = x.evidence /\ y.unseen
  BY <1>1, SetsFields DEF Orienting
<1>3. \/ act' = [Agrees(y) EXCEPT !.count = n, !.status = IF n = Frames THEN "success" ELSE @]
      \/ \E z \in {y, Asks(y, "target")} : act' = [StartsOver(z) EXCEPT !.count = 0]
  BY DEF Orients
<1>4. y.count <= y.evidence
  BY <1>2 DEF Orienting
<1>5. ~Drives(y)
  BY <1>2 DEF Orienting, Drives
<1>6. y.count \in 0 .. Frames /\ y.evidence \in 0 .. Frames
  BY <1>2, Fields
<1>7. n \in 0 .. Frames /\ n <= Bump(y.evidence)
  BY <1>4, <1>6, BumpFacts
<1> HIDE DEF y, n
<1>8. ASSUME act' = [Agrees(y) EXCEPT !.count = n, !.status = IF n = Frames THEN "success" ELSE @]
      PROVE  Goes(act')
  <2> DEFINE u == Agrees(y)
             status == IF n = Frames THEN "success" ELSE u.status
  <2>1. /\ u \in Activation /\ u.status = "running" /\ u.motion = y.motion
        /\ u.evidence = Bump(y.evidence)
    BY <1>2, AgreesFields
  <2>2. act' = [u EXCEPT !.count = n, !.status = status]
    BY <1>8
  <2>3. status \in Results \cup {"running"} /\ status # "idle" /\ (status = "success" => n = Frames)
    BY <2>1 DEF Results
  <2> HIDE DEF u, status
  <2>4. /\ act' \in Activation /\ act'.motion = y.motion /\ act'.count = n
        /\ act'.status = status /\ act'.evidence = u.evidence
    BY <1>7, <2>1, <2>2, <2>3 DEF Activation
  <2> QED
    BY <1>5, <1>7, <2>1, <2>3, <2>4, GoodSelect DEF Is, Drives
<1>9. ASSUME NEW z \in Activation, ~Drives(z), z.status = "running",
             act' = [StartsOver(z) EXCEPT !.count = 0]
      PROVE  Goes(act')
  <2> DEFINE u == StartsOver(z)
  <2>1. u \in Activation /\ u.status = "running" /\ u.motion = z.motion /\ u.evidence = 0
    BY <1>9, StartsOverFields
  <2>2. act' = [u EXCEPT !.count = 0]
    BY <1>9
  <2> HIDE DEF u
  <2>3. /\ act' \in Activation /\ act'.motion = z.motion /\ act'.count = 0 /\ act'.evidence = 0
    BY <2>1, <2>2, ZeroFits DEF Activation
  <2>4. act'.status = "running"
    BY <2>1, <2>2 DEF Activation
  <2>5. Orienting(act')
    BY <1>9, <2>3, <2>4 DEF Orienting, Drives
  <2> QED
    BY <2>5, OrientingGood
<1>10. /\ Asks(y, "target") \in Activation /\ ~Drives(Asks(y, "target"))
       /\ Asks(y, "target").status = "running"
  BY <1>2, AsksFields DEF Drives
<1> QED
  BY <1>2, <1>3, <1>5, <1>8, <1>9, <1>10

LEMMA OrientingFields ==
  ASSUME NEW x, Orienting(x), NEW flags
  PROVE  /\ Orienting(Clears(x, flags))
         /\ Clears(x, flags).unseen = x.unseen
         /\ Orienting(Looks(x))
         /\ Orienting(Asks(x, "target"))
<1>1. x \in Activation
  BY DEF Orienting
<1>2. Orienting(Clears(x, flags)) /\ Clears(x, flags).unseen = x.unseen
  BY <1>1, ClearsFields DEF Orienting, Drives
<1>3. Orienting(Looks(x))
  BY <1>1, LooksFields DEF Orienting, Drives
<1>4. Orienting(Asks(x, "target"))
  BY <1>1, AsksFields DEF Orienting, Drives
<1> QED
  BY <1>2, <1>3, <1>4

LEMMA OrientToDetectionGood ==
  ASSUME Inv, Is("OrientToDetectionAtDist"),
         StartOrientToDetectionAtDist \/ (Running /\ OrientTick)
  PROVE  Goes(act')
<1>1. CASE StartOrientToDetectionAtDist
  <2> DEFINE x == [Begun EXCEPT !.count = 0]
  <2>1. /\ Begun \in Activation /\ Begun.status = "running" /\ Begun.motion = "before"
        /\ Begun.evidence = 0
    BY InvFacts, BegunFields
  <2>2. /\ x \in Activation /\ x.status = "running" /\ x.motion = "before" /\ x.count = 0
        /\ x.evidence = 0
    BY <2>1, ZeroFits DEF Activation
  <2>3. act' = Clears(x, {"filtered", "candidate"})
    BY <1>1 DEF StartOrientToDetectionAtDist
  <2> HIDE DEF x
  <2>4. Orienting(x)
    BY <2>2 DEF Orienting, Drives
  <2> QED
    BY <2>3, <2>4, OrientingFields, OrientingGood
<1>2. CASE Running /\ OrientTick
  <2>1. Orienting(act)
    BY <1>2, InvFacts, GoodSelect DEF Running, Is, Orienting
  <2>2. CASE act' = Ends(act, "failure")
    BY <2>1, <2>2, OrientingGood
  <2>3. CASE act.unseen /\ (Orients(act) \/ Confirmed(act))
    <3>1. CASE Orients(act)
      BY <2>1, <2>3, <3>1, OrientsGood
    <3>2. CASE Orients(Clears(act, {"candidate"}))
      BY <2>1, <2>3, <3>2, OrientingFields, OrientsGood
    <3>3. CASE Orients(Clears([act EXCEPT !.count = 0, !.evidence = 0], {"candidate"}))
      <4> DEFINE x == [act EXCEPT !.count = 0, !.evidence = 0]
      <4>1. /\ x \in Activation /\ x.status = "running" /\ x.motion = act.motion
            /\ x.count = 0 /\ x.evidence = 0 /\ x.unseen = act.unseen
        BY <2>1, ZeroFits DEF Activation, Orienting
      <4>2. Orients(Clears(x, {"candidate"}))
        BY <3>3
      <4> HIDE DEF x
      <4>3. Orienting(x)
        BY <2>1, <4>1 DEF Orienting, Drives
      <4> QED
        BY <2>3, <4>1, <4>2, <4>3, OrientingFields, OrientsGood
    <3> QED
      BY <2>3, <3>1, <3>2, <3>3 DEF Confirmed
  <2>4. ASSUME NEW z \in {act, Asks(act, "target")}, act' = Clears(Looks(z), {"candidate"})
        PROVE  Goes(act')
    <3>1. Orienting(z)
      BY <2>1, OrientingFields
    <3>2. Orienting(Looks(z))
      BY <3>1, OrientingFields
    <3> QED
      BY <2>4, <3>2, OrientingFields, OrientingGood
  <2>5. CASE act' = Looks(act)
    BY <2>1, <2>5, OrientingFields, OrientingGood
  <2>6. CASE act' = Sets(Looks(act), "candidate")
    <3>1. Orienting(Looks(act)) /\ "candidate" \in Flags
      BY <2>1, OrientingFields DEF Flags
    <3>2. Orienting(act')
      BY <2>6, <3>1, SetsFields DEF Orienting, Drives
    <3> QED
      BY <3>2, OrientingGood
  <2> QED
    BY <1>2, <2>2, <2>3, <2>4, <2>5, <2>6 DEF OrientTick, NewMatch
<1> QED
  BY <1>1, <1>2

-----------------------------------------------------------------------------
(* SquareUpToGate: while it looks, and once it has what it needs. *)

Squares(x) ==
  x \in Activation /\ x.status = "running" /\ ~Drives(x) /\ Squared(x)

Ready(x) ==
  /\ x \in Activation /\ x.status = "running" /\ ~Drives(x)
  /\ x.evidence > 0 /\ x.count > 0 /\ "left_points" \in x.on

LEMMA SquaresGood ==
  ASSUME Is("SquareUpToGate"), NEW x, Squares(x)
  PROVE  Goes(x)
  BY GoodSquareUp DEF Squares

LEMMA HoldsGood ==
  ASSUME Is("SquareUpToGate"), NEW x, Squares(x)
  PROVE  Goes(Ends(Asks(x, "hold"), "failure"))
<1>1. Asks(x, "hold") \in Activation /\ ~Drives(Asks(x, "hold"))
  BY AsksFields DEF Squares, Drives
<1>2. /\ Ends(Asks(x, "hold"), "failure") \in Activation
      /\ ~Drives(Ends(Asks(x, "hold"), "failure"))
      /\ Ends(Asks(x, "hold"), "failure").status = "failure"
  BY <1>1, EndsFields DEF Drives, Results
<1> QED
  BY <1>2, GoodSquareUp

LEMMA ReadyGood ==
  ASSUME Is("SquareUpToGate"), NEW x, Ready(x)
  PROVE  Goes(x) /\ Goes(Ends(x, "success"))
<1>1. Squares(x)
  BY DEF Squares, Ready, Squared
<1>2. x \in Activation /\ ~Drives(x) /\ x.evidence >= 1 /\ Squared(x)
  BY <1>1, Fields DEF Squares, Ready
<1> DEFINE y == Ends(x, "success")
<1>3. /\ y \in Activation /\ y.status = "success" /\ y.motion = x.motion /\ y.count = x.count
      /\ y.evidence = x.evidence /\ y.on = x.on /\ y.phase = x.phase
  BY <1>2, EndsFields DEF Results
<1> HIDE DEF y
<1>4. Squared(y)
  BY <1>2, <1>3 DEF Squared
<1>5. Goes(y)
  BY <1>2, <1>3, <1>4, GoodSquareUp DEF Drives
<1> QED
  BY <1>1, <1>5, SquaresGood DEF y

LEMMA ReadyFields ==
  ASSUME NEW x, Ready(x), NEW phase \in Phases
  PROVE  /\ Ready(Asks(x, "target"))
         /\ Ready(Clears(x, {"settling"}))
         /\ Ready(Sets(x, "settling"))
         /\ Ready([x EXCEPT !.phase = phase])
<1>1. x \in Activation /\ "settling" \in Flags
  BY DEF Ready, Flags
<1>2. Ready(Asks(x, "target"))
  BY <1>1, AsksFields DEF Ready, Drives
<1>3. Ready(Clears(x, {"settling"}))
  BY <1>1, ClearsFields DEF Ready, Drives
<1>4. Ready(Sets(x, "settling"))
  BY <1>1, SetsFields DEF Ready, Drives
<1>5. Ready([x EXCEPT !.phase = phase])
  <2> DEFINE y == [x EXCEPT !.phase = phase]
  <2>1. /\ y \in Activation /\ y.status = x.status /\ y.motion = x.motion /\ y.count = x.count
        /\ y.evidence = x.evidence /\ y.on = x.on
    BY <1>1 DEF Activation
  <2> HIDE DEF y
  <2>2. Ready(y)
    BY <2>1 DEF Ready, Drives
  <2> QED
    BY <2>2 DEF y
<1> QED
  BY <1>2, <1>3, <1>4, <1>5

LEMMA ApproachGood ==
  ASSUME Is("SquareUpToGate"), NEW x, Ready(x), Approach(x)
  PROVE  Goes(act')
<1>1. "square" \in Phases
  BY DEF Phases
<1>2. ASSUME NEW y, Ready(y)
      PROVE  /\ Ready(Clears(y, {"settling"}))
             /\ Ready([Sets(y, "settling") EXCEPT !.phase = "square"])
             /\ Ready([Clears(y, {"settling"}) EXCEPT !.phase = "square"])
  <2>1. Ready(Clears(y, {"settling"})) /\ Ready(Sets(y, "settling"))
    BY <1>1, <1>2, ReadyFields
  <2> QED
    BY <1>1, <2>1, ReadyFields
<1>3. Ready(Asks(x, "target"))
  BY <1>1, ReadyFields
<1>4. \A y \in {x, Asks(x, "target")} : Ready(y)
  BY <1>3
<1> QED
  BY <1>2, <1>3, <1>4, ReadyGood DEF Approach

LEMMA SquareUpGoesOnGood ==
  ASSUME Is("SquareUpToGate"), NEW x, Squares(x), SquareUpGoesOn(x)
  PROVE  Goes(act')
<1> DEFINE approached == [x EXCEPT !.phase = "approach"]
           fixed == [approached EXCEPT !.count = IF @ = 0 THEN 1 ELSE @]
<1>1. /\ x \in Activation /\ x.status = "running" /\ ~Drives(x) /\ Squared(x)
      /\ x.count \in 0 .. Frames /\ x.evidence \in 0 .. Frames /\ x.on \in SUBSET Flags
  BY Fields DEF Squares
<1>2. "approach" \in Phases /\ "left_points" \in Flags
  BY DEF Phases, Flags
<1>3. /\ approached \in Activation /\ approached.status = "running"
      /\ approached.motion = x.motion /\ approached.on = x.on
      /\ approached.count = x.count /\ approached.evidence = x.evidence
  BY <1>1, <1>2 DEF Activation
<1>4. MakesDo(approached) = Sets(fixed, "left_points")
  BY DEF MakesDo
<1>5. \/ x.phase # "look" /\ Approach(x)
      \/ x.count = Frames /\ "left_points" \in x.on /\ Approach(approached)
      \/ act' = x
      \/ act' = Ends(Asks(x, "hold"), "failure")
      \/ {"left_points", "lone"} \cap x.on # {} /\ Approach(MakesDo(approached))
  BY DEF SquareUpGoesOn
<1> HIDE DEF approached
<1>6. CASE x.phase # "look" /\ Approach(x)
  <2>1. Ready(x)
    BY <1>1, <1>6 DEF Ready, Squared
  <2> QED
    BY <1>6, <2>1, ApproachGood
<1>7. CASE x.count = Frames /\ "left_points" \in x.on /\ Approach(approached)
  <2>1. x.evidence > 0 /\ x.count > 0
    BY <1>1, <1>7 DEF Squared
  <2>2. Ready(approached)
    BY <1>1, <1>3, <1>7, <2>1 DEF Ready, Drives
  <2> QED
    BY <1>7, <2>2, ApproachGood
<1>8. CASE {"left_points", "lone"} \cap x.on # {} /\ Approach(MakesDo(approached))
  <2>1. x.evidence > 0
    BY <1>1, <1>8 DEF Squared
  <2> DEFINE n == IF approached.count = 0 THEN 1 ELSE approached.count
  <2>2. n \in 0 .. Frames /\ n > 0
    BY <1>1, <1>3, ZeroFits
  <2>3. fixed = [approached EXCEPT !.count = n]
    OBVIOUS
  <2> HIDE DEF fixed, n
  <2>4. /\ fixed \in Activation /\ fixed.status = "running" /\ fixed.motion = x.motion
        /\ fixed.count = n /\ fixed.evidence = x.evidence
    BY <1>3, <2>2, <2>3 DEF Activation
  <2>5. Ready(Sets(fixed, "left_points"))
    BY <1>1, <1>2, <2>1, <2>2, <2>4, SetsFields DEF Ready, Drives
  <2> QED
    BY <1>4, <1>8, <2>5, ApproachGood
<1> QED
  BY <1>5, <1>6, <1>7, <1>8, SquaresGood, HoldsGood

\* Whatever a frame shows, it is evidence before it is counted.
LEMMA ObservationsSquare ==
  ASSUME NEW z, Squares(z), z.unseen, NEW x \in Observations(Agrees(z))
  PROVE  Squares(x)
<1> DEFINE a == Agrees(z)
           n == Bump(a.count)
           b == [a EXCEPT !.count = n]
<1>1. z \in Activation /\ z.status = "running" /\ ~Drives(z) /\ Squared(z)
  BY DEF Squares
<1>2. /\ a \in Activation /\ a.status = "running" /\ a.motion = z.motion /\ a.on = z.on
      /\ a.count = z.count /\ a.phase = z.phase /\ a.evidence >= 1
  BY <1>1, AgreesFields, NewCounts
<1>3. n \in 0 .. Frames /\ n > 0
  BY <1>2, Fields, BumpFacts
<1>4. "left_points" \in Flags /\ "lone" \in Flags
  BY DEF Flags
<1>5. \/ x \in {a, b}
      \/ \E y \in {a, b} : x = Sets(y, "left_points")
      \/ x = Sets(a, "lone")
  BY DEF Observations
<1> HIDE DEF a, n
<1>6. /\ b \in Activation /\ b.status = "running" /\ b.motion = z.motion /\ b.on = z.on
      /\ b.count = n /\ b.phase = z.phase /\ b.evidence = a.evidence
  BY <1>2, <1>3 DEF Activation
<1> HIDE DEF b
<1>7. a.evidence > 0 /\ (a.count > 0 => b.count > 0)
  BY <1>2, <1>3, <1>6, Fields
<1>8. ASSUME NEW y, y \in Activation, y.status = "running", y.motion = z.motion,
             z.on \subseteq y.on, z.count > 0 => y.count > 0, y.phase = z.phase, y.evidence > 0
      PROVE  Squares(y)
  BY <1>1, <1>8 DEF Squares, Squared, Drives
<1>9. Squares(a) /\ Squares(b)
  BY <1>2, <1>6, <1>7, <1>8
<1>10. ASSUME NEW y \in {a, b}, NEW flag \in {"left_points", "lone"}
       PROVE  Squares(Sets(y, flag))
  <2>1. /\ y \in Activation /\ y.status = "running" /\ y.motion = z.motion /\ y.on = z.on
        /\ y.phase = z.phase /\ y.evidence = a.evidence /\ (z.count > 0 => y.count > 0)
    BY <1>2, <1>6, <1>7, <1>10
  <2>2. flag \in Flags
    BY <1>4, <1>10
  <2>3. LET s == Sets(y, flag)
        IN  /\ s \in Activation /\ s.status = "running" /\ s.motion = z.motion /\ z.on \subseteq s.on
            /\ s.count = y.count /\ s.phase = z.phase /\ s.evidence = a.evidence
    BY <2>1, <2>2, SetsFields
  <2> QED
    BY <1>7, <1>8, <2>1, <2>3
<1> QED
  BY <1>5, <1>9, <1>10

LEMMA SquareUpToGateGood ==
  ASSUME Inv, Is("SquareUpToGate"), StartSquareUpToGate \/ (Running /\ SquareUpTick)
  PROVE  Goes(act')
<1>1. CASE StartSquareUpToGate
  <2> DEFINE x == [Begun EXCEPT !.phase = "look", !.count = 0]
  <2>1. Begun \in Activation /\ Begun.status = "running" /\ Begun.motion = "before"
    BY InvFacts, BegunFields
  <2>2. "look" \in Phases
    BY DEF Phases
  <2>3. /\ x \in Activation /\ x.status = "running" /\ x.motion = "before" /\ x.count = 0
        /\ x.phase = "look"
    BY <2>1, <2>2, ZeroFits DEF Activation
  <2>4. act' = Clears(x, {"left_points", "lone", "settling"})
    BY <1>1 DEF StartSquareUpToGate
  <2> HIDE DEF x
  <2>5. /\ act' \in Activation /\ act'.status = "running" /\ act'.motion = "before"
        /\ act'.count = 0 /\ act'.phase = "look"
        /\ "left_points" \notin act'.on /\ "lone" \notin act'.on
    BY <2>3, <2>4, ClearsFields
  <2>6. Squares(act')
    BY <2>5 DEF Squares, Squared, Drives
  <2> QED
    BY <2>6, SquaresGood
<1>2. CASE Running /\ SquareUpTick
  <2>1. Squares(act)
    BY <1>2, InvFacts, GoodSquareUp DEF Running, Squares
  <2>2. CASE act' = Ends(Asks(act, "hold"), "failure")
    BY <2>1, <2>2, HoldsGood
  <2>3. CASE SquareUpGoesOn(act)
    BY <2>1, <2>3, SquareUpGoesOnGood
  <2>4. ASSUME act.unseen, NEW x \in Observations(Agrees(act)), NEW y \in {x, Asks(x, "target")},
               SquareUpGoesOn(y)
        PROVE  Goes(act')
    <3>1. Squares(x)
      BY <2>1, <2>4, ObservationsSquare
    <3>2. x \in Activation
      BY <3>1 DEF Squares
    <3>3. Squares(Asks(x, "target"))
      BY <3>1, <3>2, AsksFields DEF Squares, Squared, Drives
    <3> QED
      BY <2>4, <3>1, <3>3, SquareUpGoesOnGood
  <2> QED
    BY <1>2, <2>2, <2>3, <2>4 DEF SquareUpTick, NewMatch
<1> QED
  BY <1>1, <1>2

-----------------------------------------------------------------------------
(* The leaves that steer by the down camera. *)

LEMMA DownForwardAlignGood ==
  ASSUME Inv, Is("DownForwardAlign"), StartDownForwardAlign \/ (Running /\ DownForwardAlignTick)
  PROVE  Goes(act')
<1>1. CASE StartDownForwardAlign
  <2>1. act' \in Activation /\ act'.status = "running"
    BY <1>1, InvFacts, BegunFields DEF StartDownForwardAlign
  <2> QED
    BY <2>1, GoodDownForward
<1>2. CASE Running /\ DownForwardAlignTick
  <2>1. act \in Activation /\ act.status = "running"
    BY <1>2, InvFacts DEF Running
  <2>2. CASE act' = DownFinish(act)
    <3> DEFINE result == IF Port("sweep") THEN "failure" ELSE "success"
    <3>1. act' = Ends(Asks(act, "hold"), result)
      BY <2>2 DEF DownFinish
    <3>2. result \in Results /\ (Port("sweep") => result # "success")
      BY DEF Results
    <3> HIDE DEF result
    <3>3. Asks(act, "hold") \in Activation /\ ~Drives(Asks(act, "hold"))
      BY <2>1, AsksFields DEF Drives
    <3>4. act' \in Activation /\ act'.status = result /\ ~Drives(act') /\ result # "idle"
      BY <3>1, <3>2, <3>3, EndsFields DEF Drives, Results
    <3> QED
      BY <3>2, <3>4, GoodDownForward
  <2>3. CASE act.unseen /\ act' = Ends(Asks(Agrees(act), "hold"), "success")
    <3>1. Agrees(act) \in Activation /\ Agrees(act).evidence >= 1
      BY <2>1, <2>3, AgreesFields, NewCounts
    <3>2. /\ Asks(Agrees(act), "hold") \in Activation /\ ~Drives(Asks(Agrees(act), "hold"))
          /\ Asks(Agrees(act), "hold").evidence >= 1
      BY <3>1, AsksFields DEF Drives
    <3> QED
      BY <2>3, <3>2, EndsFields, GoodDownForward DEF Results, Drives
  <2>4. ASSUME NEW x \in {act, Agrees(act)}, act' = Asks(x, "ahead") PROVE Goes(act')
    <3>1. x \in Activation /\ x.status = "running"
      BY <2>1, <2>4, AgreesFields
    <3>2. act' \in Activation /\ act'.status = "running"
      BY <2>4, <3>1, AsksFields
    <3> QED
      BY <3>2, GoodDownForward
  <2> QED
    BY <1>2, <2>2, <2>3, <2>4 DEF DownForwardAlignTick, NewMatch
<1> QED
  BY <1>1, <1>2

\* Between the moves of a DownSweepAlign, and in one.
Sweeping(x) == x \in Activation /\ x.status = "running" /\ ~Drives(x)

LEMMA BeginMoveGood ==
  ASSUME Is("DownSweepAlign"), NEW x, Sweeping(x), x.index < Steps
  PROVE  Goes(BeginMove(x))
<1> DEFINE a == Asks(x, "target")
           b == [a EXCEPT !.left = Deadline]
           c == CountsUpdates(b)
<1>1. BeginMove(x) = Sets(c, "moving") /\ "moving" \in Flags
  BY DEF BeginMove, Flags
<1>2. a \in Activation /\ a.status = "running" /\ a.motion = "target" /\ a.index = x.index
  BY AsksFields DEF Sweeping
<1> HIDE DEF a
<1>3. b \in Activation /\ b.status = "running" /\ b.motion = "target" /\ b.index = x.index
  BY <1>2, ZeroFits DEF Activation
<1> HIDE DEF b
<1>4. c \in Activation /\ c.status = "running" /\ c.motion = "target" /\ c.index = x.index
  BY <1>3, CountsUpdatesFields
<1> HIDE DEF c
<1>5. /\ BeginMove(x) \in Activation /\ BeginMove(x).status = "running"
      /\ BeginMove(x).motion = "target" /\ BeginMove(x).index = x.index
  BY <1>1, <1>4, SetsFields
<1> QED
  BY <1>5, GoodDownSweep DEF Drives

LEMMA AtSideGood ==
  ASSUME Is("DownSweepAlign"), NEW x, Sweeping(x), x.index < Steps
  PROVE  Goes(AtSide(x))
<1> DEFINE a == Clears(x, {"moving"})
           y == [a EXCEPT !.left = Deadline]
           z == [y EXCEPT !.index = @ + 1]
<1>1. AtSide(x) = IF "right_next" \in y.on THEN Clears(y, {"right_next"}) ELSE Sets(z, "right_next")
  BY DEF AtSide
<1>2. /\ a \in Activation /\ a.status = "running" /\ a.motion = x.motion /\ a.index = x.index
      /\ "moving" \notin a.on
  BY ClearsFields DEF Sweeping
<1> HIDE DEF a
<1>3. /\ y \in Activation /\ y.status = "running" /\ y.motion = x.motion /\ y.index = x.index
      /\ "moving" \notin y.on
  BY <1>2, ZeroFits DEF Activation
<1> HIDE DEF y
<1>4. x.index \in 0 .. Steps /\ x.index + 1 \in 0 .. Steps
  BY Fields DEF Sweeping
<1>5. /\ z \in Activation /\ z.status = "running" /\ z.motion = x.motion /\ "moving" \notin z.on
  BY <1>3, <1>4 DEF Activation
<1> HIDE DEF z
<1>6. "right_next" \in Flags
  BY DEF Flags
<1>7. /\ Sets(z, "right_next") \in Activation /\ Sets(z, "right_next").status = "running"
      /\ Sets(z, "right_next").motion = x.motion /\ "moving" \notin Sets(z, "right_next").on
  BY <1>5, <1>6, SetsFields
<1>8. /\ Clears(y, {"right_next"}) \in Activation /\ Clears(y, {"right_next"}).status = "running"
      /\ Clears(y, {"right_next"}).motion = x.motion /\ "moving" \notin Clears(y, {"right_next"}).on
  BY <1>3, ClearsFields
<1>9. /\ AtSide(x) \in Activation /\ AtSide(x).status = "running" /\ AtSide(x).motion = x.motion
      /\ "moving" \notin AtSide(x).on
  BY <1>1, <1>7, <1>8
<1> QED
  BY <1>9, GoodDownSweep DEF Sweeping, Drives

LEMMA DownSweepAlignGood ==
  ASSUME Inv, Is("DownSweepAlign"), StartDownSweepAlign \/ (Running /\ DownSweepAlignTick)
  PROVE  Goes(act')
<1>1. CASE StartDownSweepAlign
  <2> DEFINE x == [Begun EXCEPT !.index = 0]
             y == Clears(x, {"moving"})
  <2>1. Begun \in Activation /\ Begun.status = "running" /\ Begun.motion = "before"
    BY InvFacts, BegunFields
  <2>2. x \in Activation /\ x.status = "running" /\ x.motion = "before"
    BY <2>1, ZeroFits DEF Activation
  <2>3. act' = Sets(y, "right_next") /\ "right_next" \in Flags
    BY <1>1 DEF StartDownSweepAlign, Flags
  <2> HIDE DEF x
  <2>4. y \in Activation /\ y.status = "running" /\ y.motion = "before" /\ "moving" \notin y.on
    BY <2>2, ClearsFields
  <2> HIDE DEF y
  <2>5. /\ act' \in Activation /\ act'.status = "running" /\ act'.motion = "before"
        /\ "moving" \notin act'.on
    BY <2>3, <2>4, SetsFields
  <2> QED
    BY <2>5, GoodDownSweep DEF Drives
<1>2. CASE Running /\ DownSweepAlignTick
  <2>1. Sweeping(act) /\ ("moving" \in act.on => act.index < Steps) /\ act.index \in 0 .. Steps
    BY <1>2, InvFacts, GoodDownSweep, Fields DEF Running, Sweeping
  <2>2. CASE act' = Ends(act, "failure")
    <3>1. act' \in Activation /\ act'.status = "failure" /\ ~Drives(act')
      BY <2>1, <2>2, EndsFields DEF Results, Sweeping, Drives
    <3> QED
      BY <3>1, GoodDownSweep
  <2>3. ASSUME act.unseen, NEW x \in {Asks(Agrees(act), "hold"), Agrees(act)}, act' = Ends(x, "success")
        PROVE  Goes(act')
    <3>1. Agrees(act) \in Activation /\ Agrees(act).evidence >= 1 /\ ~Drives(Agrees(act))
      BY <2>1, <2>3, AgreesFields, NewCounts DEF Sweeping, Drives
    <3>2. x \in Activation /\ x.evidence >= 1 /\ ~Drives(x)
      BY <2>3, <3>1, AsksFields DEF Drives
    <3>3. act' \in Activation /\ act'.status = "success" /\ act'.evidence >= 1 /\ ~Drives(act')
      BY <2>3, <3>2, EndsFields DEF Results, Drives
    <3> QED
      BY <3>3, GoodDownSweep
  <2>4. CASE ~SweepsDone /\ act' = BeginMove(act)
    <3>1. act.index < Steps
      BY <2>1, <2>4 DEF SweepsDone
    <3> QED
      BY <2>1, <2>4, <3>1, BeginMoveGood
  <2>5. CASE "moving" \in act.on /\ act' = AtSide(act)
    BY <2>1, <2>5, AtSideGood
  <2> QED
    BY <1>2, <2>2, <2>3, <2>4, <2>5 DEF DownSweepAlignTick, NewMatch
<1> QED
  BY <1>1, <1>2

Oriented(x) ==
  /\ x \in Activation /\ x.status = "running" /\ ~Drives(x)
  /\ Port("orient") => x.count <= x.evidence

LEMMA OrientationsOriented ==
  ASSUME NEW z, Oriented(z), z.unseen, Port("orient"), NEW x \in Orientations(z)
  PROVE  Oriented(x) /\ x.evidence >= 1
<1> DEFINE s == StartsOver(z)
           anew == [s EXCEPT !.evidence = 1]
           a == Agrees(z)
           n == Bump(a.count)
<1>1. \/ x = [anew EXCEPT !.count = 0]
      \/ x = [anew EXCEPT !.count = 1]
      \/ x = [a EXCEPT !.count = n]
  BY DEF Orientations
<1>2. s \in Activation /\ s.status = "running" /\ s.motion = z.motion
  BY StartsOverFields DEF Oriented
<1> HIDE DEF s
<1>3. anew \in Activation /\ anew.status = "running" /\ anew.motion = z.motion /\ anew.evidence = 1
  BY <1>2, ZeroFits DEF Activation
<1> HIDE DEF anew
<1>4. /\ z \in Activation /\ z.count \in 0 .. Frames /\ z.evidence \in 0 .. Frames
      /\ z.count <= z.evidence
  BY Fields DEF Oriented
<1>5. /\ a \in Activation /\ a.status = "running" /\ a.motion = z.motion /\ a.count = z.count
      /\ a.evidence = Bump(z.evidence) /\ a.evidence >= 1
  BY <1>4, AgreesFields, NewCounts DEF Oriented
<1>6. n \in 0 .. Frames /\ n <= a.evidence
  BY <1>4, <1>5, BumpFacts
<1> HIDE DEF a, n
<1>7. CASE x = [anew EXCEPT !.count = 0]
  <2>1. /\ x \in Activation /\ x.status = "running" /\ x.motion = z.motion /\ x.evidence = 1
        /\ x.count = 0
    BY <1>3, <1>7, ZeroFits DEF Activation
  <2> QED
    BY <2>1 DEF Oriented, Drives
<1>8. CASE x = [anew EXCEPT !.count = 1]
  <2>1. /\ x \in Activation /\ x.status = "running" /\ x.motion = z.motion /\ x.evidence = 1
        /\ x.count = 1
    BY <1>3, <1>8, ZeroFits DEF Activation
  <2> QED
    BY <2>1 DEF Oriented, Drives
<1>9. CASE x = [a EXCEPT !.count = n]
  <2>1. /\ x \in Activation /\ x.status = "running" /\ x.motion = z.motion
        /\ x.evidence = a.evidence /\ x.count = n
    BY <1>5, <1>6, <1>9 DEF Activation
  <2> QED
    BY <1>5, <1>6, <2>1 DEF Oriented, Drives
<1> QED
  BY <1>1, <1>7, <1>8, <1>9

LEMMA DownAlignGood ==
  ASSUME Inv, Is("DownAlignToDetection"),
         StartDownAlignToDetection \/ (Running /\ DownAlignToDetectionTick)
  PROVE  Goes(act')
<1>1. CASE StartDownAlignToDetection
  <2>1. Begun \in Activation /\ Begun.status = "running" /\ Begun.motion = "before" /\ Begun.evidence = 0
    BY InvFacts, BegunFields
  <2>2. act' = [Begun EXCEPT !.count = 0]
    BY <1>1 DEF StartDownAlignToDetection
  <2>3. /\ act' \in Activation /\ act'.status = "running" /\ act'.motion = "before"
        /\ act'.count = 0 /\ act'.evidence = 0
    BY <2>1, <2>2, ZeroFits DEF Activation
  <2> QED
    BY <2>3, GoodDownAlign DEF Drives
<1>2. CASE Running /\ DownAlignToDetectionTick
  <2>1. Oriented(act)
    BY <1>2, InvFacts, GoodDownAlign DEF Running, Oriented
  <2>2. CASE act' = Ends(act, "failure")
    <3>1. act' \in Activation /\ act'.status = "failure" /\ ~Drives(act')
      BY <2>1, <2>2, EndsFields DEF Results, Oriented, Drives
    <3> QED
      BY <3>1, GoodDownAlign
  <2>3. ASSUME act.unseen, NEW x \in IF Port("orient") THEN Orientations(act) ELSE {Agrees(act)}
        PROVE  Oriented(x) /\ x.evidence >= 1
    <3>1. CASE Port("orient")
      BY <2>1, <2>3, <3>1, OrientationsOriented
    <3>2. CASE ~Port("orient")
      <4>1. x = Agrees(act) /\ act \in Activation /\ act.status = "running" /\ ~Drives(act)
        BY <2>1, <2>3, <3>2 DEF Oriented
      <4>2. /\ x \in Activation /\ x.status = "running" /\ x.motion = act.motion
            /\ x.evidence >= 1
        BY <2>3, <4>1, AgreesFields, NewCounts
      <4> QED
        BY <3>2, <4>1, <4>2 DEF Oriented, Drives
    <3> QED
      BY <3>1, <3>2
  <2>4. ASSUME NEW x, Oriented(x), x.evidence >= 1,
               (Port("orient") /\ Port("require_orientation")) => x.count = Frames,
               act' = Ends(x, "success")
        PROVE  Goes(act')
    <3>1. /\ act' \in Activation /\ act'.status = "success" /\ ~Drives(act')
          /\ act'.evidence = x.evidence
      BY <2>4, EndsFields DEF Results, Oriented, Drives
    <3>2. x.evidence >= IF Port("orient") /\ Port("require_orientation") THEN Frames ELSE 1
      BY <2>4 DEF Oriented
    <3> QED
      BY <3>1, <3>2, GoodDownAlign
  <2>5. ASSUME NEW x, Oriented(x), NEW y \in {x, Asks(x, "target")}, act' = y PROVE Goes(act')
    <3>1. Oriented(Asks(x, "target"))
      BY <2>5, AsksFields DEF Oriented, Drives
    <3>2. Oriented(y)
      BY <2>5, <3>1
    <3> QED
      BY <2>5, <3>2, GoodDownAlign DEF Oriented
  <2> QED
    BY <1>2, <2>2, <2>3, <2>4, <2>5 DEF DownAlignToDetectionTick, NewMatch
<1> QED
  BY <1>1, <1>2

-----------------------------------------------------------------------------
(* The leaves that go by the errors of the controller, or by time. *)

LEMMA ArrivalGood ==
  ASSUME Inv, leaf.name \in ArrivalNames,
         StartSetpoint(TRUE) \/ (Running /\ CheckErrors)
  PROVE  Goes(act')
<1>1. CASE StartSetpoint(TRUE)
  <2>1. Begun \in Activation /\ Begun.status = "running" /\ Begun.motion = "before"
    BY InvFacts, BegunFields
  <2>2. CASE act' = CountsUpdates(Commands(Begun))
    <3>1. /\ Commands(Begun) \in Activation /\ Commands(Begun).status = "running"
          /\ Commands(Begun).motion = "target"
      BY <2>1, CommandsFields
    <3>2. /\ act' \in Activation /\ act'.status = "running" /\ act'.motion = "target"
          /\ act'.error = "stale"
      BY <2>2, <3>1, CountsUpdatesFields
    <3> QED
      BY <3>2, GoodArrival DEF Drives
  <2>3. CASE act' = Ends(Begun, "success")
    <3>1. act' \in Activation /\ act'.status = "success" /\ act'.motion = "before"
      BY <2>1, <2>3, EndsFields DEF Results
    <3> QED
      BY <3>1, GoodArrival DEF Drives
  <2> QED
    BY <1>1, <2>2, <2>3 DEF StartSetpoint
<1>2. CASE Running /\ CheckErrors
  <2>1. /\ act \in Activation /\ act.status = "running" /\ ~Drives(act)
        /\ act.error = "near" => act.evidence = 1
    BY <1>2, InvFacts, GoodArrival DEF Running
  <2>2. ASSUME act.error = "near", act' = Ends(act, "success") PROVE Goes(act')
    <3>1. act' \in Activation /\ ~Drives(act') /\ act'.evidence = 1 /\ act'.status = "success"
      BY <2>1, <2>2, EndsFields DEF Results, Drives
    <3> QED
      BY <3>1, GoodArrival
  <2>3. CASE act' = Ends(act, "failure")
    <3>1. act' \in Activation /\ ~Drives(act') /\ act'.status = "failure"
      BY <2>1, <2>3, EndsFields DEF Results, Drives
    <3> QED
      BY <3>1, GoodArrival
  <2> QED
    BY <1>2, <2>2, <2>3 DEF CheckErrors
<1> QED
  BY <1>1, <1>2

LEMMA TimedVelocityGood ==
  ASSUME Inv, Is("TimedVelocity"), StartTimedVelocity \/ (Running /\ TimedVelocityTick)
  PROVE  Goes(act')
<1>1. CASE StartTimedVelocity
  <2>1. Begun \in Activation /\ Begun.status = "running" /\ Begun.error = "stale"
    BY InvFacts, BegunFields
  <2>2. act' \in Activation /\ act'.status = "running" /\ act'.error = "stale"
    BY <1>1, <2>1, AsksFields DEF StartTimedVelocity
  <2> QED
    BY <2>2, GoodTimedVelocity
<1>2. CASE Running /\ TimedVelocityTick
  <2>1. Asks(act, "hold") \in Activation /\ ~Drives(Asks(act, "hold"))
    BY InvFacts, AsksFields DEF Drives
  <2>2. act' \in Activation /\ act'.status = "success" /\ ~Drives(act')
    BY <1>2, <2>1, EndsFields DEF TimedVelocityTick, Results, Drives
  <2> QED
    BY <2>2, GoodTimedVelocity
<1> QED
  BY <1>1, <1>2

LEMMA SettleFields ==
  ASSUME NEW x \in Activation, x.status = "running"
  PROVE  /\ Settle(x) \in Activation /\ Settle(x).status = "running"
         /\ Settle(x).motion = "target" /\ Settle(x).error = "stale"
<1>1. "settling" \in Flags
  BY DEF Flags
<1>2. /\ Commands(x) \in Activation /\ Commands(x).status = "running"
      /\ Commands(x).motion = "target"
  BY CommandsFields
<1>3. LET y == Sets(Commands(x), "settling")
      IN  y \in Activation /\ y.status = "running" /\ y.motion = "target"
  BY <1>1, <1>2, SetsFields
<1> QED
  BY <1>3, CountsUpdatesFields DEF Settle

LEMMA SpinGood ==
  ASSUME Inv, Is("Spin"), StartSpin \/ (Running /\ SpinTick)
  PROVE  Goes(act')
<1>1. CASE StartSpin
  <2>1. /\ Begun \in Activation /\ Begun.status = "running" /\ Begun.motion = "before"
        /\ Begun.error = "stale"
    BY InvFacts, BegunFields
  <2>2. CASE act' = Ends(Begun, "success")
    <3>1. act' \in Activation /\ act'.status = "success" /\ act'.motion = "before"
      BY <2>1, <2>2, EndsFields DEF Results
    <3> QED
      BY <3>1, GoodSpin DEF Drives
  <2>3. CASE act' = Settle(Begun)
    <3>1. /\ act' \in Activation /\ act'.status = "running" /\ act'.motion = "target"
          /\ act'.error = "stale"
      BY <2>1, <2>3, SettleFields
    <3> QED
      BY <3>1, GoodSpin DEF Drives
  <2>4. CASE act' = Clears(Asks(Begun, "velocity"), {"settling"})
    <3>1. LET y == Asks(Begun, "velocity")
          IN  y \in Activation /\ y.status = "running" /\ y.error = "stale"
      BY <2>1, AsksFields
    <3>2. /\ act' \in Activation /\ act'.status = "running" /\ act'.error = "stale"
          /\ "settling" \notin act'.on
      BY <2>4, <3>1, ClearsFields
    <3> QED
      BY <3>2, GoodSpin
  <2> QED
    BY <1>1, <2>2, <2>3, <2>4 DEF StartSpin
<1>2. CASE Running /\ SpinTick
  <2>1. /\ act \in Activation /\ act.status = "running"
        /\ Drives(act) => "settling" \notin act.on
        /\ act.error = "near" => act.evidence = 1
    BY <1>2, InvFacts, GoodSpin DEF Running
  <2>2. ASSUME "settling" \in act.on, act.error = "near", act' = Ends(act, "success") PROVE Goes(act')
    <3>1. act' \in Activation /\ ~Drives(act') /\ act'.evidence = 1 /\ act'.status = "success"
      BY <2>1, <2>2, EndsFields DEF Results, Drives
    <3> QED
      BY <3>1, GoodSpin
  <2>3. ASSUME NEW x \in Activation, act' = Ends(Commands(x), "failure") PROVE Goes(act')
    <3>1. Commands(x) \in Activation /\ ~Drives(Commands(x))
      BY CommandsFields DEF Drives
    <3>2. act' \in Activation /\ ~Drives(act') /\ act'.status = "failure"
      BY <2>3, <3>1, EndsFields DEF Results, Drives
    <3> QED
      BY <3>2, GoodSpin
  <2>4. Settle(act) \in Activation
    BY <2>1, SettleFields
  <2>5. CASE act' = Settle(act)
    <3>1. /\ act' \in Activation /\ act'.status = "running" /\ act'.motion = "target"
          /\ act'.error = "stale"
      BY <2>1, <2>5, SettleFields
    <3> QED
      BY <3>1, GoodSpin DEF Drives
  <2> QED
    BY <1>2, <2>1, <2>2, <2>3, <2>4, <2>5 DEF SpinTick
<1> QED
  BY <1>1, <1>2

LEMMA WaitUntilHitGood ==
  ASSUME Inv, Is("WaitUntilHit"), StartWaitUntilHit \/ (Running /\ WaitUntilHitTick)
  PROVE  Goes(act')
<1>1. ASSUME NEW x \in Activation, ~Drives(x), NEW result \in Results, act' = Ends(x, result)
      PROVE  Goes(act')
  <2>1. act' \in Activation /\ ~Drives(act') /\ act'.status = result
    BY <1>1, EndsFields DEF Drives
  <2> QED
    BY <2>1, GoodWaitUntilHit DEF Results
<1>2. CASE StartWaitUntilHit
  <2>1. /\ Begun \in Activation /\ Begun.motion = "before" /\ Begun.error = "stale"
        /\ Begun.status = "running"
    BY InvFacts, BegunFields
  <2>2. CASE act' = Begun
    BY <2>1, <2>2, GoodWaitUntilHit DEF Drives
  <2>3. CASE act' = Ends(Begun, "success")
    BY <1>1, <2>1, <2>3 DEF Drives, Results
  <2> QED
    BY <1>2, <2>2, <2>3 DEF StartWaitUntilHit
<1>3. CASE Running /\ WaitUntilHitTick
  <2>1. act \in Activation /\ ~Drives(act)
    BY <1>3, InvFacts, GoodWaitUntilHit
  <2> QED
    BY <1>1, <1>3, <2>1 DEF WaitUntilHitTick, Results
<1> QED
  BY <1>2, <1>3

\* A target sent, and the errors counted from there.
TurnsOrRises(x) ==
  x \in Activation /\ x.status = "running" /\ x.motion = "target" /\ x.error = "stale"

LEMMA TurnFields ==
  ASSUME NEW x \in Activation, x.status = "running"
  PROVE  TurnsOrRises(Turn(x)) /\ TurnsOrRises(Rise(x))
<1> DEFINE a == Commands(x)
<1>1. a \in Activation /\ a.status = "running" /\ a.motion = "target"
  BY CommandsFields
<1>2. /\ Turn(x) = CountsUpdates([a EXCEPT !.phase = "yaw", !.left = Deadline])
      /\ Rise(x) = CountsUpdates([a EXCEPT !.phase = "rise", !.left = Deadline])
  BY DEF Turn, Rise
<1> HIDE DEF a
<1>3. ASSUME NEW phase \in Phases
      PROVE  LET y == [a EXCEPT !.phase = phase, !.left = Deadline]
             IN  TurnsOrRises(CountsUpdates(y))
  <2> DEFINE y == [a EXCEPT !.phase = phase, !.left = Deadline]
  <2>1. y \in Activation /\ y.status = "running" /\ y.motion = "target"
    BY <1>1, <1>3, ZeroFits DEF Activation
  <2> HIDE DEF y
  <2>2. TurnsOrRises(CountsUpdates(y))
    BY <2>1, CountsUpdatesFields DEF TurnsOrRises
  <2> QED
    BY <2>2 DEF y
<1> QED
  BY <1>2, <1>3 DEF Phases

LEMMA TurnsGood ==
  ASSUME Is("OctagonSurfaceSweep"), NEW x, TurnsOrRises(x)
  PROVE  Goes(x)
  BY GoodOctagon DEF TurnsOrRises, Drives

LEMMA OctagonGoesOnGood ==
  ASSUME Is("OctagonSurfaceSweep"), NEW x, Goes(x), x.status = "running", OctagonGoesOn(x)
  PROVE  Goes(act')
<1>1. x \in Activation /\ ~Drives(x) /\ (x.error = "near" => x.evidence = 1)
  BY GoodOctagon
<1>2. CASE act' = Ends(x, "failure")
  <2>1. act' \in Activation /\ ~Drives(act') /\ act'.status = "failure"
    BY <1>1, <1>2, EndsFields DEF Results, Drives
  <2> QED
    BY <2>1, GoodOctagon
<1>3. CASE x.error = "near" /\ act' = Ends(x, "success")
  <2>1. act' \in Activation /\ ~Drives(act') /\ act'.status = "success" /\ act'.evidence = 1
    BY <1>1, <1>3, EndsFields DEF Results, Drives
  <2> QED
    BY <2>1, GoodOctagon
<1>4. CASE act' = Turn(x)
  BY <1>1, <1>4, TurnFields, TurnsGood
<1> QED
  BY <1>2, <1>3, <1>4 DEF OctagonGoesOn

LEMMA OctagonGood ==
  ASSUME Inv, Is("OctagonSurfaceSweep"), StartOctagonSurfaceSweep \/ (Running /\ OctagonTick)
  PROVE  Goes(act')
<1>1. CASE StartOctagonSurfaceSweep
  <2>1. Clears(Begun, {"diverted"}) \in Activation /\ Clears(Begun, {"diverted"}).status = "running"
    BY InvFacts, BegunFields, ClearsFields
  <2> QED
    BY <1>1, <2>1, TurnFields, TurnsGood DEF StartOctagonSurfaceSweep
<1>2. CASE Running /\ OctagonTick
  <2>1. act \in Activation /\ act.status = "running" /\ Goes(act)
    BY <1>2, InvFacts DEF Running
  <2>2. /\ Looks(act) \in Activation /\ Looks(act).status = "running"
        /\ Looks(act).motion = act.motion /\ Looks(act).error = act.error
        /\ Looks(act).evidence = act.evidence
    BY <2>1, LooksFields
  <2>3. Goes(Looks(act))
    BY <2>1, <2>2, GoodOctagon DEF Drives
  <2>4. CASE InspectLatestFrame
    <3>1. "diverted" \in Flags
      BY DEF Flags
    <3>2. /\ Sets(Looks(act), "diverted") \in Activation
          /\ Sets(Looks(act), "diverted").status = "running"
      BY <2>2, <3>1, SetsFields
    <3> QED
      BY <2>2, <2>4, <3>2, TurnFields, TurnsGood DEF InspectLatestFrame
  <2> QED
    BY <1>2, <2>1, <2>2, <2>3, <2>4, OctagonGoesOnGood DEF OctagonTick
<1> QED
  BY <1>1, <1>2

-----------------------------------------------------------------------------
(* Every leaf, and what comes to it from outside. *)

LEMMA StartGoes ==
  ASSUME Inv, Start
  PROVE  Goes(act')
<1>1. ASSUME \/ Is("PosSetpoint") /\ StartPosSetpoint
             \/ Is("AttSetpoint") /\ StartAttSetpoint
             \/ Is("AddAttSetpoint") /\ StartAddAttSetpoint
             \/ Is("AltitudeSetpoint") /\ StartAltitudeSetpoint
             \/ Is("MoveRelative") /\ StartMoveRelative
             \/ Is("NavigateToTransform") /\ StartNavigateToTransform
      PROVE  Goes(act')
  <2>1. leaf.name \in ArrivalNames
    BY <1>1 DEF Is, ArrivalNames
  <2>2. StartSetpoint(TRUE)
    BY <1>1 DEF StartPosSetpoint, StartAttSetpoint, StartAddAttSetpoint, StartAltitudeSetpoint,
                StartMoveRelative, StartNavigateToTransform, StartSetpoint
  <2> QED
    BY <2>1, <2>2, ArrivalGood
<1>2. CASE \/ Is("WaitForDetection") /\ StartWaitForDetection
           \/ Is("SelectGateRole") /\ StartSelectGateRole
           \/ Is("SearchForDetection") /\ StartSearchForDetection
           \/ Is("AlignToDetection") /\ StartAlignToDetection
           \/ Is("LateralAlignToDetection") /\ StartLateralAlignToDetection
           \/ Is("SweepAngle") /\ StartSweepAngle
  BY <1>2, WaitForDetectionGood, SelectGateRoleGood, SearchForDetectionGood,
     AlignToDetectionGood, LateralAlignGood, SweepAngleGood
<1>3. CASE \/ Is("ForwardContinuousAlign") /\ StartForwardContinuousAlign
           \/ Is("ForwardFixedTransit") /\ StartForwardFixedTransit
           \/ Is("OrientToDetectionAtDist") /\ StartOrientToDetectionAtDist
           \/ Is("SquareUpToGate") /\ StartSquareUpToGate
  BY <1>3, ForwardContinuousAlignGood, ForwardFixedTransitGood, OrientToDetectionGood,
     SquareUpToGateGood
<1>4. CASE \/ Is("DownForwardAlign") /\ StartDownForwardAlign
           \/ Is("DownSweepAlign") /\ StartDownSweepAlign
           \/ Is("DownAlignToDetection") /\ StartDownAlignToDetection
  BY <1>4, DownForwardAlignGood, DownSweepAlignGood, DownAlignGood
<1>5. CASE \/ Is("TimedVelocity") /\ StartTimedVelocity
           \/ Is("Spin") /\ StartSpin
           \/ Is("WaitUntilHit") /\ StartWaitUntilHit
           \/ Is("OctagonSurfaceSweep") /\ StartOctagonSurfaceSweep
  BY <1>5, TimedVelocityGood, SpinGood, WaitUntilHitGood, OctagonGood
<1> QED
  BY <1>1, <1>2, <1>3, <1>4, <1>5 DEF Start

LEMMA TickGoes ==
  ASSUME Inv, Tick
  PROVE  Goes(act')
<1>1. Running
  BY DEF Tick
<1>2. CASE leaf.name \in ArrivalNames /\ CheckErrors
  BY <1>1, <1>2, ArrivalGood
<1>3. CASE \/ Is("WaitForDetection") /\ WaitCheck
           \/ Is("SelectGateRole") /\ SelectGateRoleCheck
           \/ Is("SearchForDetection") /\ SearchCheck
           \/ Is("AlignToDetection") /\ AlignTick
           \/ Is("LateralAlignToDetection") /\ LateralTick(act)
           \/ Is("SweepAngle") /\ SweepAngleTick
  BY <1>1, <1>3, WaitForDetectionGood, SelectGateRoleGood, SearchForDetectionGood,
     AlignToDetectionGood, LateralAlignGood, SweepAngleGood
<1>4. CASE \/ Is("ForwardContinuousAlign") /\ ForwardContinuousAlignTick
           \/ Is("ForwardFixedTransit") /\ ForwardFixedTransitTick
           \/ Is("OrientToDetectionAtDist") /\ OrientTick
           \/ Is("SquareUpToGate") /\ SquareUpTick
  BY <1>1, <1>4, ForwardContinuousAlignGood, ForwardFixedTransitGood, OrientToDetectionGood,
     SquareUpToGateGood
<1>5. CASE \/ Is("DownForwardAlign") /\ DownForwardAlignTick
           \/ Is("DownSweepAlign") /\ DownSweepAlignTick
           \/ Is("DownAlignToDetection") /\ DownAlignToDetectionTick
  BY <1>1, <1>5, DownForwardAlignGood, DownSweepAlignGood, DownAlignGood
<1>6. CASE \/ Is("TimedVelocity") /\ TimedVelocityTick
           \/ Is("Spin") /\ SpinTick
           \/ Is("WaitUntilHit") /\ WaitUntilHitTick
           \/ Is("OctagonSurfaceSweep") /\ OctagonTick
  BY <1>1, <1>6, TimedVelocityGood, SpinGood, WaitUntilHitGood, OctagonGood
<1> QED
  BY <1>2, <1>3, <1>4, <1>5, <1>6 DEF Tick

\* An activation that ended without success, and does not drive.
LEMMA EndedGood ==
  ASSUME NEW x \in Activation, ~Drives(x), x.status \in {"idle", "failure"}
  PROVE  Good(x)
  BY DEF Good

LEMMA HaltedKeeps ==
  ASSUME Inv, Halt
  PROVE  Good(act') /\ act'.status = "idle" /\ ~Drives(act')
<1> DEFINE x == Halted(act)
<1>1. act \in Activation /\ Good(act) /\ act.status = "running"
  BY InvFacts DEF Halt, Running
<1>2. x \in Activation /\ ~Drives(x)
  <2>1. CASE leaf.name \in HoldingNames
    BY <1>1, <2>1, AsksFields DEF Halted, Drives
  <2>2. CASE leaf.name \in {"ForwardContinuousAlign", "ForwardFixedTransit"}
    <3>1. Moving(act)
      BY <1>1, <2>2 DEF Good, Moving, MayDrive, Is
    <3>2. x = Stop(act)
      BY <2>2 DEF Halted, HoldingNames
    <3> QED
      BY <3>1, <3>2, StopFields
  <2>3. CASE Is("Spin")
    <3>1. x = HaltedSpin(act)
      BY <2>3 DEF Halted, HoldingNames, Is
    <3>2. CASE "settling" \in act.on
      BY <1>1, <2>3, <3>1, <3>2 DEF HaltedSpin, Good, MayDrive, Is
    <3>3. CASE "settling" \notin act.on
      BY <1>1, <3>1, <3>3, AsksFields DEF HaltedSpin, Drives
    <3> QED
      BY <3>2, <3>3
  <2>4. CASE leaf.name \notin HoldingNames \cup {"ForwardContinuousAlign", "ForwardFixedTransit", "Spin"}
    <3>1. x = act
      BY <2>4 DEF Halted, Is
    <3> QED
      BY <1>1, <2>4, <3>1 DEF Good, MayDrive, HoldingNames, Is
  <2> QED
    BY <2>1, <2>2, <2>3, <2>4 DEF Is
<1>3. act' = Ends(x, "idle")
  BY DEF Halt
<1> HIDE DEF x
<1>4. act' \in Activation /\ act'.status = "idle" /\ ~Drives(act')
  BY <1>2, <1>3, EndsFields DEF Drives
<1> QED
  BY <1>4, EndedGood

LEMMA RefuseKeeps ==
  ASSUME Inv, Refuse
  PROVE  Good(act') /\ act'.status = "failure" /\ ~Drives(act')
<1>1. Begun \in Activation /\ Begun.motion = "before"
  BY InvFacts, BegunFields
<1>2. act' = [Begun EXCEPT !.status = "failure"]
  BY DEF Refuse
<1>3. act' \in Activation /\ act'.motion = "before" /\ act'.status = "failure"
  BY <1>1, <1>2 DEF Activation, Results
<1> QED
  BY <1>3, EndedGood DEF Drives

\* A frame may be new, and time pass, without anything being counted.
LEMMA OutsideKeeps ==
  ASSUME Inv, NEW y \in Activation, y.status = act.status, y.motion = act.motion,
         y.phase = act.phase, y.on = act.on, y.count = act.count, y.accepted = act.accepted,
         y.index = act.index, y.evidence = act.evidence, y.error = act.error,
         (act.own => act.unseen) => (y.own => y.unseen)
  PROVE  Good(y)
<1>1. Good(act)
  BY InvFacts
<1>2. Needed(y) = Needed(act) /\ (Drives(y) <=> Drives(act)) /\ (MayDrive(y) <=> MayDrive(act))
  BY DEF Needed, Drives, MayDrive
<1>3. Counted(act) => Counted(y)
  BY DEF Counted
<1>4. (AlignsLaterally(act) => AlignsLaterally(y)) /\ (Squared(act) => Squared(y))
  BY DEF AlignsLaterally, Squared
<1> QED
  BY <1>1, <1>2, <1>3, <1>4 DEF Good

LEMMA FrameKeeps ==
  ASSUME Inv, Frame
  PROVE  Good(act') /\ act'.status = act.status /\ act'.motion = act.motion
<1>1. act \in Activation
  BY InvFacts
<1>2. act' = [act EXCEPT !.unseen = TRUE, !.own = TRUE]
  BY DEF Frame
<1>3. /\ act' \in Activation /\ act'.status = act.status /\ act'.motion = act.motion
      /\ act'.phase = act.phase /\ act'.on = act.on /\ act'.count = act.count
      /\ act'.accepted = act.accepted /\ act'.index = act.index
      /\ act'.evidence = act.evidence /\ act'.error = act.error /\ act'.unseen
  BY <1>1, <1>2 DEF Activation
<1> QED
  BY <1>3, OutsideKeeps

LEMMA TimeKeeps ==
  ASSUME Inv, Time
  PROVE  Good(act') /\ act'.status = act.status /\ act'.motion = act.motion
<1>1. act \in Activation /\ act.left \in 0 .. Deadline
  BY InvFacts, Fields
<1>2. act' = [act EXCEPT !.left = @ - 1] /\ act.left > 0
  BY DEF Time
<1>3. act.left - 1 \in 0 .. Deadline
  BY <1>1, <1>2
<1>4. /\ act' \in Activation /\ act'.status = act.status /\ act'.motion = act.motion
      /\ act'.phase = act.phase /\ act'.on = act.on /\ act'.count = act.count
      /\ act'.accepted = act.accepted /\ act'.index = act.index
      /\ act'.evidence = act.evidence /\ act'.error = act.error /\ act'.unseen = act.unseen
      /\ act'.own = act.own
  BY <1>1, <1>2, <1>3 DEF Activation
<1> QED
  BY <1>4, OutsideKeeps

\* What the controller reports counts for the leaves that wait for it.
LEMMA ErrorsKeep ==
  ASSUME Inv, Errors
  PROVE  Good(act') /\ act'.status = act.status /\ act'.motion = act.motion
<1>1. act \in Activation /\ act.status = "running" /\ Goes(act) /\ Good(act)
  BY InvFacts DEF Errors, Running
<1>2. PICK what \in {"far", "near"} :
         act' = [act EXCEPT !.error = what,
                            !.evidence = IF leaf.name \notin MotionNames THEN @
                                         ELSE IF what = "near" THEN 1 ELSE 0]
  BY DEF Errors
<1> DEFINE n == IF leaf.name \notin MotionNames THEN act.evidence
                ELSE IF what = "near" THEN 1 ELSE 0
<1>3. n \in 0 .. Frames
  BY <1>1, Fields, ZeroFits
<1>4. act' = [act EXCEPT !.error = what, !.evidence = n]
  BY <1>2
<1>5. /\ leaf.name \notin MotionNames => n = act.evidence
      /\ leaf.name \in MotionNames /\ what = "near" => n = 1
  OBVIOUS
<1> HIDE DEF n
<1>6. /\ act' \in Activation /\ act'.status = act.status /\ act'.motion = act.motion
      /\ act'.phase = act.phase /\ act'.on = act.on /\ act'.count = act.count
      /\ act'.accepted = act.accepted /\ act'.index = act.index
      /\ act'.evidence = n /\ act'.error = what /\ act'.unseen = act.unseen
      /\ act'.own = act.own
  BY <1>1, <1>3, <1>4 DEF Activation
<1>7. CASE leaf.name \in MotionNames
  <2>1. Drives(act') <=> Drives(act)
    BY <1>6 DEF Drives
  <2>2. act'.status = "running" /\ (act'.error = "near" => act'.evidence = 1)
    BY <1>1, <1>5, <1>6, <1>7
  <2>3. Goes(act')
    BY <1>1, <1>6, <1>7, <2>1, <2>2, GoodArrival, GoodTimedVelocity, GoodSpin,
       GoodWaitUntilHit, GoodOctagon
    DEF MotionNames, Is
  <2> QED
    BY <1>6, <2>3 DEF Goes
<1>8. CASE leaf.name \notin MotionNames
  <2> DEFINE y == act'
  <2>1. (Drives(y) <=> Drives(act)) /\ (MayDrive(y) <=> MayDrive(act))
    BY <1>6 DEF Drives, MayDrive
  <2>2. Counted(act) => Counted(y)
    BY <1>5, <1>6, <1>8 DEF Counted
  <2>3. (AlignsLaterally(act) => AlignsLaterally(y)) /\ (Squared(act) => Squared(y))
    BY <1>5, <1>6, <1>8 DEF AlignsLaterally, Squared
  <2> QED
    BY <1>1, <1>6, <2>1, <2>2, <2>3 DEF Good
<1> QED
  BY <1>7, <1>8

\* Whatever happens, the leaf and its ports stay, and the activation is good.
LEMMA InvInit == Init => Inv
<1> SUFFICES ASSUME Init PROVE Inv
  OBVIOUS
<1>1. act \in Activation
  BY ZeroFits DEF Init, Activation, Results, Phases
<1>2. act.status = "idle" /\ ~Drives(act)
  BY DEF Init, Drives
<1> QED
  BY <1>1, <1>2, EndedGood DEF Init, Inv

LEMMA InvNext == Inv /\ [Next]_vars => Inv'
<1> SUFFICES ASSUME Inv, [Next]_vars PROVE Inv'
  OBVIOUS
<1>1. leaf' = leaf /\ match' \in BOOLEAN
  BY DEF Inv, Next, vars, Start, Refuse, Tick, Halt, Frame, Errors, Time
<1>2. Good(act')
  <2>1. CASE UNCHANGED vars
    BY <2>1 DEF Inv, vars
  <2>2. CASE Next
    BY <2>2, StartGoes, TickGoes, HaltedKeeps, RefuseKeeps, FrameKeeps, ErrorsKeep, TimeKeeps
    DEF Next, Goes
  <2> QED
    BY <2>1, <2>2
<1>3. Good(act)'
  BY <1>1, <1>2 DEF Good, Needed, MayDrive, Counted, AlignsLaterally, Squared, Is, Port, Drives
<1> QED
  BY <1>1, <1>3 DEF Inv

\* The invariant holds in every run, with any leaf and any options.
THEOREM InvHolds == Spec => []Inv
  BY InvInit, InvNext, PTL DEF Spec

\* Every activation has the members of the leaf's object, its counters within
\* what it counts to.
THEOREM TypeCorrect == Spec => []TypeOK
<1>1. Inv => TypeOK
  BY InvFacts DEF Inv, TypeOK
<1> QED
  BY <1>1, InvHolds, PTL

\* A leaf never succeeds on what an earlier activation has counted, locked on or
\* been told: the evidence it needs is its own.
THEOREM EvidenceFirst == Spec => []SucceedsOnEvidence
<1>1. Inv => SucceedsOnEvidence
  BY InvFacts DEF SucceedsOnEvidence, Good
<1> QED
  BY <1>1, InvHolds, PTL

\* SquareUpToGate never takes the median of nothing.
THEOREM MediansTaken == Spec => []MediansOfSome
<1>1. Inv => MediansOfSome
  BY InvFacts DEF MediansOfSome, Good, Squared
<1> QED
  BY <1>1, InvHolds, PTL

\* Every leaf implements the contract of an action: each of its steps is one of
\* the contract, or none, and it never drives on when it has ended.
THEOREM ContractKept == Spec => KeepsContract
<1>1. Init => Contract!Init
  BY DEF Init, Contract!Init, Drives
<1>2. Inv /\ [Next]_vars => [Contract!Next]_Contract!nodeVars
  <2> SUFFICES ASSUME Inv, [Next]_vars
               PROVE  Contract!Next \/ UNCHANGED Contract!nodeVars
    BY DEF Contract!nodeVars
  <2>1. act \in Activation /\ Good(act)
    BY InvFacts
  <2>2. (Drives(act))' \in BOOLEAN /\ ((Drives(act))' <=> Drives(act'))
    BY DEF Drives
  <2>3. ASSUME Goes(act')
        PROVE  \/ act'.status = "running"
               \/ act'.status \in Contract!Ended /\ ~Drives(act')
    BY <2>3, Fields DEF Goes, Good, Contract!Ended, Results
  <2>4. CASE Start
    BY <2>2, <2>3, <2>4, StartGoes DEF Start, Running, Contract!Next, Contract!Start
  <2>5. CASE Refuse
    BY <2>2, <2>5, RefuseKeeps DEF Refuse, Running, Contract!Next, Contract!Start, Contract!Ended
  <2>6. CASE Tick
    BY <2>2, <2>3, <2>6, TickGoes
    DEF Tick, Running, Contract!Next, Contract!Run, Contract!Finish
  <2>7. CASE Halt
    BY <2>2, <2>7, HaltedKeeps DEF Halt, Running, Contract!Next, Contract!Halt
  <2>8. CASE Frame \/ Errors \/ Time
    BY <2>8, FrameKeeps, ErrorsKeep, TimeKeeps DEF Contract!nodeVars, Drives
  <2>9. CASE UNCHANGED vars
    BY <2>9 DEF vars, Contract!nodeVars, Drives
  <2> QED
    BY <2>4, <2>5, <2>6, <2>7, <2>8, <2>9 DEF Next
<1> QED
  BY <1>1, <1>2, InvHolds, PTL DEF Spec, KeepsContract, Contract!Spec

-----------------------------------------------------------------------------
(* The row of frames ForwardContinuousAlign moves on: the count of a running *)
(* activation is the evidence it has.                                       *)

Row == Is("ForwardContinuousAlign") /\ Running => act.count = act.evidence

\* What may become of an activation in a row: the count stays true, and only a
\* full row sets the vehicle moving.
InRow(x) ==
  /\ x.status = "running" => x.count = x.evidence
  /\ x.motion = "velocity" => act.motion = "velocity" \/ x.evidence = Frames

LEMMA StopInRow ==
  ASSUME NEW x \in Activation, x.motion = "velocity" => act.motion = "velocity" \/ "moving" \in x.on,
         NEW result \in Results \cup {"idle"}
  PROVE  InRow(Ends(Stop(x), result))
<1>1. Stop(x) \in Activation /\ (Stop(x).motion = "velocity" => act.motion = "velocity")
  <2>1. CASE "moving" \in x.on
    <3>1. Asks(x, "hold") \in Activation /\ Asks(x, "hold").motion = "hold"
      BY AsksFields
    <3> QED
      BY <2>1, <3>1, ClearsFields DEF Stop
  <2>2. CASE "moving" \notin x.on
    BY <2>2 DEF Stop
  <2> QED
    BY <2>1, <2>2
<1>2. /\ Ends(Stop(x), result).status = result
      /\ Ends(Stop(x), result).motion = Stop(x).motion
  BY <1>1, EndsFields
<1> QED
  BY <1>1, <1>2 DEF InRow, Results

LEMMA MatchInRow ==
  ASSUME act \in Activation, act.status = "running", act.count = act.evidence, act.unseen,
         ForwardMatch
  PROVE  InRow(act')
<1> DEFINE a == Agrees(act)
           n == Bump(a.count)
           b == [a EXCEPT !.count = n]
           x == Sets(b, "seen")
           y == IF x.count = Frames /\ "moving" \notin x.on THEN Moves(x) ELSE x
<1>1. /\ a \in Activation /\ a.status = "running" /\ a.motion = act.motion /\ a.on = act.on
      /\ a.count = act.count /\ a.evidence = Bump(act.evidence)
  BY AgreesFields
<1>2. n \in 0 .. Frames /\ n = a.evidence
  BY <1>1, Fields, BumpFacts
<1>3. \/ act' = y
      \/ act' = Ends(Stop(y), "success")
      \/ act' = Sets(y, "seen_close")
  BY DEF ForwardMatch
<1> HIDE DEF a, n
<1>4. /\ b \in Activation /\ b.status = "running" /\ b.motion = act.motion /\ b.on = act.on
      /\ b.count = n /\ b.evidence = n
  BY <1>1, <1>2 DEF Activation
<1> HIDE DEF b
<1>5. "seen" \in Flags /\ "seen_close" \in Flags /\ "moving" \in Flags
  BY DEF Flags
<1>6. /\ x \in Activation /\ x.status = "running" /\ x.motion = act.motion
      /\ x.count = n /\ x.evidence = n
  BY <1>4, <1>5, SetsFields
<1> HIDE DEF x
<1>7. /\ Moves(x) \in Activation /\ Moves(x).count = n /\ Moves(x).evidence = n
      /\ "moving" \in Moves(x).on
  <2>1. LET v == Asks(x, "velocity")
        IN  v \in Activation /\ v.count = n /\ v.evidence = n
    BY <1>6, AsksFields
  <2> QED
    BY <1>5, <2>1, SetsFields DEF Moves
<1>8. /\ y \in Activation /\ y.count = n /\ y.evidence = n
      /\ y.motion = "velocity" => act.motion = "velocity" \/ (n = Frames /\ "moving" \in y.on)
  BY <1>6, <1>7
<1> HIDE DEF y
<1>9. CASE act' = y
  BY <1>8, <1>9 DEF InRow
<1>10. CASE act' = Ends(Stop(y), "success")
  BY <1>8, <1>10, StopInRow DEF Results
<1>11. CASE act' = Sets(y, "seen_close")
  <2>1. act'.count = n /\ act'.evidence = n /\ act'.motion = y.motion
    BY <1>5, <1>8, <1>11, SetsFields
  <2> QED
    BY <1>8, <2>1 DEF InRow
<1> QED
  BY <1>3, <1>9, <1>10, <1>11

LEMMA MissInRow ==
  ASSUME act \in Activation, act.status = "running", act.count = act.evidence
  PROVE  /\ AfterMiss \in Activation /\ AfterMiss.motion = act.motion
         /\ AfterMiss.count = AfterMiss.evidence
<1>1. CASE Missed
  <2> DEFINE x == [act EXCEPT !.evidence = 0]
  <2>1. x \in Activation /\ x.motion = act.motion /\ x.evidence = 0
    BY ZeroFits DEF Activation
  <2>2. AfterMiss = [x EXCEPT !.count = 0]
    BY <1>1 DEF AfterMiss, RowBroken
  <2> HIDE DEF x
  <2> QED
    BY <2>1, <2>2, ZeroFits DEF Activation
<1>2. CASE ~Missed
  BY <1>2 DEF AfterMiss
<1> QED
  BY <1>1, <1>2

LEMMA ForwardTickInRow ==
  ASSUME act \in Activation, act.status = "running", act.count = act.evidence,
         ForwardContinuousAlignTick
  PROVE  InRow(act')
<1>1. CASE act' = Ends(Stop(act), "success")
  BY <1>1, StopInRow DEF Results
<1>2. CASE NewMatch(act) /\ ForwardMatch
  BY <1>2, MatchInRow DEF NewMatch
<1>3. /\ AfterMiss \in Activation /\ AfterMiss.motion = act.motion
      /\ AfterMiss.count = AfterMiss.evidence
  BY MissInRow
<1>4. CASE act' = AfterMiss
  BY <1>3, <1>4 DEF InRow
<1>5. CASE ForwardLoss(AfterMiss)
  <2>1. \/ act' = Ends(Stop(AfterMiss), "success")
        \/ act' = Ends(Stop(AfterMiss), "failure")
        \/ act' = Clears(AfterMiss, {"seen"})
    BY <1>5 DEF ForwardLoss
  <2>2. InRow(Clears(AfterMiss, {"seen"}))
    BY <1>3, ClearsFields DEF InRow
  <2> QED
    BY <1>3, <2>1, <2>2, StopInRow DEF Results
<1> QED
  BY <1>1, <1>2, <1>4, <1>5 DEF ForwardContinuousAlignTick

LEMMA StepInRow ==
  ASSUME Inv, Row, Is("ForwardContinuousAlign"), Next
  PROVE  InRow(act')
<1>1. act \in Activation /\ Good(act) /\ (act.status = "running" => act.count = act.evidence)
  BY InvFacts DEF Row, Running
<1>2. CASE Start
  <2> DEFINE x == [Begun EXCEPT !.count = 0]
  <2>1. Begun \in Activation /\ Begun.motion = "before" /\ Begun.evidence = 0
    BY <1>1, BegunFields
  <2>2. x \in Activation /\ x.motion = "before" /\ x.evidence = 0 /\ x.count = 0
    BY <2>1, ZeroFits DEF Activation
  <2>3. act' = Clears(x, {"moving", "seen", "seen_close"})
    BY <1>2 DEF Start, Is, StartForwardContinuousAlign
  <2> HIDE DEF x
  <2>4. act'.motion = "before" /\ act'.evidence = 0 /\ act'.count = 0
    BY <2>2, <2>3, ClearsFields
  <2> QED
    BY <2>4 DEF InRow
<1>3. CASE Refuse
  BY <1>3, RefuseKeeps DEF InRow, Drives
<1>4. CASE Tick
  <2>1. act.status = "running" /\ ForwardContinuousAlignTick
    BY <1>4 DEF Tick, Is, Running, ArrivalNames
  <2> QED
    BY <1>1, <2>1, ForwardTickInRow
<1>5. CASE Halt
  BY <1>5, HaltedKeeps DEF InRow, Drives
<1>6. CASE Frame
  <2>1. act' = [act EXCEPT !.unseen = TRUE, !.own = TRUE]
    BY <1>6 DEF Frame
  <2>2. /\ act'.status = act.status /\ act'.motion = act.motion /\ act'.count = act.count
        /\ act'.evidence = act.evidence
    BY <1>1, <2>1 DEF Activation
  <2> QED
    BY <1>1, <2>2 DEF InRow
<1>7. CASE Errors
  <2>1. leaf.name \notin MotionNames
    BY DEF Is, MotionNames, ArrivalNames
  <2>2. \E what \in {"far", "near"} : act' = [act EXCEPT !.error = what, !.evidence = @]
    BY <1>7, <2>1 DEF Errors
  <2>3. /\ act'.status = act.status /\ act'.motion = act.motion /\ act'.count = act.count
        /\ act'.evidence = act.evidence
    BY <1>1, <2>2 DEF Activation
  <2> QED
    BY <1>1, <2>3 DEF InRow
<1>8. CASE Time
  <2>1. act' = [act EXCEPT !.left = @ - 1]
    BY <1>8 DEF Time
  <2>2. /\ act'.status = act.status /\ act'.motion = act.motion /\ act'.count = act.count
        /\ act'.evidence = act.evidence
    BY <1>1, <2>1 DEF Activation
  <2> QED
    BY <1>1, <2>2 DEF InRow
<1> QED
  BY <1>2, <1>3, <1>4, <1>5, <1>6, <1>7, <1>8 DEF Next

\* Nothing that one frame shows sets the vehicle moving: it takes the whole row,
\* of this activation and unbroken.
THEOREM RowFirst == Spec => MovesOnRow
<1>1. Init => Row
  BY DEF Init, Row, Running
<1>2. leaf' = leaf \/ ~[Next]_vars
  BY DEF Next, vars, Start, Refuse, Tick, Halt, Frame, Errors, Time
<1>3. Inv /\ Row /\ [Next]_vars => Row'
  <2>1. ASSUME Inv, Row, Next PROVE Row'
    BY <1>2, <2>1, StepInRow DEF Row, Is, Running, InRow
  <2>2. ASSUME Row, UNCHANGED vars PROVE Row'
    BY <2>2 DEF vars, Row, Is, Running
  <2> QED
    BY <2>1, <2>2
<1>4. Inv /\ Row /\ [Next]_vars
        => [(Is("ForwardContinuousAlign") /\ act.motion # "velocity" /\ act'.motion = "velocity")
              => act'.evidence = Frames]_vars
  <2>1. ASSUME Inv, Row, Next, Is("ForwardContinuousAlign"), act.motion # "velocity",
               act'.motion = "velocity"
        PROVE  act'.evidence = Frames
    BY <2>1, StepInRow DEF InRow
  <2> QED
    BY <2>1
<1> QED
  BY <1>1, <1>3, <1>4, InvHolds, PTL DEF Spec, MovesOnRow

-----------------------------------------------------------------------------
(* The time of an activation.  But for the four leaves that have stages, it  *)
(* goes on only before its deadline, and with the time it had left.          *)

Timed(x) == "left" \in DOMAIN x /\ x.left = act.left

\* Of y that follows act.
Timely(y) == y.status = "running" => y.left = act.left /\ ~TimedOut(act)

LEMMA TimedNow == act \in Activation => Timed(act)
  BY DEF Timed, Activation

LEMMA TimedHelpers ==
  ASSUME NEW x, Timed(x)
  PROVE  /\ \A flag : Timed(Sets(x, flag)) /\ Timed(Clears(x, flag))
         /\ \A motion : Timed(Asks(x, motion))
         /\ \A result : Timed(Ends(x, result))
         /\ Timed(Agrees(x)) /\ Timed(StartsOver(x)) /\ Timed(Looks(x))
  BY DEF Timed, Sets, Clears, Asks, Ends, Agrees, StartsOver, Looks

LEMMA TimedFields ==
  ASSUME NEW x, Timed(x), NEW v
  PROVE  /\ Timed([x EXCEPT !.count = v]) /\ Timed([x EXCEPT !.phase = v])
         /\ Timed([x EXCEPT !.accepted = v]) /\ Timed([x EXCEPT !.evidence = v])
  BY DEF Timed

LEMMA TimedIsTimely == ~TimedOut(act) /\ Timed(act') => Timely(act')
  BY DEF Timed, Timely

LEMMA EndsTimely ==
  ASSUME NEW x, Timed(x), NEW result \in Results, "status" \in DOMAIN x
  PROVE  Timely(Ends(x, result))
  BY DEF Ends, Timely, Results

\* The leaves of one helper or two.
LEMMA PlainTimely ==
  ASSUME act \in Activation,
         WaitCheck \/ AlignTick \/ CheckErrors \/ TimedVelocityTick \/ WaitUntilHitTick
  PROVE  Timely(act')
  BY DEF WaitCheck, AlignTick, CheckErrors, TimedVelocityTick, WaitUntilHitTick, Timely, Ends,
         Agrees, StartsOver, Asks, Activation

LEMMA SelectGateRoleTimely ==
  ASSUME act \in Activation, SelectGateRoleCheck
  PROVE  Timely(act')
  BY DEF SelectGateRoleCheck, CountsRole, Timely, Ends, Agrees, StartsOver, Activation

LEMMA SpinTimely ==
  ASSUME act \in Activation, SpinTick
  PROVE  Timely(act')
  BY DEF SpinTick, Settle, Sets, Commands, CountsUpdates, Timely, Ends, Activation

LEMMA ForwardTimely ==
  ASSUME act \in Activation, ForwardContinuousAlignTick \/ ForwardFixedTransitTick
  PROVE  Timely(act')
<1>1. CASE ForwardContinuousAlignTick
  BY <1>1 DEF ForwardContinuousAlignTick, AfterMiss, RowBroken, ForwardMatch, Moves, Stop,
              ForwardLoss, Sets, Clears, Timely, Ends, Agrees, Asks, Activation
<1>2. CASE ForwardFixedTransitTick
  BY <1>2 DEF ForwardFixedTransitTick, Stop, Results, Clears, Timely, Ends, Asks, Activation
<1> QED
  BY <1>1, <1>2

LEMMA DownForwardTimely ==
  ASSUME act \in Activation, DownForwardAlignTick
  PROVE  Timely(act')
  BY DEF DownForwardAlignTick, DownFinish, Timely, Ends, Agrees, Asks, Activation

LEMMA DownAlignTimely ==
  ASSUME act \in Activation, DownAlignToDetectionTick
  PROVE  Timely(act')
<1>1. CASE TimedOut(act) /\ act' = Ends(act, "failure")
  BY <1>1 DEF Ends, Activation, Timely
<1>2. CASE ~TimedOut(act)
  <2>1. PICK x \in Orientations(act) \cup {Agrees(act)} :
               act' = Ends(x, "success") \/ act' = x \/ act' = Asks(x, "target")
    BY <1>2 DEF DownAlignToDetectionTick
  <2> DEFINE fresh == StartsOver(act)
             anew == [fresh EXCEPT !.evidence = 1]
             agreed == Agrees(act)
  <2>2. Timed(fresh) /\ Timed(agreed)
    BY TimedNow, TimedHelpers
  <2>3. \/ x = [anew EXCEPT !.count = 0] \/ x = [anew EXCEPT !.count = 1]
        \/ x = [agreed EXCEPT !.count = Bump(agreed.count)] \/ x = agreed
    BY DEF Orientations
  <2> HIDE DEF fresh, agreed
  <2>4. Timed(anew)
    BY <2>2, TimedFields
  <2> HIDE DEF anew
  <2>5. Timed(x)
    BY <2>2, <2>3, <2>4 DEF Timed
  <2> QED
    BY <1>2, <2>1, <2>5, TimedHelpers, TimedIsTimely
<1> QED
  BY <1>1, <1>2 DEF DownAlignToDetectionTick

LEMMA OrientsTimed ==
  ASSUME NEW x, Timed(x), Orients(x)
  PROVE  Timed(act')
<1> DEFINE y == Sets(x, "filtered")
           n == Bump(y.count)
<1>1. Timed(y)
  BY TimedHelpers
<1>2. \/ act' = [Agrees(y) EXCEPT !.count = n, !.status = IF n = Frames THEN "success" ELSE @]
      \/ \E z \in {y, Asks(y, "target")} : act' = [StartsOver(z) EXCEPT !.count = 0]
  BY DEF Orients
<1> HIDE DEF y, n
<1>3. CASE act' = [Agrees(y) EXCEPT !.count = n, !.status = IF n = Frames THEN "success" ELSE @]
  <2>1. Timed(Agrees(y))
    BY <1>1, TimedHelpers
  <2> QED
    BY <1>3, <2>1 DEF Timed
<1>4. ASSUME NEW z \in {y, Asks(y, "target")}, act' = [StartsOver(z) EXCEPT !.count = 0]
      PROVE  Timed(act')
  <2>1. Timed(z)
    BY <1>1, <1>4, TimedHelpers
  <2>2. Timed(StartsOver(z))
    BY <2>1, TimedHelpers
  <2> QED
    BY <1>4, <2>2 DEF Timed
<1> QED
  BY <1>2, <1>3, <1>4

LEMMA OrientTimely ==
  ASSUME act \in Activation, OrientTick
  PROVE  Timely(act')
<1>1. CASE TimedOut(act) /\ act' = Ends(act, "failure")
  BY <1>1 DEF Ends, Activation, Timely
<1>2. CASE ~TimedOut(act)
  <2>1. \/ \E z \in {act, Asks(act, "target")} : act' = Clears(Looks(z), {"candidate"})
        \/ act' = Looks(act) \/ act' = Sets(Looks(act), "candidate")
        \/ Orients(Clears(act, {"candidate"}))
        \/ Orients(Clears([act EXCEPT !.count = 0, !.evidence = 0], {"candidate"}))
        \/ Orients(act)
    BY <1>2 DEF OrientTick, Confirmed
  <2>2. Timed([act EXCEPT !.count = 0, !.evidence = 0])
    BY DEF Timed, Activation
  <2>3. Timed(act')
    BY <2>1, <2>2, TimedNow, TimedHelpers, OrientsTimed
  <2> QED
    BY <1>2, <2>3, TimedIsTimely
<1> QED
  BY <1>1, <1>2 DEF OrientTick

LEMMA ApproachTimed ==
  ASSUME NEW x, Timed(x), Approach(x)
  PROVE  Timed(act')
<1>1. PICK y \in {x, Asks(x, "target")} :
        \/ act' = Clears(y, {"settling"})
        \/ act' = [Sets(y, "settling") EXCEPT !.phase = "square"]
        \/ act' = Ends([Sets(y, "settling") EXCEPT !.phase = "square"], "success")
        \/ act' = [Clears(y, {"settling"}) EXCEPT !.phase = "square"]
  BY DEF Approach
<1>2. Timed(y)
  BY TimedHelpers
<1>3. Timed(Sets(y, "settling")) /\ Timed(Clears(y, {"settling"}))
  BY <1>2, TimedHelpers
<1>4. /\ Timed([Sets(y, "settling") EXCEPT !.phase = "square"])
      /\ Timed([Clears(y, {"settling"}) EXCEPT !.phase = "square"])
  BY <1>3, TimedFields
<1> QED
  BY <1>1, <1>3, <1>4, TimedHelpers

LEMMA ObservationsTimed ==
  ASSUME NEW x, Timed(x), NEW y \in Observations(x)
  PROVE  Timed(y)
<1> DEFINE more == [x EXCEPT !.count = Bump(@)]
<1>1. y \in {x, more, Sets(x, "left_points"), Sets(more, "left_points"), Sets(x, "lone")}
  BY DEF Observations
<1>2. Timed(more)
  BY TimedFields
<1> HIDE DEF more
<1> QED
  BY <1>1, <1>2, TimedHelpers

LEMMA SquareUpGoesOnTimed ==
  ASSUME NEW x, Timed(x), SquareUpGoesOn(x)
  PROVE  Timed(act')
<1> DEFINE approached == [x EXCEPT !.phase = "approach"]
           first == [approached EXCEPT !.count = IF @ = 0 THEN 1 ELSE @]
<1>1. \/ Approach(x) \/ Approach(approached) \/ Approach(Sets(first, "left_points"))
      \/ act' = x \/ act' = Ends(Asks(x, "hold"), "failure")
  BY DEF SquareUpGoesOn, MakesDo
<1>2. Timed(approached)
  BY TimedFields
<1>3. Timed(first)
  <2> HIDE DEF approached
  <2> QED
    BY <1>2, TimedFields
<1> HIDE DEF approached, first
<1> QED
  BY <1>1, <1>2, <1>3, TimedHelpers, ApproachTimed

LEMMA SquareUpTimely ==
  ASSUME act \in Activation, SquareUpTick
  PROVE  Timely(act')
<1>1. CASE TimedOut(act) /\ act' = Ends(Asks(act, "hold"), "failure")
  BY <1>1 DEF Ends, Asks, Activation, Timely
<1>2. CASE ~TimedOut(act)
  <2>1. \/ \E x \in Observations(Agrees(act)) : \E y \in {x, Asks(x, "target")} : SquareUpGoesOn(y)
        \/ act' = Ends(Asks(act, "hold"), "failure")
        \/ SquareUpGoesOn(act)
    BY <1>2 DEF SquareUpTick
  <2>2. Timed(act')
    BY <2>1, TimedNow, TimedHelpers, ObservationsTimed, SquareUpGoesOnTimed
  <2> QED
    BY <1>2, <2>2, TimedIsTimely
<1> QED
  BY <1>1, <1>2 DEF SquareUpTick

\* The leaves with stages.
Advances(y) ==
  y.status = "running" =>
    \/ Stages(y) > Stages(act)
    \/ Stages(y) = Stages(act) /\ y.left <= act.left /\ (act.left > 0 \/ y.count > act.count)

LEMMA StageTypes ==
  ASSUME NEW x \in Activation
  PROVE  Stages(x) \in Nat
<1>1. x.index \in Nat
  BY DEF Activation
<1> QED
  BY <1>1 DEF Stages

LEMMA TimelyAdvances ==
  ASSUME act \in Activation, NEW y, Timely(y), Stages(y) = Stages(act)
  PROVE  Advances(y)
<1>1. act.left \in 0 .. Deadline
  BY DEF Activation
<1> QED
  BY <1>1, StageTypes DEF Timely, Advances, TimedOut

LEMMA SweepAngleAdvances ==
  ASSUME act \in Activation, Running, Is("SweepAngle"), SweepAngleTick
  PROVE  Advances(act')
<1>1. act.index \in 0 .. Steps /\ act.count \in 0 .. Frames /\ act.left \in 0 .. Deadline
  BY DEF Activation
<1>2. \A x : Stages(x) = 2 * x.index + (IF x.phase = "sample" THEN 1 ELSE 0)
  BY DEF Stages
<1>3. CASE act.phase = "yaw" /\ TickYawMove
  <2>1. CASE act' = Ends(act, "failure")
    BY <2>1 DEF Advances, Ends, Activation
  <2>2. CASE act' = [StartsOver(act) EXCEPT !.phase = "sample", !.count = 0, !.left = Deadline]
    <3>1. act'.index = act.index /\ act'.phase = "sample"
      BY <2>2 DEF StartsOver, Activation
    <3> QED
      BY <1>1, <1>2, <1>3, <3>1 DEF Advances
  <2> QED
    BY <1>3, <2>1, <2>2 DEF TickYawMove
<1>4. CASE act.phase = "sample" /\ NewMatch(act)
           /\ LET x == [Agrees(act) EXCEPT !.count = Bump(@)]
              IN  act' = IF x.count = Frames THEN Ends(x, "success") ELSE x
  <2> DEFINE agreed == Agrees(act)
             n == Bump(agreed.count)
             x == [agreed EXCEPT !.count = n]
  <2>1. /\ agreed.count = act.count /\ agreed.index = act.index /\ agreed.left = act.left
        /\ agreed.phase = act.phase /\ agreed \in Activation
    BY AgreesFields
  <2>2. n \in 0 .. Frames /\ (act.count < Frames => n = act.count + 1) /\ (act.count = Frames => n = Frames)
    BY <1>1, <2>1, BumpFacts
  <2>3. act' = IF x.count = Frames THEN Ends(x, "success") ELSE x
    BY <1>4
  <2> HIDE DEF agreed, n
  <2>4. x.count = n /\ x.index = act.index /\ x.left = act.left /\ x.phase = act.phase /\ "status" \in DOMAIN x
    BY <2>1 DEF Activation
  <2> HIDE DEF x
  <2>5. CASE n = Frames
    BY <2>3, <2>4, <2>5 DEF Advances, Ends
  <2>6. CASE n # Frames
    <3>1. act' = x /\ x.count > act.count
      BY <1>1, <2>2, <2>3, <2>4, <2>6
    <3> QED
      BY <1>1, <1>2, <2>4, <3>1 DEF Advances
  <2> QED
    BY <2>5, <2>6
<1>5. CASE act.phase = "sample"
           /\ act' = IF act.index < Steps THEN BeginYawMove([act EXCEPT !.index = @ + 1])
                     ELSE Ends(act, "failure")
  <2>1. CASE act.index < Steps
    <3>1. act'.index = act.index + 1 /\ act'.phase = "yaw"
      BY <1>5, <2>1 DEF BeginYawMove, CountsUpdates, Activation
    <3> QED
      BY <1>1, <1>2, <1>5, <3>1 DEF Advances
  <2>2. CASE ~(act.index < Steps)
    BY <1>5, <2>2 DEF Advances, Ends, Activation
  <2> QED
    BY <2>1, <2>2
<1> QED
  BY <1>3, <1>4, <1>5 DEF SweepAngleTick, TickSampleDetections

LEMMA SearchAdvances ==
  ASSUME act \in Activation, Running, Is("SearchForDetection"), SearchCheck
  PROVE  Advances(act')
<1>1. \A x : Stages(x) = IF "returning" \in x.on THEN 1 ELSE 0
  BY DEF Stages, Is
<1>2. CASE act' = Ends(Asks(Agrees(act), "hold"), "success") \/ act' = Ends(Asks(act, "hold"), "failure")
  BY <1>2 DEF Advances, Ends, Asks, Agrees, Activation
<1>3. CASE "returning" \notin act.on /\ act' = Sets(Asks(act, "velocity"), "returning")
  <2>1. "returning" \in act'.on
    BY <1>3 DEF Sets, Asks, Activation
  <2> QED
    BY <1>1, <1>3, <2>1 DEF Advances
<1> QED
  BY <1>2, <1>3 DEF SearchCheck

\* DownSweepAlign is in a pass to the right or back to the left, and moves or waits.
LEMMA DownSweepAdvances ==
  ASSUME act \in Activation, Running, Is("DownSweepAlign"), DownSweepAlignTick
  PROVE  Advances(act')
<1> DEFINE right(x) == IF "right_next" \in x.on THEN 1 ELSE 0
           moving(x) == IF "moving" \in x.on THEN 1 ELSE 0
<1>1. act.index \in 0 .. Steps /\ act.left \in 0 .. Deadline /\ "status" \in DOMAIN act
  BY DEF Activation
<1>2. \A x : Stages(x) = 4 * x.index + 2 * (1 - right(x)) + moving(x)
  BY DEF Stages, Is
<1>3. CASE act' = Ends(IF "moving" \in act.on THEN Asks(Agrees(act), "hold") ELSE Agrees(act), "success")
  BY <1>3 DEF Advances, Ends, Asks, Agrees, Activation
<1>4. CASE act' = Ends(act, "failure")
  BY <1>4 DEF Advances, Ends, Activation
<1>5. CASE "moving" \notin act.on /\ act' = BeginMove(act)
  <2>1. act'.index = act.index /\ act'.on = act.on \cup {"moving"}
    BY <1>5 DEF BeginMove, Sets, CountsUpdates, Asks, Activation
  <2> QED
    BY <1>1, <1>2, <1>5, <2>1 DEF Advances
<1>6. CASE "moving" \in act.on /\ act' = AtSide(act)
  <2> DEFINE y == [Clears(act, {"moving"}) EXCEPT !.left = Deadline]
  <2>1. y.on = act.on \ {"moving"} /\ y.index = act.index /\ {"on", "index"} \subseteq DOMAIN y
    BY DEF Clears, Activation
  <2>2. act' = IF "right_next" \in y.on THEN Clears(y, {"right_next"})
               ELSE Sets([y EXCEPT !.index = @ + 1], "right_next")
    BY <1>6 DEF AtSide
  <2> HIDE DEF y
  <2>3. CASE "right_next" \in act.on
    <3>1. act'.on = act.on \ {"moving", "right_next"} /\ act'.index = act.index
      BY <2>1, <2>2, <2>3 DEF Clears
    <3> QED
      BY <1>1, <1>2, <1>6, <2>3, <3>1 DEF Advances
  <2>4. CASE "right_next" \notin act.on
    <3>1. act'.on = (act.on \ {"moving"}) \cup {"right_next"} /\ act'.index = act.index + 1
      BY <2>1, <2>2, <2>4 DEF Sets
    <3> QED
      BY <1>1, <1>2, <1>6, <2>4, <3>1 DEF Advances
  <2> QED
    BY <2>3, <2>4
<1> QED
  BY <1>3, <1>4, <1>5, <1>6 DEF DownSweepAlignTick

\* LateralAlignToDetection, but for the tick that locks on a target.
Aligned(x) ==
  /\ {"left", "on"} \subseteq DOMAIN x
  /\ x.left = act.left
  /\ "locked" \in x.on <=> "locked" \in act.on

LEMMA AlignedHelpers ==
  ASSUME NEW x, Aligned(x)
  PROVE  /\ Aligned(Sets(x, "filtered")) /\ Aligned(Sets(x, "velocity_target"))
         /\ \A motion : Aligned(Asks(x, motion))
         /\ \A result : Aligned(Ends(x, result))
         /\ Aligned(Agrees(x)) /\ Aligned(StartsOver(x)) /\ Aligned(Looks(x))
  BY DEF Aligned, Sets, Asks, Ends, Agrees, StartsOver, Looks

LEMMA AlignedFields ==
  ASSUME NEW x, Aligned(x), NEW v
  PROVE  /\ Aligned([x EXCEPT !.count = v]) /\ Aligned([x EXCEPT !.accepted = v])
         /\ Aligned([x EXCEPT !.evidence = v])
  BY DEF Aligned

LEMMA SettlesTo ==
  ASSUME NEW x, {"left", "on"} \subseteq DOMAIN x
  PROVE  /\ {"left", "on"} \subseteq DOMAIN LateralSettles(x)
         /\ LateralSettles(x).left = x.left /\ LateralSettles(x).on = x.on
  BY DEF LateralSettles, Ends

LEMMA LockedTo ==
  ASSUME NEW x, {"left", "on"} \subseteq DOMAIN x, TickLockedTarget(x)
  PROVE  {"left", "on"} \subseteq DOMAIN act' /\ act'.left = x.left /\ act'.on = x.on
<1>1. CASE act' = LateralSettles(x)
  BY <1>1, SettlesTo
<1>2. CASE act' = Ends([x EXCEPT !.count = Bump(@)], "failure")
  BY <1>2 DEF Ends
<1>3. CASE act' = [x EXCEPT !.count = 0]
  BY <1>3
<1> QED
  BY <1>1, <1>2, <1>3 DEF TickLockedTarget

LEMMA SkipFrameAligned ==
  ASSUME NEW x, Aligned(x), SkipFrame(x) \/ TickVelocityTarget(x)
  PROVE  Aligned(act')
<1>1. \/ act' = Ends(Asks(x, "hold"), "success") \/ act' = Asks(x, "velocity") \/ act' = x
  BY DEF SkipFrame, TickVelocityTarget
<1> QED
  BY <1>1, AlignedHelpers

LEMMA AcceptedAligned ==
  ASSUME NEW x, Aligned(x)
  PROVE  Aligned(Accepted(x))
<1> DEFINE agreed == Agrees(x)
           y == [agreed EXCEPT !.accepted = Bump(@)]
<1>1. Aligned(agreed)
  BY AlignedHelpers
<1>2. Aligned(y)
  BY <1>1 DEF Aligned
<1>3. Accepted(x) = Sets(y, "filtered")
  BY DEF Accepted
<1> HIDE DEF y
<1> QED
  BY <1>2, <1>3, AlignedHelpers

LEMMA AcceptForMoveAligned ==
  ASSUME NEW x, Aligned(x), AcceptForMove(x)
  PROVE  Aligned(act')
<1> DEFINE y == Accepted(x)
           off == [y EXCEPT !.count = 0]
<1>1. Aligned(y)
  BY AcceptedAligned
<1>2. \/ \E w \in {y, Asks(y, "hold")} : act' = LateralSettles(w)
      \/ act' = off \/ TickVelocityTarget(Sets(off, "velocity_target"))
      \/ \E z \in {off, Asks(off, "target")} : act' = [z EXCEPT !.evidence = 0]
  BY DEF AcceptForMove
<1> HIDE DEF y
<1>3. Aligned(off)
  BY <1>1, AlignedFields
<1> HIDE DEF off
<1>4. ASSUME NEW w \in {y, Asks(y, "hold")}, act' = LateralSettles(w) PROVE Aligned(act')
  <2>1. Aligned(w)
    BY <1>1, <1>4, AlignedHelpers
  <2> QED
    BY <1>4, <2>1, SettlesTo DEF Aligned
<1>5. ASSUME NEW z \in {off, Asks(off, "target")}, act' = [z EXCEPT !.evidence = 0] PROVE Aligned(act')
  <2>1. Aligned(z)
    BY <1>3, <1>5, AlignedHelpers
  <2> QED
    BY <1>5, <2>1, AlignedFields
<1> QED
  BY <1>2, <1>3, <1>4, <1>5, AlignedHelpers, SkipFrameAligned

\* The tick that locks.
LEMMA LockTaken ==
  ASSUME NEW x, Aligned(x), TickLockedTarget(LockTarget(x))
  PROVE  "locked" \in act'.on
<1> DEFINE fresh == [x EXCEPT !.count = 0]
           y == Asks(Sets(fresh, "locked"), "target")
<1>1. {"left", "on"} \subseteq DOMAIN y /\ "locked" \in y.on
  BY DEF Aligned, Sets, Asks
<1>2. LockTarget(x) = y \/ LockTarget(x) = [y EXCEPT !.left = Deadline]
  BY DEF LockTarget
<1> HIDE DEF y
<1>3. {"left", "on"} \subseteq DOMAIN LockTarget(x) /\ "locked" \in LockTarget(x).on
  BY <1>1, <1>2
<1> QED
  BY <1>3, LockedTo

LEMMA LateralAdvances ==
  ASSUME act \in Activation, Running, Is("LateralAlignToDetection"), LateralTick(act)
  PROVE  Advances(act')
<1>1. \A x : Stages(x) = IF "locked" \in x.on THEN 1 ELSE 0
  BY DEF Stages, Is
<1>2. Aligned(act)
  BY DEF Aligned, Activation
<1>3. ASSUME ~TimedOut(act), Aligned(act') PROVE Advances(act')
  <2>1. Timely(act')
    BY <1>3 DEF Aligned, Timely
  <2> QED
    BY <1>1, <1>3, <2>1, TimelyAdvances DEF Aligned
<1>4. CASE TimedOut(act) /\ act' = Ends(Asks(act, "hold"), "failure")
  BY <1>4 DEF Advances, Ends, Asks, Activation
<1>5. CASE ~TimedOut(act) /\ "locked" \in act.on /\ TickLockedTarget(act)
  BY <1>2, <1>3, <1>5, LockedTo DEF Aligned
<1>6. CASE ~TimedOut(act) /\ LateralWithoutMatch(act)
  <2>1. \/ TickVelocityTarget(act) \/ act' = act \/ act' = Ends(Asks(act, "hold"), "failure")
    BY <1>6 DEF LateralWithoutMatch
  <2> QED
    BY <1>2, <1>3, <1>6, <2>1, AlignedHelpers, SkipFrameAligned
<1>7. CASE ~TimedOut(act) /\ (SkipFrame(Looks(act)) \/ RejectBearing(act))
  <2> DEFINE anew == StartsOver(act)
  <2>1. SkipFrame(Looks(act)) \/ SkipFrame([anew EXCEPT !.accepted = 0])
    BY <1>7 DEF RejectBearing
  <2>2. Aligned(anew) /\ Aligned(Looks(act))
    BY <1>2, AlignedHelpers
  <2> HIDE DEF anew
  <2> QED
    BY <1>3, <1>7, <2>1, <2>2, AlignedFields, SkipFrameAligned
<1>8. CASE ~TimedOut(act) /\ "locked" \notin act.on /\ AcceptForLock(act)
  <2>1. Aligned(Accepted(act))
    BY <1>2, AcceptedAligned
  <2>2. CASE act' = Accepted(act)
    BY <1>3, <1>8, <2>1, <2>2
  <2>3. CASE TickLockedTarget(LockTarget(Accepted(act)))
    <3>1. "locked" \in act'.on
      BY <2>1, <2>3, LockTaken
    <3> QED
      BY <1>1, <1>8, <3>1 DEF Advances
  <2> QED
    BY <1>8, <2>2, <2>3 DEF AcceptForLock
<1>9. CASE ~TimedOut(act) /\ AcceptForMove(act)
  BY <1>2, <1>3, <1>9, AcceptForMoveAligned
<1> QED
  BY <1>4, <1>5, <1>6, <1>7, <1>8, <1>9 DEF LateralTick

LEMMA TickAdvances ==
  ASSUME act \in Activation, Tick, ~Is("OctagonSurfaceSweep")
  PROVE  Advances(act')
<1>1. Running
  BY DEF Tick
<1>2. ASSUME Timely(act'),
             ~Is("SweepAngle"), ~Is("SearchForDetection"), ~Is("DownSweepAlign"),
             ~Is("LateralAlignToDetection")
      PROVE  Advances(act')
  BY <1>2, TimelyAdvances DEF Stages
<1>3. CASE leaf.name \in ArrivalNames /\ CheckErrors
  BY <1>2, <1>3, PlainTimely DEF Is, ArrivalNames
<1>4. CASE \/ Is("WaitForDetection") /\ WaitCheck
           \/ Is("SelectGateRole") /\ SelectGateRoleCheck
           \/ Is("SearchForDetection") /\ SearchCheck
           \/ Is("AlignToDetection") /\ AlignTick
           \/ Is("LateralAlignToDetection") /\ LateralTick(act)
           \/ Is("SweepAngle") /\ SweepAngleTick
  <2>1. CASE \/ Is("WaitForDetection") /\ WaitCheck
             \/ Is("SelectGateRole") /\ SelectGateRoleCheck
             \/ Is("AlignToDetection") /\ AlignTick
    BY <1>2, <2>1, PlainTimely, SelectGateRoleTimely DEF Is
  <2> QED
    BY <1>1, <1>4, <2>1, SearchAdvances, LateralAdvances, SweepAngleAdvances
<1>5. CASE \/ Is("ForwardContinuousAlign") /\ ForwardContinuousAlignTick
           \/ Is("ForwardFixedTransit") /\ ForwardFixedTransitTick
           \/ Is("OrientToDetectionAtDist") /\ OrientTick
           \/ Is("SquareUpToGate") /\ SquareUpTick
  BY <1>2, <1>5, ForwardTimely, OrientTimely, SquareUpTimely DEF Is
<1>6. CASE \/ Is("DownForwardAlign") /\ DownForwardAlignTick
           \/ Is("DownSweepAlign") /\ DownSweepAlignTick
           \/ Is("DownAlignToDetection") /\ DownAlignToDetectionTick
  <2>1. CASE \/ Is("DownForwardAlign") /\ DownForwardAlignTick
             \/ Is("DownAlignToDetection") /\ DownAlignToDetectionTick
    BY <1>2, <2>1, DownForwardTimely, DownAlignTimely DEF Is
  <2> QED
    BY <1>1, <1>6, <2>1, DownSweepAdvances
<1>7. CASE \/ Is("TimedVelocity") /\ TimedVelocityTick
           \/ Is("Spin") /\ SpinTick
           \/ Is("WaitUntilHit") /\ WaitUntilHitTick
           \/ Is("OctagonSurfaceSweep") /\ OctagonTick
  BY <1>2, <1>7, PlainTimely, SpinTimely DEF Is
<1> QED
  BY <1>3, <1>4, <1>5, <1>6, <1>7 DEF Tick

\* No activation outlasts its deadline but for a stage it finished, and only
\* that renews it: no frame, report or tick does.
THEOREM RunsOutOfTime == Spec => TimeRunsOut
<1>1. ASSUME Inv, Next, ~Is("OctagonSurfaceSweep"), Running, Running'
      PROVE  \/ Stages(act') > Stages(act)
             \/ /\ Stages(act') = Stages(act) /\ act'.left <= act.left
                /\ Tick => act.left > 0 \/ act'.count > act.count
  <2>1. act \in Activation /\ act'.status = "running" /\ act.left \in 0 .. Deadline
    BY <1>1, InvFacts DEF Running, Activation
  <2>2. CASE Tick
    BY <1>1, <2>1, <2>2, TickAdvances DEF Advances
  <2>3. CASE ~Tick /\ (Frame \/ Errors \/ Time)
    <3> DEFINE kept == /\ act'.left <= act.left
                       /\ act'.on = act.on /\ act'.phase = act.phase /\ act'.index = act.index
    <3>1. ASSUME Frame PROVE kept
      BY <2>1, <3>1 DEF Frame, Activation
    <3>2. ASSUME Errors PROVE kept
      <4>1. PICK what, evidence : act' = [act EXCEPT !.error = what, !.evidence = evidence]
        BY <3>2 DEF Errors
      <4> QED
        BY <2>1, <4>1 DEF Activation
    <3>3. ASSUME Time PROVE kept
      BY <2>1, <3>3 DEF Time, Activation
    <3>4. /\ act'.left <= act.left
          /\ act'.on = act.on /\ act'.phase = act.phase /\ act'.index = act.index
      BY <2>3, <3>1, <3>2, <3>3
    <3> QED
      BY <2>3, <3>4 DEF Stages
  <2>4. CASE Start \/ Refuse \/ Halt
    BY <1>1, <2>4, HaltedKeeps DEF Start, Refuse, Running
  <2> QED
    BY <1>1, <2>2, <2>3, <2>4 DEF Next
<1>2. Next => leaf' = leaf
  BY DEF Next, Start, Refuse, Tick, Halt, Frame, Errors, Time
<1>3. Inv /\ [Next]_vars
        => [~Is("OctagonSurfaceSweep") /\ Running /\ Running' =>
              \/ Stages(act') > Stages(act)
              \/ Stages(act') = Stages(act) /\ act'.left <= act.left
                 /\ (Tick => act.left > 0 \/ act'.count > act.count)]_vars
  BY <1>1
<1> QED
  BY <1>3, InvHolds, PTL DEF Spec, TimeRunsOut
=============================================================================
