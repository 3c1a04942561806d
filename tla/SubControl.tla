----------------------------- MODULE SubControl -----------------------------
(***************************************************************************)
(* The supervision layer of the sub_control node: when it arms, when it    *)
(* asks the EKF to make the present pose the origin of the odom frame,     *)
(* when it believes the answer, which commands reach the reference         *)
(* generator, and what it sends to the thrusters in each control cycle.    *)
(*                                                                         *)
(* Time is counted in ticks.  A stamp is kept as its age, which a clock    *)
(* tick increments until it is one past the limit the code compares it     *)
(* with: older than that, or infinite (safety.cpp, message_age), makes no  *)
(* difference.  What the control law computes is abstracted to the frame   *)
(* and the command its reference comes from.                               *)
(***************************************************************************)
EXTENDS Integers, Sequences

CONSTANTS
  StateTimeout,      \* safety.state_timeout, in ticks
  AttitudeTimeout,   \* safety.attitude_timeout
  DepthTimeout,      \* safety.depth_timeout
  PoseResetTimeout,  \* POSE_RESET_TIMEOUT
  FutureTolerance,   \* FUTURE_STAMP_TOLERANCE
  RequireKillCycle,  \* safety.require_kill_cycle
  Skew,              \* how far ahead of this node's clock odometry is stamped
  NoTime,            \* std::nullopt for reset_done_
  MaxReleases,       \* bound: kill-switch releases
  MayRestart,        \* bound: whether the node may be started again
  MaxResets,         \* bound: reset_pose calls
  MaxCommands,       \* bound: motion setpoints with an id
  MaxPending,        \* bound: commands waiting for the pose reset
  MaxInFlight        \* bound: odometry messages in flight

ASSUME TimingAssumption ==
  /\ StateTimeout \in Nat /\ AttitudeTimeout \in Nat /\ DepthTimeout \in Nat
  /\ PoseResetTimeout \in Nat /\ FutureTolerance \in Nat /\ Skew \in Nat
  /\ NoTime \notin Int
  /\ RequireKillCycle \in BOOLEAN
ASSUME BoundAssumption ==
  /\ MayRestart \in BOOLEAN /\ MaxReleases \in Nat /\ MaxResets \in Nat
  /\ MaxCommands \in Nat
  /\ MaxPending \in Nat /\ MaxInFlight \in Nat

VARIABLES
  \* The node (sub_control.hpp, "Supervision")
  killed, killSeen, armed, seeded, rebasing, failsafe,
  request,    \* reset_requested_: [id (0: none), age, sent (to the EKF, or absent)]
  done,       \* reset_done_: its age, or NoTime
  pending,    \* pending_commands_
  ack,        \* command_id_ and whether command_rejected_ is set
  odom,       \* state_'s pose, by the odom frame it is in, and the age of odom_time_
  imuAge, depthAge,
  reference,  \* the generator: the frame of its target and where the target comes from
  thrust,     \* the last control/thrusters message: "zero", "drive" or "keep"
  \* The vehicle around it
  switch,     \* the value last published on kill_switch: TRUE is engaged
  ekfFrame,   \* the odom frame of the EKF: the number of the last reset it made
  requests,   \* set_pose calls on their way to the EKF, in order
  replies,    \* its answers on their way back
  wire,       \* odometry/filtered in flight
  \* History
  issued,     \* pose resets requested so far; a request's number stands for its stamp
  resets,     \* reset_pose calls that were accepted
  session,    \* releases the node has seen
  lastId,     \* the last command id a sender used
  engaged,    \* the switch was engaged at some time since the node started
  assured     \* the EKF's own answer confirmed the frame the reference is in

timing == <<request, done>>
supervision == <<killed, killSeen, armed, seeded, rebasing, failsafe>>
sensors == <<odom, imuAge, depthAge>>
commands == <<pending, ack, reference, assured>>
estimator == <<ekfFrame, requests, replies, wire>>
history == <<issued, resets, session, lastId, engaged>>
vars == <<supervision, timing, commands, sensors, thrust, switch, estimator, history>>

-----------------------------------------------------------------------------
\* An age past its limit, as old as any.
Past(limit) == limit + 1

\* An age one tick later.
Later(age, limit) == IF age > limit THEN Past(limit) ELSE age + 1

\* message_age(stamp, now) <= limit: a stamp too far ahead is infinitely old.
Fresh(age, limit) == (0 - FutureTolerance) <= age /\ age <= limit

\* What the generator does with a command: "malformed" ones do not reach it.
Verdict == {"applied", "refused", "malformed"}
Ids == 0 .. MaxCommands                \* 0: no id (cmd_vel)
Command == [id : Ids, verdict : {"applied", "refused"}, session : 0 .. MaxReleases]

Reference == [frame : Nat, by : {"hold", "setpoint", "cmd_vel"}, id : Ids,
              session : 0 .. MaxReleases]

NoRequest == [id |-> 0, age |-> Past(PoseResetTimeout), sent |-> FALSE]
NoOdometry == [frame |-> 0, age |-> Past(StateTimeout)]
Odometry == [frame : Nat, age : (0 - Skew) .. Past(StateTimeout)]

\* Variant: arming without having seen the kill switch engaged.
CanArmUnattended ==
  /\ Fresh(odom.age, StateTimeout)
  /\ Fresh(imuAge, AttitudeTimeout)
  /\ Fresh(depthAge, DepthTimeout)

\* arming_blockers() finds nothing.
CanArm ==
  /\ RequireKillCycle => killSeen
  /\ Fresh(odom.age, StateTimeout)
  /\ Fresh(imuAge, AttitudeTimeout)
  /\ Fresh(depthAge, DepthTimeout)

\* run()'s first test fails: released, and armed or arming now.
Live == ~killed /\ (armed \/ CanArm)

\* run()'s failsafe test: an estimate, and a measured attitude behind it.
Estimated == Fresh(odom.age, StateTimeout) /\ Fresh(imuAge, AttitudeTimeout)

\* The measured pose was stamped after the EKF's answer arrived.
Confirmed(answered) == answered # NoTime /\ odom.age < answered

\* Variant: waiting for the EKF without a limit.
NeverGaveUp(asked) == FALSE

GaveUp(asked) == asked > PoseResetTimeout

Init ==
  /\ killed = TRUE /\ killSeen = FALSE /\ armed = FALSE
  /\ seeded = FALSE /\ rebasing = FALSE /\ failsafe = FALSE
  /\ request = NoRequest /\ done = NoTime
  /\ pending = <<>> /\ ack = [id |-> 0, rejected |-> FALSE]
  /\ odom = NoOdometry /\ imuAge = Past(AttitudeTimeout) /\ depthAge = Past(DepthTimeout)
  /\ reference = [frame |-> 0, by |-> "hold", id |-> 0, session |-> 0]
  /\ thrust = "zero"
  /\ switch \in BOOLEAN /\ engaged = switch
  /\ ekfFrame = 0 /\ requests = <<>> /\ replies = {} /\ wire = <<>>
  /\ issued = 0 /\ resets = 0 /\ session = 0 /\ lastId = 0
  /\ assured = FALSE

-----------------------------------------------------------------------------
(* The kill switch. *)

\* The switch is thrown; the next message on kill_switch says so.
FlipSwitch ==
  /\ switch => session < MaxReleases
  /\ switch' = ~switch
  /\ engaged' = (engaged \/ switch')
  /\ UNCHANGED <<supervision, timing, commands, sensors, thrust, estimator,
                 issued, resets, session, lastId>>

\* Variant: a kill that leaves stopping the thrusters to the next cycle.
KillCallbackNoStop ==
  /\ switch
  /\ killed' = TRUE /\ killSeen' = TRUE /\ armed' = FALSE /\ rebasing' = FALSE
  /\ UNCHANGED <<seeded, failsafe, timing, commands, sensors, thrust, switch, estimator, history>>

\* kill_callback with the switch engaged.
KillCallback ==
  /\ switch
  /\ killed' = TRUE /\ killSeen' = TRUE /\ armed' = FALSE /\ rebasing' = FALSE
  /\ thrust' = "zero"
  /\ UNCHANGED <<seeded, failsafe, timing, commands, sensors, switch, estimator, history>>

\* Variant: a release that keeps the commands queued before the kill.
ReleaseCallbackKeepPending ==
  /\ ~switch
  /\ killed
  /\ session < MaxReleases
  /\ killed' = FALSE /\ seeded' = FALSE
  /\ request' = NoRequest /\ done' = NoTime
  /\ session' = session + 1
  /\ UNCHANGED <<killSeen, armed, rebasing, failsafe, commands, sensors,
                 thrust, switch, estimator, issued, resets, lastId, engaged>>

\* kill_callback with the switch released: only the change is acted on.
ReleaseCallback ==
  /\ ~switch
  /\ killed
  /\ session < MaxReleases
  /\ killed' = FALSE /\ seeded' = FALSE
  /\ pending' = <<>>
  /\ request' = NoRequest /\ done' = NoTime
  /\ session' = session + 1
  /\ UNCHANGED <<killSeen, armed, rebasing, failsafe, ack, reference, assured, sensors,
                 thrust, switch, estimator, issued, resets, lastId, engaged>>

\* The node is started again (it keeps nothing), or for the first time.
Restart ==
  /\ MayRestart
  /\ killed' = TRUE /\ killSeen' = FALSE /\ armed' = FALSE
  /\ seeded' = FALSE /\ rebasing' = FALSE /\ failsafe' = FALSE
  /\ request' = NoRequest /\ done' = NoTime
  /\ pending' = <<>> /\ ack' = [id |-> 0, rejected |-> FALSE]
  /\ odom' = NoOdometry /\ imuAge' = Past(AttitudeTimeout) /\ depthAge' = Past(DepthTimeout)
  /\ reference' = [frame |-> 0, by |-> "hold", id |-> 0, session |-> session]
  /\ assured' = FALSE
  /\ thrust' = "zero"      \* nothing from this process yet
  /\ replies' = {}         \* answers to a process that is gone
  /\ engaged' = switch
  /\ UNCHANGED <<switch, ekfFrame, requests, wire, issued, resets, session, lastId>>

-----------------------------------------------------------------------------
(* Commands. *)

Holding == seeded /\ ~rebasing

Acked(id, rejected) == IF id = 0 THEN ack ELSE [id |-> id, rejected |-> rejected]

\* The reference after the generator took the command up.
Taken(command, now) ==
  IF command.verdict = "applied"
  THEN [frame |-> now.frame,
        by |-> IF command.id = 0 THEN "cmd_vel" ELSE "setpoint",
        id |-> command.id, session |-> command.session]
  ELSE now

\* apply_command: acknowledged as rejected, queued, or passed to the generator.
ApplyCommand(command) ==
  \/ /\ killed \/ ~armed
     /\ ack' = Acked(command.id, TRUE)
     /\ UNCHANGED <<pending, reference>>
  \/ /\ ~killed /\ armed /\ ~Holding
     /\ Len(pending) < MaxPending
     /\ pending' = Append(pending, command)
     /\ UNCHANGED <<ack, reference>>
  \/ /\ ~killed /\ armed /\ Holding
     /\ reference' = Taken(command, reference)
     /\ ack' = Acked(command.id, command.verdict # "applied")
     /\ UNCHANGED pending

\* motion_setpoint_callback; an id is used once, in increasing order.
MotionSetpointCallback(verdict) ==
  /\ lastId < MaxCommands
  /\ lastId' = lastId + 1
  /\ \/ /\ verdict = "malformed"
        /\ ack' = Acked(lastId', TRUE)
        /\ UNCHANGED <<pending, reference>>
     \/ /\ verdict # "malformed"
        /\ ApplyCommand([id |-> lastId', verdict |-> verdict, session |-> session])
  /\ UNCHANGED <<supervision, timing, assured, sensors, thrust, switch, estimator,
                 issued, resets, session, engaged>>

\* cmd_vel_callback: no id, so never acknowledged.  One the generator refuses
\* (a velocity that is not finite) changes nothing.
CmdVelCallback ==
  /\ ApplyCommand([id |-> 0, verdict |-> "applied", session |-> session])
  /\ UNCHANGED <<supervision, timing, assured, sensors, thrust, switch, estimator, history>>

\* The last of a set of positions in the queue.
IsLast(i, positions) == i \in positions /\ \A j \in positions : j <= i

AppliedPending == {i \in DOMAIN pending : pending[i].verdict = "applied"}
NumberedPending == {i \in DOMAIN pending : pending[i].id # 0}

\* The generator takes up the queue in order: the last command it applies is
\* the one the reference is left with.
ReferenceAfterPending(fresh) ==
  \/ AppliedPending = {} /\ reference' = fresh
  \/ \E i \in DOMAIN pending :
       IsLast(i, AppliedPending) /\ reference' = Taken(pending[i], fresh)

AckAfterPending ==
  \/ NumberedPending = {} /\ UNCHANGED ack
  \/ \E i \in DOMAIN pending :
       /\ IsLast(i, NumberedPending)
       /\ ack' = Acked(pending[i].id, pending[i].verdict # "applied")

\* Variant: queued commands are applied and not acknowledged.
ApplyPendingSilently(fresh) ==
  /\ ReferenceAfterPending(fresh)
  /\ pending' = <<>>
  /\ UNCHANGED ack

\* apply_pending_commands, on a reference just reset.
ApplyPending(fresh) ==
  /\ ReferenceAfterPending(fresh)
  /\ AckAfterPending
  /\ pending' = <<>>

-----------------------------------------------------------------------------
(* The pose reset. *)

\* request_pose_reset: ask the EKF, or with no set_pose to call go on as if it
\* had answered.  Discovery may find or lose the service at any time.
RequestPoseReset(ready) ==
  /\ issued' = issued + 1
  /\ request' = [id |-> issued', age |-> 0, sent |-> ready]
  /\ done' = IF ready THEN NoTime ELSE 0
  /\ requests' = IF ready THEN Append(requests, issued') ELSE requests

\* reset_pose_callback when it accepts; its refusals change nothing.  It sees
\* set_pose, and request_pose_reset looks again.
ResetPose(ready) ==
  /\ ~killed /\ Holding /\ ~failsafe
  /\ resets < MaxResets
  /\ resets' = resets + 1
  /\ rebasing' = TRUE
  /\ RequestPoseReset(ready)
  /\ UNCHANGED <<killed, killSeen, armed, seeded, failsafe, commands, sensors, thrust,
                 switch, ekfFrame, replies, wire, session, lastId, engaged>>

\* Variant: any answer confirms the current request.
ReplyCallbackAny(id) ==
  /\ id \in replies
  /\ replies' = replies \ {id}
  /\ done' = 0
  /\ UNCHANGED <<supervision, request, commands, sensors, thrust, switch, ekfFrame, requests,
                 wire, history>>

\* The answer to request_pose_reset's call numbered id: one to a request that
\* is no longer the current one confirms nothing.
ReplyCallback(id) ==
  /\ id \in replies
  /\ replies' = replies \ {id}
  /\ done' = IF request.id = id THEN 0 ELSE done
  /\ UNCHANGED <<supervision, request, commands, sensors, thrust, switch, ekfFrame, requests,
                 wire, history>>

-----------------------------------------------------------------------------
(* run(), one control cycle.  Its exits are the actions below. *)

\* The state a cycle never touches.
RunFrame == UNCHANGED <<killed, killSeen, sensors, switch, ekfFrame, replies, wire,
                        resets, session, lastId, engaged>>

\* Killed, or not armed and not arming.
RunDisarmed ==
  /\ killed \/ (~armed /\ ~CanArm)
  /\ thrust' = "zero"
  /\ UNCHANGED <<armed, seeded, rebasing, failsafe, timing, commands, requests, issued>>
  /\ RunFrame

RunFailsafe ==
  /\ Live /\ ~Estimated
  /\ failsafe' = TRUE
  /\ thrust' = "zero"
  /\ armed' = TRUE
  /\ UNCHANGED <<seeded, rebasing, timing, commands, requests, issued>>
  /\ RunFrame

\* reset_pose is waiting for the EKF: the thrust stays as it was.
RunKeepThrust ==
  /\ Live /\ Estimated
  /\ rebasing /\ ~Confirmed(done) /\ ~GaveUp(request.age)
  /\ failsafe' = FALSE
  /\ thrust' = IF thrust = "zero" THEN "zero" ELSE "keep"
  /\ armed' = TRUE
  /\ UNCHANGED <<seeded, rebasing, timing, commands, requests, issued>>
  /\ RunFrame

HoldReference == [frame |-> odom.frame, by |-> "hold", id |-> 0, session |-> session]

\* rebase() or seed(): hold the measured pose, then take up what was queued.
HoldHere ==
  /\ ApplyPending(HoldReference)
  /\ assured' = (Confirmed(done) /\ request.sent)

RunRebase ==
  /\ Live /\ Estimated
  /\ rebasing /\ (Confirmed(done) \/ GaveUp(request.age))
  /\ HoldHere
  /\ failsafe' = FALSE /\ rebasing' = FALSE /\ armed' = TRUE
  /\ thrust' = "drive"
  /\ UNCHANGED <<seeded, timing, requests, issued>>
  /\ RunFrame

\* Variant: every waiting cycle asks again.
RunAskAgain(ready) ==
  /\ Live /\ Estimated
  /\ ~rebasing /\ ~seeded
  /\ RequestPoseReset(ready)
  /\ failsafe' = FALSE /\ armed' = TRUE
  /\ thrust' = "zero"
  /\ UNCHANGED <<seeded, rebasing, commands>>
  /\ RunFrame

\* The first cycle with an estimate after a release asks for the reset.  The
\* pose then held is not yet confirmed, unless it is stamped ahead of the clock.
RunAsk(ready) ==
  /\ Live /\ Estimated
  /\ ~rebasing /\ ~seeded /\ request.id = 0
  /\ RequestPoseReset(ready)
  /\ failsafe' = FALSE /\ armed' = TRUE
  /\ IF Confirmed(done')
     THEN /\ ApplyPending(HoldReference)
          /\ assured' = FALSE
          /\ seeded' = TRUE
          /\ thrust' = "drive"
     ELSE /\ thrust' = "zero"
          /\ UNCHANGED <<seeded, commands>>
  /\ UNCHANGED rebasing
  /\ RunFrame

\* Variant: the wait is counted from the last cycle that waited.
RunAwaitResetAnew ==
  /\ Live /\ Estimated
  /\ ~rebasing /\ ~seeded /\ request.id # 0
  /\ ~Confirmed(done) /\ ~GaveUp(request.age)
  /\ request' = [request EXCEPT !.age = 0]
  /\ failsafe' = FALSE /\ armed' = TRUE
  /\ thrust' = "zero"
  /\ UNCHANGED <<seeded, rebasing, done, commands, requests, issued>>
  /\ RunFrame

RunAwaitReset ==
  /\ Live /\ Estimated
  /\ ~rebasing /\ ~seeded /\ request.id # 0
  /\ ~Confirmed(done) /\ ~GaveUp(request.age)
  /\ failsafe' = FALSE /\ armed' = TRUE
  /\ thrust' = "zero"
  /\ UNCHANGED <<seeded, rebasing, timing, commands, requests, issued>>
  /\ RunFrame

RunSeed ==
  /\ Live /\ Estimated
  /\ ~rebasing /\ ~seeded /\ request.id # 0
  /\ Confirmed(done) \/ GaveUp(request.age)
  /\ HoldHere
  /\ seeded' = TRUE
  /\ failsafe' = FALSE /\ armed' = TRUE
  /\ thrust' = "drive"
  /\ UNCHANGED <<rebasing, timing, requests, issued>>
  /\ RunFrame

\* The control law.  A cycle may come to zero thrust here too (a non-finite
\* wrench): that is not told apart from driving.
RunDrive ==
  /\ Live /\ Estimated
  /\ Holding
  /\ failsafe' = FALSE /\ armed' = TRUE
  /\ thrust' = "drive"
  /\ UNCHANGED <<seeded, rebasing, timing, commands, requests, issued>>
  /\ RunFrame

Run == \/ RunDisarmed \/ RunFailsafe \/ RunKeepThrust \/ RunRebase
       \/ \E ready \in BOOLEAN : RunAsk(ready)
       \/ RunAwaitReset \/ RunSeed \/ RunDrive

-----------------------------------------------------------------------------
(* Sensors, the EKF and the clock. *)

\* odom_callback takes the message, or the message is lost or not finite.
OdomCallback ==
  /\ wire # <<>>
  /\ wire' = Tail(wire)
  /\ odom' = Head(wire)
  /\ UNCHANGED <<supervision, timing, commands, imuAge, depthAge, thrust, switch, ekfFrame,
                 requests, replies, history>>

LoseOdom ==
  /\ wire # <<>>
  /\ wire' = Tail(wire)
  /\ UNCHANGED <<supervision, timing, commands, sensors, thrust, switch, ekfFrame,
                 requests, replies, history>>

ImuCallback ==
  /\ imuAge' = 0
  /\ UNCHANGED <<supervision, timing, commands, odom, depthAge, thrust, switch,
                 estimator, history>>

DepthCallback ==
  /\ depthAge' = 0
  /\ UNCHANGED <<supervision, timing, commands, odom, imuAge, thrust, switch,
                 estimator, history>>

\* The EKF publishes where it is, stamped up to Skew ahead of this node's clock.
EkfPublish ==
  /\ Len(wire) < MaxInFlight
  /\ \E age \in (0 - Skew) .. 0 : wire' = Append(wire, [frame |-> ekfFrame, age |-> age])
  /\ UNCHANGED <<supervision, timing, commands, sensors, thrust, switch, ekfFrame,
                 requests, replies, history>>

\* The EKF makes the pose it is asked to make, and answers.
EkfSetPose ==
  /\ requests # <<>>
  /\ requests' = Tail(requests)
  /\ ekfFrame' = Head(requests)
  /\ replies' = replies \cup {Head(requests)}
  /\ UNCHANGED <<supervision, timing, commands, sensors, thrust, switch, wire, history>>

\* An estimate a tick later, and one stamped too far ahead to be believed.
Aged(estimate) == [estimate EXCEPT !.age = Later(estimate.age, StateTimeout)]
Unbelievable(estimate) == [estimate EXCEPT !.age = Past(StateTimeout)]

Tick ==
  /\ request' = [request EXCEPT !.age = Later(request.age, PoseResetTimeout)]
  /\ done' = IF done = NoTime THEN NoTime ELSE Later(done, StateTimeout)
  /\ odom' = Aged(odom)
  /\ imuAge' = Later(imuAge, AttitudeTimeout)
  /\ depthAge' = Later(depthAge, DepthTimeout)
  /\ wire' = [i \in DOMAIN wire |-> Aged(wire[i])]
  /\ UNCHANGED <<supervision, commands, thrust, switch, ekfFrame, requests, replies, history>>

\* The clock jumps back past every stamp (the simulator restarts): each is now
\* too far ahead to be believed, and no estimate on its way is later than it.
ClockBack ==
  /\ request' = [request EXCEPT !.age = Past(PoseResetTimeout)]
  /\ done' = NoTime
  /\ odom' = Unbelievable(odom)
  /\ imuAge' = Past(AttitudeTimeout) /\ depthAge' = Past(DepthTimeout)
  /\ wire' = [i \in DOMAIN wire |-> Unbelievable(wire[i])]
  /\ UNCHANGED <<supervision, commands, thrust, switch, ekfFrame, requests, replies, history>>

Next ==
  \/ FlipSwitch \/ KillCallback \/ ReleaseCallback \/ Restart
  \/ \E verdict \in Verdict : MotionSetpointCallback(verdict)
  \/ CmdVelCallback
  \/ \E ready \in BOOLEAN : ResetPose(ready)
  \/ \E id \in replies : ReplyCallback(id)
  \/ Run
  \/ OdomCallback \/ LoseOdom \/ ImuCallback \/ DepthCallback
  \/ EkfPublish \/ EkfSetPose
  \/ Tick \/ ClockBack

Spec == Init /\ [][Next]_vars

\* The control timer fires and the clock runs; nothing is promised of the EKF,
\* the sensors, the switch or the commands.
FairSpec == Spec /\ WF_vars(Run) /\ WF_vars(Tick)

-----------------------------------------------------------------------------
(* What the node promises. *)

TypeOK ==
  /\ killed \in BOOLEAN /\ killSeen \in BOOLEAN /\ armed \in BOOLEAN
  /\ seeded \in BOOLEAN /\ rebasing \in BOOLEAN /\ failsafe \in BOOLEAN
  /\ request \in [id : Nat, age : 0 .. Past(PoseResetTimeout), sent : BOOLEAN]
  /\ done \in (0 .. Past(StateTimeout)) \cup {NoTime}
  /\ pending \in Seq(Command)
  /\ ack \in [id : Ids, rejected : BOOLEAN]
  /\ odom \in Odometry
  /\ imuAge \in 0 .. Past(AttitudeTimeout) /\ depthAge \in 0 .. Past(DepthTimeout)
  /\ reference \in Reference
  /\ thrust \in {"zero", "drive", "keep"}
  /\ switch \in BOOLEAN
  /\ ekfFrame \in Nat
  /\ requests \in Seq(Nat) /\ replies \subseteq Nat
  /\ wire \in Seq(Odometry)
  /\ issued \in Nat /\ resets \in 0 .. MaxResets
  /\ session \in 0 .. MaxReleases /\ lastId \in Ids
  /\ engaged \in BOOLEAN /\ assured \in BOOLEAN

\* Killed or not armed, the last thing the thrusters were told is to stop: the
\* kill callback itself says so, not the next control cycle.
DisarmedIsStill == killed \/ ~armed => thrust = "zero"

\* A kill and the stop are one step, and only a control cycle with the switch
\* released makes the thrusters turn again: what the thrust path relies on.
Thrusting == INSTANCE Interlock WITH thrusting <- thrust # "zero"
KeepsInterlock == Thrusting!Spec

\* What a sender of commands is told, and what becomes of those that wait, is as
\* CommandDesk says.
WaitingIds == [i \in DOMAIN pending |-> pending[i].id]
Desk == INSTANCE CommandDesk
          WITH desk <- IF killed \/ ~armed THEN "closed"
                       ELSE IF Holding THEN "open" ELSE "queueing",
               queue <- WaitingIds
KeepsDesk == Desk!Spec

\* Thrust comes only after the kill switch was engaged while this process ran:
\* a stack started, or restarted, with the switch released does not drive off
\* (safety.hpp:33-37).
NoUnattendedStart == RequireKillCycle /\ thrust # "zero" => engaged

\* The EKF is asked to move the origin of the odom frame at most once for each
\* release and each accepted reset_pose, however many cycles wait for it.
OneResetPerCause == issued <= session + resets

\* Once the EKF's own answer confirmed a reset, the reference the controller
\* tracks and the pose it measures are in the same odom frame, whatever answers
\* and estimates are still on their way.
AssuredFrame == ~killed /\ Holding /\ assured => reference.frame = odom.frame

\* What the vehicle does was asked for since the last release: no command
\* queued before a kill acts after it.
CommandsOfThisRelease == ~killed /\ Holding => reference.session = session

\* An accepted command_id is the setpoint the reference comes from, if it comes
\* from one: queued commands act in the order they came in.
AcceptedIsInForce ==
  ~killed /\ Holding /\ reference.by = "setpoint" /\ ~ack.rejected => ack.id = reference.id

\* While the switch stays released and the sensors fresh, the vehicle keeps
\* coming back to driving: no pose reset waits for the EKF for ever.
Resumes ==
  <>[](~killed /\ CanArm) => []<>(thrust = "drive")

\* A pose reset does not wait for the EKF for ever: while the switch stays
\* released a request is replaced only by a new reset_pose and only grows older,
\* and a cycle with fresh sensors that does not drive leaves one not yet given up.
WaitRunsOut ==
  [][~killed /\ ~killed' =>
       /\ request.id # 0 /\ resets' = resets =>
            request'.id = request.id /\ request'.age >= request.age
       /\ Tick /\ request.id # 0 => GaveUp(request'.age) \/ request'.age > request.age
       /\ Run /\ CanArm => \/ thrust' = "drive"
                           \/ request'.id # 0 /\ ~GaveUp(request'.age)]_vars

\* Error.msg:18-20: "The id of the last MotionSetpoint sub_control took up ...
\* and whether it rejected it ... Errors above reflect that command."
ErrorsReflectCommand ==
  ~killed /\ Holding /\ ack.id # 0 /\ ~ack.rejected /\ reference.by # "cmd_vel"
    => reference.id = ack.id

=============================================================================
