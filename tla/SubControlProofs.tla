-------------------------- MODULE SubControlProofs --------------------------
(***************************************************************************)
(* Proofs about SubControl, for every value of its constants.              *)
(***************************************************************************)
EXTENDS SubControl, QueueLemmas

USE TimingAssumption, BoundAssumption

\* A clock tick keeps an age between zero and one past its limit.
LEMMA LaterType ==
  ASSUME NEW limit \in Nat, NEW age \in Int, 0 - Skew <= age, age <= Past(limit)
  PROVE  /\ Later(age, limit) \in Int
         /\ 0 - Skew <= Later(age, limit)
         /\ Later(age, limit) <= Past(limit)
         /\ 0 <= age => 0 <= Later(age, limit)
  BY DEF Later, Past

\* A reference is still one after the generator took a command up.
LEMMA TakenType ==
  ASSUME NEW fresh \in Reference, NEW command \in Command
  PROVE  Taken(command, fresh) \in Reference
  BY DEF Taken, Command, Reference

LEMMA AckedType ==
  ASSUME TypeOK, NEW id \in Ids, NEW rejected \in BOOLEAN
  PROVE  Acked(id, rejected) \in [id : Ids, rejected : BOOLEAN]
  BY DEF Acked, TypeOK

\* What apply_pending_commands leaves is a reference and an acknowledgement.
LEMMA ApplyPendingType ==
  ASSUME TypeOK, NEW fresh \in Reference, ApplyPending(fresh)
  PROVE  /\ reference' \in Reference
         /\ ack' \in [id : Ids, rejected : BOOLEAN]
         /\ pending' \in Seq(Command)
<1>1. \A i \in DOMAIN pending : pending[i] \in Command
  BY ElementOfSeq, LenProperties DEF TypeOK
<1>2. reference' \in Reference
  BY <1>1, TakenType DEF ApplyPending, ReferenceAfterPending
<1>3. ASSUME NEW i \in DOMAIN pending
      PROVE  Acked(pending[i].id, pending[i].verdict # "applied")
               \in [id : Ids, rejected : BOOLEAN]
  BY <1>1, <1>3, AckedType DEF Command
<1>4. ack' \in [id : Ids, rejected : BOOLEAN]
  BY <1>3 DEF ApplyPending, AckAfterPending, TypeOK
<1> QED
  BY <1>2, <1>4 DEF ApplyPending

LEMMA HoldReferenceType == TypeOK => HoldReference \in Reference
  BY DEF TypeOK, HoldReference, Reference, Odometry, Ids

\* request_pose_reset
LEMMA RequestType ==
  ASSUME TypeOK, NEW ready \in BOOLEAN, RequestPoseReset(ready)
  PROVE  /\ issued' \in Nat
         /\ request' \in [id : Nat, age : 0 .. Past(PoseResetTimeout), sent : BOOLEAN]
         /\ done' \in (0 .. Past(StateTimeout)) \cup {NoTime}
         /\ requests' \in Seq(Nat)
<1>1. issued' \in Nat
  BY DEF TypeOK, RequestPoseReset
<1>2. Append(requests, issued') \in Seq(Nat)
  BY <1>1, AppendProperties DEF TypeOK
<1> QED
  BY <1>1, <1>2 DEF TypeOK, RequestPoseReset, Past

LEMMA InitType == Init => TypeOK
<1> SUFFICES ASSUME Init PROVE TypeOK
  OBVIOUS
<1>1. /\ killed \in BOOLEAN /\ killSeen \in BOOLEAN /\ armed \in BOOLEAN
      /\ seeded \in BOOLEAN /\ rebasing \in BOOLEAN /\ failsafe \in BOOLEAN
      /\ switch \in BOOLEAN /\ engaged \in BOOLEAN /\ assured \in BOOLEAN
  BY DEF Init
<1>2. odom \in Odometry /\ imuAge \in 0 .. Past(AttitudeTimeout)
      /\ depthAge \in 0 .. Past(DepthTimeout)
  BY DEF Init, NoOdometry, Odometry, Past
<1>3. request \in [id : Nat, age : 0 .. Past(PoseResetTimeout), sent : BOOLEAN]
  BY DEF Init, NoRequest, Past
<1>4. pending \in Seq(Command) /\ requests \in Seq(Nat) /\ wire \in Seq(Odometry)
  BY EmptySeq DEF Init
<1>5. /\ ack \in [id : Ids, rejected : BOOLEAN]
      /\ reference \in Reference
  BY DEF Init, Ids, Reference
<1> QED
  BY <1>1, <1>2, <1>3, <1>4, <1>5 DEF Init, TypeOK, Ids, Reference

\* One control cycle leaves every variable in its type.
LEMMA RunType == TypeOK /\ Run => TypeOK'
<1> SUFFICES ASSUME TypeOK, Run PROVE TypeOK'
  OBVIOUS
<1> USE DEF RunFrame, sensors, timing, commands
<1>1. CASE RunDisarmed
  BY <1>1 DEF RunDisarmed, TypeOK
<1>2. CASE RunFailsafe
  BY <1>2 DEF RunFailsafe, TypeOK
<1>3. CASE RunKeepThrust
  <2>1. thrust' \in {"zero", "drive", "keep"} /\ armed' = TRUE /\ failsafe' = FALSE
    BY <1>3 DEF RunKeepThrust
  <2>2. RunFrame /\ UNCHANGED <<seeded, rebasing, timing, commands, requests, issued>>
    BY <1>3 DEF RunKeepThrust
  <2> QED
    BY <2>1, <2>2 DEF TypeOK
<1>4. CASE RunRebase
  BY <1>4, ApplyPendingType, HoldReferenceType DEF RunRebase, HoldHere, TypeOK
<1>5. ASSUME NEW ready \in BOOLEAN, RunAsk(ready)
      PROVE  TypeOK'
  <2>1. CASE Confirmed(done')
    BY <1>5, <2>1, ApplyPendingType, HoldReferenceType, RequestType DEF RunAsk, TypeOK
  <2>2. CASE ~Confirmed(done')
    BY <1>5, <2>2, RequestType DEF RunAsk, TypeOK
  <2> QED
    BY <2>1, <2>2
<1>6. CASE RunAwaitReset
  BY <1>6 DEF RunAwaitReset, TypeOK
<1>7. CASE RunSeed
  BY <1>7, ApplyPendingType, HoldReferenceType DEF RunSeed, HoldHere, TypeOK
<1>8. CASE RunDrive
  BY <1>8 DEF RunDrive, TypeOK
<1> QED
  BY <1>1, <1>2, <1>3, <1>4, <1>5, <1>6, <1>7, <1>8 DEF Run

\* The switch, the node's life and the commands.
LEMMA CommandType ==
  ASSUME TypeOK, NEW command \in Command, ApplyCommand(command)
  PROVE  /\ reference' \in Reference
         /\ ack' \in [id : Ids, rejected : BOOLEAN]
         /\ pending' \in Seq(Command)
<1>1. command.id \in Ids
  BY DEF Command
<1>2. Acked(command.id, TRUE) \in [id : Ids, rejected : BOOLEAN]
  BY <1>1, AckedType
<1>3. Acked(command.id, command.verdict # "applied") \in [id : Ids, rejected : BOOLEAN]
  BY <1>1, AckedType
<1>4. Append(pending, command) \in Seq(Command)
  BY AppendProperties DEF TypeOK
<1> QED
  BY <1>2, <1>3, <1>4, TakenType DEF ApplyCommand, TypeOK

LEMMA CallbackType ==
  TypeOK /\ (\/ FlipSwitch \/ KillCallback \/ ReleaseCallback \/ Restart
             \/ \E verdict \in Verdict : MotionSetpointCallback(verdict)
             \/ CmdVelCallback
             \/ \E ready \in BOOLEAN : ResetPose(ready)
             \/ \E id \in replies : ReplyCallback(id))
  => TypeOK'
<1> USE DEF supervision, timing, commands, sensors, estimator, history
<1>1. TypeOK /\ FlipSwitch => TypeOK'
  BY DEF FlipSwitch, TypeOK
<1>2. TypeOK /\ KillCallback => TypeOK'
  BY DEF KillCallback, TypeOK
<1>3. TypeOK /\ ReleaseCallback => TypeOK'
  <2> SUFFICES ASSUME TypeOK, ReleaseCallback PROVE TypeOK'
    OBVIOUS
  <2>1. pending' \in Seq(Command) /\ session' \in 0 .. MaxReleases
    BY EmptySeq DEF ReleaseCallback, TypeOK
  <2>2. request' \in [id : Nat, age : 0 .. Past(PoseResetTimeout), sent : BOOLEAN]
    BY DEF ReleaseCallback, NoRequest, Past
  <2> QED
    BY <2>1, <2>2 DEF ReleaseCallback, TypeOK
<1>4. TypeOK /\ Restart => TypeOK'
  <2> SUFFICES ASSUME TypeOK, Restart PROVE TypeOK'
    OBVIOUS
  <2>1. pending' \in Seq(Command) /\ ack' \in [id : Ids, rejected : BOOLEAN]
    BY EmptySeq DEF Restart, Ids
  <2>2. request' \in [id : Nat, age : 0 .. Past(PoseResetTimeout), sent : BOOLEAN]
    BY DEF Restart, NoRequest, Past
  <2>3. odom' \in Odometry /\ imuAge' \in 0 .. Past(AttitudeTimeout)
        /\ depthAge' \in 0 .. Past(DepthTimeout)
    BY DEF Restart, NoOdometry, Odometry, Past
  <2>4. reference' \in Reference
    BY DEF Restart, Reference, TypeOK, Ids
  <2> QED
    BY <2>1, <2>2, <2>3, <2>4 DEF Restart, TypeOK
<1>5. ASSUME TypeOK, NEW verdict \in Verdict, MotionSetpointCallback(verdict)
      PROVE  TypeOK'
  <2>1. lastId' \in Ids
    BY <1>5 DEF MotionSetpointCallback, TypeOK, Ids
  <2>2. /\ reference' \in Reference
        /\ ack' \in [id : Ids, rejected : BOOLEAN]
        /\ pending' \in Seq(Command)
    <3>1. CASE verdict = "malformed"
      <4>1. Acked(lastId', TRUE) \in [id : Ids, rejected : BOOLEAN]
        BY <1>5, <2>1, AckedType
      <4> QED
        BY <1>5, <3>1, <4>1 DEF MotionSetpointCallback, TypeOK
    <3>2. CASE verdict # "malformed"
      <4> DEFINE command == [id |-> lastId', verdict |-> verdict, session |-> session]
      <4>1. command \in Command
        BY <1>5, <2>1, <3>2 DEF Verdict, Command, TypeOK
      <4>2. ApplyCommand(command)
        BY <1>5, <3>2 DEF MotionSetpointCallback
      <4> HIDE DEF command
      <4> QED
        BY <1>5, <4>1, <4>2, CommandType
    <3> QED
      BY <3>1, <3>2
  <2> QED
    BY <1>5, <2>1, <2>2 DEF MotionSetpointCallback, TypeOK
<1>6. ASSUME TypeOK, CmdVelCallback
      PROVE  TypeOK'
  <2>1. [id |-> 0, verdict |-> "applied", session |-> session] \in Command
    BY <1>6 DEF Command, TypeOK, Ids
  <2> QED
    BY <1>6, <2>1, CommandType DEF CmdVelCallback, TypeOK
<1>7. ASSUME TypeOK, NEW ready \in BOOLEAN, ResetPose(ready)
      PROVE  TypeOK'
  BY <1>7, RequestType DEF ResetPose, TypeOK
<1>8. ASSUME TypeOK, NEW id \in replies, ReplyCallback(id)
      PROVE  TypeOK'
  BY <1>8 DEF ReplyCallback, TypeOK, Past
<1> QED
  BY <1>1, <1>2, <1>3, <1>4, <1>5, <1>6, <1>7, <1>8

\* The age of an estimate, a tick later and past its limit.
LEMMA AgedType ==
  ASSUME NEW m \in Odometry
  PROVE  Aged(m) \in Odometry
<1>1. /\ m.age \in Int /\ 0 - Skew <= m.age /\ m.age <= Past(StateTimeout)
      /\ Past(StateTimeout) \in Int
  BY DEF Odometry, Past
<1>2. Later(m.age, StateTimeout) \in (0 - Skew) .. Past(StateTimeout)
  BY <1>1, LaterType
<1> QED
  BY <1>2 DEF Odometry, Aged

LEMMA UnbelievableType ==
  ASSUME NEW m \in Odometry
  PROVE  Unbelievable(m) \in Odometry
<1>1. Past(StateTimeout) \in (0 - Skew) .. Past(StateTimeout)
  BY DEF Past
<1> QED
  BY <1>1 DEF Odometry, Unbelievable

LEMMA NatAgeType ==
  ASSUME NEW limit \in Nat, NEW age \in 0 .. Past(limit)
  PROVE  Later(age, limit) \in 0 .. Past(limit)
  BY DEF Later, Past

LEMMA PastType ==
  ASSUME NEW limit \in Nat
  PROVE  Past(limit) \in 0 .. Past(limit)
  BY DEF Past

LEMMA SensorType ==
  TypeOK /\ (\/ OdomCallback \/ LoseOdom \/ ImuCallback \/ DepthCallback
             \/ EkfPublish \/ EkfSetPose \/ Tick \/ ClockBack)
  => TypeOK'
<1> USE DEF supervision, timing, commands, sensors, estimator, history
<1>0. 0 \in 0 .. Past(AttitudeTimeout) /\ 0 \in 0 .. Past(DepthTimeout)
  BY DEF Past
<1>1. ASSUME TypeOK, OdomCallback \/ LoseOdom
      PROVE  TypeOK'
  <2>1. Head(wire) \in Odometry /\ Tail(wire) \in Seq(Odometry)
    BY <1>1, HeadTailProperties DEF OdomCallback, LoseOdom, TypeOK
  <2>2. CASE OdomCallback
    BY <1>1, <2>1, <2>2 DEF OdomCallback, TypeOK
  <2>3. CASE LoseOdom
    BY <1>1, <2>1, <2>3 DEF LoseOdom, TypeOK
  <2> QED
    BY <1>1, <2>2, <2>3
<1>2. ASSUME TypeOK, ImuCallback \/ DepthCallback
      PROVE  TypeOK'
  <2>1. CASE ImuCallback
    BY <1>0, <1>2, <2>1 DEF ImuCallback, TypeOK
  <2>2. CASE DepthCallback
    BY <1>0, <1>2, <2>2 DEF DepthCallback, TypeOK
  <2> QED
    BY <1>2, <2>1, <2>2
<1>3. ASSUME TypeOK, EkfPublish
      PROVE  TypeOK'
  <2>1. PICK age \in (0 - Skew) .. 0 : wire' = Append(wire, [frame |-> ekfFrame, age |-> age])
    BY <1>3 DEF EkfPublish
  <2>2. [frame |-> ekfFrame, age |-> age] \in Odometry
    BY <1>3 DEF TypeOK, Odometry, Past
  <2>3. wire' \in Seq(Odometry)
    BY <1>3, <2>1, <2>2, AppendProperties DEF TypeOK
  <2> QED
    BY <1>3, <2>3 DEF EkfPublish, TypeOK
<1>4. ASSUME TypeOK, EkfSetPose
      PROVE  TypeOK'
  <2>1. Head(requests) \in Nat /\ Tail(requests) \in Seq(Nat)
    BY <1>4, HeadTailProperties DEF EkfSetPose, TypeOK
  <2>2. replies' \subseteq Nat
    BY <1>4, <2>1 DEF EkfSetPose, TypeOK
  <2>3. requests' \in Seq(Nat) /\ ekfFrame' \in Nat
    BY <1>4, <2>1 DEF EkfSetPose
  <2> QED
    BY <1>4, <2>2, <2>3 DEF EkfSetPose, TypeOK
<1>5. ASSUME TypeOK, Tick
      PROVE  TypeOK'
  <2>1. wire' \in Seq(Odometry)
    <3>1. wire \in Seq(Odometry) /\ wire' = [i \in DOMAIN wire |-> Aged(wire[i])]
      BY <1>5 DEF Tick, TypeOK
    <3>2. \A i \in DOMAIN wire : wire[i] \in Odometry
      BY <3>1, ElementOfSeq, LenProperties
    <3>3. \A i \in DOMAIN wire : Aged(wire[i]) \in Odometry
      BY <3>2, AgedType
    <3> QED
      BY <3>1, <3>3, MapInSeq
  <2>2. odom' \in Odometry
    <3>1. odom \in Odometry /\ odom' = Aged(odom)
      BY <1>5 DEF Tick, TypeOK
    <3> QED
      BY <3>1, AgedType
  <2>3. request' \in [id : Nat, age : 0 .. Past(PoseResetTimeout), sent : BOOLEAN]
    <3>1. request \in [id : Nat, age : 0 .. Past(PoseResetTimeout), sent : BOOLEAN]
          /\ request' = [request EXCEPT !.age = Later(request.age, PoseResetTimeout)]
      BY <1>5 DEF Tick, TypeOK
    <3>2. Later(request.age, PoseResetTimeout) \in 0 .. Past(PoseResetTimeout)
      BY <3>1, NatAgeType
    <3> QED
      BY <3>1, <3>2
  <2>4. done' \in (0 .. Past(StateTimeout)) \cup {NoTime}
    <3>1. done \in (0 .. Past(StateTimeout)) \cup {NoTime}
          /\ done' = IF done = NoTime THEN NoTime ELSE Later(done, StateTimeout)
      BY <1>5 DEF Tick, TypeOK
    <3> QED
      BY <3>1, NatAgeType
  <2>5. imuAge' \in 0 .. Past(AttitudeTimeout) /\ depthAge' \in 0 .. Past(DepthTimeout)
    <3>1. /\ imuAge \in 0 .. Past(AttitudeTimeout) /\ imuAge' = Later(imuAge, AttitudeTimeout)
          /\ depthAge \in 0 .. Past(DepthTimeout) /\ depthAge' = Later(depthAge, DepthTimeout)
      BY <1>5 DEF Tick, TypeOK
    <3> QED
      BY <3>1, NatAgeType
  <2> QED
    BY <1>5, <2>1, <2>2, <2>3, <2>4, <2>5 DEF Tick, TypeOK
<1>6. ASSUME TypeOK, ClockBack
      PROVE  TypeOK'
  <2>1. wire' \in Seq(Odometry)
    <3>1. wire \in Seq(Odometry) /\ wire' = [i \in DOMAIN wire |-> Unbelievable(wire[i])]
      BY <1>6 DEF ClockBack, TypeOK
    <3>2. \A i \in DOMAIN wire : wire[i] \in Odometry
      BY <3>1, ElementOfSeq, LenProperties
    <3>3. \A i \in DOMAIN wire : Unbelievable(wire[i]) \in Odometry
      BY <3>2, UnbelievableType
    <3> QED
      BY <3>1, <3>3, MapInSeq
  <2>2. odom' \in Odometry
    <3>1. odom \in Odometry /\ odom' = Unbelievable(odom)
      BY <1>6 DEF ClockBack, TypeOK
    <3> QED
      BY <3>1, UnbelievableType
  <2>3. request' \in [id : Nat, age : 0 .. Past(PoseResetTimeout), sent : BOOLEAN]
    BY <1>6, PastType DEF ClockBack, TypeOK
  <2>4. imuAge' \in 0 .. Past(AttitudeTimeout) /\ depthAge' \in 0 .. Past(DepthTimeout)
    BY <1>6, PastType DEF ClockBack
  <2> QED
    BY <1>6, <2>1, <2>2, <2>3, <2>4 DEF ClockBack, TypeOK
<1> QED
  BY <1>1, <1>2, <1>3, <1>4, <1>5, <1>6

\* Every variable stays in its type.
THEOREM TypeCorrect == Spec => []TypeOK
<1>1. TypeOK /\ [Next]_vars => TypeOK'
  <2>1. TypeOK /\ UNCHANGED vars => TypeOK'
    BY DEF vars, supervision, timing, commands, sensors, estimator, history, TypeOK
  <2> QED
    BY <2>1, CallbackType, RunType, SensorType DEF Next
<1> QED
  BY <1>1, InitType, PTL DEF Spec

-----------------------------------------------------------------------------
(* Next in three parts: the estimator, the sensors and the clock; the        *)
(* node's callbacks; and the control cycle.                                  *)

Sense == \/ OdomCallback \/ LoseOdom \/ ImuCallback \/ DepthCallback
         \/ EkfPublish \/ EkfSetPose \/ Tick \/ ClockBack

\* Nothing outside the node and its callbacks changes what the node decided.
LEMMA SenseFrame ==
  TypeOK /\ Sense =>
    /\ UNCHANGED <<supervision, commands, thrust, switch, history>>
    /\ request'.id = request.id /\ request'.sent = request.sent
<1> SUFFICES ASSUME TypeOK, Sense
             PROVE  /\ UNCHANGED <<supervision, commands, thrust, switch, history>>
                    /\ request'.id = request.id /\ request'.sent = request.sent
  OBVIOUS
<1>1. request \in [id : Nat, age : 0 .. Past(PoseResetTimeout), sent : BOOLEAN]
  BY DEF TypeOK
<1>2. CASE OdomCallback \/ LoseOdom \/ ImuCallback \/ DepthCallback
  BY <1>2 DEF OdomCallback, LoseOdom, ImuCallback, DepthCallback, timing
<1>3. CASE EkfPublish \/ EkfSetPose
  BY <1>3 DEF EkfPublish, EkfSetPose, timing
<1>4. CASE Tick
  BY <1>1, <1>4 DEF Tick
<1>5. CASE ClockBack
  BY <1>1, <1>5 DEF ClockBack
<1> QED
  BY <1>2, <1>3, <1>4, <1>5 DEF Sense

\* What each exit of a control cycle leaves alone, or asks of the EKF.
LEMMA RunCases ==
  ASSUME Run
  PROVE  /\ UNCHANGED <<killed, killSeen, sensors, switch, ekfFrame, replies, wire,
                         resets, session, lastId, engaged>>
         /\ \/ /\ killed \/ ~armed
               /\ thrust' = "zero"
               /\ UNCHANGED <<armed, seeded, rebasing, timing, commands, requests, issued>>
            \/ /\ Live /\ armed'
               /\ \/ UNCHANGED <<seeded, rebasing, timing, commands, requests, issued>>
                  \/ /\ rebasing /\ ~rebasing' /\ HoldHere
                     /\ UNCHANGED <<seeded, timing, requests, issued>>
                  \/ /\ ~seeded /\ seeded' /\ request.id # 0 /\ HoldHere
                     /\ UNCHANGED <<rebasing, timing, requests, issued>>
                  \/ /\ ~seeded /\ request.id = 0 /\ UNCHANGED rebasing
                     /\ \E ready \in BOOLEAN : RequestPoseReset(ready)
                     /\ \/ seeded' /\ ApplyPending(HoldReference) /\ assured' = FALSE
                        \/ UNCHANGED <<seeded, commands>>
<1> USE DEF RunFrame
<1>1. CASE RunDisarmed
  BY <1>1 DEF RunDisarmed
<1>2. CASE RunFailsafe \/ RunKeepThrust \/ RunAwaitReset \/ RunDrive
  BY <1>2 DEF RunFailsafe, RunKeepThrust, RunAwaitReset, RunDrive
<1>3. CASE RunRebase
  BY <1>3 DEF RunRebase
<1>4. CASE RunSeed
  BY <1>4 DEF RunSeed
<1>5. CASE \E ready \in BOOLEAN : RunAsk(ready)
  BY <1>5 DEF RunAsk
<1> QED
  BY <1>1, <1>2, <1>3, <1>4, <1>5 DEF Run

-----------------------------------------------------------------------------
(* Stopping.                                                                 *)

\* Killed or disarmed, the thrusters were last told to stop.
THEOREM Stopped == Spec => []DisarmedIsStill
<1> USE DEF DisarmedIsStill
<1>1. Init => DisarmedIsStill
  BY DEF Init
<1>2. TypeOK /\ DisarmedIsStill /\ [Next]_vars => DisarmedIsStill'
  <2> SUFFICES ASSUME TypeOK, DisarmedIsStill, [Next]_vars PROVE DisarmedIsStill'
    OBVIOUS
  <2>1. CASE KillCallback \/ Restart
    BY <2>1 DEF KillCallback, Restart
  <2>2. CASE ReleaseCallback
    BY <2>2 DEF ReleaseCallback
  <2>3. CASE FlipSwitch \/ CmdVelCallback \/ \E id \in replies : ReplyCallback(id)
    BY <2>3 DEF FlipSwitch, CmdVelCallback, ReplyCallback, supervision
  <2>4. CASE \E verdict \in Verdict : MotionSetpointCallback(verdict)
    BY <2>4 DEF MotionSetpointCallback, supervision
  <2>5. CASE \E ready \in BOOLEAN : ResetPose(ready)
    BY <2>5 DEF ResetPose
  <2>6. CASE Run
    BY <2>6, RunCases DEF Live
  <2>7. CASE Sense
    BY <2>7, SenseFrame DEF supervision
  <2>8. CASE UNCHANGED vars
    BY <2>8 DEF vars, supervision
  <2> QED
    BY <2>1, <2>2, <2>3, <2>4, <2>5, <2>6, <2>7, <2>8 DEF Next, Sense
<1> QED
  BY <1>1, <1>2, TypeCorrect, PTL DEF Spec

\* The node does with its killed_ and its thrusters what Interlock says.
THEOREM InterlockKept == Spec => KeepsInterlock
<1> DEFINE thrusts == thrust # "zero"
<1>1. Init => Thrusting!Init
  BY DEF Init, Thrusting!Init
<1>2. ASSUME TypeOK, DisarmedIsStill, Next
      PROVE  [Thrusting!Next]_(Thrusting!interlock)
  <2> USE DEF Thrusting!Next, Thrusting!interlock
  <2>1. CASE KillCallback \/ Restart
    BY <2>1 DEF KillCallback, Restart, Thrusting!Kill
  <2>2. CASE ReleaseCallback
    BY <2>2 DEF ReleaseCallback, Thrusting!Release
  <2>3. CASE FlipSwitch \/ CmdVelCallback \/ \E id \in replies : ReplyCallback(id)
    BY <2>3 DEF FlipSwitch, CmdVelCallback, ReplyCallback, supervision
  <2>4. CASE \E verdict \in Verdict : MotionSetpointCallback(verdict)
    BY <2>4 DEF MotionSetpointCallback, supervision
  <2>5. CASE \E ready \in BOOLEAN : ResetPose(ready)
    BY <2>5 DEF ResetPose
  <2>6. CASE Run
    <3>1. killed' = killed /\ thrusts' \in BOOLEAN
      BY <2>6, RunCases
    <3>2. thrusts' => ~killed
      BY <2>6, RunCases DEF Live
    <3> QED
      BY <3>1, <3>2 DEF Thrusting!Decide
  <2>7. CASE Sense
    <3>1. UNCHANGED <<supervision, thrust>>
      BY <2>7 DEF Sense, OdomCallback, LoseOdom, ImuCallback, DepthCallback, EkfPublish,
         EkfSetPose, Tick, ClockBack
    <3> QED
      BY <3>1 DEF supervision
  <2> QED
    BY <1>2, <2>1, <2>2, <2>3, <2>4, <2>5, <2>6, <2>7 DEF Next, Sense
<1>3. UNCHANGED vars => UNCHANGED Thrusting!interlock
  BY DEF vars, supervision, Thrusting!interlock
<1>4. TypeOK /\ DisarmedIsStill /\ [Next]_vars => [Thrusting!Next]_(Thrusting!interlock)
  BY <1>2, <1>3
<1> QED
  BY <1>1, <1>4, TypeCorrect, Stopped, PTL DEF Spec, KeepsInterlock, Thrusting!Spec

\* Why thrust was attended: the node arms only having seen the switch engaged,
\* and what it saw did happen.
Attended ==
  /\ switch => engaged
  /\ killSeen => engaged
  /\ RequireKillCycle /\ armed => killSeen

LEMMA RunArms ==
  ASSUME Run, RequireKillCycle, armed'
  PROVE  armed \/ killSeen
  BY DEF Run, RunDisarmed, RunFailsafe, RunKeepThrust, RunRebase, RunAsk, RunAwaitReset,
         RunSeed, RunDrive, Live, CanArm

\* The node gives no thrust unless the switch was engaged since it started.
THEOREM Unattended == Spec => []NoUnattendedStart
<1>1. Init => Attended
  BY DEF Init, Attended
<1>2. TypeOK /\ Attended /\ [Next]_vars => Attended'
  <2> SUFFICES ASSUME TypeOK, Attended, [Next]_vars PROVE Attended'
    OBVIOUS
  <2> USE DEF Attended
  <2>1. CASE KillCallback \/ Restart
    BY <2>1 DEF KillCallback, Restart, history
  <2>2. CASE ReleaseCallback
    BY <2>2 DEF ReleaseCallback
  <2>3. CASE FlipSwitch
    BY <2>3 DEF FlipSwitch, supervision, TypeOK
  <2>4. CASE CmdVelCallback \/ \E id \in replies : ReplyCallback(id)
    BY <2>4 DEF CmdVelCallback, ReplyCallback, supervision, history
  <2>5. CASE \E verdict \in Verdict : MotionSetpointCallback(verdict)
    BY <2>5 DEF MotionSetpointCallback, supervision
  <2>6. CASE \E ready \in BOOLEAN : ResetPose(ready)
    BY <2>6 DEF ResetPose
  <2>7. CASE Run
    BY <2>7, RunCases, RunArms
  <2>8. CASE Sense
    BY <2>8, SenseFrame DEF supervision, history
  <2>9. CASE UNCHANGED vars
    BY <2>9 DEF vars, supervision, history
  <2> QED
    BY <2>1, <2>2, <2>3, <2>4, <2>5, <2>6, <2>7, <2>8, <2>9 DEF Next, Sense
<1>3. Attended /\ DisarmedIsStill => NoUnattendedStart
  BY DEF Attended, DisarmedIsStill, NoUnattendedStart
<1> QED
  BY <1>1, <1>2, <1>3, TypeCorrect, Stopped, PTL DEF Spec

-----------------------------------------------------------------------------
(* Pose resets.                                                              *)

\* A release, or a reset_pose, leaves room for the one request it may cause.
CauseInv ==
  /\ OneResetPerCause
  /\ ~killed /\ request.id = 0 => issued < session + resets

\* The EKF is asked at most once for each release and each reset_pose.
THEOREM OneReset == Spec => []OneResetPerCause
<1>1. Init => CauseInv
  BY DEF Init, CauseInv, OneResetPerCause
<1>2. TypeOK /\ CauseInv /\ [Next]_vars => CauseInv'
  <2> SUFFICES ASSUME TypeOK, CauseInv, [Next]_vars PROVE CauseInv'
    OBVIOUS
  <2> USE DEF CauseInv, OneResetPerCause
  <2>0. issued \in Nat /\ session \in Nat /\ resets \in Nat
    BY DEF TypeOK
  <2>1. CASE KillCallback \/ Restart
    BY <2>1 DEF KillCallback, Restart, history
  <2>2. CASE ReleaseCallback
    BY <2>0, <2>2 DEF ReleaseCallback
  <2>3. CASE FlipSwitch \/ CmdVelCallback \/ \E id \in replies : ReplyCallback(id)
    BY <2>3 DEF FlipSwitch, CmdVelCallback, ReplyCallback, supervision, timing, history
  <2>4. CASE \E verdict \in Verdict : MotionSetpointCallback(verdict)
    BY <2>4 DEF MotionSetpointCallback, supervision, timing
  <2>5. CASE \E ready \in BOOLEAN : ResetPose(ready)
    BY <2>0, <2>5 DEF ResetPose, RequestPoseReset
  <2>6. CASE Run
    <3>1. UNCHANGED <<killed, session, resets>>
      BY <2>6, RunCases
    <3>2. \/ UNCHANGED <<request, issued>>
          \/ /\ ~killed /\ request.id = 0
             /\ \E ready \in BOOLEAN : RequestPoseReset(ready)
      BY <2>6, RunCases DEF Live, timing
    <3>3. ASSUME NEW ready \in BOOLEAN, RequestPoseReset(ready)
          PROVE  issued' = issued + 1 /\ request'.id # 0
      BY <2>0, <3>3 DEF RequestPoseReset
    <3> QED
      BY <2>0, <3>1, <3>2, <3>3
  <2>7. CASE Sense
    BY <2>7, SenseFrame DEF supervision, history
  <2>8. CASE UNCHANGED vars
    BY <2>8 DEF vars, supervision, timing, history
  <2> QED
    BY <2>1, <2>2, <2>3, <2>4, <2>5, <2>6, <2>7, <2>8 DEF Next, Sense
<1>3. CauseInv => OneResetPerCause
  BY DEF CauseInv
<1> QED
  BY <1>1, <1>2, <1>3, TypeCorrect, PTL DEF Spec

-----------------------------------------------------------------------------
(* Commands.                                                                 *)

\* Everything queued, and what the reference comes from, is of this release.
SessionInv ==
  ~killed =>
    /\ \A i \in DOMAIN pending : pending[i].session = session
    /\ seeded => reference.session = session

LEMMA TakenSession ==
  ASSUME NEW command, NEW now, command.session = now.session
  PROVE  Taken(command, now).session = now.session
  BY DEF Taken

\* What is applied to a held pose is of the release the queue is of.
LEMMA AppliedSession ==
  ASSUME TypeOK, ~killed, SessionInv, ApplyPending(HoldReference)
  PROVE  reference'.session = session /\ pending' = <<>>
<1>1. HoldReference.session = session
  BY DEF HoldReference
<1>2. \A i \in DOMAIN pending : Taken(pending[i], HoldReference).session = session
  BY <1>1, TakenSession DEF SessionInv
<1>3. reference' = HoldReference \/ \E i \in DOMAIN pending : reference' = Taken(pending[i], HoldReference)
  BY DEF ApplyPending, ReferenceAfterPending
<1> QED
  BY <1>1, <1>2, <1>3 DEF ApplyPending

\* A command keeps the queue and the reference of the release it came in.
LEMMA CommandSession ==
  ASSUME TypeOK, SessionInv, NEW command \in Command, command.session = session,
         ApplyCommand(command), UNCHANGED <<killed, seeded, rebasing, session>>
  PROVE  SessionInv'
<1> SUFFICES ASSUME ~killed PROVE SessionInv'
  BY DEF SessionInv
<1>1. CASE armed /\ Holding
  <2>1. reference.session = session /\ reference' = Taken(command, reference) /\ pending' = pending
    BY <1>1 DEF ApplyCommand, SessionInv, Holding
  <2>2. reference'.session = session
    BY <2>1, TakenSession
  <2> QED
    BY <2>1, <2>2 DEF SessionInv
<1>2. CASE armed /\ ~Holding
  <2>1. pending' = Append(pending, command) /\ reference' = reference
    BY <1>2 DEF ApplyCommand
  <2>2. \A i \in DOMAIN pending' : pending'[i].session = session
    <3>1. pending \in Seq(Command)
      BY DEF TypeOK
    <3>2. /\ DOMAIN pending' = 1 .. Len(pending) + 1 /\ DOMAIN pending = 1 .. Len(pending)
          /\ \A i \in 1 .. Len(pending) : pending'[i] = pending[i]
          /\ pending'[Len(pending) + 1] = command
      BY <2>1, <3>1, AppendProperties, LenProperties
    <3>3. Len(pending) \in Nat
      BY <3>1, LenProperties
    <3> QED
      BY <3>2, <3>3 DEF SessionInv
  <2> QED
    BY <2>1, <2>2 DEF SessionInv
<1>3. CASE ~armed
  BY <1>3 DEF ApplyCommand, SessionInv
<1> QED
  BY <1>1, <1>2, <1>3

\* The vehicle acts only on what was asked for since the last release.
THEOREM ThisRelease == Spec => []CommandsOfThisRelease
<1>1. Init => SessionInv
  BY DEF Init, SessionInv
<1>2. TypeOK /\ SessionInv /\ [Next]_vars => SessionInv'
  <2> SUFFICES ASSUME TypeOK, SessionInv, [Next]_vars PROVE SessionInv'
    OBVIOUS
  <2>1. CASE KillCallback \/ Restart
    BY <2>1 DEF KillCallback, Restart, SessionInv
  <2>2. CASE ReleaseCallback
    BY <2>2 DEF ReleaseCallback, SessionInv
  <2>3. CASE FlipSwitch \/ \E id \in replies : ReplyCallback(id)
    BY <2>3 DEF FlipSwitch, ReplyCallback, supervision, commands, history, SessionInv
  <2>4. CASE CmdVelCallback
    <3> DEFINE command == [id |-> 0, verdict |-> "applied", session |-> session]
    <3>1. command \in Command /\ command.session = session
      BY DEF Command, TypeOK, Ids
    <3>2. ApplyCommand(command) /\ UNCHANGED <<killed, seeded, rebasing, session>>
      BY <2>4 DEF CmdVelCallback, supervision, history
    <3> HIDE DEF command
    <3> QED
      BY <3>1, <3>2, CommandSession
  <2>5. ASSUME NEW verdict \in Verdict, MotionSetpointCallback(verdict)
        PROVE  SessionInv'
    <3>1. UNCHANGED <<killed, seeded, rebasing, session>>
      BY <2>5 DEF MotionSetpointCallback, supervision
    <3>2. CASE verdict = "malformed"
      BY <2>5, <3>1, <3>2 DEF MotionSetpointCallback, SessionInv
    <3>3. CASE verdict # "malformed"
      <4> DEFINE command == [id |-> lastId', verdict |-> verdict, session |-> session]
      <4>1. lastId' \in Ids
        BY <2>5 DEF MotionSetpointCallback, TypeOK, Ids
      <4>2. command \in Command /\ command.session = session
        BY <3>3, <4>1 DEF Verdict, Command, TypeOK
      <4>3. ApplyCommand(command)
        BY <2>5, <3>3 DEF MotionSetpointCallback
      <4> HIDE DEF command
      <4> QED
        BY <3>1, <4>2, <4>3, CommandSession
    <3> QED
      BY <3>2, <3>3
  <2>6. CASE \E ready \in BOOLEAN : ResetPose(ready)
    BY <2>6 DEF ResetPose, commands, SessionInv
  <2>7. CASE Run
    <3>1. UNCHANGED <<killed, session>>
      BY <2>7, RunCases
    <3>2. \/ UNCHANGED <<seeded, pending, reference>>
          \/ ~killed /\ ApplyPending(HoldReference)
      BY <2>7, RunCases DEF Live, HoldHere, commands
    <3>3. CASE UNCHANGED <<seeded, pending, reference>>
      BY <3>1, <3>3 DEF SessionInv
    <3>4. CASE ~killed /\ ApplyPending(HoldReference)
      <4>1. reference'.session = session' /\ pending' = <<>>
        BY <3>1, <3>4, AppliedSession
      <4> QED
        BY <4>1 DEF SessionInv
    <3> QED
      BY <3>2, <3>3, <3>4
  <2>8. CASE Sense
    BY <2>8, SenseFrame DEF supervision, commands, history, SessionInv
  <2>9. CASE UNCHANGED vars
    BY <2>9 DEF vars, supervision, commands, history, SessionInv
  <2> QED
    BY <2>1, <2>2, <2>3, <2>4, <2>5, <2>6, <2>7, <2>8, <2>9 DEF Next, Sense
<1>3. SessionInv => CommandsOfThisRelease
  BY DEF SessionInv, CommandsOfThisRelease, Holding
<1> QED
  BY <1>1, <1>2, <1>3, TypeCorrect, PTL DEF Spec

\* After the queue was applied in order, an accepted id is the reference's.
LEMMA AppliedInForce ==
  ASSUME TypeOK, ApplyPending(HoldReference), reference'.by = "setpoint", ~ack'.rejected
  PROVE  ack'.id = reference'.id
<1>1. HoldReference.by = "hold"
  BY DEF HoldReference
<1>2. PICK i \in DOMAIN pending :
        IsLast(i, AppliedPending) /\ reference' = Taken(pending[i], HoldReference)
  BY <1>1 DEF ApplyPending, ReferenceAfterPending
<1>3. pending[i].verdict = "applied"
  BY <1>2 DEF IsLast, AppliedPending
<1>4. pending[i].id # 0 /\ reference'.id = pending[i].id
  BY <1>2, <1>3 DEF Taken
<1>5. i \in NumberedPending
  BY <1>4 DEF NumberedPending
<1>6. PICK j \in DOMAIN pending :
        IsLast(j, NumberedPending) /\ ack' = Acked(pending[j].id, pending[j].verdict # "applied")
  BY <1>5 DEF ApplyPending, AckAfterPending
<1>7. pending[j].id # 0 /\ i <= j
  BY <1>5, <1>6 DEF IsLast, NumberedPending
<1>8. ack'.id = pending[j].id /\ pending[j].verdict = "applied"
  BY <1>6, <1>7 DEF Acked
<1>9. j <= i
  BY <1>2, <1>8 DEF IsLast, AppliedPending
<1>10. i \in Int /\ j \in Int
  BY LenProperties DEF TypeOK
<1> QED
  BY <1>4, <1>7, <1>8, <1>9, <1>10

\* A command taken up, refused or queued keeps the reference and the
\* acknowledgement together.
LEMMA CommandInForce ==
  ASSUME AcceptedIsInForce, NEW command, ApplyCommand(command),
         UNCHANGED <<killed, seeded, rebasing>>
  PROVE  AcceptedIsInForce'
<1>1. CASE killed \/ ~armed
  <2>1. reference' = reference /\ ack' = Acked(command.id, TRUE)
    BY <1>1 DEF ApplyCommand
  <2> QED
    BY <2>1 DEF AcceptedIsInForce, Holding, Acked
<1>2. CASE ~killed /\ armed /\ ~Holding
  BY <1>2 DEF ApplyCommand, AcceptedIsInForce, Holding
<1>3. CASE ~killed /\ armed /\ Holding
  <2>1. reference' = Taken(command, reference)
        /\ ack' = Acked(command.id, command.verdict # "applied")
    BY <1>3 DEF ApplyCommand
  <2>2. CASE command.verdict = "applied"
    BY <2>1, <2>2 DEF AcceptedIsInForce, Taken, Acked
  <2>3. CASE command.verdict # "applied"
    BY <1>3, <2>1, <2>3 DEF AcceptedIsInForce, Taken, Acked, Holding
  <2> QED
    BY <2>2, <2>3
<1> QED
  BY <1>1, <1>2, <1>3

\* An accepted command_id is the setpoint the vehicle is following, whatever
\* was queued, refused, killed or reset in between.
THEOREM InForce == Spec => []AcceptedIsInForce
<1>1. Init => AcceptedIsInForce
  BY DEF Init, AcceptedIsInForce
<1>2. TypeOK /\ AcceptedIsInForce /\ [Next]_vars => AcceptedIsInForce'
  <2> SUFFICES ASSUME TypeOK, AcceptedIsInForce, [Next]_vars PROVE AcceptedIsInForce'
    OBVIOUS
  <2>1. CASE KillCallback \/ Restart
    BY <2>1 DEF KillCallback, Restart, AcceptedIsInForce
  <2>2. CASE ReleaseCallback
    BY <2>2 DEF ReleaseCallback, AcceptedIsInForce, Holding
  <2>3. CASE FlipSwitch \/ \E id \in replies : ReplyCallback(id)
    BY <2>3 DEF FlipSwitch, ReplyCallback, supervision, commands, AcceptedIsInForce, Holding
  <2>4. CASE CmdVelCallback
    BY <2>4, CommandInForce DEF CmdVelCallback, supervision
  <2>5. ASSUME NEW verdict \in Verdict, MotionSetpointCallback(verdict)
        PROVE  AcceptedIsInForce'
    <3>1. UNCHANGED <<killed, seeded, rebasing>>
      BY <2>5 DEF MotionSetpointCallback, supervision
    <3>2. CASE verdict = "malformed"
      <4>1. lastId' # 0
        BY <2>5 DEF MotionSetpointCallback, TypeOK, Ids
      <4>2. ack'.rejected
        BY <2>5, <3>2, <4>1 DEF MotionSetpointCallback, Acked
      <4> QED
        BY <4>2 DEF AcceptedIsInForce
    <3>3. CASE verdict # "malformed"
      BY <2>5, <3>1, <3>3, CommandInForce DEF MotionSetpointCallback
    <3> QED
      BY <3>2, <3>3
  <2>6. CASE \E ready \in BOOLEAN : ResetPose(ready)
    BY <2>6 DEF ResetPose, AcceptedIsInForce, Holding
  <2>7. CASE Run
    <3>1. UNCHANGED killed
      BY <2>7, RunCases
    <3>2. \/ UNCHANGED <<seeded, rebasing, reference, ack>>
          \/ ApplyPending(HoldReference)
      BY <2>7, RunCases DEF HoldHere, commands
    <3> QED
      BY <3>1, <3>2, AppliedInForce DEF AcceptedIsInForce, Holding
  <2>8. CASE Sense
    BY <2>8, SenseFrame DEF supervision, commands, AcceptedIsInForce, Holding
  <2>9. CASE UNCHANGED vars
    BY <2>9 DEF vars, supervision, commands, AcceptedIsInForce, Holding
  <2> QED
    BY <2>1, <2>2, <2>3, <2>4, <2>5, <2>6, <2>7, <2>8, <2>9 DEF Next, Sense
<1> QED
  BY <1>1, <1>2, TypeCorrect, PTL DEF Spec

-----------------------------------------------------------------------------
(* The desk.                                                                 *)

LEMMA WaitingFacts ==
  ASSUME TypeOK
  PROVE  /\ WaitingIds = IdsOf(pending) /\ WaitingIds' = IdsOf(pending')
         /\ WaitingIds \in Seq(Ids) /\ Len(WaitingIds) = Len(pending) /\ Len(pending) \in Nat
         /\ DOMAIN pending = 1 .. Len(pending)
         /\ \A i \in 1 .. Len(pending) : pending[i] \in Command /\ WaitingIds[i] = pending[i].id
<1>1. WaitingIds = IdsOf(pending) /\ WaitingIds' = IdsOf(pending')
  BY DEF WaitingIds, IdsOf
<1>2. pending \in Seq(Command) /\ \A c \in Command : c.id \in Ids
  BY DEF TypeOK, Command
<1> QED
  BY <1>1, <1>2, IdsOfType, LenProperties

\* A command at the desk.
LEMMA CommandAtDesk ==
  ASSUME TypeOK, NEW command \in Command, ApplyCommand(command),
         UNCHANGED <<killed, armed, seeded, rebasing>>
  PROVE  [Desk!Next]_(Desk!deskVars)
<1> USE DEF Desk!Next, Desk!deskVars, Holding
<1>1. command.id \in Ids
  BY DEF Command
<1>2. CASE killed \/ ~armed
  <2>1. ack' = Acked(command.id, TRUE) /\ WaitingIds' = WaitingIds
    BY <1>2 DEF ApplyCommand, WaitingIds
  <2>2. command.id # 0 => Desk!Reject
    BY <1>1, <2>1 DEF Desk!Reject, Acked
  <2>3. command.id = 0 => ack' = ack
    BY <2>1 DEF Acked
  <2> QED
    BY <2>1, <2>2, <2>3
<1>3. CASE ~killed /\ armed /\ ~Holding
  <2>1. pending' = Append(pending, command) /\ ack' = ack
    BY <1>3 DEF ApplyCommand
  <2>2. pending \in Seq(Command) /\ \A c \in Command : c.id \in Ids
    BY DEF TypeOK, Command
  <2>3. WaitingIds' = Append(WaitingIds, command.id)
    BY <2>1, <2>2, WaitingFacts, IdsAppend
  <2>4. Desk!Enqueue
    BY <1>1, <1>3, <2>1, <2>3 DEF Desk!Enqueue
  <2> QED
    BY <2>4
<1>4. CASE ~killed /\ armed /\ Holding
  <2>1. /\ ack' = Acked(command.id, command.verdict # "applied") /\ WaitingIds' = WaitingIds
        /\ (command.verdict # "applied") \in BOOLEAN
    BY <1>4 DEF ApplyCommand, WaitingIds
  <2>2. command.id # 0 => Desk!Take
    BY <1>1, <1>4, <2>1 DEF Desk!Take, Acked
  <2>3. command.id = 0 => ack' = ack
    BY <2>1 DEF Acked
  <2> QED
    BY <2>1, <2>2, <2>3
<1> QED
  BY <1>2, <1>3, <1>4

\* Those that waited are all taken up, and the last with an id is acknowledged.
LEMMA AppliedAtDesk ==
  ASSUME TypeOK, NEW fresh, ApplyPending(fresh)
  PROVE  /\ Desk!AcknowledgesLast(Len(WaitingIds))
         /\ WaitingIds' = SubSeq(WaitingIds, Len(WaitingIds) + 1, Len(WaitingIds))
         /\ WaitingIds' = <<>>
         /\ pending = <<>> => ack' = ack
<1>1. pending' = <<>> /\ AckAfterPending
  BY DEF ApplyPending
<1>2. WaitingIds' = <<>>
  BY <1>1, IdsEmpty, WaitingFacts
<1>3. WaitingIds' = SubSeq(WaitingIds, Len(WaitingIds) + 1, Len(WaitingIds))
  BY <1>2, WaitingFacts, SubSeqEmpty
<1>4. CASE NumberedPending = {} /\ UNCHANGED ack
  <2>1. \A i \in 1 .. Len(WaitingIds) : WaitingIds[i] = 0
    BY <1>4, WaitingFacts DEF NumberedPending
  <2> QED
    BY <1>2, <1>3, <1>4, <2>1 DEF Desk!AcknowledgesLast
<1>5. ASSUME NEW i \in DOMAIN pending, IsLast(i, NumberedPending),
             ack' = Acked(pending[i].id, pending[i].verdict # "applied")
      PROVE  Desk!AcknowledgesLast(Len(WaitingIds)) /\ pending # <<>>
  <2>1. i \in 1 .. Len(WaitingIds) /\ WaitingIds[i] = pending[i].id /\ Len(WaitingIds) \in Nat
    BY <1>5, WaitingFacts
  <2>2. /\ pending[i].id # 0
        /\ \A j \in DOMAIN pending : pending[j].id # 0 => j <= i
    BY <1>5 DEF IsLast, NumberedPending
  <2>3. \A j \in i + 1 .. Len(WaitingIds) : WaitingIds[j] = 0
    <3>1. SUFFICES ASSUME NEW j \in i + 1 .. Len(WaitingIds) PROVE WaitingIds[j] = 0
      OBVIOUS
    <3>2. j \in 1 .. Len(pending) /\ j \in DOMAIN pending /\ ~(j <= i)
      BY <2>1, WaitingFacts
    <3> QED
      BY <2>2, <3>2, WaitingFacts
  <2>4. ack' = [id |-> WaitingIds[i], rejected |-> pending[i].verdict # "applied"]
    BY <1>5, <2>1, <2>2 DEF Acked
  <2>5. (pending[i].verdict # "applied") \in BOOLEAN
    OBVIOUS
  <2>6. Desk!AcknowledgesLast(Len(WaitingIds))
    BY <2>1, <2>2, <2>3, <2>4, <2>5 DEF Desk!AcknowledgesLast
  <2>7. pending # <<>>
    BY <2>1, WaitingFacts, EmptySeq
  <2> QED
    BY <2>6, <2>7
<1> QED
  BY <1>1, <1>2, <1>3, <1>4, <1>5 DEF AckAfterPending

\* A release drops what waited, and nothing waits until the node arms.
Dropped == ~killed /\ ~armed => pending = <<>>

LEMMA RunAtDesk ==
  ASSUME TypeOK, Dropped, Run
  PROVE  [Desk!Next]_(Desk!deskVars)
<1> USE DEF Desk!Next, Desk!deskVars, Holding
<1>1. CASE UNCHANGED <<killed, armed, seeded, rebasing, commands>>
  BY <1>1 DEF commands, WaitingIds
<1>2. CASE ~killed /\ killed' = killed /\ armed' /\ UNCHANGED commands /\ ~armed
  <2>1. WaitingIds' = <<>> /\ ack' = ack
    BY <1>2, IdsEmpty, WaitingFacts DEF commands, Dropped
  <2> QED
    BY <1>2, <2>1 DEF Desk!Arm
<1>3. CASE ~killed /\ killed' = killed /\ armed' /\ armed /\ (rebasing \/ ~seeded)
           /\ \E fresh : ApplyPending(fresh)
  <2>1. /\ Desk!AcknowledgesLast(Len(WaitingIds)) /\ Len(WaitingIds) \in Nat
        /\ WaitingIds' = SubSeq(WaitingIds, Len(WaitingIds) + 1, Len(WaitingIds))
    BY <1>3, AppliedAtDesk, WaitingFacts
  <2>2. Len(WaitingIds) \in 0 .. Len(WaitingIds)
    BY <2>1
  <2>3. Desk!TakeUp
    BY <1>3, <2>1, <2>2 DEF Desk!TakeUp
  <2> QED
    BY <2>3
<1>4. CASE ~killed /\ killed' = killed /\ armed' /\ ~armed /\ \E fresh : ApplyPending(fresh)
  <2>1. WaitingIds' = <<>> /\ ack' = ack
    BY <1>4, AppliedAtDesk DEF Dropped
  <2> QED
    BY <1>4, <2>1 DEF Desk!Arm
<1>5. killed' = killed /\ \/ UNCHANGED <<armed, seeded, rebasing, commands>>
                          \/ ~killed /\ armed' /\ UNCHANGED <<seeded, rebasing, commands>>
                          \/ /\ ~killed /\ armed' /\ (rebasing \/ ~seeded)
                             /\ \E fresh : ApplyPending(fresh)
  BY RunCases DEF Live, HoldHere
<1> QED
  BY <1>1, <1>2, <1>3, <1>4, <1>5 DEF TypeOK

\* A command is rejected, queued or taken up as CommandDesk says, and what waits
\* is neither overtaken nor lost but at a release or a restart.
THEOREM DeskKept == Spec => KeepsDesk
<1> USE DEF Desk!Next, Desk!deskVars, Holding
<1>1. Init => Desk!Init /\ Dropped
  BY IdsEmpty DEF Init, Desk!Init, Dropped, WaitingIds, IdsOf
<1>2. ASSUME TypeOK, Dropped, Next
      PROVE  Dropped' /\ [Desk!Next]_(Desk!deskVars)
  <2>1. CASE KillCallback
    BY <1>2, <2>1 DEF KillCallback, commands, Dropped, Desk!Close, WaitingIds
  <2>2. CASE Restart
    <3>1. WaitingIds' = <<>>
      BY <1>2, <2>2, IdsEmpty, WaitingFacts DEF Restart
    <3> QED
      BY <2>2, <3>1 DEF Restart, Dropped, Desk!Restart
  <2>3. CASE ReleaseCallback
    <3>1. WaitingIds' = <<>> /\ pending' = <<>>
      BY <1>2, <2>3, IdsEmpty, WaitingFacts DEF ReleaseCallback
    <3>2. killed /\ ~killed' /\ armed' = armed /\ ack' = ack /\ ~seeded'
      BY <2>3 DEF ReleaseCallback
    <3>3. CASE armed
      BY <3>1, <3>2, <3>3 DEF Dropped, Desk!Arm
    <3>4. CASE ~armed
      BY <3>1, <3>2, <3>4 DEF Dropped, Desk!Drop
    <3> QED
      BY <3>3, <3>4
  <2>4. CASE FlipSwitch \/ \E id \in replies : ReplyCallback(id)
    BY <1>2, <2>4 DEF FlipSwitch, ReplyCallback, supervision, commands, Dropped, WaitingIds
  <2>5. CASE CmdVelCallback
    <3> DEFINE command == [id |-> 0, verdict |-> "applied", session |-> session]
    <3>1. command \in Command
      BY <1>2 DEF Command, TypeOK, Ids
    <3>2. ApplyCommand(command) /\ UNCHANGED <<killed, armed, seeded, rebasing>>
      BY <2>5 DEF CmdVelCallback, supervision
    <3> HIDE DEF command
    <3>3. Dropped'
      BY <1>2, <3>2 DEF ApplyCommand, Dropped
    <3> QED
      BY <1>2, <3>1, <3>2, <3>3, CommandAtDesk
  <2>6. ASSUME NEW verdict \in Verdict, MotionSetpointCallback(verdict)
        PROVE  Dropped' /\ [Desk!Next]_(Desk!deskVars)
    <3>1. /\ UNCHANGED <<killed, armed, seeded, rebasing>>
          /\ lastId' \in Ids /\ lastId' # 0
      BY <1>2, <2>6 DEF MotionSetpointCallback, supervision, TypeOK, Ids
    <3>2. CASE verdict = "malformed"
      <4>1. UNCHANGED pending /\ ack' = [id |-> lastId', rejected |-> TRUE]
        BY <2>6, <3>1, <3>2 DEF MotionSetpointCallback, Acked
      <4> QED
        BY <1>2, <3>1, <4>1 DEF Dropped, Desk!Reject, WaitingIds
    <3>3. CASE verdict # "malformed"
      <4> DEFINE command == [id |-> lastId', verdict |-> verdict, session |-> session]
      <4>1. command \in Command
        BY <1>2, <3>1, <3>3 DEF Verdict, Command, TypeOK
      <4>2. ApplyCommand(command)
        BY <2>6, <3>3 DEF MotionSetpointCallback
      <4> HIDE DEF command
      <4>3. Dropped'
        BY <1>2, <3>1, <4>2 DEF ApplyCommand, Dropped
      <4> QED
        BY <1>2, <3>1, <4>1, <4>2, <4>3, CommandAtDesk
    <3> QED
      BY <3>2, <3>3
  <2>7. CASE \E ready \in BOOLEAN : ResetPose(ready)
    BY <1>2, <2>7 DEF ResetPose, commands, Dropped, Desk!Close, Desk!Suspend, WaitingIds
  <2>8. CASE Run
    <3>1. Dropped'
      BY <1>2, <2>8, RunCases DEF Live, commands, Dropped
    <3> QED
      BY <1>2, <2>8, <3>1, RunAtDesk
  <2>9. CASE Sense
    BY <1>2, <2>9, SenseFrame DEF supervision, commands, Dropped, WaitingIds
  <2> QED
    BY <1>2, <2>1, <2>2, <2>3, <2>4, <2>5, <2>6, <2>7, <2>8, <2>9 DEF Next, Sense
<1>3. UNCHANGED vars => UNCHANGED Desk!deskVars /\ (Dropped => Dropped')
  BY DEF vars, supervision, commands, WaitingIds, Dropped
<1>4. TypeOK /\ Dropped /\ [Next]_vars => Dropped' /\ [Desk!Next]_(Desk!deskVars)
  BY <1>2, <1>3
<1> QED
  BY <1>1, <1>4, TypeCorrect, PTL DEF Spec, KeepsDesk, Desk!Spec

-----------------------------------------------------------------------------
(* The frame of the reference, when odometry is not stamped ahead of the     *)
(* node's clock.                                                             *)

\* Requests reach the EKF in the order they were made, each with a number of
\* its own; its answers are to requests it carried out.
RequestsInOrder ==
  /\ ekfFrame <= issued
  /\ \A i \in DOMAIN requests : ekfFrame < requests[i] /\ requests[i] <= issued
  /\ \A i, j \in DOMAIN requests : i < j => requests[i] < requests[j]
  /\ \A id \in replies : 0 < id /\ id <= ekfFrame
  /\ request.id # 0 => request.id = issued
  /\ rebasing => ~killed /\ request.id # 0

\* Estimates arrive in the order they were made: none is of an older frame
\* than one taken before it.
EstimatesInOrder ==
  /\ odom.frame <= ekfFrame
  /\ \A i \in DOMAIN wire : odom.frame <= wire[i].frame /\ wire[i].frame <= ekfFrame
  /\ \A i, j \in DOMAIN wire : i < j => wire[i].frame <= wire[j].frame

\* Once the EKF answered the current request, every estimate stamped later is
\* in the frame that request made.
AnswerTells ==
  done # NoTime /\ request.id # 0 /\ request.sent =>
    /\ ekfFrame = issued
    /\ odom.age < done => odom.frame = ekfFrame
    /\ \A i \in DOMAIN wire : wire[i].age < done => wire[i].frame = ekfFrame

\* An assured reference is in the newest frame, and nothing will move it.
AssuredIsNewest ==
  ~killed /\ Holding /\ assured =>
    reference.frame = odom.frame /\ odom.frame = ekfFrame /\ ekfFrame = issued

FrameInv == RequestsInOrder /\ EstimatesInOrder /\ AnswerTells /\ AssuredIsNewest

\* Asking again gives a request a number above every other.
LEMMA AskInOrder ==
  ASSUME TypeOK, RequestsInOrder, NEW ready \in BOOLEAN, RequestPoseReset(ready),
         UNCHANGED <<ekfFrame, replies>>, rebasing' => ~killed'
  PROVE  RequestsInOrder'
<1>1. /\ ekfFrame \in Nat /\ issued \in Nat /\ requests \in Seq(Nat)
      /\ issued' = issued + 1 /\ request'.id = issued'
  BY DEF TypeOK, RequestPoseReset
<1>2. requests' = requests \/ requests' = Append(requests, issued')
  BY DEF RequestPoseReset
<1>3. /\ \A i \in DOMAIN requests : ekfFrame < requests[i] /\ requests[i] <= issued
      /\ \A i, j \in DOMAIN requests : i < j => requests[i] < requests[j]
      /\ ekfFrame <= issued
  BY DEF RequestsInOrder
<1>4. \A i \in DOMAIN requests : requests[i] \in Nat
  BY <1>1, ElementOfSeq, LenProperties
<1>5. DOMAIN requests = 1 .. Len(requests) /\ Len(requests) \in Nat
  BY <1>1, LenProperties
<1>6. /\ \A i \in DOMAIN requests' : ekfFrame' < requests'[i] /\ requests'[i] <= issued'
      /\ \A i, j \in DOMAIN requests' : i < j => requests'[i] < requests'[j]
  <2>1. CASE requests' = requests
    BY <1>1, <1>3, <1>4, <2>1
  <2>2. CASE requests' = Append(requests, issued')
    <3>1. /\ DOMAIN requests' = 1 .. Len(requests) + 1
          /\ \A i \in 1 .. Len(requests) : requests'[i] = requests[i]
          /\ requests'[Len(requests) + 1] = issued'
      BY <1>1, <2>2, AppendProperties, LenProperties
    <3>2. ASSUME NEW i \in DOMAIN requests'
          PROVE  i \in DOMAIN requests \/ i = Len(requests) + 1
      BY <1>5, <3>1
    <3>3. \A i \in DOMAIN requests' : ekfFrame' < requests'[i] /\ requests'[i] <= issued'
      BY <1>1, <1>3, <1>4, <1>5, <3>1, <3>2
    <3>4. ASSUME NEW i \in DOMAIN requests', NEW j \in DOMAIN requests', i < j
          PROVE  requests'[i] < requests'[j]
      <4>1. i \in DOMAIN requests
        BY <1>5, <3>1, <3>4
      <4>2. requests'[i] = requests[i] /\ requests[i] <= issued /\ requests[i] \in Nat
        BY <1>3, <1>4, <1>5, <3>1, <4>1
      <4>3. CASE j \in DOMAIN requests
        BY <1>3, <1>5, <3>1, <3>4, <4>1, <4>3
      <4>4. CASE j = Len(requests) + 1
        BY <1>1, <3>1, <4>2, <4>4
      <4> QED
        BY <3>2, <3>4, <4>3, <4>4
    <3> QED
      BY <3>3, <3>4
  <2> QED
    BY <1>2, <2>1, <2>2
<1>7. \A id \in replies' : 0 < id /\ id <= ekfFrame'
  BY DEF RequestsInOrder
<1> QED
  BY <1>1, <1>3, <1>6, <1>7 DEF RequestsInOrder

\* The EKF makes the oldest request it has.
LEMMA SetPoseInOrder ==
  ASSUME TypeOK, RequestsInOrder, EkfSetPose
  PROVE  RequestsInOrder'
<1>1. /\ requests \in Seq(Nat) /\ requests # <<>> /\ requests' = Tail(requests)
      /\ ekfFrame' = Head(requests) /\ replies' = replies \cup {Head(requests)}
      /\ ekfFrame \in Nat /\ replies \subseteq Nat /\ issued \in Nat
  BY DEF TypeOK, EkfSetPose
<1>2. /\ Len(requests) \in Nat /\ Len(requests) > 0 /\ DOMAIN requests = 1 .. Len(requests)
      /\ Head(requests) = requests[1]
      /\ DOMAIN requests' = 1 .. Len(requests) - 1
      /\ \A i \in 1 .. Len(requests) - 1 : requests'[i] = requests[i + 1]
  BY <1>1, HeadTailProperties, LenProperties, EmptySeq
<1>3. \A i \in DOMAIN requests : requests[i] \in Nat
  BY <1>1, ElementOfSeq, LenProperties
<1>4. ekfFrame < requests[1] /\ requests[1] <= issued /\ requests[1] \in Nat
  BY <1>2, <1>3 DEF RequestsInOrder
<1>5. ASSUME NEW i \in DOMAIN requests'
      PROVE  /\ i \in Nat /\ i + 1 \in DOMAIN requests /\ 1 < i + 1
             /\ requests'[i] = requests[i + 1]
  BY <1>2
<1>6. \A i \in DOMAIN requests' : requests[1] < requests'[i] /\ requests'[i] <= issued
  BY <1>2, <1>5 DEF RequestsInOrder
<1>7. ASSUME NEW i \in DOMAIN requests', NEW j \in DOMAIN requests', i < j
      PROVE  requests'[i] < requests'[j]
  <2>1. i + 1 < j + 1
    BY <1>5, <1>7
  <2> QED
    BY <1>5, <2>1 DEF RequestsInOrder
<1>8. \A id \in replies' : 0 < id /\ id <= ekfFrame'
  <2>1. \A id \in replies : id \in Nat /\ 0 < id /\ id <= ekfFrame
    BY <1>1 DEF RequestsInOrder
  <2>2. \A id \in replies : id <= requests[1]
    BY <1>1, <1>4, <2>1
  <2> QED
    BY <1>1, <1>2, <1>4, <2>1, <2>2
<1>9. UNCHANGED <<request, issued, rebasing, killed>>
  BY DEF EkfSetPose, supervision, timing, history
<1> QED
  BY <1>1, <1>2, <1>4, <1>6, <1>7, <1>8, <1>9 DEF RequestsInOrder

LEMMA OrderStep == TypeOK /\ RequestsInOrder /\ [Next]_vars => RequestsInOrder'
<1> SUFFICES ASSUME TypeOK, RequestsInOrder, [Next]_vars PROVE RequestsInOrder'
  OBVIOUS
<1>1. CASE KillCallback
  BY <1>1 DEF KillCallback, timing, estimator, history, RequestsInOrder
<1>2. CASE ReleaseCallback
  BY <1>2 DEF ReleaseCallback, NoRequest, estimator, RequestsInOrder
<1>3. CASE Restart
  BY <1>3 DEF Restart, NoRequest, RequestsInOrder
<1>4. CASE FlipSwitch \/ CmdVelCallback
  BY <1>4 DEF FlipSwitch, CmdVelCallback, supervision, timing, estimator, history, RequestsInOrder
<1>5. CASE \E id \in replies : ReplyCallback(id)
  BY <1>5 DEF ReplyCallback, supervision, history, RequestsInOrder
<1>6. CASE \E verdict \in Verdict : MotionSetpointCallback(verdict)
  BY <1>6 DEF MotionSetpointCallback, supervision, timing, estimator, RequestsInOrder
<1>7. CASE \E ready \in BOOLEAN : ResetPose(ready)
  BY <1>7, AskInOrder DEF ResetPose
<1>8. CASE Run
  <2>0. rebasing' = rebasing \/ ~rebasing'
    BY <1>8, RunCases DEF timing
  <2>1. UNCHANGED <<killed, ekfFrame, replies>> /\ (rebasing' => rebasing)
    BY <1>8, <2>0, RunCases
  <2>2. \/ UNCHANGED <<request, requests, issued>>
        \/ \E ready \in BOOLEAN : RequestPoseReset(ready)
    BY <1>8, RunCases DEF timing
  <2>3. CASE UNCHANGED <<request, requests, issued>>
    BY <2>1, <2>3 DEF RequestsInOrder
  <2>4. CASE \E ready \in BOOLEAN : RequestPoseReset(ready)
    <3>1. rebasing' => ~killed'
      BY <2>1 DEF RequestsInOrder
    <3> QED
      BY <2>1, <2>4, <3>1, AskInOrder
  <2> QED
    BY <2>2, <2>3, <2>4
<1>9. CASE EkfSetPose
  BY <1>9, SetPoseInOrder
<1>10. CASE Sense /\ ~EkfSetPose
  <2>1. UNCHANGED <<ekfFrame, requests, replies>>
    BY <1>10 DEF Sense, OdomCallback, LoseOdom, ImuCallback, DepthCallback, EkfPublish,
                Tick, ClockBack, estimator
  <2>2. UNCHANGED <<killed, rebasing, issued>> /\ request'.id = request.id
    BY <1>10, SenseFrame DEF supervision, history
  <2> QED
    BY <2>1, <2>2 DEF RequestsInOrder
<1>11. CASE UNCHANGED vars
  BY <1>11 DEF vars, supervision, timing, estimator, history, RequestsInOrder
<1> QED
  BY <1>1, <1>2, <1>3, <1>4, <1>5, <1>6, <1>7, <1>8, <1>9, <1>10, <1>11 DEF Next, Sense

\* The frames and the ages in flight, as numbers.
LEMMA WireTypes ==
  ASSUME TypeOK
  PROVE  /\ \A i \in DOMAIN wire : /\ wire[i] \in Odometry
                                  /\ wire[i].frame \in Nat /\ wire[i].age \in Int
                                  /\ 0 - Skew <= wire[i].age
         /\ odom.frame \in Nat /\ odom.age \in Int /\ 0 - Skew <= odom.age
         /\ ekfFrame \in Nat /\ issued \in Nat
         /\ \A i \in DOMAIN wire : i \in Nat
<1>1. \A i \in DOMAIN wire : wire[i] \in Odometry /\ i \in Nat
  BY ElementOfSeq, LenProperties DEF TypeOK
<1>2. ASSUME NEW m \in Odometry
      PROVE  m.frame \in Nat /\ m.age \in Int /\ 0 - Skew <= m.age
  BY DEF Odometry, Past
<1>3. odom \in Odometry /\ ekfFrame \in Nat /\ issued \in Nat
  BY DEF TypeOK
<1> QED
  BY <1>1, <1>2, <1>3

\* A tick and a jump of the clock change ages only.
LEMMA TickFrames ==
  ASSUME TypeOK, Tick \/ ClockBack
  PROVE  /\ odom'.frame = odom.frame /\ DOMAIN wire' = DOMAIN wire
         /\ \A i \in DOMAIN wire : wire'[i].frame = wire[i].frame
         /\ UNCHANGED <<ekfFrame, requests, issued>>
<1>1. odom \in Odometry /\ \A i \in DOMAIN wire : wire[i] \in Odometry
  BY WireTypes DEF TypeOK
<1>2. ASSUME NEW m \in Odometry
      PROVE  Aged(m).frame = m.frame /\ Unbelievable(m).frame = m.frame
  BY DEF Odometry, Aged, Unbelievable
<1>3. CASE Tick
  BY <1>1, <1>2, <1>3 DEF Tick, history
<1>4. CASE ClockBack
  BY <1>1, <1>2, <1>4 DEF ClockBack, history
<1> QED
  BY <1>3, <1>4

LEMMA EstimateStep ==
  TypeOK /\ RequestsInOrder /\ EstimatesInOrder /\ [Next]_vars => EstimatesInOrder'
<1> SUFFICES ASSUME TypeOK, RequestsInOrder, EstimatesInOrder, [Next]_vars
             PROVE  EstimatesInOrder'
  OBVIOUS
<1>1. wire \in Seq(Odometry)
  BY DEF TypeOK
<1>2. CASE OdomCallback \/ LoseOdom
  <2>1. /\ wire # <<>> /\ wire' = Tail(wire) /\ UNCHANGED ekfFrame
        /\ odom' = wire[1] \/ odom' = odom
    BY <1>1, <1>2, TailIndex DEF OdomCallback, LoseOdom, sensors
  <2>2. 1 \in DOMAIN wire /\ \A i \in DOMAIN wire' : i \in Nat /\ 1 < i + 1
        /\ i + 1 \in DOMAIN wire /\ wire'[i] = wire[i + 1]
    BY <1>1, <2>1, TailIndex
  <2>3. odom'.frame <= ekfFrame'
    BY <2>1, <2>2 DEF EstimatesInOrder
  <2>4. \A i \in DOMAIN wire' : odom'.frame <= wire'[i].frame /\ wire'[i].frame <= ekfFrame'
    BY <2>1, <2>2 DEF EstimatesInOrder
  <2>5. ASSUME NEW i \in DOMAIN wire', NEW j \in DOMAIN wire', i < j
        PROVE  wire'[i].frame <= wire'[j].frame
    <3>1. i + 1 < j + 1
      BY <2>2, <2>5
    <3> QED
      BY <2>2, <3>1 DEF EstimatesInOrder
  <2> QED
    BY <2>3, <2>4, <2>5 DEF EstimatesInOrder
<1>3. CASE EkfPublish
  <2>1. PICK age \in (0 - Skew) .. 0 : wire' = Append(wire, [frame |-> ekfFrame, age |-> age])
    BY <1>3 DEF EkfPublish
  <2> DEFINE m == [frame |-> ekfFrame, age |-> age]
  <2>2. m \in Odometry /\ m.frame = ekfFrame
    BY DEF TypeOK, Odometry, Past
  <2>3. UNCHANGED <<odom, ekfFrame>> /\ wire' = Append(wire, m)
    BY <1>3, <2>1 DEF EkfPublish, sensors
  <2> HIDE DEF m
  <2>4. \A i \in DOMAIN wire' : \/ i \in DOMAIN wire /\ wire'[i] = wire[i]
                                \/ /\ \A j \in DOMAIN wire' : j <= i
                                   /\ wire'[i] = m
    BY <1>1, <2>2, <2>3, AppendIndex
  <2>5. \A i \in DOMAIN wire' : odom'.frame <= wire'[i].frame /\ wire'[i].frame <= ekfFrame'
    BY <2>2, <2>3, <2>4, WireTypes DEF EstimatesInOrder
  <2>6. ASSUME NEW i \in DOMAIN wire', NEW j \in DOMAIN wire', i < j
        PROVE  wire'[i].frame <= wire'[j].frame
    <3>1. i \in Int /\ j \in Int
      <4>1. wire' \in Seq(Odometry)
        BY <1>1, <2>2, <2>3, AppendProperties
      <4> QED
        BY <4>1, LenProperties
    <3>2. i \in DOMAIN wire /\ wire'[i] = wire[i]
      BY <2>4, <2>6, <3>1
    <3>3. CASE j \in DOMAIN wire /\ wire'[j] = wire[j]
      BY <2>6, <3>2, <3>3 DEF EstimatesInOrder
    <3>4. CASE wire'[j] = m
      BY <2>2, <3>2, <3>4 DEF EstimatesInOrder
    <3> QED
      BY <2>4, <3>3, <3>4
  <2> QED
    BY <2>3, <2>5, <2>6 DEF EstimatesInOrder
<1>4. CASE EkfSetPose
  <2>1. ekfFrame < ekfFrame' /\ ekfFrame' \in Nat
    <3>1. requests \in Seq(Nat) /\ requests # <<>> /\ ekfFrame' = Head(requests)
      BY <1>4 DEF EkfSetPose, TypeOK
    <3>2. 1 \in DOMAIN requests /\ ekfFrame' = requests[1] /\ requests[1] \in Nat
      BY <3>1, TailIndex, HeadTailProperties
    <3> QED
      BY <3>2 DEF RequestsInOrder
  <2>2. UNCHANGED <<odom, wire>>
    BY <1>4 DEF EkfSetPose, sensors
  <2> QED
    BY <2>1, <2>2, WireTypes DEF EstimatesInOrder
<1>5. CASE Tick \/ ClockBack
  BY <1>5, TickFrames DEF EstimatesInOrder
<1>6. CASE Restart
  <2>1. odom'.frame = 0 /\ UNCHANGED <<wire, ekfFrame>>
    BY <1>6 DEF Restart, NoOdometry
  <2> QED
    BY <2>1, WireTypes DEF EstimatesInOrder
<1>7. CASE UNCHANGED <<odom, wire, ekfFrame>>
  BY <1>7 DEF EstimatesInOrder
<1>8. \/ OdomCallback \/ LoseOdom \/ EkfPublish \/ EkfSetPose \/ Tick \/ ClockBack \/ Restart
      \/ UNCHANGED <<odom, wire, ekfFrame>>
  <2>1. Run => UNCHANGED <<odom, wire, ekfFrame>>
    BY RunCases DEF sensors
  <2>2. \/ FlipSwitch \/ KillCallback \/ ReleaseCallback \/ CmdVelCallback
        \/ UNCHANGED vars \/ ImuCallback \/ DepthCallback
        => UNCHANGED <<odom, wire, ekfFrame>>
    BY DEF FlipSwitch, KillCallback, ReleaseCallback, CmdVelCallback, ImuCallback, DepthCallback,
           vars, sensors, estimator
  <2>3. \/ \E verdict \in Verdict : MotionSetpointCallback(verdict)
        \/ \E ready \in BOOLEAN : ResetPose(ready)
        \/ \E id \in replies : ReplyCallback(id)
        => UNCHANGED <<odom, wire, ekfFrame>>
    BY DEF MotionSetpointCallback, ResetPose, ReplyCallback, sensors, estimator
  <2> QED
    BY <2>1, <2>2, <2>3 DEF Next
<1> QED
  BY <1>2, <1>3, <1>4, <1>5, <1>6, <1>7, <1>8

\* Two ages a tick later compare as they did.
LEMMA LaterOrder ==
  ASSUME NEW limit \in Nat, NEW a \in Int, NEW b \in 0 .. Past(limit),
         Later(a, limit) < Later(b, limit)
  PROVE  a < b
  BY DEF Later, Past

\* With a request in force that the EKF has answered, no other is on its way.
LEMMA AnsweredIsLast ==
  ASSUME TypeOK, RequestsInOrder, ekfFrame = issued
  PROVE  ~EkfSetPose
<1> SUFFICES ASSUME EkfSetPose PROVE FALSE
  OBVIOUS
<1>1. requests \in Seq(Nat) /\ requests # <<>>
  BY DEF EkfSetPose, TypeOK
<1>2. 1 \in DOMAIN requests /\ requests[1] \in Nat
  BY <1>1, TailIndex, HeadTailProperties
<1> QED
  BY <1>2 DEF RequestsInOrder, TypeOK

LEMMA AnswerStep ==
  ASSUME Skew = 0
  PROVE  TypeOK /\ RequestsInOrder /\ AnswerTells /\ [Next]_vars => AnswerTells'
<1> SUFFICES ASSUME TypeOK, RequestsInOrder, AnswerTells, [Next]_vars
             PROVE  AnswerTells'
  OBVIOUS
<1>0. wire \in Seq(Odometry)
  BY DEF TypeOK
<1>1. CASE ReleaseCallback \/ Restart
  BY <1>1 DEF ReleaseCallback, Restart, AnswerTells
<1>2. CASE FlipSwitch \/ KillCallback \/ CmdVelCallback \/ ImuCallback \/ DepthCallback
  BY <1>2 DEF FlipSwitch, KillCallback, CmdVelCallback, ImuCallback, DepthCallback,
              timing, sensors, estimator, history, AnswerTells
<1>3. CASE \E verdict \in Verdict : MotionSetpointCallback(verdict)
  BY <1>3 DEF MotionSetpointCallback, timing, sensors, estimator, AnswerTells
<1>4. ASSUME NEW ready \in BOOLEAN, RequestPoseReset(ready)
      PROVE  AnswerTells'
  BY <1>4 DEF RequestPoseReset, AnswerTells
<1>5. CASE \E ready \in BOOLEAN : ResetPose(ready)
  BY <1>4, <1>5 DEF ResetPose
<1>6. CASE Run
  <2>1. \/ UNCHANGED <<timing, issued>>
        \/ \E ready \in BOOLEAN : RequestPoseReset(ready)
    BY <1>6, RunCases
  <2>2. UNCHANGED <<ekfFrame, odom, wire>>
    BY <1>6, RunCases DEF sensors
  <2> QED
    BY <1>4, <2>1, <2>2 DEF AnswerTells, timing
<1>7. ASSUME NEW id \in replies, ReplyCallback(id)
      PROVE  AnswerTells'
  <2>1. UNCHANGED <<request, odom, wire, ekfFrame, issued>>
    BY <1>7 DEF ReplyCallback, sensors, history
  <2>2. CASE request.id = id
    <3>1. ekfFrame = issued
      <4>1. id \in Nat /\ 0 < id /\ id <= ekfFrame
        BY DEF TypeOK, RequestsInOrder
      <4> QED
        BY <2>2, <4>1 DEF TypeOK, RequestsInOrder
    <3>2. done' = 0
      BY <1>7, <2>2 DEF ReplyCallback
    <3> QED
      BY <2>1, <3>1, <3>2, WireTypes DEF AnswerTells
  <2>3. CASE request.id # id
    BY <1>7, <2>1, <2>3 DEF ReplyCallback, AnswerTells
  <2> QED
    BY <2>2, <2>3
<1>8. CASE OdomCallback \/ LoseOdom
  <2>1. /\ wire # <<>> /\ wire' = Tail(wire) /\ UNCHANGED <<ekfFrame, issued, request, done>>
        /\ odom' = wire[1] \/ odom' = odom
    BY <1>0, <1>8, TailIndex DEF OdomCallback, LoseOdom, sensors, timing, history
  <2>2. 1 \in DOMAIN wire /\ \A i \in DOMAIN wire' :
                              i + 1 \in DOMAIN wire /\ wire'[i] = wire[i + 1]
    BY <1>0, <2>1, TailIndex
  <2> QED
    BY <2>1, <2>2 DEF AnswerTells
<1>9. CASE EkfPublish
  <2>1. PICK age \in (0 - Skew) .. 0 : wire' = Append(wire, [frame |-> ekfFrame, age |-> age])
    BY <1>9 DEF EkfPublish
  <2> DEFINE m == [frame |-> ekfFrame, age |-> age]
  <2>2. m \in Odometry /\ m.frame = ekfFrame
    BY DEF TypeOK, Odometry, Past
  <2>3. UNCHANGED <<odom, ekfFrame, issued, request, done>> /\ wire' = Append(wire, m)
    BY <1>9, <2>1 DEF EkfPublish, sensors, timing, history
  <2> HIDE DEF m
  <2>4. \A i \in DOMAIN wire' : (i \in DOMAIN wire /\ wire'[i] = wire[i]) \/ wire'[i] = m
    BY <1>0, <2>2, <2>3, AppendIndex
  <2> QED
    BY <2>2, <2>3, <2>4 DEF AnswerTells
<1>10. CASE EkfSetPose
  <2>1. UNCHANGED <<request, done>>
    BY <1>10 DEF EkfSetPose, timing
  <2>2. ~(done # NoTime /\ request.id # 0 /\ request.sent)
    BY <1>10, AnsweredIsLast DEF AnswerTells
  <2> QED
    BY <2>1, <2>2 DEF AnswerTells
<1>11. CASE ClockBack
  BY <1>11 DEF ClockBack, AnswerTells
<1>12. CASE Tick
  <2>1. CASE done = NoTime
    BY <1>12, <2>1 DEF Tick, AnswerTells
  <2>2. CASE done # NoTime
    <3>1. done \in 0 .. Past(StateTimeout) /\ done' = Later(done, StateTimeout)
      BY <1>12, <2>2 DEF Tick, TypeOK
    <3>2. request'.id = request.id /\ request'.sent = request.sent
      BY <1>12, SenseFrame DEF Sense
    <3>3. ASSUME NEW m \in Odometry, Aged(m).age < done'
          PROVE  m.age < done
      <4>1. m.age \in Int /\ Aged(m).age = Later(m.age, StateTimeout)
        BY DEF Odometry, Aged
      <4> QED
        BY <3>1, <3>3, <4>1, LaterOrder
    <3>4. odom \in Odometry /\ odom' = Aged(odom)
          /\ wire' = [i \in DOMAIN wire |-> Aged(wire[i])]
      BY <1>12 DEF Tick, TypeOK
    <3>5. odom'.age < done' => odom.age < done
      BY <3>3, <3>4
    <3>6. \A i \in DOMAIN wire' : wire'[i].age < done' => wire[i].age < done
      BY <3>3, <3>4, WireTypes
    <3> QED
      BY <1>12, <2>2, <3>2, <3>5, <3>6, TickFrames DEF AnswerTells
  <2> QED
    BY <2>1, <2>2
<1>13. CASE UNCHANGED vars
  BY <1>13 DEF vars, timing, sensors, estimator, history, AnswerTells
<1> QED
  BY <1>1, <1>2, <1>3, <1>5, <1>6, <1>7, <1>8, <1>9, <1>10, <1>11, <1>12, <1>13 DEF Next

LEMMA TakenFrame ==
  ASSUME NEW command, NEW now
  PROVE  Taken(command, now).frame = now.frame
  BY DEF Taken

\* Queued commands leave the reference in the frame of the pose it was reset to.
LEMMA AppliedFrame ==
  ASSUME ApplyPending(HoldReference)
  PROVE  reference'.frame = odom.frame
<1>1. \/ reference' = HoldReference
      \/ \E i \in DOMAIN pending : reference' = Taken(pending[i], HoldReference)
  BY DEF ApplyPending, ReferenceAfterPending
<1> QED
  BY <1>1, TakenFrame DEF HoldReference

LEMMA CommandFrame ==
  ASSUME NEW command, ApplyCommand(command)
  PROVE  reference'.frame = reference.frame
  BY TakenFrame DEF ApplyCommand

LEMMA NewestStep ==
  ASSUME Skew = 0
  PROVE  TypeOK /\ FrameInv /\ [Next]_vars => AssuredIsNewest'
<1> SUFFICES ASSUME TypeOK, FrameInv, [Next]_vars
             PROVE  AssuredIsNewest'
  OBVIOUS
<1>0. /\ AssuredIsNewest /\ RequestsInOrder /\ EstimatesInOrder /\ AnswerTells
      /\ wire \in Seq(Odometry)
  BY DEF FrameInv, TypeOK
<1>1. CASE KillCallback \/ Restart
  BY <1>1 DEF KillCallback, Restart, AssuredIsNewest
<1>2. CASE ReleaseCallback
  BY <1>2 DEF ReleaseCallback, AssuredIsNewest, Holding
<1>3. CASE FlipSwitch \/ \E id \in replies : ReplyCallback(id)
  BY <1>0, <1>3 DEF FlipSwitch, ReplyCallback, supervision, commands, sensors, estimator, history,
                    AssuredIsNewest, Holding
<1>4. CASE CmdVelCallback \/ \E verdict \in Verdict : MotionSetpointCallback(verdict)
  <2>1. UNCHANGED <<supervision, assured, odom, ekfFrame, issued>>
    BY <1>4 DEF CmdVelCallback, MotionSetpointCallback, sensors, estimator, history
  <2>2. reference'.frame = reference.frame
    BY <1>4, CommandFrame DEF CmdVelCallback, MotionSetpointCallback
  <2> QED
    BY <1>0, <2>1, <2>2 DEF AssuredIsNewest, Holding, supervision
<1>5. CASE \E ready \in BOOLEAN : ResetPose(ready)
  BY <1>5 DEF ResetPose, AssuredIsNewest, Holding
<1>6. CASE Run
  <2>1. UNCHANGED <<killed, odom, ekfFrame>>
    BY <1>6, RunCases DEF sensors
  <2>2. \/ UNCHANGED <<seeded, rebasing, reference, assured, issued>>
        \/ request.id # 0 /\ HoldHere /\ UNCHANGED issued
        \/ ~assured'
        \/ UNCHANGED seeded /\ ~seeded
    BY <1>0, <1>6, RunCases DEF commands, RequestsInOrder
  <2>3. CASE request.id # 0 /\ HoldHere /\ UNCHANGED issued
    <3>1. reference'.frame = odom.frame
      BY <2>3, AppliedFrame DEF HoldHere
    <3>2. assured' => ekfFrame = issued /\ odom.frame = ekfFrame
      BY <1>0, <2>3 DEF HoldHere, Confirmed, AnswerTells
    <3> QED
      BY <2>1, <2>3, <3>1, <3>2 DEF AssuredIsNewest
  <2>4. CASE UNCHANGED <<seeded, rebasing, reference, assured, issued>>
    BY <1>0, <2>1, <2>4 DEF AssuredIsNewest, Holding
  <2>5. CASE ~assured' \/ (UNCHANGED seeded /\ ~seeded)
    BY <2>5 DEF AssuredIsNewest, Holding
  <2> QED
    BY <2>2, <2>3, <2>4, <2>5
<1>7. CASE Sense
  <2>1. UNCHANGED <<killed, seeded, rebasing, reference, assured, issued>>
    BY <1>7, SenseFrame DEF supervision, commands, history
  <2> SUFFICES ASSUME ~killed, Holding, assured
               PROVE  odom'.frame = odom.frame /\ ekfFrame' = ekfFrame
    BY <1>0, <2>1 DEF AssuredIsNewest, Holding
  <2>2. odom.frame = ekfFrame /\ ekfFrame = issued
    BY <1>0 DEF AssuredIsNewest
  <2>3. CASE OdomCallback
    <3>1. odom' = wire[1] /\ 1 \in DOMAIN wire /\ UNCHANGED ekfFrame
      BY <1>0, <2>3, TailIndex DEF OdomCallback
    <3>2. wire[1].frame = ekfFrame
      BY <1>0, <2>2, <3>1, WireTypes DEF EstimatesInOrder
    <3> QED
      BY <2>2, <3>1, <3>2
  <2>4. CASE LoseOdom \/ ImuCallback \/ DepthCallback \/ EkfPublish
    BY <2>4 DEF LoseOdom, ImuCallback, DepthCallback, EkfPublish, sensors, estimator
  <2>5. CASE EkfSetPose
    BY <1>0, <2>2, <2>5, AnsweredIsLast
  <2>6. CASE Tick \/ ClockBack
    BY <2>6, TickFrames
  <2> QED
    BY <1>7, <2>3, <2>4, <2>5, <2>6 DEF Sense
<1>8. CASE UNCHANGED vars
  BY <1>0, <1>8 DEF vars, supervision, commands, sensors, estimator, history,
                    AssuredIsNewest, Holding
<1> QED
  BY <1>1, <1>2, <1>3, <1>4, <1>5, <1>6, <1>7, <1>8 DEF Next, Sense

\* With odometry stamped no later than the node's clock, a reference the EKF's
\* answer confirmed is in the frame of the measured pose, for any number of
\* releases, resets, late answers and estimates in flight.
THEOREM AssuredAgrees ==
  ASSUME Skew = 0
  PROVE  Spec => []AssuredFrame
<1>1. Init => FrameInv
  BY DEF Init, FrameInv, RequestsInOrder, EstimatesInOrder, AnswerTells, AssuredIsNewest,
         NoRequest, NoOdometry
<1>2. TypeOK /\ FrameInv /\ [Next]_vars => FrameInv'
  BY OrderStep, EstimateStep, AnswerStep, NewestStep DEF FrameInv
<1>3. FrameInv => AssuredFrame
  BY DEF FrameInv, AssuredIsNewest, AssuredFrame
<1> QED
  BY <1>1, <1>2, <1>3, TypeCorrect, PTL DEF Spec

-----------------------------------------------------------------------------
(* The time a pose reset takes.                                              *)

\* A kill ends the wait, and a wait has a request behind it.
WaitAsked == (killed => ~rebasing) /\ (rebasing => request.id # 0)

LEMMA WaitAskedInv == Spec => []WaitAsked
<1>1. Init => WaitAsked
  BY DEF Init, WaitAsked
<1>2. TypeOK /\ WaitAsked /\ [Next]_vars => WaitAsked'
  <2> SUFFICES ASSUME TypeOK, WaitAsked, [Next]_vars PROVE WaitAsked'
    OBVIOUS
  <2> USE DEF WaitAsked
  <2>0. issued \in Nat
    BY DEF TypeOK
  <2>1. CASE KillCallback \/ Restart
    BY <2>1 DEF KillCallback, Restart
  <2>2. CASE ReleaseCallback
    BY <2>2 DEF ReleaseCallback
  <2>3. CASE FlipSwitch \/ CmdVelCallback \/ \E id \in replies : ReplyCallback(id)
    BY <2>3 DEF FlipSwitch, CmdVelCallback, ReplyCallback, supervision, timing
  <2>4. CASE \E verdict \in Verdict : MotionSetpointCallback(verdict)
    BY <2>4 DEF MotionSetpointCallback, supervision, timing
  <2>5. CASE \E ready \in BOOLEAN : ResetPose(ready)
    BY <2>0, <2>5 DEF ResetPose, RequestPoseReset
  <2>6. CASE Run
    <3>0. UNCHANGED killed
      BY <2>6, RunCases
    <3>1. UNCHANGED rebasing \/ ~rebasing'
      BY <2>6, RunCases
    <3>2. \/ UNCHANGED request
          \/ /\ ~killed /\ request.id = 0
             /\ \E ready \in BOOLEAN : RequestPoseReset(ready)
      BY <2>6, RunCases DEF Live, timing
    <3> QED
      BY <3>0, <3>1, <3>2
  <2>7. CASE Sense
    BY <2>7, SenseFrame DEF supervision
  <2>8. CASE UNCHANGED vars
    BY <2>8 DEF vars, supervision, timing
  <2> QED
    BY <2>1, <2>2, <2>3, <2>4, <2>5, <2>6, <2>7, <2>8 DEF Next, Sense
<1> QED
  BY <1>1, <1>2, TypeCorrect, PTL DEF Spec

\* A cycle with fresh sensors drives, or waits on a request still young enough.
LEMMA CycleOfWait ==
  ASSUME TypeOK, WaitAsked, Run, ~killed, CanArm
  PROVE  thrust' = "drive" \/ (request'.id # 0 /\ ~GaveUp(request'.age))
<1>1. CASE RunDisarmed
  BY <1>1 DEF RunDisarmed
<1>2. CASE RunFailsafe
  BY <1>2 DEF RunFailsafe, CanArm, Estimated
<1>3. CASE RunKeepThrust
  BY <1>3 DEF RunKeepThrust, WaitAsked, timing
<1>4. CASE RunRebase \/ RunSeed \/ RunDrive
  BY <1>4 DEF RunRebase, RunSeed, RunDrive
<1>5. ASSUME NEW ready \in BOOLEAN, RunAsk(ready)
      PROVE  request'.id # 0 /\ ~GaveUp(request'.age)
  <2>1. issued \in Nat /\ PoseResetTimeout \in Nat
    BY TimingAssumption DEF TypeOK
  <2> QED
    BY <1>5, <2>1 DEF RunAsk, RequestPoseReset, GaveUp
<1>6. CASE RunAwaitReset
  BY <1>6 DEF RunAwaitReset, timing
<1> QED
  BY <1>1, <1>2, <1>3, <1>4, <1>5, <1>6 DEF Run

\* The clock makes a request older, up to the age at which the node gives up.
LEMMA ClockOfWait ==
  ASSUME TypeOK, Tick \/ ClockBack
  PROVE  /\ request'.id = request.id /\ request'.age >= request.age
         /\ GaveUp(request'.age) \/ request'.age > request.age
<1>1. /\ request \in [id : Nat, age : 0 .. Past(PoseResetTimeout), sent : BOOLEAN]
      /\ PoseResetTimeout \in Nat
  BY TimingAssumption DEF TypeOK
<1>2. CASE Tick
  <2>1. /\ request'.id = request.id
        /\ request'.age = Later(request.age, PoseResetTimeout)
    BY <1>1, <1>2 DEF Tick
  <2> QED
    BY <1>1, <2>1 DEF Later, Past, GaveUp
<1>3. CASE ClockBack
  <2>1. request'.id = request.id /\ request'.age = Past(PoseResetTimeout)
    BY <1>1, <1>3 DEF ClockBack
  <2> QED
    BY <1>1, <2>1 DEF Past, GaveUp
<1> QED
  BY <1>2, <1>3

\* No cause but a kill or a new reset_pose puts off the driving a reset delays:
\* the request it waits on ages to the limit, and the cycle then drives.
THEOREM WaitsRunOut == Spec => WaitRunsOut
<1>1. ASSUME TypeOK, WaitAsked, Next, ~killed, ~killed'
      PROVE  /\ request.id # 0 /\ resets' = resets =>
                  request'.id = request.id /\ request'.age >= request.age
             /\ Tick /\ request.id # 0 => GaveUp(request'.age) \/ request'.age > request.age
             /\ Run /\ CanArm => \/ thrust' = "drive"
                                 \/ request'.id # 0 /\ ~GaveUp(request'.age)
  <2>1. /\ request \in [id : Nat, age : 0 .. Past(PoseResetTimeout), sent : BOOLEAN]
        /\ resets \in Nat
    BY <1>1 DEF TypeOK
  <2>2. Run /\ CanArm => thrust' = "drive" \/ (request'.id # 0 /\ ~GaveUp(request'.age))
    BY <1>1, CycleOfWait
  <2>3. Tick => GaveUp(request'.age) \/ request'.age > request.age
    BY <1>1, ClockOfWait
  <2>4. request.id # 0 /\ resets' = resets =>
          request'.id = request.id /\ request'.age >= request.age
    <3> SUFFICES ASSUME request.id # 0, resets' = resets
                 PROVE  request'.id = request.id /\ request'.age >= request.age
      OBVIOUS
    <3>0. request' = request => request'.id = request.id /\ request'.age >= request.age
      BY <2>1
    <3>1. CASE KillCallback \/ ReleaseCallback \/ Restart
      BY <1>1, <3>1 DEF KillCallback, ReleaseCallback, Restart
    <3>2. CASE FlipSwitch \/ CmdVelCallback \/ \E id \in replies : ReplyCallback(id)
      BY <3>0, <3>2 DEF FlipSwitch, CmdVelCallback, ReplyCallback, timing
    <3>3. CASE \E verdict \in Verdict : MotionSetpointCallback(verdict)
      BY <3>0, <3>3 DEF MotionSetpointCallback, timing
    <3>4. CASE \E ready \in BOOLEAN : ResetPose(ready)
      BY <2>1, <3>4 DEF ResetPose
    <3>5. CASE Run
      BY <3>0, <3>5, RunCases DEF timing
    <3>6. CASE Tick \/ ClockBack
      BY <1>1, <3>6, ClockOfWait
    <3>7. CASE OdomCallback \/ LoseOdom \/ ImuCallback \/ DepthCallback \/ EkfPublish \/ EkfSetPose
      BY <3>0, <3>7 DEF OdomCallback, LoseOdom, ImuCallback, DepthCallback, EkfPublish,
                        EkfSetPose, timing
    <3> QED
      BY <1>1, <3>1, <3>2, <3>3, <3>4, <3>5, <3>6, <3>7 DEF Next
  <2> QED
    BY <2>2, <2>3, <2>4
<1> QED
  BY <1>1, TypeCorrect, WaitAskedInv, PTL DEF Spec, WaitRunsOut

=============================================================================
