---------------------------- MODULE SetpointLink ----------------------------
(***************************************************************************)
(* The motion_setpoint topic and the errors that come back on              *)
(* control/error: a mission process that sends commands under fresh ids    *)
(* and counts the errors about the latest as arrival, the sub_control node *)
(* that takes them up, queues or rejects them, and others who command      *)
(* while no mission runs.                                                  *)
(*                                                                         *)
(* SubControl models how the node arms and waits for the EKF; here it is   *)
(* disarmed, waiting, rebasing or holding.  Within one cycle it takes up   *)
(* what was queued (taking), and nothing else of it runs meanwhile.        *)
(***************************************************************************)
EXTENDS ReferenceGenerator, Sequences

CONSTANTS
  Setpoints,    \* what a mission sends: [mode, altitude, finite]
  Streams,      \* what others send: the same, with a timeout and stamped or not
  Level,        \* roll and pitch: the axes a stop leaves alone
  MaxIds,       \* bound: commands with an id
  MaxKills,     \* bound: kills, and reset_pose calls
  MaxPending,   \* bound: commands waiting for the pose reset
  None          \* no goal, no message

SetpointOf ==
  [mode : [Axes -> Modes \cup {"KEEP"}], altitude : BOOLEAN, finite : BOOLEAN]
StreamOf ==
  [mode : [Axes -> Modes \cup {"KEEP"}], altitude : BOOLEAN, finite : BOOLEAN,
   timeout : 0 .. MaxTimeout, stamped : BOOLEAN]

ASSUME SetpointAssumption == Setpoints \subseteq SetpointOf /\ Streams \subseteq StreamOf
ASSUME LevelAssumption == Level \subseteq Axes \ {"x", "y", "z"}
ASSUME BoundAssumption == MaxIds \in Nat /\ MaxKills \in Nat /\ MaxPending \in Nat

VARIABLES
  \* sub_control
  gen,        \* the reference generator
  phase,      \* "disarmed", "waiting", "rebasing", "taking" or "holding"
  pending,    \* pending_commands_
  ack,        \* command_id_ and whether command_rejected_ is set
  \* The mission process
  mission,    \* "none", "running" or "ending"
  lastId,     \* the publisher's last_id_, 0 if it published nothing yet
  goal,       \* the move a leaf waits for: [id, axis], or None
  \* Between them
  link,       \* motion_setpoint, in order
  errors,     \* the last control/error, or None
  alarm,      \* the mission has yet to hear of a kill
  others,     \* a command of someone else on its way, or None
  \* History
  nextId,     \* ids used so far, of all missions and others
  kills,      \* kills and resets so far
  quiet       \* the last mission stopped, and its stop was not lost on exit

control == <<gen, phase, pending, ack>>
process == <<mission, lastId, goal>>
wires == <<link, errors, alarm, others>>
vars == <<control, process, wires, nextId, kills, quiet>>

Ids == 0 .. MaxIds
Command == CommandOf(Ids)
Generator == GeneratorOf(Ids)

\* A setpoint as a MotionCommand, with what is left of its time and was promised.
AsCommand(s, id, left, due) ==
  [id |-> id, mode |-> s.mode, altitude |-> s.altitude, finite |-> s.finite,
   left |-> left, due |-> due, zin |-> Coordinate(s.altitude)]

\* holdCommand() as stop() sends it: roll and pitch are taken to hold level.
StopSetpoint ==
  [mode |-> [a \in Axes |-> IF a \in Level THEN "KEEP" ELSE "HOLD"],
   altitude |-> FALSE, finite |-> TRUE]

Init ==
  /\ gen = Constructed /\ phase = "disarmed" /\ pending = <<>>
  /\ ack = [id |-> 0, rejected |-> FALSE]
  /\ mission = "none" /\ lastId = 0 /\ goal = None
  /\ link = <<>> /\ errors = None /\ alarm = FALSE /\ others = None
  /\ nextId = 0 /\ kills = 0 /\ quiet = TRUE

-----------------------------------------------------------------------------
(* The mission process. *)

\* activate(): the node is armed and, some seconds later, the tree starts.
StartMission ==
  /\ mission = "none" /\ phase \in {"waiting", "holding"}
  /\ others = None /\ link = <<>>
  /\ mission' = "running" /\ lastId' = 0 /\ goal' = None /\ quiet' = FALSE
  /\ UNCHANGED <<control, wires, nextId, kills>>

\* SetpointPublisher::publish, on a topic ten deep.
Publish(s) ==
  /\ nextId < MaxIds
  /\ nextId' = nextId + 1
  /\ lastId' = nextId'
  /\ link' = Append(link, AsCommand(s, nextId', NoLimit, NoLimit))

\* A leaf sends a command, a move it waits for or any other.  The trees run one
\* leaf that sends at a time.
Send(s) ==
  /\ mission = "running" /\ goal = None
  /\ Publish(s)
  /\ \/ \E a \in {"x", "z"} : s.mode[a] = "POSITION" /\ goal' = [id |-> nextId', axis |-> a]
     \/ UNCHANGED goal
  /\ UNCHANGED <<control, mission, errors, alarm, others, kills, quiet>>

\* A leaf is halted, or gives up at its deadline.
GiveUp ==
  /\ goal # None
  /\ goal' = None
  /\ UNCHANGED <<control, mission, lastId, wires, nextId, kills, quiet>>

\* Variant: any errors count.
CurrentAlways(e) == TRUE

\* Errors count as an update if they are about the latest command.
Current(e) == (lastId = 0 \/ e.id = lastId) /\ ~e.rejected

\* control_error_callback, and the leaf at its next tick.  An axis that is not
\* held at a target has no error; one that is may have none.
Arrive ==
  /\ goal # None /\ errors # None
  /\ Current(errors)
  /\ goal' = None /\ errors' = None
  /\ UNCHANGED <<control, mission, lastId, link, alarm, others, nextId, kills, quiet>>

GoOn ==
  /\ mission # "none" /\ errors # None
  /\ goal # None /\ Current(errors) => goal.axis \in errors.held
  /\ errors' = None
  /\ UNCHANGED <<control, process, link, alarm, others, nextId, kills, quiet>>

\* Variant: the tree ends with whatever it left running.
EndUnstopped ==
  /\ mission = "running"
  /\ mission' = "ending" /\ goal' = None
  /\ quiet' = TRUE
  /\ UNCHANGED <<control, lastId, wires, nextId, kills>>

\* execute() at the end of the tree, an interrupt or an exception: stop().
End ==
  /\ mission = "running"
  /\ Publish(StopSetpoint)
  /\ mission' = "ending" /\ goal' = None
  /\ quiet' = TRUE
  /\ UNCHANGED <<control, errors, alarm, others, kills>>

\* The process exits: wait_for_all_acked() returned, or it waited for a second
\* and what sub_control's reader does not have is lost.
Exit ==
  /\ mission = "ending"
  /\ mission' = "none"
  /\ \E n \in 0 .. Len(link) :
        /\ link' = SubSeq(link, 1, n)
        /\ quiet' = (n = Len(link))
  /\ errors' = None /\ alarm' = FALSE
  /\ UNCHANGED <<control, lastId, goal, others, nextId, kills>>

\* The process dies (SIGKILL, a crash) with whatever it set in motion.
Die ==
  /\ mission # "none"
  /\ mission' = "none" /\ goal' = None
  /\ errors' = None /\ alarm' = FALSE
  /\ quiet' = FALSE
  /\ UNCHANGED <<control, lastId, link, others, nextId, kills>>

\* kill_callback, and execute() at its next step: the run ends without a stop.
HearKill ==
  /\ mission # "none" /\ alarm
  /\ mission' = "none" /\ goal' = None
  /\ errors' = None /\ alarm' = FALSE
  /\ quiet' = TRUE
  /\ UNCHANGED <<control, lastId, link, others, nextId, kills>>

-----------------------------------------------------------------------------
(* Others, who send streams with a timeout while no mission runs. *)

OtherSends(s) ==
  /\ mission = "none" /\ others = None
  /\ others' = [setpoint |-> s, left |-> s.timeout]
  /\ UNCHANGED <<control, process, link, errors, alarm, nextId, kills, quiet>>

\* Variant: a command's time runs from when it is taken up.
ExpiresFromArrival(message) == message.setpoint.timeout

\* motion_setpoint_callback: a stamped command's time runs from its stamp;
\* cmd_vel_callback: from now.
Expires(message) == IF message.setpoint.stamped THEN message.left ELSE message.setpoint.timeout

-----------------------------------------------------------------------------
(* sub_control. *)

\* acknowledge(): a command without an id is not.
Acked(id, rejected) == IF id = 0 THEN ack ELSE [id |-> id, rejected |-> rejected]

\* apply_command().
ApplyCommand(c) ==
  \/ /\ phase = "disarmed"
     /\ ack' = Acked(c.id, TRUE)
     /\ UNCHANGED <<gen, pending>>
  \/ /\ phase \in {"waiting", "rebasing"}
     /\ Len(pending) < MaxPending
     /\ pending' = Append(pending, c)
     /\ UNCHANGED <<gen, ack>>
  \/ /\ phase = "holding"
     /\ \E altimeter \in BOOLEAN :
          LET rejected == Rejected(c, altimeter)
          IN  /\ gen' = IF rejected THEN gen ELSE Applied(gen, c)
              /\ ack' = Acked(c.id, rejected)
     /\ UNCHANGED pending

\* A command of the mission.
MotionSetpointCallback ==
  /\ link # <<>>
  /\ link' = Tail(link)
  /\ ApplyCommand(Head(link))
  /\ UNCHANGED <<phase, process, errors, alarm, others, nextId, kills, quiet>>

\* A command of someone else: a MotionSetpoint, or cmd_vel.
OtherCallback ==
  /\ others # None
  /\ others' = None
  /\ ApplyCommand(AsCommand(others.setpoint, 0, Expires(others),
                            IF others.setpoint.stamped THEN others.left
                                                       ELSE others.setpoint.timeout))
  /\ UNCHANGED <<phase, process, link, errors, alarm, nextId, kills, quiet>>

\* kill_callback.
Kill ==
  /\ kills < MaxKills /\ phase \notin {"disarmed", "taking"}
  /\ kills' = kills + 1
  /\ phase' = "disarmed"
  /\ alarm' = (mission # "none")
  /\ UNCHANGED <<gen, pending, ack, process, link, errors, others, nextId, quiet>>

\* The release, and the arming after it.  The switch stays engaged for longer
\* than a message takes.
Release ==
  /\ phase = "disarmed" /\ ~alarm /\ link = <<>> /\ others = None
  /\ phase' = "waiting"
  /\ pending' = <<>>
  /\ UNCHANGED <<gen, ack, process, wires, nextId, kills, quiet>>

\* seed().
Seed ==
  /\ phase = "waiting"
  /\ gen' = Reset
  /\ phase' = "taking"
  /\ UNCHANGED <<pending, ack, process, wires, nextId, kills, quiet>>

\* reset_pose_callback.
ResetPose ==
  /\ phase = "holding" /\ kills < MaxKills
  /\ kills' = kills + 1
  /\ phase' = "rebasing"
  /\ UNCHANGED <<gen, pending, ack, process, wires, nextId, quiet>>

\* What rebase() carries over: depth or altitude, roll and pitch, as they are held.
CarriedMode(g) ==
  [a \in Axes |-> IF a \notin {"z"} \cup Level THEN "KEEP"
                 ELSE IF g.mode[a] = "POSITION" \/ (a = "z" /\ g.altitude) THEN "POSITION"
                 ELSE "HOLD"]

\* Variant: an altitude is carried over as if it were a depth.
CarriedAsDepth(g) ==
  [id |-> 0, mode |-> CarriedMode(g), altitude |-> FALSE, finite |-> TRUE,
   left |-> NoLimit, due |-> NoLimit,
   zin |-> IF g.mode["z"] = "POSITION" THEN g.target ELSE g.reference]

Carried(g) ==
  [id |-> 0, mode |-> CarriedMode(g), altitude |-> g.altitude, finite |-> TRUE,
   left |-> NoLimit, due |-> NoLimit,
   zin |-> IF g.mode["z"] = "POSITION" THEN g.target ELSE g.reference]

\* rebase(): the carried command may be rejected, with no altitude or one below
\* the bottom, and nothing is carried then.
Rebase ==
  /\ phase = "rebasing"
  /\ \/ gen' = [Applied(Reset, Carried(gen)) EXCEPT !.source = [a \in Axes |-> Own]]
     \/ gen.altitude /\ gen' = Reset
  /\ phase' = "taking"
  /\ UNCHANGED <<pending, ack, process, wires, nextId, kills, quiet>>

\* Variant: the last that waits is taken up first.
TakePendingLast ==
  /\ phase = "taking" /\ pending # <<>>
  /\ pending' = SubSeq(pending, 1, Len(pending) - 1)
  /\ \E altimeter \in BOOLEAN :
       LET c == pending[Len(pending)]
           rejected == Rejected(c, altimeter)
       IN  /\ gen' = IF rejected THEN gen ELSE Applied(gen, c)
           /\ ack' = Acked(c.id, rejected)
  /\ UNCHANGED <<phase, process, wires, nextId, kills, quiet>>

\* apply_pending_commands(), one after the other.
TakePending ==
  /\ phase = "taking" /\ pending # <<>>
  /\ pending' = Tail(pending)
  /\ \E altimeter \in BOOLEAN :
       LET c == Head(pending)
           rejected == Rejected(c, altimeter)
       IN  /\ gen' = IF rejected THEN gen ELSE Applied(gen, c)
           /\ ack' = Acked(c.id, rejected)
  /\ UNCHANGED <<phase, process, wires, nextId, kills, quiet>>

\* publish_diagnostics(), of the generator g, to the mission that is there: an
\* axis has an error only while it is held at a target.
Report(g) ==
  errors' = IF mission = "none" THEN None
            ELSE [id |-> ack.id, rejected |-> ack.rejected,
                  held |-> {a \in {"x", "z"} : g.mode[a] = "POSITION"},
                  source |-> [a \in {"x", "z"} |-> g.source[a]]]

\* run() with the control law: the altitude may be lost, the reference advances.
Cycle ==
  /\ phase = "holding" \/ (phase = "taking" /\ pending = <<>>)
  /\ phase' = "holding"
  /\ \E altimeter \in BOOLEAN :
       gen' \in Updates(IF altimeter THEN gen ELSE DropAltitude(gen))
  /\ Report(gen')
  /\ UNCHANGED <<pending, ack, process, link, alarm, others, nextId, kills, quiet>>

\* run() without: killed or not armed, in the failsafe, or keeping the thrust.
IdleCycle ==
  /\ phase \in {"disarmed", "rebasing", "holding"}
  /\ Report(gen)
  /\ UNCHANGED <<control, process, link, alarm, others, nextId, kills, quiet>>

\* Time passes for everything that runs out.
AgedCommand(c) == [c EXCEPT !.left = Elapsed(c.left), !.due = Elapsed(c.due)]

Tick ==
  /\ gen' = Aged(gen)
  /\ pending' = [i \in DOMAIN pending |-> AgedCommand(pending[i])]
  /\ others' = IF others = None THEN None ELSE [others EXCEPT !.left = Elapsed(others.left)]
  /\ phase # "taking"
  /\ UNCHANGED <<phase, ack, process, link, errors, alarm, nextId, kills, quiet>>

Next ==
  \/ StartMission \/ GiveUp \/ Arrive \/ GoOn \/ End \/ Exit \/ Die \/ HearKill
  \/ \E s \in Setpoints : Send(s)
  \/ \E s \in Streams : OtherSends(s)
  \/ MotionSetpointCallback \/ OtherCallback
  \/ Kill \/ Release \/ Seed \/ ResetPose \/ Rebase \/ TakePending
  \/ Cycle \/ IdleCycle \/ Tick

Spec == Init /\ [][Next]_vars

-----------------------------------------------------------------------------
(* What a sender of commands may rely on. *)

Goals == [id : Ids, axis : {"x", "z"}]
SourceOf == Ids \cup {Own}

TypeOK ==
  /\ gen \in Generator
  /\ phase \in {"disarmed", "waiting", "rebasing", "taking", "holding"}
  /\ pending \in Seq(Command) /\ link \in Seq(Command)
  /\ ack \in [id : Ids, rejected : BOOLEAN]
  /\ mission \in {"none", "running", "ending"}
  /\ lastId \in Ids /\ nextId \in Ids /\ kills \in 0 .. MaxKills
  /\ goal \in Goals \cup {None}
  /\ errors \in [id : Ids, rejected : BOOLEAN, held : SUBSET {"x", "z"},
                 source : [{"x", "z"} -> SourceOf]] \cup {None}
  /\ others \in [setpoint : Streams, left : Lefts] \cup {None}
  /\ alarm \in BOOLEAN /\ quiet \in BOOLEAN

\* x and y are shaped together by the mode of x: they share one whatever was
\* sent, rejected, expired, held or reset, and their streams end together
\* (MotionSetpoint.msg:28, reference_generator.cpp:125-143).
SharedMode ==
  /\ gen.mode["x"] = gen.mode["y"]
  /\ gen.mode["x"] \in Streamed => gen.left["x"] = gen.left["y"]

\* The z reference, and a z target while it is held, are in the coordinates the
\* generator says: neither a depth is compared with a distance to the bottom
\* nor the reverse, when the altitude is taken up, dropped, rejected or carried
\* over a pose reset.
OneCoordinate ==
  /\ gen.reference = Coordinate(gen.altitude)
  /\ gen.mode["z"] = "POSITION" => gen.target = Coordinate(gen.altitude)

\* A control cycle leaves no axis streaming past what its sender was promised,
\* so many seconds from the stamp or the arrival, queued or not
\* (MotionSetpoint.msg:35-40).
StreamsEnd ==
  [][Cycle => \A a \in Axes : ~(gen'.mode[a] \in Streamed /\ Expired(gen'.due[a]))]_vars

\* An arrival counts only a report on the target that was sent, once it was
\* taken up, or on one the node put in its place at a reset, a release or a lost
\* altitude: never one of a command before or after it.
ArrivesAtOwn == [][Arrive => errors.source[goal.axis] \in {goal.id, Own}]_vars

\* Once a mission is over and what it sent was taken up, nothing it started
\* drives on, whether it ended, was interrupted or was killed, unless its
\* process died or its stop was lost on exit.
NothingDrivesOn ==
  mission = "none" /\ quiet /\ link = <<>> /\ phase = "holding"
    => \A a \in Axes : gen.mode[a] \in Streamed => gen.left[a] # NoLimit

\* The node here treats commands as SubControl's does: both keep CommandDesk.
WaitingIds == [i \in DOMAIN pending |-> pending[i].id]
Desk == INSTANCE CommandDesk
          WITH desk <- CASE phase = "disarmed" -> "closed"
                         [] phase = "holding" -> "open"
                         [] OTHER -> "queueing",
               queue <- WaitingIds
KeepsDesk == Desk!Spec

\* commands.hpp:70-74: a move that cannot finish, "an altitude hold without
\* bottom lock" among them, "fails instead of stalling the run".
LostAltitudeFails == [][Arrive /\ kills = 0 => errors.source[goal.axis] = goal.id]_vars
=============================================================================
