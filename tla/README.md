# A verification development for Thalassic

Thalassic is the ROS 2 software of AVBotz's Marlin V3 underwater vehicle. This
directory holds TLA+ models of the parts of it whose correctness is a matter of
*order*: who says what when, what is still on its way, and what a process knows
after it missed something. TLC checks the models on small instances; the TLA+
proof system proves the main safety properties for every value of their
constants.

Paths below are relative to the repository; `sub_control.cpp` is
`src/sub_control/sub_control/src/sub_control.cpp`, and so on.

## The system

```
   mission ──motion_setpoint──▶ sub_control ──control/thrusters──▶ sub_low ──serial──▶ board ─▶ thrusters
     ▲  ▲  ◀──control/error────   │   ▲  ▲                           │
     │  │                  set_pose  odometry/filtered               │
  restart│                        ▼   │                              │
     ▲   │                        EKF ◀──────── depth ───────────────┤
     └───┴────────────── kill_switch (latched) ◀─────────────────────┘
```

| Part | State it keeps | Operations | What is hard | What makes it correct |
|---|---|---|---|---|
| **Supervision of the controller** (`sub_control.cpp`, `safety.cpp`) | killed, armed, seeded, rebasing and failsafe flags; the pending pose reset and its confirmation; queued commands; the id last acknowledged; the age of each sensor | one callback per topic, two services, a control timer | the EKF answers late, twice or never; estimates are in flight across the reset; kills land between any two steps; the clock jumps back | no thrust while killed or disarmed, none before the switch was engaged, references and estimates in one odom frame, no command outliving the session it was sent in, the vehicle always comes back to driving |
| **Reference generator** (`reference_generator.cpp`) | a mode, target and expiry per axis; altitude hold | apply, update, reset, drop_altitude | x and y share a mode; a stream expires into a hold that becomes a position | an expired stream never moves the vehicle; an axis not named keeps what it had |
| **Control law, allocation** (`controller.cpp`, `allocator.cpp`, `trajectory.cpp`) | integrators, last output | numeric | floating point | out of reach of these tools |
| **Serial link** (`serial_port.cpp`, `serial_node.cpp`) | the port, its input buffer, last open attempt, last data | poll, connect, disconnect, write | the device vanishes, falls silent, stops reading; lines are cut off | the link comes back; nothing written before a reopening acts after it |
| **sub_low** (`sub_low.cpp`) | what the board last said | thruster, torpedo and dropper commands out; kill switch, depth and heartbeat in | commands are delayed in the graph and on the link | the board follows recent decisions only, and starts each connection stopped |
| **NaviGuider IMU** (`naviguider_imu.cpp`) | configuration handshake | parse, publish | stale samples | samples are stamped with their age |
| **Mission process** (`node.cpp`, `mission.cpp`, `actions/`) | the behaviour tree, the setpoint last sent, errors counted since, kills seen | tick, callbacks under one mutex, signals | a tick is not interrupted by a kill; errors of an earlier command arrive late | a run ends at a kill, however short; "arrived" is about the setpoint sent |
| **Supervisor** (`restart.cpp`) | the child's process group, kills seen | poll, fork, terminate | the `ros2 run` wrapper and the mission die separately; messages queue up between polls | one mission at a time, a new one only after a kill and a release |
| **Motion and vision actions** (`motion/`, `nodes/vision.cpp`) | per leaf: a deadline, counters of frames, a locked target, what it last asked of the axes | start, tick, halt, start again | one object serves many activations; frames and errors of an earlier one are still there | success only on evidence of its own; nothing left driving, however it ends |
| **Actuator actions** (`actuators.cpp`) | the pending service call | call, poll, time out, halt | a late answer to a call that did act | a success is the present call's |
| **Vision** (`vision_node.py`, `model_manager.py`, `vision_client.cpp`) | the active model and task, the last detections | load, infer, close | a model is swapped while a frame is inferred | results are labelled with the model that made them |
| **Simulated devices** (`sim_torpedo_launcher.cpp`, `sim_dropper.cpp`, `sim_kill_switch.cpp`, ...) | what was pushed or dropped, a glued ball, a pending release | services, timers | requests overlapping pending ones | a torpedo goes once; an opened dropper drops |
| **Launch, description, preflight, scripts** | none at run time | | | sequential configuration |

Everything in a node runs on one executor thread, except that the mission's tree
ticks on its own thread under `state_mutex`. Between nodes there are only
messages and service calls, so the interesting interleavings are those of
callbacks with messages on their way. One action of a model is one callback, one
timer, one tick, or one step of the environment.

## What is modelled

| Module | Stands on | Models |
|---|---|---|
| `SubControl` | | the supervision in `sub_control` |
| `ReferenceGenerator` | | the generator's modes, expiries and coordinates, as operators on a record |
| `SetpointLink` | `ReferenceGenerator` | missions, other senders and `sub_control` with the messages between them |
| `Interlock` | | abstract: what the kill switch does to the thruster commands |
| `CommandDesk` | | abstract: what becomes of a command and what its sender is told |
| `ThrustPath` | | `control/thrusters`, `sub_low`, the port and the board |
| `KillPath` | `ThrustPath`, `Interlock` | their composition, from the kill switch to the thrusters |
| `Missions` | | abstract: when a mission runs |
| `Supervisor` | | the restart node and the missions it starts |
| `MissionLeaf` | | what all stateful leaves have in common |
| `SearchLeaves`, `ApproachLeaves`, `DownLeaves`, `MotionLeaves` | `MissionLeaf` | the 23 stateful leaves |
| `MissionLeaves` | those four, `ActionNode` | their composition: any leaf started, ticked, halted, started again |
| `ActionNode` | | the abstract contract of a leaf that moves the vehicle |
| `ServiceCall` | | a leaf that calls a service: request, deadline, late answer |
| `VisionNode`, `Devices` | `ServiceCall` | the servers: model manager and detections; board, launcher, dropper |
| `MissionServices` | `VisionNode`, `Devices` | their composition |

`MC*` modules hold values for constants, `*Proofs` the theorems, `QueueLemmas` facts
about sequences.

### `SubControl`: the supervision of the controller

State and code correspond one to one: `killed` is `killed_`, `request` is
`reset_requested_` (its `id` stands for the nanosecond stamp by which a reply is
matched with its request), `done` is `reset_done_`, `pending` is
`pending_commands_`, `ack` is `command_id_` with whether `command_rejected_` is
set. `reference` abstracts the generator to what the properties tell apart: which
odom frame its target is in and which command it comes from. `thrust` is the last
message on `control/thrusters`. The frame of a pose is the number of the EKF reset
it follows.

Each callback is an action: `KillCallback`/`ReleaseCallback`,
`MotionSetpointCallback`, `CmdVelCallback`, `ResetPose`, `ReplyCallback`,
`OdomCallback`, `ImuCallback`, `DepthCallback`. The control timer's `run()` is
split at its exits (`RunDisarmed` ... `RunDrive`); each exit is the whole cycle
that ends there, so `RunAsk` arms, clears the failsafe, asks the EKF and, when the
answer is already there, seeds. The environment throws the switch, restarts the
node, publishes and loses estimates, lets the EKF take requests and answer at any
time or never, and lets time pass or the clock go back (`ClockBack`: the simulator
restarted, `safety.hpp:8-10`).

Time is counted in ticks and a stamp is kept as its age, which stops growing one
past the limit it is compared with. `message_age` makes everything older, or
stamped too far ahead, equally stale, so nothing is lost.

Left out: the control law, diagnostics, the parameters' run-time changes, the DVL
and altitude (they gate feedback per axis inside the control law), a crash of the
EKF (the launch files do not respawn it). After a restart `thrust` is "zero",
meaning nothing from the new process: what the old one sent is `ThrustPath`'s
matter.

Two abstract specifications say what others may rely on. `Interlock` has a `killed` and
a `thrusting`: a kill stops the thrusters in the same step, and only a cycle that finds
the switch released starts them. `KeepsInterlock` is its refinement, with `thrusting`
mapped to `thrust # "zero"`. `CommandDesk` has a desk that is closed, queueing or open,
the ids that wait at it and the last acknowledgement: nothing that waits is overtaken,
lost or left unacknowledged, but for a release or a restart, which drop all of it. In
`KeepsDesk` the desk is closed while killed or not armed, open while `Holding`, and
queueing otherwise. `SetpointLink`, which tells more of the generator and takes the queue
up one command a step, implements the same `CommandDesk` (disarmed is closed, holding
open, every other phase queueing): the two models of one node agree on what a sender sees.

### `ThrustPath`: from `control/thrusters` to the thrusters

`graph` is the best-effort topic; `port` is `port_`, with "hung" for a port whose
device is gone, which the code finds out at its next read or write; `attempt` and
`silent` are the ages of `last_open_attempt_` and of
`last_data_.value_or(connected_at_)`; `out` is what was written and the board has
not read; `scrap` is a cut-off line in the board's line buffer. `poll()` is split at
its exits (`PollGone`, `PollHears`, `PollSilence`, `PollWaits`, `PollConnects`);
`Disconnect` includes `~SerialPort`'s flush, which may cut a line that was being
sent. `ExitWrites` and `ExitCloses` are `~SubLow` and then `~SerialNode`; `Crash` is
an end without destructors.

The board is external, modelled from `sub_low.hpp` (protocol and
`COMMAND_WATCHDOG`). A line cut off and ended later by the newline of `on_connect`
may or may not read as a command; joined to another line it is garbage. Two
assumptions about it carry the bound of `RecentDrive`: it sends its periodic lines
only once it has read what was waiting (a board that does not read is silent), and
its watchdog counts on whatever happens to the link. A tick is long against the
5 ms poll, so `poll()` runs at least once in each.

`KillPath` puts the kill switch in front of it. Of `sub_control` it takes `Interlock` and
no more, which `SubControl` implements: what `Interlock` decides is what `Send` publishes,
or nobody takes it; a kill publishes a stop, which may be lost like any message. A tick
ages the messages and, while `killed`, `killedFor`. Everything else `ThrustPath` may do
(`Carry`) goes on meanwhile. `KilledStops` is the bound on the whole way: once the node
heard the kill, the thrusters turn for no longer than a decision may be under way
(`Reach`) and the board's watchdog. As in `RecentDrive`, a command read from a cut-off
line is excepted.

A port that is plugged in (`plugged`) opens when it is tried. One that is there and does
not open is as good as one that is not, and how long that lasts is nobody's promise:
`Reopens` waits for a port that stays plugged in.

Left out: the torpedo and dropper lines (`Devices` has the service that writes them)
and what the board's lines say. `skip_line_` is folded into `PollSilence`:
input before the first newline counts for nothing.

### `Supervisor`: the restart node and the missions it starts

The supervisor is one thread: `pc` is where `main()` is (`top` and `wait` are the
waits for a release, `watch` a running mission, `sigint`, `sigterm`, `sigkill` the
three waits of `terminate_child`, `settle` the wait for a kill after the run), and
`captured` its local `kills`. A poll is one action: `spin_some` takes at most one
message, and the branch follows. `runs` are the process groups forked so far, each a
record of the `ros2 run` wrapper and the mission under it: where the mission's
thread is, its own subscription (`heard`), its `killed`, whether its `kill_count`
moved since `execute()` began (`since`). The variables `release` and `began` are
there for the properties only: they number the releases.

A mission may end by itself, crash or hang at any step. `Signalled` says what
SIGINT and SIGTERM do to it: it has a handler from `main()`'s `std::signal` to the
end of `run()`, and none outside. `Interrupted` adds what only SIGINT meets: a child that
did not yet get from `fork()` to `setsid()` and `execvp()` (`restart.cpp:172-184`) is in no
group of its own and has the supervisor's handler, so the signal is lost on it and SIGTERM,
three seconds later, ends it. SIGTERM ends `ros2 run` without the mission, which
is the case `wait_for_group_exit` is written for.

`Missions` is the promise of the supervisor's opening comment: a mission starts only for
a release there was, later than those already served, when none is left of the one before,
and the node is not over while one is. `KeepsPromise` is its refinement: `releases` is
`last.release`, `running` whether anything of the last run is left (`LastRuns`), `served`
the release it was forked for (`LastServed`), `over` the end of `main()`.

Assumed of the parts outside: `ros2 run` waits for the program it started and does
not die before it by itself; SIGKILL ends a process (the code waits a second for
that, the model until it is so); between two ticks, which leave `state_mutex` free
for 50 ms, the mission's executor handles what arrived (`CaughtUp`). A tick may take
any time. Left out: the wait for `control/armed` (a mission may stay "arming") and the
four seconds for the motors. What a tree sends is `SetpointLink`'s, what its leaves do
`MissionLeaves`'.

### `ReferenceGenerator` and `SetpointLink`: what a setpoint becomes

The generator is a record: `mode` and what is `left` of a stream per axis,
`altitude` whether z is held over the bottom, `reference` and `target` the coordinates
their z values are in. Two fields are histories: `source`, the command an axis has its
target from, and `due`, until when its sender was told a stream stands. `Applied`,
`Reset`, `DropAltitude` and `Updates` are `apply()`, `reset()`, `drop_altitude()` and
`update()`; `Constructed` is a generator before its first `reset()`, which holds every
axis. Of the shapers one thing is left: a held axis comes to rest after a while
and is then a position (a passive one follows the vehicle and does not).

`SetpointLink` puts three parties around it. A mission process sends commands under
fresh ids (`Send`), counts a report of the controller as arrival (`Arrive`) or not
(`GoOn`), gives up, ends with a `stop()` (`End`), exits (`Exit`), dies (`Die`), or hears
of a kill (`HearKill`). Others send streams while no mission runs (`OtherSends`).
`sub_control` takes commands up, queues them or rejects them
(`MotionSetpointCallback`, `OtherCallback`), is killed and released, seeds, rebases and
works its queue off (`TakePending`, one command a step, during which nothing else of
that thread runs), and reports in each control cycle (`Cycle`, `IdleCycle`). How it arms
and waits for the EKF is `SubControl`'s; here it is a `phase`. `Arrive` is one report:
that the code wants several in a row within a tolerance is a number that the question,
*whose* report it is, does not depend on.

Assumed: a kill lasts longer than a message takes (`Release`), and a mission starts some
seconds after arming, with nothing on its way (`StartMission`). `Exit` loses what
`sub_control` does not have within the second `wait_for_all_acked` waits; the history
`quiet` says that the last mission sent its stop and did not lose it. A crash leaves a
velocity without a timeout in force until someone sends something else: no property
denies it, and nothing in the code prevents it.

### `MissionLeaf` and the leaves

A leaf is an object that a tree starts, ticks, halts and starts again; what `onStart`
does not reset is still there. `act` is the record of its members: `status`; `motion`,
what it last asked of its axes ("ahead" is a target that runs ahead of the vehicle, as
in a scan); `left`, ticks to `deadline_`; `unseen`, the latest frame is newer than
`last_processed_`; `own`, a frame came since the start; `error`, the latest report;
`on`, the flags that are set; `phase`, `count`, `accepted` and `index`, which each leaf
uses for its own steps and counters. `evidence` is the one history: the frames in
agreement that *this* activation used up. `Start`, `Tick` and `Halt` dispatch on the
leaf; `Refuse` is an `onStart` that fails on its inputs; `Frame`, `Errors` and `Time`
are the world. Each leaf's tick has one disjunct per way through `onRunning`; what it
computes from a detection (a bearing within tolerance or not, a panel left or right) is
a choice between the branches. A kill is not seen here: `execute()` tests it under the
lock of the tick.

`ActionNode` is the abstract specification: a leaf drives (by a velocity, a rate or a
target that runs ahead) only while it runs. `KeepsContract` is its refinement by
`MissionLeaves`, `INSTANCE ActionNode WITH status <- act.status, driving <- Drives(act)`.

### `ServiceCall`, `VisionNode`, `Devices`: the calls

`ServiceCall` is the client side of `LoadModel`, `DropBalls` and `ShootTorpedo`: wait
for the service, send one request, poll, give up at the deadline or be halted, and
forget the request. `requests` and `answers` hold what is on its way, forgotten requests
included; `done` is the history of those carried out. `VisionNode` has `active` (the
task the manager names) beside `resident` (the model that would run), detections
labelled with the one and made by the other, and the client's snapshot of the latest.
The node may die and be started again at any time (`NodeRestarts`): model and requests are
gone, and the history `lost` tells which these were. Nobody loads the model again by
himself, so `LoadedIsActive` speaks of a load by the node that is up; after a restart a
tree waits for detections until its leaf gives up.
`Devices` has `sub_low` (which may be restarted with a request in hand), the torpedo
launcher with glue that answers late or refuses, and the dropper, whose two balls share
one gate and a servo. A request tells the servo where to go (`opened`); where the gate is
(`turned`) follows in steps of its own, so a dropper may be reopened before it has closed. `MissionServices` chooses one of the four services at the start.

A request is sent with what the tree says, so a tree that retries is another `Start`.
Both vision nodes run one callback at a time, so a load and a frame never overlap and
the manager's lock adds nothing; this is why no property speaks of it.

## Runs

| Run | Instance | Shows |
|---|---|---|
| `sub_control_reset` | 1 release, restarts, 1 `reset_pose`, 1 estimate in flight | `DisarmedIsStill`, `NoUnattendedStart`, `OneResetPerCause`, `AssuredFrame`, `KeepsInterlock`, `WaitRunsOut` |
| `sub_control_commands` | 2 releases, 2 setpoints and `cmd_vel`, a queue of 2 | `CommandsOfThisRelease`, `AcceptedIsInForce` |
| `sub_control_resumes` | 1 release, 1 `reset_pose`, a tick of slack per sensor, `FairSpec` | `Resumes` |
| `kill_path` | every limit 1 tick, a port that holds 2 lines, 1 message in flight, `FairPathSpec` | `StoppedFirst`, `RecentDrive`, `KilledStops`, `Reopens` |
| `supervisor` | a switch that reports its changes, 4 releases, the code's queue of 10, `FairSpec` | `TypeOK`, `OneMission`, `LeavesNothing`, `OneRunPerRelease`, `MissesNoKill`, `TicksInItsRelease`, `KeepsPromise`, `Restarts` |
| `setpoint_link` | axes x, y, z; 2 ids, 1 kill or `reset_pose`, streams of 0 and 1 tick, a queue of 2 | `SharedMode`, `OneCoordinate`, `NothingDrivesOn`, `StreamsEnd`, `ArrivesAtOwn`, `KeepsDesk` |
| `mission_leaves` | all leaves with their options, a deadline of 3 ticks, 3 frames, 3 steps of a sweep, `FairSpec` | `TypeOK`, `SucceedsOnEvidence`, `MediansOfSome`, `KeepsContract`, `MovesOnRow`, `EveryLeafEnds`, `TimeRunsOut` |
| `mission_services` | 4 services, 2 items, a deadline of 1 tick, 3 requests, 1 detection in flight, `FairSpec` | `SucceedsWhenDone`, `LoadedIsActive`, `PushedOnce`, `DetectsOwn`, `CallsEnd`, `OpenedDrops` |
| `sub_control_errors` | 1 setpoint, 1 `reset_pose` | **violates** `ErrorsReflectCommand` |
| `thrust_path_exit` | `ThrustPath` alone, with the limits of `kill_path` and a port that holds 3 lines | **violates** `ExitStops` |
| `supervisor_reports` | a switch reported up to 3 times between polls, a queue of 4, 2 releases | **violates** `Restarts` |
| `setpoint_link_altitude` | altitude moves only, no kills | **violates** `LostAltitudeFails` |

`TypeOK` is checked where a slip of the code could break it: in `supervisor` it says that
the supervisor counts no more kills than there were releases, in `mission_leaves` that no
leaf counts past the frames or steps its options give. Elsewhere a type is a type; it is
proved with the rest, and no run repeats it.

Bounds. A limit of zero or one tick gives each age all its classes: fresh, at the limit,
past it. In `sub_control_resumes` the limits have to be one: with zero a sensor is stale
after every tick, nothing stays fresh, and the property would hold of any program. One
release and one `reset_pose` give two resets, so a late answer to the first can meet the
second; a command needs a second release to be of an earlier session. Bounds on counters
(`MaxReleases`, `MaxResets`, `MaxCommands`, `MaxPending`, `MaxInFlight`, `MaxIds`,
`MaxKills`, `MaxRequests`, `Capacity`) are guards of the environment's actions, except
that `MaxPending` also bounds the code's unbounded `pending_commands_` and `Capacity` is
the driver's finite buffer: two lines are what `on_connect` writes, so that in
`kill_path` a port is full as soon as it is open and a write to it fails, or succeeds once
the board has read. The theorems hold for all of them.

In `supervisor` four releases and the kills between them give eight messages, so the
queue of ten never overflows: the run shows the protocol is right while nothing is
lost. `supervisor_reports` shows what a full queue does; its queue of four fills
sooner than the code's ten, which changes how long it takes and nothing else (a
run with `Depth = 10` finds the same, more slowly). `OneMission`, `LeavesNothing` and
`OneRunPerRelease` are proved for every depth and rate, lost messages included, and so is
`KeepsPromise`. `TicksInItsRelease` is proved of every switch that reports its changes and
every queue of two, and of one that repeats them while the mission's queue has room: with
the board's reports a single tick would have to last two seconds before it loses one.

In `setpoint_link` two ids are a move and what replaces it, or a velocity and the stop
behind it; a kill or a reset falls between any two steps, with both commands on their
way, queued or taken up. `Level` is empty there: roll and pitch are in no tree's
velocities, and `NothingDrivesOn` is false with them (see below). In `mission_leaves`
three frames are the smallest number that tells "all in a row" from "the last two" and
from "any", three steps the smallest sweep with a middle, and a deadline of three ticks
leaves room for all three frames before it. In `mission_services` three requests are one
forgotten, one pending, and one after a restart; each is for either item.

Deadlock is checked where time can always pass: `SubControl`, `KillPath` and
`MissionLeaves`. `Supervisor` exits on a shutdown, `SetpointLink` and
`MissionServices` stop where ids and requests are used up.

Fairness. `WF(Run)` and `WF(Poll)` are ROS timers on executors that do not block;
`WF(Tick)` is time. `WF(Supervise)` is the supervisor's own thread, whose loops sleep
half a second and whose waits have time-outs; `SF(Fork)` says that `fork()` does not
fail for ever. In `mission_leaves`, `WF(Tick)` is `execute()`, which ticks the tree
every 50 ms, and `WF(Time)` the clock; no frame and no report has to come. In
`mission_services`, `WF(Polls)` and `WF(Passing)` are the same two, `WF(Turn)` and
`WF(JointStateCallback)` the simulator's servo and its joint states, and `SF(BallLetGo)`
says that the glue does not refuse for ever. Nothing is assumed of the missions. Nothing
is assumed of sensors, the EKF, the switch, messages or the device; the liveness
properties take what they need of them as premises.

Each checked property has a mutant in the modules (`...Unattended`, `...NoStop`,
`...Unended`, and so on, marked "Variant"): the bug the property would catch.

### What the violated runs say

* **`ErrorsReflectCommand`**: a pose reset (`rebase()`, or `seed()`) makes the
  generator hold the measured pose, and `command_id_` keeps the id of the setpoint
  it replaced. `Error.msg:18-20` says the errors reflect that command. The mission
  takes small errors under its own id for arrival.
* **`ExitStops`**: `~SubLow` writes STOP and `~SerialPort` then flushes what the
  device has not taken, that STOP included. `sub_low.hpp:78-79` says the thrusters
  are stopped when the node exits; the board's watchdog does it half a second later.
* **`Restarts`** with reports: `rclcpp::spin_some` takes one message of a subscription
  a call. The supervisor calls it every half second, and the board reports the switch
  five times a second (`sub_low.hpp:29`), so the queue of ten is full within seconds
  and loses reports from then on. A kill of a report or two can be lost whole. The
  mission hears it and ends its run (`node.cpp:426-436`); the supervisor reaps the run
  and waits in `restart.cpp:214` for a kill that has come and gone. `restart.hpp:35-36`
  says that a kill and its release both arrive. (A full queue also makes every kill
  heard some five seconds late.)
* **`LostAltitudeFails`**: when the DVL loses the bottom, `drop_altitude()` turns an
  altitude target into a hold of z. An axis that is held at no target is reported
  without error, under the id of the setpoint, which stays accepted;
  `AltitudeSetpoint` counts the zeros as arrival and succeeds. `commands.hpp:70-74`
  says of such a move that it fails.

### Limits the models found, which contradict nothing the code says

* When the EKF takes longer than `POSE_RESET_TIMEOUT` the node goes on without
  confirmation, and an EKF that moves the origin afterwards leaves the reference in the
  old frame. `AssuredFrame` speaks of confirmed resets only.
* Any estimate stamped after the EKF's answer confirms the reset
  (`sub_control.cpp:652`), and stamps up to 0.25 s ahead are believed
  (`safety.hpp:11`): an estimate from before the reset can confirm it. `Skew` is how far
  ahead stamps may be; the run and the theorem have `Skew = 0`, and nothing here catches
  what happens with more.
* A report on the hold that a pose reset or a lost altitude put in a target's place
  counts as arrival at that target. `ArrivesAtOwn` allows it, because the code does; it
  denies arrival by another command's errors. `ErrorsReflectCommand` and
  `LostAltitudeFails` show where the documents say otherwise.
* A tick of the mission's tree that a kill interrupts goes on to its end
  (`node.cpp:427`). `TicksInItsRelease` says that no tick of that run *begins* in the next
  release; what the one tick publishes, should it last past the next release, is not
  modelled.
* `stop()` keeps roll and pitch as they are, so an effort or a rate on them would
  outlive a mission (`Level`). No shipped tree sends one without a timeout.
* Between two leaves in a `Parallel`, a rejected command is hidden by an accepted one
  sent after it: errors carry only the last id. No shipped tree runs two leaves that
  move the vehicle side by side, and `SetpointLink` lets one leaf wait at a time.
* `SelectGateRole` and `OrientToDetectionAtDist` speak of frames in a row
  (`vision.cpp:500`); a frame that shows nothing between them does not begin the count
  again. `SucceedsOnEvidence` therefore speaks of frames without one that
  *contradicts* them.
* `WaitUntilHit` reads the last errors whenever they came. No tree uses it.
* A simulated glue service that never answers keeps its requests, and the ball in
  flight, for ever; the leaf that asked gives up at its deadline (`CallsEnd`).

## Proofs

The eight proof modules prove every safety property, every action property and every
refinement the passing runs check, and each module's type invariant besides, from the named assumptions on the constants (limits and bounds are natural numbers, `NoTime` and `NoLimit` are not
numbers, the port holds what `on_connect` writes, x, y and z are among the axes).
`QueueLemmas` holds what they need of sequences. Each proof has a lemma that the step
preserves the invariant, with one case per action.

| Theorem | Property | Inductive invariant |
|---|---|---|
| `SubControlProofs!TypeCorrect` | `TypeOK` | itself |
| `Stopped` | `DisarmedIsStill` | itself with `TypeOK`: every exit of `run()` that thrusts arms |
| `Unattended` | `NoUnattendedStart` | `Attended`: `killSeen`, and a switch that is engaged now, imply that it was engaged |
| `OneReset` | `OneResetPerCause` | `CauseInv`: while a release has not asked yet, one request is still owed to it |
| `ThisRelease` | `CommandsOfThisRelease` | `SessionInv`: so are the queued commands, and an unseeded release has none older |
| `InForce` | `AcceptedIsInForce` | itself, with lemmas on the last applied and the last numbered of a queue |
| `AssuredAgrees` (`Skew = 0`) | `AssuredFrame` | `FrameInv`, below |
| `InterlockKept` | `KeepsInterlock` | `TypeOK`: each action is a step of `Interlock` or none |
| `DeskKept` | `KeepsDesk` | `Dropped`: a node that is released and not yet armed has nothing waiting |
| `WaitsRunOut` | `WaitRunsOut` | `WaitAsked`: a kill ends the wait of a `reset_pose`, and every wait has a request behind it |
| `ThrustPathProofs!TypeCorrect` | `TypeOK` | itself |
| `StopsFirst` | `StoppedFirst` | `Greeted`: the board is about to read newline-STOP, or STOP with nothing cut off before it, or obeys this connection |
| `DrivesRecently` | `RecentDrive` | `Listening` (after its poll an open port is not over its silence limit), `Held` (a line has waited no longer than the silence), `Followed` (the decision has aged no longer than the board has been quiet) |
| `KillPathProofs!IsAThrustPath` | `ThrustPath`'s `Spec` | none: each step of `KillPath` is one of `ThrustPath`, or leaves it alone, so that its theorems hold of the composition |
| `StopsWhenKilled` | `KilledStops` | `Before`: while the switch is engaged, every drive command on the link, cut off or obeyed is at least as old as the kill, and so is each in the graph that is not stale already |
| `SupervisorProofs!TypeCorrect` | `TypeOK` | with `Heeded`, below |
| `OneAtATime`, `CleanExit` | `OneMission`, `LeavesNothing` | `Supervised`: no run but the active one has anything alive in it, and there is an active one only where `main()` watches or terminates it |
| `OneRun` | `OneRunPerRelease` | `Released`: no run is of a later release than the last one heard, and once the supervisor counted a kill it only goes on to a release past those of all runs |
| `TicksOfItsRelease` (`~Repeats`, `Depth >= 2`), `TicksUnlessFull` (no mission's queue full) | `TicksInItsRelease` | `Aware`: what a mission last heard, or has waiting last, is what the switch says; while it executes it has noticed a kill, or has one to notice, or there was none |
| `PromiseKept` | `KeepsPromise` | those of `OneAtATime` and `OneRun`, step by step |
| `HearsEveryKill` (`~Repeats`, `Depth >= 2`), `HearsUnlessFull` (the supervisor's queue not full) | `MissesNoKill` | `Hears`: what is heard or waiting with no kill behind it is of the release the switch is in; while the supervisor waits for a kill it counted one, has one waiting, or the switch is still in the release it watches |
| `SetpointLinkProofs!TypeCorrect`, `XYTogether`, `NoMixedCoordinates`, `StreamsExpire` | `TypeOK`, `SharedMode`, `OneCoordinate`, `StreamsEnd` | `Base`: generator and every command on its way, queued or of others are good (a stream has no more left than it was promised, x and y agree) and nothing is queued while the node holds, which the operators of `ReferenceGenerator` preserve |
| `ArrivalsOwn` | `ArrivesAtOwn` | `Order` and `Arrivals`, below |
| `NothingLeftDriving` (`Level = {}`) | `NothingDrivesOn` | `Ends`: once a mission is over in order, every command without a timeout still on its way or in force has a stop behind it |
| `DeskKept` | `KeepsDesk` | `Base` |
| `MissionServicesProofs!TypeCorrect` | `TypeOK` | `IInv`, all of the next four |
| `OwnAnswer` | `SucceedsWhenDone` | `CallInv`: what the leaf waits for is the last request sent, after `since`; an answer that says yes is of a request carried out |
| `ModelLoaded` | `LoadedIsActive` | with `CallInv`: nothing is behind the last request, so that the answer to it speaks of the model that is resident now |
| `NoSecondPush` | `PushedOnce` | `OneRelease`: a torpedo has at most one release under way, and none once it left |
| `OwnDetections` | `DetectsOwn` | `Labelled`: the active task is the resident model's, and so are the label and the maker of every detection |
| `RunsOutOfTime` | `TimeRunsOut` | `TypeOK` |
| `MissionLeavesProofs!TypeCorrect` | `TypeOK` | `Good`, which holds it |
| `ContractKept`, `EvidenceFirst`, `MediansTaken`, `RowFirst` | `KeepsContract`, `SucceedsOnEvidence`, `MediansOfSome`, `MovesOnRow` | `Good`, below |
| `RunsOutOfTime` | `TimeRunsOut` | `TypeOK`, leaf by leaf |

`FrameInv` is the heart of the pose reset. `RequestsInOrder`: requests reach the
EKF in the order they were made, so its frame is below every request under way.
`EstimatesInOrder`: estimates arrive in the order of their frames and stamps, none
ahead of the EKF. `AnswerTells`: once the answer to the *current* request arrived,
the EKF is at that request, and every estimate stamped later than the answer,
received or in flight, is in its frame. `AssuredIsNewest`: a reference that was
confirmed has the newest frame there is until another reset is asked for. Only the
second needs `Skew = 0`.

`Heeded` relates what the supervisor knows to what was published, whatever the queue
lost: `InOrder`, the messages waiting are in the order of their releases, none before
what was heard; `Counted`, it never counts more kills than it heard of releases.

`Order` says that no id on its way, queued, acknowledged or reported is past the last
one used, that a leaf that waits waits for that one, and that nobody else sends while a
mission runs. `Arrivals` follows a move: as long as a leaf waits for it, it is the last
of what is on its way or queued, and while it is queued nothing is on its way behind it;
once the node acknowledged it no other command is left that could be taken up, and the
axis it is about has its target from it or from the node itself, unless it was rejected.
So a report under its id can speak of nothing else.

`Good` says of one activation that it has ended without driving; that a success has
its evidence; and, while it runs, that it drives only if it is a leaf whose `onHalted`
holds whatever it did, or has the flag set by which it will know to stop (`MayDrive`),
and that its counters are covered by frames of its own
(`Counted`, `AlignsLaterally`, `Squared`). It is stated of the record, so that each
leaf's `onStart` and `onRunning` are a lemma of their own that takes one good record
to another, and the refinement needs nothing more.

The kill switch's bound is put together from three modules. `InterlockKept` says that
all of `SubControl` does with its `killed` and its thruster commands is what `Interlock`
says; `KillPath` has `Interlock` in its place, and `StopsWhenKilled` proves the bound of
it; `IsAThrustPath` lends it what was proved of the link, of which `RecentDrive` is the
last step: a decision older than `Longest` drives nothing, and no later one drives.

Liveness (`Resumes`, `Reopens`, `Restarts`, `EveryLeafEnds`, `CallsEnd`, `OpenedDrops`) is
outside the prover's reach and only model-checked. Behind four of these six stands an
argument that can be proved, that what is waited for comes closer with every tick or was
not missed, and four properties state it:

* `WaitRunsOut` for `Resumes`: only a kill or a new `reset_pose` renews a pose reset's
  wait, the clock ages the request to its limit, and a cycle that finds it there drives;
* `MissesNoKill` for `Restarts`: the supervisor never waits for a kill that is over. With
  a queue of one, or with reports that fill the queue, TLC finds it violated, which is the
  finding of `supervisor_reports` as a state;
* `TimeRunsOut` of `MissionLeaves` for `EveryLeafEnds`: a leaf goes past its deadline, or
  gets a new one, only with a stage done that it does not do again (`Stages`: looks and
  turns of a sweep, passes of an alignment, a lock, the way back) or a frame counted;
* `TimeRunsOut` of `MissionServices` for `CallsEnd`: nothing renews a call's deadline.

The first two, `TimeRunsOut` of `MissionLeaves` and `KeepsDesk` are properties of
`sub_control_reset`, `supervisor`, `mission_leaves` and `setpoint_link` as well, and
each has its mutant there. `TimeRunsOut` of `MissionServices` and `KeepsDesk` of
`SubControl` are theorems only: what a run checks of one model they say of another.
`TimeRunsOut` also covers what `EveryLeafEnds` cannot: a leaf that ends on the
distance travelled may do so at any tick, so that with a fair `Tick` it ends whatever its
deadline does, and only the action property looks at the deadline.

What is left to TLC of the liveness is that the fair actions do happen, and the
induction over what they count down.

## Not modelled

* **Control law, allocation, trajectory** (`controller.cpp`, `allocator.cpp`,
  `trajectory.cpp`, most of `utils.cpp`): floating-point filters, quadratic programmes
  and jerk-limited profiles. Neither tool can say anything of them that would hold of
  the numbers.
* **Parameters and diagnostics of the controller**: validation of numbers; the errors
  they publish are `SetpointLink`'s `Report`.
* **IMU parser** (`naviguider_imu.cpp`): lines to numbers, over the serial node that
  `ThrustPath` models.
* **The trees** (XML, BehaviorTree.CPP's control nodes, Groot) and the synchronous
  leaves, which send one command or test one value and keep nothing. What
  `MissionLeaves` shows of a leaf holds for every order in which a tree could start
  and halt it; what a tree promises as a whole is not stated.
* **What a leaf computes from a detection**, and the post-processors that make it:
  geometry on floating-point data. The branches it decides are choices.
* **Simulated kill switch's start-up window, thrusters, grabber, scenario
  generators**: conversions, offline generation, and a window of the simulator's start
  that no other part depends on.
* **Vision backends**: wrappers of inference libraries.
* **Two late ends**: an EKF that moves the origin after the node gave up on it
  (above), and a `ros2 run` wrapper that dies alone (`restart.cpp:194`), which
  `Supervisor` assumes away.
* **Launch files, description, preflight, deployment and workspace scripts**:
  sequential, and without state that the running nodes share.
