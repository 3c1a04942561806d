----------------------------- MODULE Supervisor -----------------------------
(***************************************************************************)
(* The restart node and the missions it runs: it waits for the kill switch *)
(* to be released, starts `ros2 run sub_mission mission`, stops it when    *)
(* the switch is engaged, and starts it again at the next release.  The    *)
(* mission process watches the switch as well, and ends its own run.       *)
(*                                                                         *)
(* A message on kill_switch is what it says and, to tell the releases      *)
(* apart, how many of them there had been.  One spin_some takes at most    *)
(* one message of a subscription.                                          *)
(***************************************************************************)
EXTENDS Naturals, Sequences

CONSTANTS
  Depth,      \* of the subscriptions to kill_switch, 10
  Rate,       \* messages there are between two polls, at most
  Repeats,    \* the switch is reported over and over, not only when it changes
  MaxReleases \* bound: times the switch is released

ASSUME QueueAssumption == Depth \in Nat \ {0} /\ Rate \in Nat /\ Repeats \in BOOLEAN
ASSUME BoundAssumption == MaxReleases \in Nat

VARIABLES
  last,       \* the last message published on kill_switch
  rest,       \* reports since the supervisor's last poll
  inbox,      \* the messages waiting in the supervisor's subscription
  node,       \* RestartNode: killed_, kills_, and the release it heard of last
  pc,         \* where main() is
  captured,   \* main()'s `kills`
  active,     \* active_child: the run it watches, or 0
  shutdown,   \* shutdown_requested
  runs        \* the process groups forked, in order

main == <<pc, captured, active, shutdown>>
vars == <<last, rest, inbox, node, main, runs>>

-----------------------------------------------------------------------------
Report == [killed : BOOLEAN, release : Nat]

\* mission: "starting" until ros2 run has started it, "waiting" for the switch's
\* release, "arming", "executing" between two ticks, "ticking" while a tick holds
\* state_mutex, "over" once execute() returned, "gone".  since: kill_count is
\* not what it was when execute() began.  began: the release that was in.
Run == [mission : {"starting", "waiting", "arming", "executing", "ticking", "over", "gone"},
        wrapper : {"alive", "zombie", "reaped"},
        interrupted : BOOLEAN, killed : BOOLEAN, since : BOOLEAN,
        heard : Seq(Report), release : Nat, began : Nat]

\* The mission process is gone.
Gone(run) == [run EXCEPT !.mission = "gone", !.heard = <<>>, !.interrupted = FALSE,
                         !.killed = TRUE, !.since = FALSE, !.began = 0]

\* Nothing of the process group runs any more.
Dead(run) == run.mission = "gone" /\ run.wrapper # "alive"

\* Its subscription to kill_switch exists.
Listening(run) == run.mission \notin {"starting", "gone"}

\* Variant: a queue that keeps the latest message only.
EnqueueLatest(queue, report) == <<report>>

\* A full queue loses its oldest message.
Enqueue(queue, report) ==
  IF Len(queue) < Depth THEN Append(queue, report) ELSE Append(Tail(queue), report)

Init ==
  /\ last \in {[killed |-> TRUE, release |-> 0], [killed |-> FALSE, release |-> 1]}
  /\ rest = 0
  /\ inbox = <<last>>
  /\ node = [killed |-> TRUE, kills |-> 0, release |-> 0]
  /\ pc = "top" /\ captured = 0 /\ active = 0 /\ shutdown = FALSE
  /\ runs = <<>>

-----------------------------------------------------------------------------
(* The kill switch. *)

\* What the next message is when it says whether the switch is engaged.
Reported(killed) ==
  [killed |-> killed, release |-> last.release + IF last.killed /\ ~killed THEN 1 ELSE 0]

Publish(killed) ==
  /\ Repeats \/ killed # last.killed
  /\ Repeats => rest < Rate
  /\ last' = Reported(killed)
  /\ last'.release <= MaxReleases
  /\ rest' = IF Repeats THEN rest + 1 ELSE 0
  /\ inbox' = Enqueue(inbox, last')
  /\ runs' = [r \in DOMAIN runs |->
                IF Listening(runs[r]) THEN [runs[r] EXCEPT !.heard = Enqueue(@, last')]
                                      ELSE runs[r]]
  /\ UNCHANGED <<node, main>>

-----------------------------------------------------------------------------
(* The mission process. *)

\* Run r's record becomes `run`.
Becomes(r, run) ==
  /\ runs' = [runs EXCEPT ![r] = run]
  /\ UNCHANGED <<last, rest, inbox, node, main>>

\* ros2 run starts the mission, which hears the latched state first.
MissionStarts(r) ==
  /\ runs[r].mission = "starting"
  /\ Becomes(r, [runs[r] EXCEPT !.mission = "waiting", !.heard = <<last>>])

\* kill_callback, on the executor's thread: not while a tick holds state_mutex.
MissionKillCallback(r) ==
  /\ Listening(runs[r]) /\ runs[r].mission # "ticking"
  /\ runs[r].heard # <<>>
  /\ LET engaged == Head(runs[r].heard).killed IN
       Becomes(r, [runs[r] EXCEPT !.killed = engaged,
                                  !.since = @ \/ (engaged /\ ~runs[r].killed),
                                  !.heard = Tail(@)])

\* activate() saw the switch released; next it waits for sub_control to arm.
MissionReleased(r) ==
  /\ runs[r].mission = "waiting" /\ ~runs[r].interrupted
  /\ ~runs[r].killed
  /\ Becomes(r, [runs[r] EXCEPT !.mission = "arming"])

\* Nothing holds state_mutex for long before execute() or between two ticks, so
\* that the executor's thread has by then handled what arrived.
CaughtUp(r) == runs[r].heard = <<>>

\* execute() notes the kill count and looks at the switch under the same lock.
MissionExecutes(r) ==
  /\ runs[r].mission = "arming" /\ ~runs[r].interrupted
  /\ CaughtUp(r)
  /\ Becomes(r, [runs[r] EXCEPT !.mission = IF runs[r].killed THEN "over" ELSE "executing",
                                !.since = FALSE, !.began = last.release])

\* Variant: a kill and its release between two ticks go unnoticed.
MissionTicksOn(r) ==
  /\ runs[r].mission = "executing" /\ ~runs[r].interrupted
  /\ CaughtUp(r)
  /\ ~runs[r].killed
  /\ Becomes(r, [runs[r] EXCEPT !.mission = "ticking"])

\* A tick begins, holding state_mutex.
MissionTicks(r) ==
  /\ runs[r].mission = "executing" /\ ~runs[r].interrupted
  /\ CaughtUp(r)
  /\ ~runs[r].killed /\ ~runs[r].since
  /\ Becomes(r, [runs[r] EXCEPT !.mission = "ticking"])

\* It ends: with the tree still running, or finished and stop() called.
MissionTicked(r) ==
  /\ runs[r].mission = "ticking"
  /\ \E next \in {"executing", "over"} : Becomes(r, [runs[r] EXCEPT !.mission = next])

\* execute() returns at the top of its loop: interrupted, or killed.
MissionStops(r) ==
  /\ runs[r].mission = "executing"
  /\ runs[r].interrupted \/ (CaughtUp(r) /\ (runs[r].killed \/ runs[r].since))
  /\ Becomes(r, [runs[r] EXCEPT !.mission = "over"])

\* The process exits: after execute(), interrupted before it, or by a failure.
MissionExits(r) ==
  /\ runs[r].mission # "gone"
  /\ Becomes(r, Gone(runs[r]))

\* ros2 run waits for the mission and exits after it.
WrapperExits(r) ==
  /\ runs[r].mission = "gone" /\ runs[r].wrapper = "alive"
  /\ Becomes(r, [runs[r] EXCEPT !.wrapper = "zombie"])

-----------------------------------------------------------------------------
(* The supervisor. *)

\* Variant: a kill is counted whatever was heard before it.
HeardAny ==
  IF inbox = <<>> THEN node
  ELSE [killed |-> Head(inbox).killed,
        kills |-> node.kills + IF Head(inbox).killed THEN 1 ELSE 0,
        release |-> Head(inbox).release]

\* spin_some: RestartNode::kill_callback with the oldest message, if there is one.
\* It is now `heard`.
Heard ==
  IF inbox = <<>> THEN node
  ELSE [killed |-> Head(inbox).killed,
        kills |-> node.kills + IF Head(inbox).killed /\ ~node.killed THEN 1 ELSE 0,
        release |-> Head(inbox).release]

SpinSome ==
  /\ node' = Heard
  /\ inbox' = IF inbox = <<>> THEN <<>> ELSE Tail(inbox)
  /\ rest' = 0
  /\ UNCHANGED last

\* The loops' conditions: where a shutdown takes main() next.
Leave ==
  /\ shutdown
  /\ pc \in {"top", "wait", "settle"}
  /\ pc' = "done"
  /\ UNCHANGED <<last, rest, inbox, node, captured, active, shutdown, runs>>

\* sub_alive, to log that the sub is killed.
PollTop ==
  /\ pc = "top" /\ ~shutdown
  /\ SpinSome
  /\ pc' = "wait"
  /\ UNCHANGED <<captured, active, shutdown, runs>>

\* sub_alive: wait on, or note the kill count and go on to fork.
PollWait ==
  /\ pc = "wait" /\ ~shutdown
  /\ SpinSome
  /\ \/ /\ node'.killed
        /\ UNCHANGED <<pc, captured>>
     \/ /\ ~node'.killed
        /\ pc' = "fork" /\ captured' = node'.kills
  /\ UNCHANGED <<active, shutdown, runs>>

Fork ==
  /\ pc = "fork"
  /\ runs' = Append(runs, [mission |-> "starting", wrapper |-> "alive",
                           interrupted |-> FALSE, killed |-> TRUE, since |-> FALSE,
                           heard |-> <<>>, release |-> node.release, began |-> 0])
  /\ active' = Len(runs) + 1
  /\ pc' = "watch"
  /\ UNCHANGED <<last, rest, inbox, node, captured, shutdown>>

\* fork() failed: try again, if the switch is still released.
ForkFails ==
  /\ pc = "fork"
  /\ pc' = "top"
  /\ UNCHANGED <<last, rest, inbox, node, captured, active, shutdown, runs>>

\* Variant: a run that ended is followed by another at once.
ReapOn ==
  /\ pc = "watch" /\ ~shutdown
  /\ runs[active].wrapper = "zombie"
  /\ runs' = [runs EXCEPT ![active].wrapper = "reaped"]
  /\ active' = 0 /\ pc' = "top"
  /\ UNCHANGED <<last, rest, inbox, node, captured, shutdown>>

\* waitpid: the run ended by itself.
Reap ==
  /\ pc = "watch" /\ ~shutdown
  /\ runs[active].wrapper = "zombie"
  /\ runs' = [runs EXCEPT ![active].wrapper = "reaped"]
  /\ active' = 0 /\ pc' = "settle"
  /\ UNCHANGED <<last, rest, inbox, node, captured, shutdown>>

\* What a run may be after a signal that reaches it: the mission has a handler between
\* the construction of its node and the end of run(), and none outside.
Signalled(run) ==
  CASE run.mission \in {"starting", "gone"} -> {[Gone(run) EXCEPT !.wrapper = "zombie"]}
    [] run.mission \in {"waiting", "over"}  -> {[run EXCEPT !.interrupted = TRUE], Gone(run)}
    [] OTHER                                -> {[run EXCEPT !.interrupted = TRUE]}

\* What it may be after SIGINT: a child that did not yet get to setsid() is in no
\* group of its own, and until execvp() it has the supervisor's handler.  The
\* signal is lost on it, and SIGTERM, 3 s later, ends it.
Interrupted(run) ==
  Signalled(run) \cup (IF run.mission = "starting" THEN {run} ELSE {})

\* terminate_child begins: SIGINT to the group; ros2 run waits for the mission.
Interrupt ==
  /\ \E run \in Interrupted(runs[active]) : runs' = [runs EXCEPT ![active] = run]
  /\ pc' = "sigint"

\* killed_since: watch on, or stop the run.
PollWatch ==
  /\ pc = "watch" /\ ~shutdown
  /\ runs[active].wrapper # "zombie"
  /\ SpinSome
  /\ \/ /\ node'.kills = captured
        /\ UNCHANGED <<pc, runs>>
     \/ /\ node'.kills # captured
        /\ Interrupt
  /\ UNCHANGED <<captured, active, shutdown>>

\* Variant: a shutdown leaves the run alone.
LeaveWatchAtOnce ==
  /\ pc = "watch" /\ shutdown
  /\ pc' = "done" /\ active' = 0
  /\ UNCHANGED <<last, rest, inbox, node, captured, shutdown, runs>>

\* A shutdown stops the run.
LeaveWatch ==
  /\ pc = "watch" /\ shutdown
  /\ Interrupt
  /\ UNCHANGED <<last, rest, inbox, node, captured, active, shutdown>>

\* Variant: the leader of the group is waited for, and not the rest of it.
LeaderExited(run) == run.wrapper # "alive"

\* Its leader can be reaped, and nothing else of the group is left.
GroupExited(run) == Dead(run)

\* 3 s after SIGINT: SIGTERM, which ros2 run does not survive.
Terminate ==
  /\ pc = "sigint" /\ ~GroupExited(runs[active])
  /\ \E run \in Signalled(runs[active]) :
       runs' = [runs EXCEPT ![active] = [run EXCEPT !.wrapper = "zombie"]]
  /\ pc' = "sigterm"
  /\ UNCHANGED <<last, rest, inbox, node, captured, active, shutdown>>

\* 2 s after SIGTERM: SIGKILL.
Kill ==
  /\ pc = "sigterm" /\ ~GroupExited(runs[active])
  /\ runs' = [runs EXCEPT ![active] = [Gone(@) EXCEPT !.wrapper = "zombie"]]
  /\ pc' = "sigkill"
  /\ UNCHANGED <<last, rest, inbox, node, captured, active, shutdown>>

\* Variant: the kill to wait for next is the next after the run was stopped.
TerminatedAnew ==
  /\ pc \in {"sigint", "sigterm", "sigkill"}
  /\ GroupExited(runs[active])
  /\ runs' = [runs EXCEPT ![active].wrapper = "reaped"]
  /\ active' = 0 /\ pc' = "settle" /\ captured' = node.kills
  /\ UNCHANGED <<last, rest, inbox, node, shutdown>>

\* terminate_child returns.
Terminated ==
  /\ pc \in {"sigint", "sigterm", "sigkill"}
  /\ GroupExited(runs[active])
  /\ runs' = [runs EXCEPT ![active].wrapper = "reaped"]
  /\ active' = 0 /\ pc' = "settle"
  /\ UNCHANGED <<last, rest, inbox, node, captured, shutdown>>

\* Variant: whatever is heard, the next run is looked for.
PollSettleOn ==
  /\ pc = "settle" /\ ~shutdown
  /\ SpinSome
  /\ pc' = "top"
  /\ UNCHANGED <<captured, active, shutdown, runs>>

\* killed_since: however the run ended, the next waits for a kill.
PollSettle ==
  /\ pc = "settle" /\ ~shutdown
  /\ SpinSome
  /\ pc' = IF node'.kills = captured THEN "settle" ELSE "top"
  /\ UNCHANGED <<captured, active, shutdown, runs>>

\* SIGINT or SIGTERM to the supervisor.
HandleSignal ==
  /\ ~shutdown
  /\ shutdown' = TRUE
  /\ UNCHANGED <<last, rest, inbox, node, pc, captured, active, runs>>

-----------------------------------------------------------------------------
Mission(r) ==
  \/ MissionStarts(r) \/ MissionKillCallback(r) \/ MissionReleased(r)
  \/ MissionExecutes(r) \/ MissionTicks(r) \/ MissionTicked(r)
  \/ MissionStops(r) \/ MissionExits(r) \/ WrapperExits(r)

Supervise ==
  \/ Leave \/ PollTop \/ PollWait \/ Fork \/ ForkFails \/ Reap \/ PollWatch
  \/ LeaveWatch \/ Terminate \/ Kill \/ Terminated \/ PollSettle

Next ==
  \/ \E killed \in BOOLEAN : Publish(killed)
  \/ \E r \in DOMAIN runs : Mission(r)
  \/ Supervise
  \/ HandleSignal

Spec == Init /\ [][Next]_vars

\* The supervisor goes on polling, its time-outs expire, and fork() does not
\* fail for ever.
FairSpec == Spec /\ WF_vars(Supervise) /\ SF_vars(Fork)

-----------------------------------------------------------------------------
TypeOK ==
  /\ last \in Report /\ rest \in Nat
  /\ inbox \in Seq(Report) /\ Len(inbox) <= Depth
  /\ node \in [killed : BOOLEAN, kills : Nat, release : Nat]
  /\ pc \in {"top", "wait", "fork", "watch", "sigint", "sigterm", "sigkill", "settle", "done"}
  /\ captured \in Nat /\ captured <= node.kills /\ node.kills <= node.release
  /\ shutdown \in BOOLEAN
  /\ runs \in Seq(Run)
  /\ active \in 0 .. Len(runs)

\* A mission is only ever started once nothing is left of those before it: two
\* of them would send sub_control setpoints in turn.
OneMission == \A r \in DOMAIN runs : r < Len(runs) => Dead(runs[r])

\* The supervisor does not exit and leave a mission behind, in a session that no
\* Ctrl-C reaches.
LeavesNothing == pc = "done" => \A r \in DOMAIN runs : Dead(runs[r])

\* No release has two runs: one that ended, however it did, is not followed by
\* another before the switch was engaged and released.
OneRunPerRelease ==
  \A r, s \in DOMAIN runs : r < s => runs[r].release < runs[s].release

\* Only in the release it began in does a run tick its tree: what the tree is
\* doing means nothing once sub_control dropped its commands and moved the pose's
\* origin, be the kill ever so short.
TicksInItsRelease ==
  [][\A r \in DOMAIN runs :
       runs[r].mission = "executing" /\ runs'[r].mission = "ticking"
         => runs[r].began = last.release]_vars

\* The last run, which none of the others outlives.
LastRuns == runs # <<>> /\ ~Dead(runs[Len(runs)])
LastServed == IF runs = <<>> THEN 0 ELSE runs[Len(runs)].release

Promise == INSTANCE Missions WITH releases <- last.release, running <- LastRuns,
                                  served <- LastServed, over <- pc = "done"

\* Polling, forking, signals, time-outs and crashes together are no more than
\* Missions says: each step is a release, the start or the end of the one
\* mission, the exit with none left, or nothing anyone can tell.
KeepsPromise == Promise!Spec

\* It has noted the kill count, and waits for a kill to end the release it is to
\* start, or has started, a run in.
Captured == pc \in {"fork", "watch", "sigint", "sigterm", "sigkill", "settle"}
Watched == IF pc = "fork" THEN node.release ELSE LastServed

\* It never waits for a kill that is over: when none was heard since it noted the
\* count, and none is waiting to be heard, the switch has not been engaged since.
MissesNoKill ==
  Captured /\ node.kills = captured /\ (\A i \in DOMAIN inbox : ~inbox[i].killed)
    => ~last.killed /\ Watched = last.release

\* The switch was released and stays so: a run follows, as the supervisor's
\* opening comment promises, unless it is shut down.
Restarts ==
  \A n \in 1 .. MaxReleases :
    ~last.killed /\ last.release = n
      ~> \/ last.killed \/ last.release # n \/ shutdown
         \/ \E r \in DOMAIN runs : runs[r].release = n
=============================================================================
