-------------------------- MODULE SupervisorProofs --------------------------
(***************************************************************************)
(* Proofs about Supervisor, for every value of its constants.              *)
(***************************************************************************)
EXTENDS Supervisor, QueueLemmas

USE QueueAssumption, BoundAssumption

\* An enqueued report is the last of the queue, which may have lost its oldest.
LEMMA Enqueued ==
  ASSUME NEW queue \in Seq(Report), NEW report \in Report
  PROVE  LET longer == Enqueue(queue, report) IN
         /\ longer \in Seq(Report)
         /\ Len(queue) <= Depth => Len(longer) <= Depth
         /\ \E lost \in {0, 1} :
              \A i \in DOMAIN longer :
                \/ i + lost \in DOMAIN queue /\ longer[i] = queue[i + lost]
                \/ (\A j \in DOMAIN longer : j <= i) /\ longer[i] = report
<1>1. CASE Len(queue) < Depth
  <2>1. Enqueue(queue, report) = Append(queue, report)
    BY <1>1 DEF Enqueue
  <2>2. \A i \in DOMAIN Append(queue, report) : i \in Nat
    BY AppendProperties, LenProperties
  <2>3. \A i \in DOMAIN Append(queue, report) :
          \/ i + 0 \in DOMAIN queue /\ Append(queue, report)[i] = queue[i + 0]
          \/ /\ \A j \in DOMAIN Append(queue, report) : j <= i
             /\ Append(queue, report)[i] = report
    BY <2>2, AppendIndex
  <2> QED
    BY <1>1, <2>1, <2>3, AppendProperties, LenProperties
<1>2. CASE ~(Len(queue) < Depth)
  <2>1. Len(queue) \in Nat /\ queue # <<>>
    BY <1>2, LenProperties
  <2>2. Tail(queue) \in Seq(Report) /\ Len(Tail(queue)) = Len(queue) - 1
    BY <2>1, HeadTailProperties
  <2>3. Enqueue(queue, report) = Append(Tail(queue), report)
    BY <1>2 DEF Enqueue
  <2>4. \A i \in DOMAIN Append(Tail(queue), report) :
          \/ i + 1 \in DOMAIN queue /\ Append(Tail(queue), report)[i] = queue[i + 1]
          \/ /\ \A j \in DOMAIN Append(Tail(queue), report) : j <= i
             /\ Append(Tail(queue), report)[i] = report
    BY <2>1, <2>2, TailIndex, AppendIndex
  <2> QED
    BY <2>1, <2>2, <2>3, <2>4, AppendProperties
<1> QED
  BY <1>1, <1>2

LEMMA GoneType ==
  ASSUME NEW run \in Run
  PROVE  /\ Gone(run) \in Run /\ Gone(run).mission = "gone"
         /\ Gone(run).wrapper = run.wrapper /\ Gone(run).release = run.release
  BY EmptySeq DEF Gone, Run

\* A signal leaves a run the one it was.
LEMMA SignalledType ==
  ASSUME NEW run \in Run, NEW after \in Interrupted(run)
  PROVE  after \in Run /\ after.release = run.release
<1>1. /\ [run EXCEPT !.interrupted = TRUE] \in Run
      /\ [run EXCEPT !.interrupted = TRUE].release = run.release
  BY DEF Run
<1>2. /\ [Gone(run) EXCEPT !.wrapper = "zombie"] \in Run
      /\ [Gone(run) EXCEPT !.wrapper = "zombie"].release = run.release
  BY GoneType DEF Run
<1>3. CASE run.mission \in {"starting", "gone"}
  BY <1>2, <1>3 DEF Signalled, Interrupted
<1>4. CASE run.mission \in {"waiting", "over"}
  BY <1>1, <1>4, GoneType DEF Signalled, Interrupted
<1>5. CASE run.mission \in {"arming", "executing", "ticking"}
  BY <1>1, <1>5 DEF Signalled, Interrupted
<1> QED
  BY <1>3, <1>4, <1>5 DEF Run

LEMMA ReportedType ==
  ASSUME TypeOK, NEW killed \in BOOLEAN
  PROVE  Reported(killed) \in Report
  BY DEF TypeOK, Reported, Report

-----------------------------------------------------------------------------
(* Types, and the order in which reports are heard. *)

\* Report b may follow report a: a release is one more than was heard of before.
Follows(a, b) ==
  /\ a.release <= b.release
  /\ a.killed /\ ~b.killed => a.release < b.release

\* Reports reach the supervisor in the order they were published, if at all.
InOrder ==
  /\ Follows(node, last)
  /\ \A i \in DOMAIN inbox : Follows(node, inbox[i]) /\ Follows(inbox[i], last)
  /\ \A i, j \in DOMAIN inbox : i < j => Follows(inbox[i], inbox[j])

\* Each kill it counted was followed by a release of its own, or is in force.
Counted == node.kills + (IF node.killed THEN 0 ELSE 1) <= node.release

Heeded == InOrder /\ Counted

\* What a poll leaves.
LEMMA SpinSomeHeeds ==
  ASSUME TypeOK, Heeded, SpinSome
  PROVE  /\ node' \in [killed : BOOLEAN, kills : Nat, release : Nat]
         /\ inbox' \in Seq(Report) /\ Len(inbox') <= Depth
         /\ node.kills <= node'.kills /\ node'.kills <= node'.release
         /\ last' = last /\ rest' \in Nat
         /\ Heeded'
         /\ Follows(node, node')
         /\ node'.kills # node.kills => node'.killed
<1>0. /\ node \in [killed : BOOLEAN, kills : Nat, release : Nat]
      /\ last \in Report /\ inbox \in Seq(Report) /\ Len(inbox) <= Depth
  BY DEF TypeOK
<1>1. CASE inbox = <<>>
  <2>1. node' = node /\ inbox' = inbox /\ last' = last /\ rest' = 0
    BY <1>1 DEF SpinSome, Heard
  <2>2. Follows(node, node')
    BY <1>0, <2>1 DEF Follows
  <2>3. Heeded'
    BY <1>0, <2>1 DEF Heeded, InOrder, Counted, Follows
  <2> QED
    BY <1>0, <2>1, <2>2, <2>3 DEF TypeOK
<1>2. CASE inbox # <<>>
  <2>1. /\ 1 \in DOMAIN inbox /\ Head(inbox) = inbox[1] /\ Head(inbox) \in Report
        /\ \A i \in DOMAIN Tail(inbox) : i \in Nat /\ 1 < i + 1 /\ i + 1 \in DOMAIN inbox
                                        /\ Tail(inbox)[i] = inbox[i + 1]
        /\ Tail(inbox) \in Seq(Report) /\ Len(Tail(inbox)) = Len(inbox) - 1
        /\ Len(inbox) \in Nat
    BY <1>0, <1>2, TailIndex, HeadTailProperties, LenProperties
  <2>2. /\ node'.killed = inbox[1].killed /\ node'.release = inbox[1].release
        /\ node'.kills = node.kills + IF inbox[1].killed /\ ~node.killed THEN 1 ELSE 0
        /\ node' = [killed |-> node'.killed, kills |-> node'.kills, release |-> node'.release]
        /\ inbox' = Tail(inbox) /\ last' = last /\ rest' = 0
    BY <1>2, <2>1 DEF SpinSome, Heard
  <2>3. inbox[1] \in Report /\ Follows(node, inbox[1])
    BY <2>1 DEF Heeded, InOrder
  <2>4. /\ node' \in [killed : BOOLEAN, kills : Nat, release : Nat]
        /\ Follows(node, node') /\ node.kills <= node'.kills
        /\ node'.kills # node.kills => node'.killed
    BY <1>0, <2>2, <2>3 DEF Follows, Report
  <2>5. Counted' /\ node'.kills <= node'.release
    BY <1>0, <2>2, <2>3, <2>4 DEF Heeded, Counted, Follows, Report
  <2>6. InOrder'
    <3>1. \A report : Follows(inbox[1], report) => Follows(node', report)
      BY <2>2 DEF Follows
    <3>2. \A i \in DOMAIN inbox' : /\ Follows(inbox[1], inbox'[i])
                                   /\ Follows(inbox'[i], last)
      BY <2>1, <2>2 DEF Heeded, InOrder
    <3>3. \A i, j \in DOMAIN inbox' : i < j => Follows(inbox'[i], inbox'[j])
      BY <2>1, <2>2 DEF Heeded, InOrder
    <3>4. Follows(inbox[1], last)
      BY <2>1 DEF Heeded, InOrder
    <3> QED
      BY <2>2, <3>1, <3>2, <3>3, <3>4 DEF InOrder
  <2> QED
    BY <1>0, <2>1, <2>2, <2>4, <2>5, <2>6 DEF Heeded
<1> QED
  BY <1>1, <1>2

\* A report published follows the last one, and so all before it.
LEMMA PublishHeeds ==
  ASSUME TypeOK, Heeded, NEW killed \in BOOLEAN, Publish(killed)
  PROVE  Heeded'
<1>1. last' = Reported(killed) /\ last' \in Report /\ node' = node
      /\ inbox' = Enqueue(inbox, last')
  BY ReportedType DEF Publish
<1>2. \A report : Follows(report, last) /\ report.release \in Nat => Follows(report, last')
  BY <1>1 DEF Reported, Follows, TypeOK, Report
<1>3. /\ node.release \in Nat /\ last.release \in Nat
      /\ inbox \in Seq(Report) /\ \A i \in DOMAIN inbox : inbox[i].release \in Nat
  <2>1. inbox \in Seq(Report) /\ DOMAIN inbox = 1 .. Len(inbox)
    BY LenProperties DEF TypeOK
  <2>2. \A i \in DOMAIN inbox : inbox[i] \in Report
    BY <2>1, ElementOfSeq
  <2> QED
    BY <2>1, <2>2 DEF TypeOK, Report
<1>4. /\ Follows(node, last') /\ Follows(last', last')
      /\ \A i \in DOMAIN inbox : Follows(inbox[i], last')
  BY <1>1, <1>2, <1>3 DEF Heeded, InOrder, Follows, Report
<1>5. PICK lost \in {0, 1} :
        \A i \in DOMAIN inbox' :
          \/ i + lost \in DOMAIN inbox /\ inbox'[i] = inbox[i + lost]
          \/ (\A j \in DOMAIN inbox' : j <= i) /\ inbox'[i] = last'
  <2>1. inbox' = Enqueue(inbox, last') /\ last' \in Report /\ inbox \in Seq(Report)
    BY <1>1, <1>3
  <2>2. \E lost \in {0, 1} :
          \A i \in DOMAIN Enqueue(inbox, last') :
            \/ i + lost \in DOMAIN inbox /\ Enqueue(inbox, last')[i] = inbox[i + lost]
            \/ /\ \A j \in DOMAIN Enqueue(inbox, last') : j <= i
               /\ Enqueue(inbox, last')[i] = last'
    BY <2>1, Enqueued
  <2> QED
    BY <2>1, <2>2
<1>6. \A i \in DOMAIN inbox' : i \in Nat
  <2>1. inbox' \in Seq(Report)
    BY <1>1, <1>3, Enqueued
  <2> QED
    BY <2>1, LenProperties
<1>7. \A i, j \in DOMAIN inbox' : i < j => Follows(inbox'[i], inbox'[j])
  <2> SUFFICES ASSUME NEW i \in DOMAIN inbox', NEW j \in DOMAIN inbox', i < j
               PROVE  Follows(inbox'[i], inbox'[j])
    OBVIOUS
  <2>1. i + lost \in DOMAIN inbox /\ inbox'[i] = inbox[i + lost]
    BY <1>5, <1>6
  <2>2. CASE j + lost \in DOMAIN inbox /\ inbox'[j] = inbox[j + lost]
    BY <1>6, <2>1, <2>2 DEF Heeded, InOrder
  <2>3. CASE inbox'[j] = last'
    BY <1>4, <2>1, <2>3
  <2> QED
    BY <1>5, <2>2, <2>3
<1>8. \A i \in DOMAIN inbox' : Follows(node, inbox'[i]) /\ Follows(inbox'[i], last')
  BY <1>4, <1>5 DEF Heeded, InOrder
<1> QED
  BY <1>1, <1>4, <1>7, <1>8 DEF Heeded, InOrder, Counted

\* A run's record that changes stays a run's.
LEMMA RunChanges ==
  ASSUME TypeOK, NEW r \in DOMAIN runs, NEW run \in Run,
         runs' = [runs EXCEPT ![r] = run]
  PROVE  /\ runs' \in Seq(Run) /\ Len(runs') = Len(runs)
         /\ DOMAIN runs' = DOMAIN runs /\ r \in 1 .. Len(runs)
         /\ runs'[r] = run
         /\ \A s \in DOMAIN runs : s # r => runs'[s] = runs[s]
<1>1. runs \in Seq(Run) /\ DOMAIN runs = 1 .. Len(runs)
  BY LenProperties DEF TypeOK
<1> QED
  BY <1>1, ExceptSeq

LEMMA RunType ==
  ASSUME TypeOK, NEW r \in DOMAIN runs
  PROVE  runs[r] \in Run /\ r \in 1 .. Len(runs)
  BY ElementOfSeq, LenProperties DEF TypeOK

\* Every step of a mission process leaves its record a run's, of the same release.
LEMMA MissionType ==
  ASSUME TypeOK, NEW r \in DOMAIN runs, Mission(r)
  PROVE  \E run \in Run : /\ Becomes(r, run)
                          /\ run.release = runs[r].release
                          /\ ~Dead(runs[r])
                          /\ run.wrapper = runs[r].wrapper \/ Dead(run)
<1>0. runs[r] \in Run /\ last \in Report
  BY RunType DEF TypeOK
<1>1. CASE MissionStarts(r)
  <2>1. <<last>> \in Seq(Report)
    BY <1>0
  <2>2. [runs[r] EXCEPT !.mission = "waiting", !.heard = <<last>>] \in Run
    BY <1>0, <2>1 DEF Run
  <2> QED
    BY <1>0, <1>1, <2>2 DEF MissionStarts, Run, Dead
<1>2. CASE MissionKillCallback(r)
  <2>1. /\ runs[r].heard # <<>> /\ runs[r].mission # "gone"
        /\ runs[r].heard \in Seq(Report)
    BY <1>0, <1>2 DEF MissionKillCallback, Listening, Run
  <2>2. Head(runs[r].heard).killed \in BOOLEAN /\ Tail(runs[r].heard) \in Seq(Report)
    <3>1. /\ Head(runs[r].heard) \in Report
          /\ Tail(runs[r].heard) \in Seq(Report)
      BY <2>1, HeadTailProperties
    <3> QED
      BY <3>1 DEF Report
  <2> DEFINE engaged == Head(runs[r].heard).killed
             run == [runs[r] EXCEPT !.killed = engaged,
                                    !.since = runs[r].since \/ (engaged /\ ~runs[r].killed),
                                    !.heard = Tail(runs[r].heard)]
  <2>3. run \in Run /\ run.release = runs[r].release /\ run.wrapper = runs[r].wrapper
    BY <1>0, <2>2 DEF Run
  <2>4. Becomes(r, run)
    BY <1>2 DEF MissionKillCallback
  <2> HIDE DEF run
  <2> QED
    BY <2>1, <2>3, <2>4 DEF Dead
<1>3. CASE MissionReleased(r)
  BY <1>0, <1>3 DEF MissionReleased, Run, Dead
<1>4. CASE MissionExecutes(r)
  <2> DEFINE next == IF runs[r].killed THEN "over" ELSE "executing"
             run == [runs[r] EXCEPT !.mission = next, !.since = FALSE, !.began = last.release]
  <2>1. last.release \in Nat
    BY <1>0 DEF Report
  <2>2. run \in Run /\ run.release = runs[r].release /\ run.wrapper = runs[r].wrapper
    BY <1>0, <2>1 DEF Run
  <2>3. Becomes(r, run) /\ runs[r].mission # "gone"
    BY <1>4 DEF MissionExecutes
  <2> HIDE DEF run
  <2> QED
    BY <2>2, <2>3 DEF Dead
<1>5. CASE MissionTicks(r)
  BY <1>0, <1>5 DEF MissionTicks, Run, Dead
<1>6. CASE MissionTicked(r)
  BY <1>0, <1>6 DEF MissionTicked, Run, Dead
<1>7. CASE MissionStops(r)
  BY <1>0, <1>7 DEF MissionStops, Run, Dead
<1>8. CASE MissionExits(r)
  BY <1>0, <1>8, GoneType DEF MissionExits, Dead
<1>9. CASE WrapperExits(r)
  BY <1>0, <1>9 DEF WrapperExits, Run, Dead
<1> QED
  BY <1>1, <1>2, <1>3, <1>4, <1>5, <1>6, <1>7, <1>8, <1>9 DEF Mission

\* A report published leaves every run as typed, and as dead, as it was.
LEMMA PublishRuns ==
  ASSUME TypeOK, NEW killed \in BOOLEAN, Publish(killed)
  PROVE  /\ runs' \in Seq(Run) /\ Len(runs') = Len(runs) /\ DOMAIN runs' = DOMAIN runs
         /\ \A r \in DOMAIN runs : /\ runs'[r].release = runs[r].release
                                   /\ Dead(runs[r]) => Dead(runs'[r])
                                   /\ runs'[r].wrapper = runs[r].wrapper
         /\ last' \in Report /\ rest' \in Nat
         /\ inbox' \in Seq(Report) /\ Len(inbox') <= Depth
<1>1. last' \in Report
  BY ReportedType DEF Publish
<1>2. inbox' \in Seq(Report) /\ Len(inbox') <= Depth
  <2>1. inbox \in Seq(Report) /\ Len(inbox) <= Depth /\ inbox' = Enqueue(inbox, last')
    BY DEF TypeOK, Publish
  <2> QED
    BY <1>1, <2>1, Enqueued
<1>3. rest' \in Nat
  BY DEF TypeOK, Publish
<1>4. ASSUME NEW r \in DOMAIN runs
      PROVE  /\ runs'[r] \in Run /\ runs'[r].release = runs[r].release
             /\ Dead(runs[r]) => Dead(runs'[r])
             /\ runs'[r].wrapper = runs[r].wrapper
  <2>1. runs[r] \in Run
    BY RunType
  <2>2. Enqueue(runs[r].heard, last') \in Seq(Report)
    <3>1. runs[r].heard \in Seq(Report)
      BY <2>1 DEF Run
    <3> QED
      BY <1>1, <3>1, Enqueued
  <2>3. runs'[r] = IF Listening(runs[r])
                     THEN [runs[r] EXCEPT !.heard = Enqueue(runs[r].heard, last')]
                     ELSE runs[r]
    BY DEF Publish
  <2> QED
    BY <2>1, <2>2, <2>3 DEF Run, Dead, Listening
<1>5. runs' = [r \in DOMAIN runs |-> runs'[r]]
  BY DEF Publish
<1>6. runs' \in Seq(Run) /\ Len(runs') = Len(runs) /\ DOMAIN runs' = DOMAIN runs
  <2>1. runs \in Seq(Run)
    BY DEF TypeOK
  <2> QED
    BY <1>4, <1>5, <2>1, MapInSeq
<1> QED
  BY <1>1, <1>2, <1>3, <1>4, <1>6

\* What each step of the supervisor does to the runs: nothing, a change of the
\* active one, or a new one.
LEMMA SignalRuns ==
  ASSUME TypeOK, active \in DOMAIN runs, NEW run \in Interrupted(runs[active]),
         NEW wrapper \in {run.wrapper, "zombie"},
         runs' = [runs EXCEPT ![active] = [run EXCEPT !.wrapper = wrapper]]
  PROVE  /\ runs' \in Seq(Run) /\ Len(runs') = Len(runs) /\ DOMAIN runs' = DOMAIN runs
         /\ \A r \in DOMAIN runs : /\ runs'[r].release = runs[r].release
                                   /\ r # active => runs'[r] = runs[r]
<1>1. run \in Run /\ run.release = runs[active].release
  BY RunType, SignalledType
<1>2. /\ [run EXCEPT !.wrapper = wrapper] \in Run
      /\ [run EXCEPT !.wrapper = wrapper].release = runs[active].release
  BY <1>1 DEF Run
<1> QED
  BY <1>2, RunChanges

-----------------------------------------------------------------------------
(* The inductive invariant. *)

Stopping == {"sigint", "sigterm", "sigkill"}

\* main() watches the last run, or none; nothing of the others is left.  Until it
\* sends signals, ros2 run outlives the mission.
Supervised ==
  /\ pc \in {"watch"} \cup Stopping <=> active # 0
  /\ active # 0 => active = Len(runs)
  /\ \A r \in DOMAIN runs : r # active => Dead(runs[r])
  /\ pc = "watch" => \A r \in DOMAIN runs : runs[r].wrapper # "alive" => Dead(runs[r])

\* The supervisor is past a release: it heard of a later one, or of the kill
\* that ends it.
Past(heard, release) ==
  IF heard.killed THEN release <= heard.release ELSE release < heard.release

\* It is past the releases of all runs when it looks for the next to start.
Released ==
  /\ OneRunPerRelease
  /\ pc = "fork" => ~node.killed /\ captured = node.kills
  /\ \A r \in DOMAIN runs :
       /\ runs[r].release <= node.release
       /\ node.kills # captured \/ pc \in {"top", "wait", "fork"} => Past(node, runs[r].release)

Inv == TypeOK /\ Heeded /\ Supervised /\ Released

LEMMA InitInv == Init => Inv
<1> SUFFICES ASSUME Init PROVE Inv
  OBVIOUS
<1>1. last \in Report /\ inbox = <<last>> /\ inbox \in Seq(Report) /\ Len(inbox) = 1
  <2>1. last \in Report
    <3>1. \A killed \in BOOLEAN, release \in Nat :
            [killed |-> killed, release |-> release] \in Report
      BY DEF Report
    <3> QED
      BY <3>1 DEF Init
  <2> QED
    BY <2>1 DEF Init
<1>2. runs = <<>> /\ runs \in Seq(Run) /\ Len(runs) = 0 /\ DOMAIN runs = {}
  BY EmptySeq DEF Init
<1>3. TypeOK
  <2>1. Len(inbox) <= Depth /\ rest \in Nat /\ 0 \in 0 .. Len(runs)
    BY <1>1, <1>2 DEF Init
  <2>2. /\ node \in [killed : BOOLEAN, kills : Nat, release : Nat]
        /\ captured = 0 /\ node.kills = 0 /\ node.release = 0
        /\ pc = "top" /\ active = 0 /\ shutdown = FALSE
    BY DEF Init
  <2>3. inbox \in Seq(Report) /\ runs \in Seq(Run) /\ last \in Report
    BY <1>1, <1>2
  <2>4. active \in 0 .. Len(runs)
    BY <2>1, <2>2
  <2>5. captured \in Nat /\ captured <= node.kills /\ node.kills <= node.release
    BY <2>2
  <2> QED
    BY <2>1, <2>2, <2>3, <2>4, <2>5 DEF TypeOK
<1>4. Heeded
  <2>1. DOMAIN inbox = {1} /\ inbox[1] = last
    BY <1>1
  <2>2. Follows(node, last) /\ Follows(last, last)
    BY DEF Init, Follows
  <2> QED
    BY <2>1, <2>2 DEF Heeded, InOrder, Counted, Init
<1>5. Supervised /\ Released
  BY <1>2 DEF Init, Supervised, Stopping, Released, OneRunPerRelease
<1> QED
  BY <1>3, <1>4, <1>5 DEF Inv

LEMMA ActiveIsARun ==
  ASSUME TypeOK, Supervised, pc \in {"watch"} \cup Stopping
  PROVE  active \in DOMAIN runs /\ active = Len(runs) /\ active # 0
<1>1. active # 0 /\ active = Len(runs) /\ Len(runs) \in Nat /\ DOMAIN runs = 1 .. Len(runs)
  BY LenProperties DEF Supervised, TypeOK
<1> QED
  BY <1>1

\* Nothing the runs do disturbs what is known of their releases.
LEMMA SameReleases ==
  ASSUME Inv, DOMAIN runs' = DOMAIN runs,
         \A r \in DOMAIN runs : runs'[r].release = runs[r].release
  PROVE  /\ OneRunPerRelease'
         /\ node' = node => \A r \in DOMAIN runs' : runs'[r].release <= node'.release
         /\ node' = node => \A r \in DOMAIN runs :
                               Past(node, runs[r].release) => Past(node', runs'[r].release)
<1>1. \A r \in DOMAIN runs : runs[r].release <= node.release
  BY DEF Inv, Released
<1>2. OneRunPerRelease
  BY DEF Inv, Released
<1>3. OneRunPerRelease'
  BY <1>2 DEF OneRunPerRelease
<1> QED
  BY <1>1, <1>3

\* Once past a release, always past it; and counting a kill is getting past it.
LEMMA SpinSomePast ==
  ASSUME Inv, SpinSome, NEW r \in DOMAIN runs
  PROVE  /\ runs[r].release <= node'.release
         /\ Past(node, runs[r].release) => Past(node', runs[r].release)
         /\ node'.kills # node.kills => Past(node', runs[r].release)
<1>1. /\ Follows(node, node')
      /\ node'.kills # node.kills => node'.killed
      /\ node.release \in Nat /\ node'.release \in Nat
      /\ node.killed \in BOOLEAN /\ node'.killed \in BOOLEAN
  BY SpinSomeHeeds DEF Inv, TypeOK
<1>2. runs[r].release \in Nat /\ runs[r].release <= node.release
  BY RunType DEF Inv, Released, Run
<1> QED
  BY <1>1, <1>2 DEF Past, Follows

\* Steps that leave main() and what it heard alone, and what is dead dead.
LEMMA RunsKeep ==
  ASSUME Inv, UNCHANGED <<node, main>>,
         DOMAIN runs' = DOMAIN runs, Len(runs') = Len(runs),
         \A r \in DOMAIN runs : /\ runs'[r].release = runs[r].release
                                /\ Dead(runs[r]) => Dead(runs'[r])
                                /\ runs'[r].wrapper # runs[r].wrapper => Dead(runs'[r])
  PROVE  Supervised' /\ Released'
<1>1. /\ pc' = pc /\ captured' = captured /\ active' = active /\ node' = node
  BY DEF main
<1>2. Supervised'
  BY <1>1 DEF Inv, Supervised, Stopping, Dead
<1>3. OneRunPerRelease'
  BY SameReleases
<1>4. Released'
  BY <1>1, <1>3 DEF Inv, Released, Past
<1> QED
  BY <1>2, <1>4

\* The steps outside the supervisor.
LEMMA OutsideKeeps ==
  ASSUME Inv, \/ \E killed \in BOOLEAN : Publish(killed)
              \/ \E r \in DOMAIN runs : Mission(r)
              \/ HandleSignal
              \/ UNCHANGED vars
  PROVE  Inv'
<1> USE DEF Inv
<1>1. ASSUME NEW killed \in BOOLEAN, Publish(killed) PROVE Inv'
  <2>1. UNCHANGED <<node, main>>
    BY <1>1 DEF Publish
  <2>2. /\ runs' \in Seq(Run) /\ Len(runs') = Len(runs) /\ DOMAIN runs' = DOMAIN runs
        /\ \A r \in DOMAIN runs : /\ runs'[r].release = runs[r].release
                                  /\ Dead(runs[r]) => Dead(runs'[r])
                                  /\ runs'[r].wrapper = runs[r].wrapper
        /\ last' \in Report /\ rest' \in Nat
        /\ inbox' \in Seq(Report) /\ Len(inbox') <= Depth
    BY <1>1, PublishRuns
  <2>3. TypeOK'
    BY <2>1, <2>2 DEF TypeOK, main
  <2>4. Heeded'
    BY <1>1, PublishHeeds
  <2> QED
    BY <2>1, <2>2, <2>3, <2>4, RunsKeep
<1>2. ASSUME NEW r \in DOMAIN runs, Mission(r) PROVE Inv'
  <2>1. PICK run \in Run : /\ Becomes(r, run) /\ run.release = runs[r].release
                           /\ ~Dead(runs[r])
                           /\ run.wrapper = runs[r].wrapper \/ Dead(run)
    BY <1>2, MissionType
  <2>2. UNCHANGED <<last, rest, inbox, node, main>>
    BY <2>1 DEF Becomes
  <2>3. /\ runs' \in Seq(Run) /\ Len(runs') = Len(runs) /\ DOMAIN runs' = DOMAIN runs
        /\ runs'[r] = run
        /\ \A s \in DOMAIN runs : /\ runs'[s].release = runs[s].release
                                  /\ s # r => runs'[s] = runs[s]
    BY <2>1, RunChanges DEF Becomes
  <2>4. TypeOK'
    BY <2>2, <2>3 DEF TypeOK, main
  <2>5. Heeded'
    BY <2>2 DEF Heeded, InOrder, Counted, main
  <2>6. \A s \in DOMAIN runs :
          /\ Dead(runs[s]) => Dead(runs'[s])
          /\ runs'[s].wrapper # runs[s].wrapper => Dead(runs'[s])
    BY <2>1, <2>3
  <2> QED
    BY <2>2, <2>3, <2>4, <2>5, <2>6, RunsKeep
<1>3. CASE HandleSignal
  BY <1>3 DEF HandleSignal, TypeOK, Heeded, InOrder, Counted, Supervised, Stopping, Released,
              OneRunPerRelease
<1>4. CASE UNCHANGED vars
  BY <1>4 DEF vars, main, TypeOK, Heeded, InOrder, Counted, Supervised, Stopping, Released,
              OneRunPerRelease
<1> QED
  BY <1>1, <1>2, <1>3, <1>4

\* A poll, wherever it goes on to with the runs as they are.
LEMMA PollKeeps ==
  ASSUME Inv, PollTop \/ PollWait \/ PollSettle \/ (PollWatch /\ UNCHANGED <<pc, runs>>)
  PROVE  Inv'
<1> USE DEF Inv
<1>1. SpinSome /\ UNCHANGED <<active, shutdown, runs>>
  BY DEF PollTop, PollWait, PollSettle, PollWatch
<1>2. /\ node' \in [killed : BOOLEAN, kills : Nat, release : Nat]
      /\ inbox' \in Seq(Report) /\ Len(inbox') <= Depth
      /\ node.kills <= node'.kills /\ node'.kills <= node'.release
      /\ last' = last /\ rest' \in Nat /\ Heeded'
  BY <1>1, SpinSomeHeeds
<1>3. \A r \in DOMAIN runs :
        /\ runs[r].release <= node'.release
        /\ Past(node, runs[r].release) => Past(node', runs[r].release)
        /\ node'.kills # node.kills => Past(node', runs[r].release)
  BY <1>1, SpinSomePast
<1>4. /\ pc' \in {"top", "wait", "fork", "watch", "settle"}
      /\ pc = "watch" <=> pc' = "watch"
      /\ captured' = captured \/ captured' = node'.kills
      /\ pc' = "fork" => ~node'.killed /\ captured' = node'.kills
      /\ pc \notin Stopping
      /\ pc' \in {"top", "wait", "fork"} => \/ pc \in {"top", "wait", "fork"}
                                           \/ node'.kills # captured
  BY DEF PollTop, PollWait, PollSettle, PollWatch, Stopping
<1>5. TypeOK'
  <2>1. captured' \in Nat /\ captured' <= node'.kills
    BY <1>2, <1>4 DEF TypeOK
  <2> QED
    BY <1>1, <1>2, <1>4, <2>1 DEF TypeOK
<1>6. Supervised'
  BY <1>1, <1>4 DEF Supervised, Stopping
<1>7. Released'
  <2>1. ASSUME NEW r \in DOMAIN runs,
               node'.kills # captured' \/ pc' \in {"top", "wait", "fork"}
        PROVE  Past(node', runs[r].release)
    BY <1>3, <1>4, <2>1 DEF Released
  <2> QED
    BY <1>1, <1>3, <1>4, <2>1 DEF Released, OneRunPerRelease
<1> QED
  BY <1>2, <1>5, <1>6, <1>7

\* What Heeded says is about the switch and what was heard of it.
LEMMA HeededKept == Heeded /\ UNCHANGED <<last, inbox, node>> => Heeded'
  BY DEF Heeded, InOrder, Counted

LEMMA PastKept ==
  ASSUME Inv, node' = node
  PROVE  \A r \in DOMAIN runs :
           /\ runs[r].release <= node'.release
           /\ node'.kills # captured => Past(node', runs[r].release)
  BY DEF Inv, Released

\* A step that changes the active run as a signal or waitpid does, and goes on
\* watching it or, once it is dead, does not.
LEMMA ActiveKeeps ==
  ASSUME Inv, pc \in {"watch"} \cup Stopping, active \in DOMAIN runs,
         runs' \in Seq(Run), Len(runs') = Len(runs), DOMAIN runs' = DOMAIN runs,
         \A r \in DOMAIN runs : runs'[r].release = runs[r].release,
         \A r \in DOMAIN runs : r # active => runs'[r] = runs[r],
         captured' = captured,
         \A r \in DOMAIN runs :
           /\ runs[r].release <= node'.release
           /\ node'.kills # captured => Past(node', runs[r].release),
         \/ pc' \in Stopping /\ active' = active
         \/ pc' = "settle" /\ active' = 0 /\ Dead(runs'[active])
  PROVE  Supervised' /\ Released'
<1>1. \A r \in DOMAIN runs : r # active => Dead(runs'[r])
  BY DEF Inv, Supervised
<1>2. active # 0 /\ active = Len(runs)
  BY DEF Inv, Supervised
<1>3. \A r \in DOMAIN runs : r # active' => Dead(runs'[r])
  BY <1>1
<1>4. Supervised'
  <2>1. CASE pc' \in Stopping /\ active' = active
    BY <1>2, <1>3, <2>1 DEF Supervised, Dead, Stopping
  <2>2. CASE pc' = "settle" /\ active' = 0
    BY <1>3, <2>2 DEF Supervised, Dead, Stopping
  <2> QED
    BY <2>1, <2>2
<1>5. OneRunPerRelease'
  BY SameReleases
<1>6. Released'
  BY <1>5 DEF Inv, Released, Past, Stopping
<1> QED
  BY <1>4, <1>6

\* SIGINT to the group.
LEMMA InterruptRuns ==
  ASSUME TypeOK, active \in DOMAIN runs, Interrupt
  PROVE  /\ runs' \in Seq(Run) /\ Len(runs') = Len(runs) /\ DOMAIN runs' = DOMAIN runs
         /\ \A r \in DOMAIN runs : runs'[r].release = runs[r].release
         /\ \A r \in DOMAIN runs : r # active => runs'[r] = runs[r]
<1>1. PICK run \in Interrupted(runs[active]) : runs' = [runs EXCEPT ![active] = run]
  BY DEF Interrupt
<1>2. run \in Run /\ run.release = runs[active].release
  BY RunType, SignalledType
<1> QED
  BY <1>1, <1>2, RunChanges

\* The steps of the supervisor.
LEMMA SuperviseKeeps ==
  ASSUME Inv, Supervise
  PROVE  Inv'
<1> USE DEF Inv
<1>1. CASE Leave
  <2>1. TypeOK' /\ Heeded'
    BY <1>1, HeededKept DEF Leave, TypeOK
  <2>2. Supervised' /\ Released'
    BY <1>1 DEF Leave, Supervised, Stopping, Released, OneRunPerRelease, Past, Dead
  <2> QED
    BY <2>1, <2>2
<1>2. CASE PollTop \/ PollWait \/ PollSettle
  BY <1>2, PollKeeps
<1>3. CASE Fork
  <2> DEFINE new == [mission |-> "starting", wrapper |-> "alive",
                     interrupted |-> FALSE, killed |-> TRUE, since |-> FALSE,
                     heard |-> <<>>, release |-> node.release, began |-> 0]
  <2>1. /\ runs' = Append(runs, new) /\ active' = Len(runs) + 1 /\ pc' = "watch" /\ pc = "fork"
        /\ UNCHANGED <<last, rest, inbox, node, captured, shutdown>>
    BY <1>3 DEF Fork
  <2>2. new \in Run /\ new.release = node.release
    <3>1. node.release \in Nat
      BY DEF TypeOK
    <3> QED
      BY <3>1, EmptySeq DEF Run
  <2>3. runs \in Seq(Run) /\ Len(runs) \in Nat /\ DOMAIN runs = 1 .. Len(runs)
    BY LenProperties DEF TypeOK
  <2>4. /\ runs' \in Seq(Run) /\ Len(runs') = Len(runs) + 1
        /\ DOMAIN runs' = 1 .. Len(runs) + 1
        /\ runs'[Len(runs) + 1] = new
        /\ \A r \in 1 .. Len(runs) : runs'[r] = runs[r]
    <3> HIDE DEF new
    <3> QED
      BY <2>1, <2>2, <2>3, AppendProperties, LenProperties
  <2> HIDE DEF new
  <2>5. TypeOK'
    BY <2>1, <2>3, <2>4 DEF TypeOK
  <2>6. Heeded'
    BY <2>1, HeededKept
  <2>7. active = 0 /\ \A r \in DOMAIN runs : Dead(runs[r])
    BY <2>1, <2>3 DEF Supervised, Stopping
  <2>8. Supervised'
    <3>1. active' # 0 /\ active' = Len(runs') /\ pc' = "watch"
      BY <2>1, <2>3, <2>4
    <3>2. \A r \in DOMAIN runs' : r # active' => Dead(runs'[r])
      BY <2>1, <2>3, <2>4, <2>7
    <3>3. runs'[active'].wrapper = "alive"
      BY <2>1, <2>4 DEF new
    <3> QED
      BY <3>1, <3>2, <3>3 DEF Supervised, Stopping, Dead
  <2>9. ~node.killed /\ captured = node.kills
        /\ \A r \in DOMAIN runs : runs[r].release < node.release
    BY <2>1 DEF Released, Past
  <2>10. OneRunPerRelease'
    <3>1. OneRunPerRelease
      BY DEF Released
    <3> QED
      BY <2>2, <2>3, <2>4, <2>9, <3>1 DEF OneRunPerRelease
  <2>11. \A r \in DOMAIN runs' : runs'[r].release <= node'.release
    <3>1. \A r \in DOMAIN runs : runs[r].release <= node.release
      BY DEF Released
    <3>2. node.release \in Nat
      BY DEF TypeOK
    <3> QED
      BY <2>1, <2>2, <2>3, <2>4, <3>1, <3>2
  <2>12. Released'
    BY <2>1, <2>9, <2>10, <2>11 DEF Released
  <2> QED
    BY <2>5, <2>6, <2>8, <2>12
<1>4. CASE ForkFails
  <2>1. TypeOK' /\ Heeded'
    BY <1>4, HeededKept DEF ForkFails, TypeOK
  <2>2. Supervised' /\ Released'
    BY <1>4 DEF ForkFails, Supervised, Stopping, Released, OneRunPerRelease, Past, Dead
  <2> QED
    BY <2>1, <2>2
<1>5. CASE Reap \/ Terminated
  <2>1. active \in DOMAIN runs /\ pc \in {"watch"} \cup Stopping
    BY <1>5, ActiveIsARun DEF Reap, Terminated, Stopping
  <2>2. /\ runs[active].wrapper # "alive"
        /\ runs' = [runs EXCEPT ![active].wrapper = "reaped"]
        /\ active' = 0 /\ pc' = "settle"
        /\ UNCHANGED <<last, rest, inbox, node, captured, shutdown>>
    BY <1>5 DEF Reap, Terminated, GroupExited, Dead
  <2>3. runs[active] \in Run
    BY <2>1, RunType
  <2>4. Dead(runs[active])
    BY <1>5, <2>1 DEF Terminated, GroupExited, Reap, Supervised
  <2>5. CASE Dead(runs[active])
    <3> DEFINE run == [runs[active] EXCEPT !.wrapper = "reaped"]
    <3>1. run \in Run /\ run.release = runs[active].release /\ Dead(run)
      BY <2>3, <2>5 DEF Run, Dead
    <3>2. runs' = [runs EXCEPT ![active] = run]
      BY <2>2
    <3> HIDE DEF run
    <3>3. /\ runs' \in Seq(Run) /\ Len(runs') = Len(runs) /\ DOMAIN runs' = DOMAIN runs
          /\ runs'[active] = run
          /\ \A r \in DOMAIN runs : r # active => runs'[r] = runs[r]
      BY <2>1, <3>1, <3>2, RunChanges
    <3>4. \A r \in DOMAIN runs : runs'[r].release = runs[r].release
      BY <3>1, <3>3
    <3>5. Supervised' /\ Released'
      BY <2>1, <2>2, <3>1, <3>3, <3>4, PastKept, ActiveKeeps
    <3>6. TypeOK' /\ Heeded'
      BY <2>2, <3>3, HeededKept, LenProperties DEF TypeOK
    <3> QED
      BY <3>5, <3>6
  <2> QED
    BY <2>4, <2>5
<1>6. CASE PollWatch
  <2>1. active \in DOMAIN runs /\ SpinSome /\ UNCHANGED <<captured, active, shutdown>>
    BY <1>6, ActiveIsARun DEF PollWatch
  <2>2. CASE UNCHANGED <<pc, runs>>
    BY <1>6, <2>2, PollKeeps
  <2>3. CASE node'.kills # captured /\ Interrupt
    <3>1. pc = "watch" /\ pc' = "sigint"
      BY <1>6, <2>3 DEF PollWatch, Interrupt
    <3>2. /\ node' \in [killed : BOOLEAN, kills : Nat, release : Nat]
          /\ inbox' \in Seq(Report) /\ Len(inbox') <= Depth
          /\ node.kills <= node'.kills /\ node'.kills <= node'.release
          /\ last' = last /\ rest' \in Nat /\ Heeded'
      BY <2>1, SpinSomeHeeds
    <3>3. \A r \in DOMAIN runs :
            /\ runs[r].release <= node'.release
            /\ node'.kills # captured => Past(node', runs[r].release)
      BY <2>1, SpinSomePast DEF Released
    <3>4. /\ runs' \in Seq(Run) /\ Len(runs') = Len(runs) /\ DOMAIN runs' = DOMAIN runs
          /\ \A r \in DOMAIN runs : runs'[r].release = runs[r].release
          /\ \A r \in DOMAIN runs : r # active => runs'[r] = runs[r]
      BY <2>1, <2>3, InterruptRuns
    <3>5. Supervised' /\ Released'
      BY <2>1, <3>1, <3>3, <3>4, ActiveKeeps DEF Stopping
    <3>6. captured' \in Nat /\ captured' <= node'.kills
      BY <2>1, <3>2 DEF TypeOK
    <3>7. TypeOK'
      BY <2>1, <3>1, <3>2, <3>4, <3>6 DEF TypeOK
    <3> QED
      BY <3>2, <3>5, <3>7
  <2> QED
    BY <1>6, <2>2, <2>3 DEF PollWatch
<1>7. CASE LeaveWatch
  <2>1. /\ active \in DOMAIN runs /\ pc = "watch" /\ pc' = "sigint" /\ Interrupt
        /\ UNCHANGED <<last, rest, inbox, node, captured, active, shutdown>>
    BY <1>7, ActiveIsARun DEF LeaveWatch, Interrupt
  <2>2. /\ runs' \in Seq(Run) /\ Len(runs') = Len(runs) /\ DOMAIN runs' = DOMAIN runs
        /\ \A r \in DOMAIN runs : runs'[r].release = runs[r].release
        /\ \A r \in DOMAIN runs : r # active => runs'[r] = runs[r]
    BY <2>1, InterruptRuns
  <2>3. Supervised' /\ Released'
    BY <2>1, <2>2, PastKept, ActiveKeeps DEF Stopping
  <2> QED
    BY <2>1, <2>2, <2>3, HeededKept DEF TypeOK
<1>8. CASE Terminate
  <2>1. /\ active \in DOMAIN runs /\ pc = "sigint" /\ pc' = "sigterm"
        /\ UNCHANGED <<last, rest, inbox, node, captured, active, shutdown>>
    BY <1>8, ActiveIsARun DEF Terminate, Stopping
  <2>2. PICK run \in Interrupted(runs[active]) :
          runs' = [runs EXCEPT ![active] = [run EXCEPT !.wrapper = "zombie"]]
    BY <1>8 DEF Terminate, Interrupted
  <2>3. /\ runs' \in Seq(Run) /\ Len(runs') = Len(runs) /\ DOMAIN runs' = DOMAIN runs
        /\ \A r \in DOMAIN runs : runs'[r].release = runs[r].release
        /\ \A r \in DOMAIN runs : r # active => runs'[r] = runs[r]
    BY <2>1, <2>2, SignalRuns
  <2>4. Supervised' /\ Released'
    BY <2>1, <2>3, PastKept, ActiveKeeps DEF Stopping
  <2> QED
    BY <2>1, <2>3, <2>4, HeededKept DEF TypeOK
<1>9. CASE Kill
  <2>1. /\ active \in DOMAIN runs /\ pc = "sigterm" /\ pc' = "sigkill"
        /\ UNCHANGED <<last, rest, inbox, node, captured, active, shutdown>>
    BY <1>9, ActiveIsARun DEF Kill, Stopping
  <2> DEFINE run == [Gone(runs[active]) EXCEPT !.wrapper = "zombie"]
  <2>2. runs' = [runs EXCEPT ![active] = run]
    BY <1>9 DEF Kill
  <2>3. run \in Run /\ run.release = runs[active].release
    <3>1. Gone(runs[active]) \in Run /\ Gone(runs[active]).release = runs[active].release
      BY <2>1, RunType, GoneType
    <3> QED
      BY <3>1 DEF Run
  <2> HIDE DEF run
  <2>4. /\ runs' \in Seq(Run) /\ Len(runs') = Len(runs) /\ DOMAIN runs' = DOMAIN runs
        /\ \A r \in DOMAIN runs : runs'[r].release = runs[r].release
        /\ \A r \in DOMAIN runs : r # active => runs'[r] = runs[r]
    BY <2>1, <2>2, <2>3, RunChanges
  <2>5. Supervised' /\ Released'
    BY <2>1, <2>4, PastKept, ActiveKeeps DEF Stopping
  <2> QED
    BY <2>1, <2>4, <2>5, HeededKept DEF TypeOK
<1> QED
  BY <1>1, <1>2, <1>3, <1>4, <1>5, <1>6, <1>7, <1>8, <1>9 DEF Supervise

THEOREM Invariant == Spec => []Inv
<1>1. Inv /\ [Next]_vars => Inv'
  BY OutsideKeeps, SuperviseKeeps DEF Next
<1> QED
  BY <1>1, InitInv, PTL DEF Spec

-----------------------------------------------------------------------------
(* What a mission knows of the switch. *)

\* The last report waiting is the latest, or the mission knows what it says; and
\* while it executes, it noticed a kill, or has one to notice, or there was none.
AwareOf(run, latest) ==
  Listening(run) =>
    /\ run.heard # <<>> => run.heard[Len(run.heard)] = latest
    /\ run.heard = <<>> => run.killed = latest.killed
    /\ run.mission \in {"executing", "ticking"} =>
         /\ run.killed => run.since
         /\ \/ run.since
            \/ ~latest.killed /\ run.began = latest.release
            \/ \E i \in DOMAIN run.heard : run.heard[i].killed

Aware == \A r \in DOMAIN runs : AwareOf(runs[r], last)

\* No kill is lost from a mission's queue: the reports alternate and it holds two,
\* or there is room for the next.
Room ==
  \/ ~Repeats /\ Depth >= 2
  \/ \A r \in DOMAIN runs : Len(runs[r].heard) < Depth

\* What its record says of its leader, and the signal it got, does not matter.
LEMMA AwareSame ==
  ASSUME NEW run, NEW after, NEW latest, AwareOf(run, latest),
         after.heard = run.heard, after.killed = run.killed, after.since = run.since,
         after.began = run.began, after.mission = run.mission
  PROVE  AwareOf(after, latest)
  BY DEF AwareOf, Listening

LEMMA GoneAware ==
  ASSUME NEW run, NEW latest, run.mission = "gone"
  PROVE  AwareOf(run, latest)
  BY DEF AwareOf, Listening

LEMMA SignalledAware ==
  ASSUME NEW run \in Run, NEW latest, AwareOf(run, latest), NEW after \in Interrupted(run),
         NEW wrapper
  PROVE  AwareOf(after, latest) /\ AwareOf([after EXCEPT !.wrapper = wrapper], latest)
<1>1. CASE after.mission = "gone"
  <2>1. after \in Run
    BY SignalledType
  <2>2. [after EXCEPT !.wrapper = wrapper].mission = "gone"
    BY <1>1, <2>1 DEF Run
  <2> QED
    BY <1>1, <2>2, GoneAware
<1>2. CASE after = [run EXCEPT !.interrupted = TRUE]
  <2> DEFINE reaped == [after EXCEPT !.wrapper = wrapper]
  <2>1. /\ after.heard = run.heard /\ after.killed = run.killed
        /\ after.since = run.since /\ after.began = run.began
        /\ after.mission = run.mission
    BY <1>2 DEF Run
  <2>2. /\ reaped.heard = run.heard /\ reaped.killed = run.killed
        /\ reaped.since = run.since /\ reaped.began = run.began
        /\ reaped.mission = run.mission
    BY <1>2 DEF Run
  <2> HIDE DEF reaped
  <2>3. AwareOf(after, latest)
    BY <2>1, AwareSame
  <2>4. AwareOf(reaped, latest)
    BY <2>2, AwareSame
  <2> QED
    BY <2>3, <2>4 DEF reaped
<1>3. \/ after.mission = "gone"
      \/ after = [run EXCEPT !.interrupted = TRUE]
      \/ after = run
  <2>1. Gone(run) \in Run /\ Gone(run).mission = "gone"
    BY GoneType
  <2>2. [Gone(run) EXCEPT !.wrapper = "zombie"].mission = "gone"
    BY <2>1 DEF Run
  <2>3. CASE run.mission \in {"starting", "gone"}
    BY <2>2, <2>3 DEF Signalled, Interrupted
  <2>4. CASE run.mission \in {"waiting", "over"}
    BY <2>1, <2>4 DEF Signalled, Interrupted
  <2>5. CASE run.mission \in {"arming", "executing", "ticking"}
    BY <2>5 DEF Signalled, Interrupted
  <2> QED
    BY <2>3, <2>4, <2>5 DEF Run
<1>4. CASE after = run
  <2> DEFINE reaped == [after EXCEPT !.wrapper = wrapper]
  <2>1. /\ reaped.heard = run.heard /\ reaped.killed = run.killed
        /\ reaped.since = run.since /\ reaped.began = run.began
        /\ reaped.mission = run.mission
    BY <1>4 DEF Run
  <2> HIDE DEF reaped
  <2>2. AwareOf(reaped, latest)
    BY <2>1, AwareSame
  <2> QED
    BY <1>4, <2>2 DEF reaped
<1> QED
  BY <1>1, <1>2, <1>3, <1>4

\* A signal may end a mission, and begins none of its ticks.
LEMMA SignalledMission ==
  ASSUME NEW run \in Run, NEW after \in Interrupted(run)
  PROVE  after.mission \in {run.mission, "gone"}
<1>1. Gone(run) \in Run /\ Gone(run).mission = "gone"
  BY GoneType
<1>2. [Gone(run) EXCEPT !.wrapper = "zombie"].mission = "gone"
  BY <1>1 DEF Run
<1>3. [run EXCEPT !.interrupted = TRUE].mission = run.mission
  BY DEF Run
<1>4. CASE run.mission \in {"starting", "gone"}
  BY <1>2, <1>4 DEF Signalled, Interrupted
<1>5. CASE run.mission \in {"waiting", "over"}
  BY <1>1, <1>3, <1>5 DEF Signalled, Interrupted
<1>6. CASE run.mission \in {"arming", "executing", "ticking"}
  BY <1>3, <1>6 DEF Signalled, Interrupted
<1> QED
  BY <1>4, <1>5, <1>6 DEF Run

\* What the last of a queue and the kills in it are after a report came.
LEMMA EnqueuedAware ==
  ASSUME NEW queue \in Seq(Report), NEW report \in Report,
         \/ Len(queue) < Depth
         \/ Depth >= 2 /\ queue # <<>> /\ queue[Len(queue)].killed # report.killed
  PROVE  LET longer == Enqueue(queue, report) IN
         /\ longer # <<>> /\ longer[Len(longer)] = report
         /\ (report.killed \/ \E i \in DOMAIN queue : queue[i].killed)
              => \E i \in DOMAIN longer : longer[i].killed
<1>0. Len(queue) \in Nat /\ DOMAIN queue = 1 .. Len(queue)
  BY LenProperties
<1>1. CASE Len(queue) < Depth
  <2>1. Enqueue(queue, report) = Append(queue, report)
    BY <1>1 DEF Enqueue
  <2>2. /\ Append(queue, report) \in Seq(Report)
        /\ Len(Append(queue, report)) = Len(queue) + 1
        /\ Append(queue, report)[Len(queue) + 1] = report
        /\ Len(queue) + 1 \in DOMAIN Append(queue, report)
        /\ \A i \in DOMAIN queue : /\ i \in DOMAIN Append(queue, report)
                                   /\ Append(queue, report)[i] = queue[i]
    BY <1>0, AppendProperties
  <2>3. Append(queue, report) # <<>>
    BY <1>0, <2>2, EmptySeq
  <2> QED
    BY <2>1, <2>2, <2>3
<1>2. CASE ~(Len(queue) < Depth)
  <2>1. /\ Depth >= 2 /\ queue # <<>> /\ queue[Len(queue)].killed # report.killed
        /\ Len(queue) >= 2
    BY <1>0, <1>2
  <2> DEFINE kept == Tail(queue)
  <2>2. /\ kept \in Seq(Report) /\ Len(kept) = Len(queue) - 1
        /\ Len(kept) \in DOMAIN kept /\ kept[Len(kept)] = queue[Len(queue)]
    <3>1. /\ kept \in Seq(Report) /\ Len(kept) = Len(queue) - 1
          /\ \A i \in 1 .. Len(kept) : kept[i] = queue[i + 1]
      BY <2>1, HeadTailProperties
    <3>2. Len(kept) \in 1 .. Len(kept) /\ DOMAIN kept = 1 .. Len(kept)
      BY <1>0, <2>1, <3>1, LenProperties
    <3> QED
      BY <1>0, <3>1, <3>2
  <2>3. Enqueue(queue, report) = Append(kept, report)
    BY <1>2 DEF Enqueue
  <2> HIDE DEF kept
  <2>4. /\ Append(kept, report) \in Seq(Report)
        /\ Len(Append(kept, report)) = Len(kept) + 1
        /\ Append(kept, report)[Len(kept) + 1] = report
        /\ Len(kept) + 1 \in DOMAIN Append(kept, report)
        /\ \A i \in DOMAIN kept : /\ i \in DOMAIN Append(kept, report)
                                  /\ Append(kept, report)[i] = kept[i]
    BY <2>2, AppendProperties, LenProperties
  <2>5. queue[Len(queue)].killed \in BOOLEAN /\ report.killed \in BOOLEAN
    <3>1. queue[Len(queue)] \in Report
      BY <1>0, <2>1, ElementType
    <3> QED
      BY <3>1 DEF Report
  <2>6. \E i \in DOMAIN Append(kept, report) : Append(kept, report)[i].killed
    BY <2>1, <2>2, <2>4, <2>5
  <2>7. Append(kept, report) # <<>>
    BY <1>0, <2>1, <2>2, <2>4, EmptySeq
  <2> QED
    BY <2>3, <2>4, <2>6, <2>7
<1> QED
  BY <1>1, <1>2

\* A report published becomes the last of every mission's queue.
LEMMA PublishAware ==
  ASSUME TypeOK, Aware, Room, NEW killed \in BOOLEAN, Publish(killed)
  PROVE  Aware'
<1>1. /\ last' = Reported(killed) /\ last' \in Report /\ last \in Report
      /\ last'.killed = killed /\ last.killed \in BOOLEAN
  BY ReportedType DEF Publish, TypeOK, Reported, Report
<1>2. DOMAIN runs' = DOMAIN runs
  BY DEF Publish
<1> SUFFICES ASSUME NEW r \in DOMAIN runs PROVE AwareOf(runs'[r], last')
  BY <1>2 DEF Aware
<1>3. runs[r] \in Run /\ runs[r].heard \in Seq(Report)
  BY RunType DEF Run
<1>4. CASE ~Listening(runs[r])
  <2>1. runs'[r] = runs[r]
    BY <1>4 DEF Publish
  <2> QED
    BY <1>4, <2>1 DEF AwareOf
<1>5. CASE Listening(runs[r])
  <2> DEFINE run == [runs[r] EXCEPT !.heard = Enqueue(runs[r].heard, last')]
  <2>1. runs'[r] = run
    BY <1>5 DEF Publish
  <2>2. /\ run.heard = Enqueue(runs[r].heard, last') /\ run.killed = runs[r].killed
        /\ run.since = runs[r].since /\ run.began = runs[r].began
        /\ run.mission = runs[r].mission
    BY <1>3 DEF Run
  <2> HIDE DEF run
  <2>3. AwareOf(runs[r], last)
    BY DEF Aware
  <2>4. \/ Len(runs[r].heard) < Depth
        \/ /\ Depth >= 2 /\ runs[r].heard # <<>>
           /\ runs[r].heard[Len(runs[r].heard)].killed # last'.killed
    <3>1. CASE Len(runs[r].heard) < Depth
      BY <3>1
    <3>2. CASE ~(Len(runs[r].heard) < Depth)
      <4>1. ~Repeats /\ Depth >= 2 /\ killed # last.killed
        BY <3>2 DEF Room, Publish
      <4>2. runs[r].heard # <<>>
        BY <3>2, EmptySeq
      <4> QED
        BY <1>1, <1>5, <2>3, <4>1, <4>2 DEF AwareOf
    <3> QED
      BY <3>1, <3>2
  <2>5. /\ run.heard # <<>> /\ run.heard[Len(run.heard)] = last'
        /\ (last'.killed \/ \E i \in DOMAIN runs[r].heard : runs[r].heard[i].killed)
              => \E i \in DOMAIN run.heard : run.heard[i].killed
    BY <1>1, <1>3, <2>2, <2>4, EnqueuedAware
  <2>6. ~last.killed /\ ~last'.killed => last'.release = last.release
    BY <1>1 DEF Reported, Report
  <2> QED
    BY <1>5, <2>1, <2>2, <2>3, <2>5, <2>6 DEF AwareOf, Listening
<1> QED
  BY <1>4, <1>5

\* One record changes, and the switch does not.
LEMMA OneAware ==
  ASSUME TypeOK, Aware, last' = last, NEW r \in DOMAIN runs, NEW run \in Run,
         runs' = [runs EXCEPT ![r] = run], AwareOf(run, last)
  PROVE  Aware'
  BY RunChanges DEF Aware

\* A mission's own steps.
LEMMA MissionAware ==
  ASSUME TypeOK, Aware, NEW r \in DOMAIN runs, Mission(r)
  PROVE  Aware'
<1>0. /\ runs[r] \in Run /\ last \in Report /\ AwareOf(runs[r], last)
      /\ runs[r].heard \in Seq(Report)
  BY RunType DEF TypeOK, Aware, Run
<1>1. PICK run \in Run : Becomes(r, run)
  BY MissionType
<1>2. /\ runs' = [runs EXCEPT ![r] = run] /\ last' = last /\ runs'[r] = run
  BY <1>1, RunChanges DEF Becomes
<1>3. AwareOf(run, last)
  <2> DEFINE now == runs[r]
  <2>1. CASE MissionStarts(r)
    <3>1. run = [now EXCEPT !.mission = "waiting", !.heard = <<last>>]
      BY <1>0, <1>2, <2>1, RunChanges DEF MissionStarts, Becomes
    <3>2. run.mission = "waiting" /\ run.heard = <<last>>
      BY <1>0, <3>1 DEF Run
    <3> QED
      BY <3>2 DEF AwareOf
  <2>2. CASE MissionKillCallback(r)
    <3> DEFINE engaged == Head(now.heard).killed
    <3>1. /\ now.heard # <<>> /\ Listening(now)
          /\ run = [now EXCEPT !.killed = engaged,
                               !.since = now.since \/ (engaged /\ ~now.killed),
                               !.heard = Tail(now.heard)]
      BY <1>0, <1>2, <2>2, RunChanges DEF MissionKillCallback, Becomes
    <3>2. /\ run.killed = engaged /\ run.since = (now.since \/ (engaged /\ ~now.killed))
          /\ run.heard = Tail(now.heard) /\ run.mission = now.mission /\ run.began = now.began
      BY <1>0, <3>1 DEF Run
    <3>3. /\ 1 \in DOMAIN now.heard /\ Head(now.heard) = now.heard[1]
          /\ Tail(now.heard) \in Seq(Report) /\ Len(Tail(now.heard)) = Len(now.heard) - 1
          /\ \A j \in DOMAIN now.heard :
               j > 1 => j - 1 \in DOMAIN Tail(now.heard) /\ Tail(now.heard)[j - 1] = now.heard[j]
          /\ Len(now.heard) \in Nat /\ DOMAIN now.heard = 1 .. Len(now.heard)
      BY <1>0, <3>1, TailIndex, TailCovers, HeadTailProperties, LenProperties
    <3>4. engaged \in BOOLEAN /\ now.killed \in BOOLEAN /\ now.since \in BOOLEAN
      <4>1. now.heard[1] \in Report
        BY <1>0, <3>3, ElementType
      <4> QED
        BY <1>0, <3>3, <4>1 DEF Report, Run
    <3> HIDE DEF engaged
    <3>5. now.heard[Len(now.heard)] = last
      BY <1>0, <3>1 DEF AwareOf
    <3>6. run.heard # <<>> => run.heard[Len(run.heard)] = last
      BY <1>0, <3>1, <3>2, <3>5, TailLast
    <3>7. run.heard = <<>> => run.killed = last.killed
      BY <1>0, <3>1, <3>2, <3>5, TailLast DEF engaged
    <3>8. ASSUME now.mission \in {"executing", "ticking"}
          PROVE  /\ run.killed => run.since
                 /\ \/ run.since
                    \/ ~last.killed /\ run.began = last.release
                    \/ \E i \in DOMAIN run.heard : run.heard[i].killed
      <4>1. /\ now.killed => now.since
            /\ \/ now.since
               \/ ~last.killed /\ now.began = last.release
               \/ \E i \in DOMAIN now.heard : now.heard[i].killed
        BY <1>0, <3>1, <3>8 DEF AwareOf
      <4>2. run.killed => run.since
        BY <3>2, <3>4, <4>1
      <4>3. CASE now.since
        BY <3>2, <4>2, <4>3
      <4>4. CASE ~last.killed /\ now.began = last.release
        BY <3>2, <4>2, <4>4
      <4>5. CASE \E i \in DOMAIN now.heard : now.heard[i].killed
        <5>1. PICK i \in DOMAIN now.heard : now.heard[i].killed
          BY <4>5
        <5>2. CASE i = 1
          <6>1. run.killed
            BY <3>2, <3>3, <5>1, <5>2 DEF engaged
          <6> QED
            BY <4>2, <6>1
        <5>3. CASE i > 1
          BY <3>2, <3>3, <4>2, <5>1, <5>3
        <5>4. i = 1 \/ i > 1
          BY <3>3
        <5> QED
          BY <5>2, <5>3, <5>4
      <4> QED
        BY <4>1, <4>3, <4>4, <4>5
    <3> QED
      BY <3>2, <3>6, <3>7, <3>8 DEF AwareOf
  <2>3. CASE MissionReleased(r)
    <3>1. run = [now EXCEPT !.mission = "arming"] /\ now.mission = "waiting"
      BY <1>0, <1>2, <2>3, RunChanges DEF MissionReleased, Becomes
    <3>2. /\ run.mission = "arming" /\ run.heard = now.heard /\ run.killed = now.killed
      BY <1>0, <3>1 DEF Run
    <3> QED
      BY <1>0, <3>1, <3>2 DEF AwareOf, Listening
  <2>4. CASE MissionExecutes(r)
    <3> DEFINE next == IF now.killed THEN "over" ELSE "executing"
    <3>1. /\ run = [now EXCEPT !.mission = next, !.since = FALSE, !.began = last.release]
          /\ now.mission = "arming" /\ now.heard = <<>>
      BY <1>0, <1>2, <2>4, RunChanges DEF MissionExecutes, Becomes, CaughtUp
    <3>2. /\ run.mission = next /\ run.heard = now.heard /\ run.killed = now.killed
          /\ run.began = last.release
      BY <1>0, <3>1 DEF Run
    <3>3. now.killed = last.killed
      BY <1>0, <3>1 DEF AwareOf, Listening
    <3> QED
      BY <3>1, <3>2, <3>3 DEF AwareOf
  <2>5. CASE MissionTicks(r)
    <3>1. run = [now EXCEPT !.mission = "ticking"] /\ now.mission = "executing"
      BY <1>0, <1>2, <2>5, RunChanges DEF MissionTicks, Becomes
    <3>2. /\ run.mission = "ticking" /\ run.heard = now.heard /\ run.killed = now.killed
          /\ run.since = now.since /\ run.began = now.began
      BY <1>0, <3>1 DEF Run
    <3> QED
      BY <1>0, <3>1, <3>2 DEF AwareOf, Listening
  <2>6. CASE MissionTicked(r)
    <3>1. PICK next \in {"executing", "over"} : Becomes(r, [now EXCEPT !.mission = next])
      BY <2>6 DEF MissionTicked
    <3>2. run = [now EXCEPT !.mission = next] /\ now.mission = "ticking"
      BY <1>0, <1>2, <2>6, <3>1, RunChanges DEF MissionTicked, Becomes
    <3>3. /\ run.mission = next /\ run.heard = now.heard /\ run.killed = now.killed
          /\ run.since = now.since /\ run.began = now.began
      BY <1>0, <3>2 DEF Run
    <3> QED
      BY <1>0, <3>2, <3>3 DEF AwareOf, Listening
  <2>7. CASE MissionStops(r)
    <3>1. run = [now EXCEPT !.mission = "over"] /\ now.mission = "executing"
      BY <1>0, <1>2, <2>7, RunChanges DEF MissionStops, Becomes
    <3>2. /\ run.mission = "over" /\ run.heard = now.heard /\ run.killed = now.killed
      BY <1>0, <3>1 DEF Run
    <3> QED
      BY <1>0, <3>1, <3>2 DEF AwareOf, Listening
  <2>8. CASE MissionExits(r)
    <3>1. run = Gone(now)
      BY <1>0, <1>2, <2>8, RunChanges DEF MissionExits, Becomes
    <3> QED
      BY <1>0, <3>1, GoneType, GoneAware
  <2>9. CASE WrapperExits(r)
    <3>1. run = [now EXCEPT !.wrapper = "zombie"] /\ now.mission = "gone"
      BY <1>0, <1>2, <2>9, RunChanges DEF WrapperExits, Becomes
    <3>2. run.mission = "gone"
      BY <1>0, <3>1 DEF Run
    <3> QED
      BY <3>2, GoneAware
  <2> QED
    BY <2>1, <2>2, <2>3, <2>4, <2>5, <2>6, <2>7, <2>8, <2>9 DEF Mission
<1> QED
  BY <1>0, <1>1, <1>2, <1>3, OneAware

\* The supervisor's steps: they start a run, or signal or reap the one watched.
LEMMA SuperviseAware ==
  ASSUME Inv, Aware, Supervise
  PROVE  Aware'
<1> USE DEF Inv
<1>0. last' = last
  BY DEF Supervise, Leave, PollTop, PollWait, Fork, ForkFails, Reap, PollWatch, LeaveWatch,
         Terminate, Kill, Terminated, PollSettle, SpinSome
<1>1. CASE UNCHANGED runs
  BY <1>0, <1>1 DEF Aware
<1>2. CASE Fork
  <2> DEFINE new == [mission |-> "starting", wrapper |-> "alive",
                     interrupted |-> FALSE, killed |-> TRUE, since |-> FALSE,
                     heard |-> <<>>, release |-> node.release, began |-> 0]
  <2>1. AwareOf(new, last)
    BY DEF AwareOf, Listening
  <2>2. runs' = Append(runs, new)
    BY <1>2 DEF Fork
  <2>3. new \in Run /\ runs \in Seq(Run)
    BY EmptySeq DEF TypeOK, Run
  <2> HIDE DEF new
  <2>4. \A r \in DOMAIN runs' : runs'[r] = new \/ (r \in DOMAIN runs /\ runs'[r] = runs[r])
    BY <2>2, <2>3, AppendIndex
  <2> QED
    BY <1>0, <2>1, <2>4 DEF Aware
<1>3. ASSUME pc \in {"watch"} \cup Stopping PROVE /\ active \in DOMAIN runs
                                                   /\ runs[active] \in Run
                                                   /\ AwareOf(runs[active], last)
  BY <1>3, ActiveIsARun, RunType DEF Aware
<1>4. CASE Reap \/ Terminated
  <2> DEFINE run == [runs[active] EXCEPT !.wrapper = "reaped"]
  <2>1. active \in DOMAIN runs /\ runs[active] \in Run /\ AwareOf(runs[active], last)
    BY <1>3, <1>4 DEF Reap, Terminated, Stopping
  <2>2. runs' = [runs EXCEPT ![active] = run]
    BY <1>4 DEF Reap, Terminated
  <2>3. /\ run \in Run /\ run.heard = runs[active].heard
        /\ run.killed = runs[active].killed /\ run.since = runs[active].since
        /\ run.began = runs[active].began /\ run.mission = runs[active].mission
    BY <2>1 DEF Run
  <2> HIDE DEF run
  <2>4. AwareOf(run, last)
    BY <2>1, <2>3, AwareSame
  <2> QED
    BY <1>0, <2>1, <2>2, <2>3, <2>4, OneAware
<1>5. CASE Interrupt /\ pc = "watch"
  <2>1. active \in DOMAIN runs /\ runs[active] \in Run /\ AwareOf(runs[active], last)
    BY <1>3, <1>5
  <2>2. PICK run \in Interrupted(runs[active]) : runs' = [runs EXCEPT ![active] = run]
    BY <1>5 DEF Interrupt
  <2>3. run \in Run /\ AwareOf(run, last)
    BY <2>1, SignalledType, SignalledAware
  <2> QED
    BY <1>0, <2>1, <2>2, <2>3, OneAware
<1>6. CASE Terminate
  <2>1. active \in DOMAIN runs /\ runs[active] \in Run /\ AwareOf(runs[active], last)
    BY <1>3, <1>6 DEF Terminate, Stopping
  <2>2. PICK run \in Interrupted(runs[active]) :
          runs' = [runs EXCEPT ![active] = [run EXCEPT !.wrapper = "zombie"]]
    BY <1>6 DEF Terminate, Interrupted
  <2>3. /\ run \in Run /\ AwareOf([run EXCEPT !.wrapper = "zombie"], last)
    BY <2>1, SignalledType, SignalledAware
  <2>4. [run EXCEPT !.wrapper = "zombie"] \in Run
    BY <2>3 DEF Run
  <2> QED
    BY <1>0, <2>1, <2>2, <2>3, <2>4, OneAware
<1>7. CASE Kill
  <2> DEFINE run == [Gone(runs[active]) EXCEPT !.wrapper = "zombie"]
  <2>1. active \in DOMAIN runs /\ runs[active] \in Run
    BY <1>3, <1>7 DEF Kill, Stopping
  <2>2. runs' = [runs EXCEPT ![active] = run]
    BY <1>7 DEF Kill
  <2>3. Gone(runs[active]) \in Run /\ Gone(runs[active]).mission = "gone"
    BY <2>1, GoneType
  <2>4. run \in Run /\ run.mission = "gone"
    BY <2>3 DEF Run
  <2> HIDE DEF run
  <2> QED
    BY <1>0, <2>1, <2>2, <2>4, GoneAware, OneAware
<1>8. CASE PollWatch \/ LeaveWatch
  BY <1>1, <1>5, <1>8 DEF PollWatch, LeaveWatch
<1>9. CASE Leave \/ PollTop \/ PollWait \/ ForkFails \/ PollSettle
  BY <1>1, <1>9 DEF Leave, PollTop, PollWait, ForkFails, PollSettle
<1> QED
  BY <1>2, <1>4, <1>6, <1>7, <1>8, <1>9 DEF Supervise

\* As long as there is room for the reports, a mission knows of every kill.
LEMMA StepAware ==
  ASSUME Inv, Aware, Room, [Next]_vars
  PROVE  Aware'
<1>1. CASE HandleSignal \/ UNCHANGED vars
  BY <1>1 DEF HandleSignal, vars, Aware
<1> QED
  BY <1>1, PublishAware, MissionAware, SuperviseAware DEF Next, Inv

LEMMA InitAware == Init => Aware
  BY DEF Init, Aware

\* A tick begins with nothing left to hear, no kill noticed, and so none published.
LEMMA TickAware ==
  ASSUME Inv, Aware, [Next]_vars, NEW r \in DOMAIN runs,
         runs[r].mission = "executing", runs'[r].mission = "ticking"
  PROVE  runs[r].began = last.release
<1>0. runs[r] \in Run /\ AwareOf(runs[r], last)
  BY RunType DEF Inv, Aware
<1>1. MissionTicks(r)
  <2>1. CASE \E killed \in BOOLEAN : Publish(killed)
    <3>1. \/ runs'[r] = runs[r]
          \/ runs'[r] = [runs[r] EXCEPT !.heard = Enqueue(runs[r].heard, last')]
      BY <2>1 DEF Publish
    <3> QED
      BY <1>0, <3>1 DEF Run
  <2>2. ASSUME NEW s \in DOMAIN runs, Mission(s) PROVE MissionTicks(r)
    <3>1. PICK run \in Run : Becomes(s, run)
      BY <2>2, MissionType DEF Inv
    <3>2. runs' = [runs EXCEPT ![s] = run]
      BY <3>1 DEF Becomes
    <3>3. runs'[s] = run /\ (s # r => runs'[r] = runs[r])
      BY <3>1, <3>2, RunChanges DEF Inv
    <3>4. s = r
      BY <3>3
    <3>5. ASSUME NEW after, Becomes(r, after), after.mission # "ticking" PROVE FALSE
      <4>1. runs'[r] = after
        BY <3>5 DEF Becomes
      <4> QED
        BY <3>5, <4>1
    <3>6. ~MissionKillCallback(r)
      <4> SUFFICES ASSUME MissionKillCallback(r) PROVE FALSE
        OBVIOUS
      <4> DEFINE engaged == Head(runs[r].heard).killed
                 after == [runs[r] EXCEPT !.killed = engaged,
                                 !.since = runs[r].since \/ (engaged /\ ~runs[r].killed),
                                 !.heard = Tail(runs[r].heard)]
      <4>1. Becomes(r, after) /\ after.mission = runs[r].mission
        BY <1>0 DEF MissionKillCallback, Run
      <4> QED
        BY <3>5, <4>1
    <3>7. ~MissionExits(r)
      BY <1>0, <3>5, GoneType DEF MissionExits
    <3>8. ~MissionStops(r)
      <4>1. [runs[r] EXCEPT !.mission = "over"].mission = "over"
        BY <1>0 DEF Run
      <4> QED
        BY <3>5, <4>1 DEF MissionStops
    <3> QED
      BY <2>2, <3>4, <3>6, <3>7, <3>8 DEF Mission, MissionStarts, MissionReleased,
         MissionExecutes, MissionTicked, WrapperExits
  <2>3. CASE Supervise
    <3>1. CASE UNCHANGED runs
      BY <3>1
    <3>2. CASE Fork
      <4> DEFINE new == [mission |-> "starting", wrapper |-> "alive",
                         interrupted |-> FALSE, killed |-> TRUE, since |-> FALSE,
                         heard |-> <<>>, release |-> node.release, began |-> 0]
      <4>1. runs' = Append(runs, new) /\ runs \in Seq(Run) /\ new \in Run
        BY <3>2, EmptySeq DEF Fork, Inv, TypeOK, Run
      <4> HIDE DEF new
      <4>2. runs'[r] = runs[r]
        BY <4>1, AppendCovers
      <4> QED
        BY <4>2
    <3>3. CASE ~Fork /\ ~UNCHANGED runs
      <4>1. /\ pc \in {"watch"} \cup Stopping
            /\ \/ \E run \in Interrupted(runs[active]) : runs' = [runs EXCEPT ![active] = run]
               \/ \E run \in Interrupted(runs[active]) :
                    runs' = [runs EXCEPT ![active] = [run EXCEPT !.wrapper = "zombie"]]
               \/ runs' = [runs EXCEPT ![active] = [Gone(runs[active]) EXCEPT !.wrapper = "zombie"]]
               \/ runs' = [runs EXCEPT ![active] = [runs[active] EXCEPT !.wrapper = "reaped"]]
        BY <2>3, <3>3 DEF Supervise, Leave, PollTop, PollWait, ForkFails, Reap, PollWatch,
           LeaveWatch, Terminate, Kill, Terminated, PollSettle, Interrupt, Interrupted,
           Stopping
      <4>2. active \in DOMAIN runs /\ runs[active] \in Run
        BY <4>1, ActiveIsARun, RunType DEF Inv
      <4>3. active = r
        BY <4>1
      <4>4. ASSUME NEW run \in Interrupted(runs[r]) PROVE run.mission # "ticking"
        BY <1>0, <4>4, SignalledMission
      <4>5. runs'[r].mission # "ticking"
        BY <1>0, <4>1, <4>2, <4>3, <4>4, GoneType, SignalledType DEF Run
      <4> QED
        BY <4>5
    <3> QED
      BY <3>1, <3>2, <3>3
  <2>4. CASE HandleSignal \/ UNCHANGED vars
    BY <2>4 DEF HandleSignal, vars
  <2> QED
    BY <2>1, <2>2, <2>3, <2>4 DEF Next
<1>2. ~runs[r].killed /\ ~runs[r].since /\ runs[r].heard = <<>>
  BY <1>1 DEF MissionTicks, CaughtUp
<1>3. ~ \E i \in DOMAIN runs[r].heard : runs[r].heard[i].killed
  BY <1>2
<1> QED
  BY <1>0, <1>2, <1>3 DEF AwareOf, Listening

-----------------------------------------------------------------------------
\* The queue keeps within its depth, and each kill counted was published.
THEOREM TypeCorrect == Spec => []TypeOK
<1>1. Inv => TypeOK
  BY DEF Inv
<1> QED
  BY <1>1, Invariant, PTL

\* Two missions never run at once, whatever the order in which the switch, the
\* mission, the wrapper and the time-outs come.
THEOREM OneAtATime == Spec => []OneMission
<1>1. Inv => OneMission
  BY LenProperties DEF Inv, Supervised, OneMission, TypeOK
<1> QED
  BY <1>1, Invariant, PTL

\* The supervisor exits only once nothing of what it started is left.
THEOREM CleanExit == Spec => []LeavesNothing
<1>1. Inv => LeavesNothing
  <2> SUFFICES ASSUME Inv, pc = "done" PROVE \A r \in DOMAIN runs : Dead(runs[r])
    BY DEF LeavesNothing
  <2>1. active = 0 /\ \A r \in DOMAIN runs : r \in 1 .. Len(runs) /\ Len(runs) \in Nat
    BY LenProperties DEF Inv, Supervised, Stopping, TypeOK
  <2> QED
    BY <2>1 DEF Inv, Supervised
<1> QED
  BY <1>1, Invariant, PTL

\* A release has one run at most, also where the queue loses reports.
THEOREM OneRun == Spec => []OneRunPerRelease
<1>1. Inv => OneRunPerRelease
  BY DEF Inv, Released
<1> QED
  BY <1>1, Invariant, PTL

\* A tick begins in the release its run began in: however short a kill was, the run
\* noticed it, as long as its queue has room for the reports.
LEMMA TicksWithRoom == Spec /\ []Room => TicksInItsRelease
<1>1. Inv /\ Aware /\ [Next]_vars
        => [\A r \in DOMAIN runs :
              runs[r].mission = "executing" /\ runs'[r].mission = "ticking"
                => runs[r].began = last.release]_vars
  BY TickAware
<1>2. Inv /\ Aware /\ Room /\ [Next]_vars => Aware'
  BY StepAware
<1> QED
  BY <1>1, <1>2, InitAware, Invariant, PTL DEF Spec, TicksInItsRelease

\* With a switch that reports its changes, and a queue of two at least, every run
\* ticks its tree only in the release it began in.
THEOREM TicksOfItsRelease ==
  ASSUME ~Repeats, Depth >= 2
  PROVE  Spec => TicksInItsRelease
<1>1. Room
  BY DEF Room
<1> QED
  BY <1>1, TicksWithRoom, PTL

\* With a switch that reports over and over, so does a run whose queue never fills.
THEOREM TicksUnlessFull ==
  Spec /\ [](\A r \in DOMAIN runs : Len(runs[r].heard) < Depth) => TicksInItsRelease
<1>1. (\A r \in DOMAIN runs : Len(runs[r].heard) < Depth) => Room
  BY DEF Room
<1> QED
  BY <1>1, TicksWithRoom, PTL

-----------------------------------------------------------------------------
(* The supervisor keeps its promise.  With one run at most that is not dead, *)
(* and that one the last, a step is known by what it does to the last run.   *)

LEMMA LastRunType ==
  ASSUME TypeOK
  PROVE  /\ Len(runs) \in Nat /\ DOMAIN runs = 1 .. Len(runs)
         /\ runs # <<>> <=> Len(runs) # 0
         /\ runs # <<>> => Len(runs) \in DOMAIN runs /\ runs[Len(runs)] \in Run
         /\ LastServed \in Nat
<1>1. /\ runs \in Seq(Run) /\ Len(runs) \in Nat /\ DOMAIN runs = 1 .. Len(runs)
      /\ runs # <<>> <=> Len(runs) # 0
  BY LenProperties, EmptySeq DEF TypeOK
<1>2. runs # <<>> => Len(runs) \in DOMAIN runs
  BY <1>1
<1>3. runs # <<>> => runs[Len(runs)] \in Run
  BY <1>2, RunType
<1> QED
  BY <1>1, <1>2, <1>3 DEF LastServed, Run

\* A step that leaves the runs as many, each of its release, and the dead dead: it
\* ends the mission, or changes nothing of it.
LEMMA SameRunsKeep ==
  ASSUME TypeOK, TypeOK', Len(runs') = Len(runs),
         \A r \in DOMAIN runs : /\ runs'[r].release = runs[r].release
                                /\ Dead(runs[r]) => Dead(runs'[r])
  PROVE  LastServed' = LastServed /\ (LastRuns' = LastRuns \/ (LastRuns /\ ~LastRuns'))
<1>1. runs' = <<>> <=> runs = <<>>
  <2>1. runs # <<>> <=> Len(runs) # 0
    BY LastRunType
  <2>2. runs' # <<>> <=> Len(runs') # 0
    BY LenProperties, EmptySeq DEF TypeOK
  <2> QED
    BY <2>1, <2>2
<1>2. runs # <<>> => Len(runs) \in DOMAIN runs
  BY LastRunType
<1> QED
  BY <1>1, <1>2 DEF LastServed, LastRuns, Dead

\* A signal and waitpid leave a run its release, and dead if it was.
LEMMA SignalledKeeps ==
  ASSUME NEW old \in Run, NEW after,
         \/ after \in Interrupted(old)
         \/ \E run \in Interrupted(old) : after = [run EXCEPT !.wrapper = "zombie"]
         \/ after = [Gone(old) EXCEPT !.wrapper = "zombie"]
         \/ after = [old EXCEPT !.wrapper = "reaped"]
  PROVE  after \in Run /\ after.release = old.release /\ (Dead(old) => Dead(after))
<1>1. CASE after \in Interrupted(old)
  <2>1. after \in Run /\ after.release = old.release
    BY <1>1, SignalledType
  <2>2. ASSUME Dead(old) PROVE Dead(after)
    <3>1. after = [Gone(old) EXCEPT !.wrapper = "zombie"]
      BY <1>1, <2>2 DEF Signalled, Interrupted, Dead
    <3> QED
      BY <3>1, GoneType DEF Dead, Run
  <2> QED
    BY <2>1, <2>2
<1>2. ASSUME NEW run \in Interrupted(old), after = [run EXCEPT !.wrapper = "zombie"]
      PROVE  after \in Run /\ after.release = old.release /\ (Dead(old) => Dead(after))
  <2>1. run \in Run /\ run.release = old.release
    BY SignalledType
  <2>2. ASSUME Dead(old) PROVE run.mission = "gone"
    <3>1. run = [Gone(old) EXCEPT !.wrapper = "zombie"]
      BY <2>2 DEF Signalled, Interrupted, Dead
    <3> QED
      BY <3>1, GoneType DEF Run
  <2> QED
    BY <1>2, <2>1, <2>2 DEF Dead, Run
<1>3. CASE after = [Gone(old) EXCEPT !.wrapper = "zombie"]
  BY <1>3, GoneType DEF Dead, Run
<1>4. CASE after = [old EXCEPT !.wrapper = "reaped"]
  BY <1>4 DEF Dead, Run
<1> QED
  BY <1>1, <1>2, <1>3, <1>4

\* The run forked is the last, alive, and of the release the supervisor heard of.
LEMMA ForkServes ==
  ASSUME Inv, Fork
  PROVE  LastRuns' /\ LastServed' = node.release
<1> DEFINE new == [mission |-> "starting", wrapper |-> "alive",
                   interrupted |-> FALSE, killed |-> TRUE, since |-> FALSE,
                   heard |-> <<>>, release |-> node.release, began |-> 0]
<1>1. runs' = Append(runs, new)
  BY DEF Fork
<1>2. new \in Run /\ new.release = node.release /\ ~Dead(new)
  <2>1. node.release \in Nat
    BY DEF Inv, TypeOK
  <2> QED
    BY <2>1, EmptySeq DEF Run, Dead
<1> HIDE DEF new
<1>3. runs \in Seq(Run) /\ Len(runs) \in Nat
  BY LastRunType DEF Inv, TypeOK
<1>4. /\ runs' \in Seq(Run) /\ Len(runs') = Len(runs) + 1
      /\ runs'[Len(runs) + 1] = new
  BY <1>1, <1>2, <1>3, AppendProperties
<1>5. runs' # <<>> /\ runs'[Len(runs')] = new
  <2>1. Len(runs') # 0
    BY <1>3, <1>4
  <2> QED
    BY <1>4, <2>1, EmptySeq
<1> QED
  BY <1>2, <1>5 DEF LastRuns, LastServed, Dead

\* No other step of the supervisor touches a run's release, or wakes the dead.
LEMMA SuperviseRuns ==
  ASSUME Inv, Supervise, ~Fork
  PROVE  /\ Len(runs') = Len(runs)
         /\ \A s \in DOMAIN runs : /\ runs'[s].release = runs[s].release
                                   /\ Dead(runs[s]) => Dead(runs'[s])
<1> USE DEF Inv
<1>1. CASE UNCHANGED runs
  BY <1>1 DEF Dead
<1>2. CASE ~UNCHANGED runs
  <2>1. /\ pc \in {"watch"} \cup Stopping
        /\ \/ \E run \in Interrupted(runs[active]) : runs' = [runs EXCEPT ![active] = run]
           \/ \E run \in Interrupted(runs[active]) :
                runs' = [runs EXCEPT ![active] = [run EXCEPT !.wrapper = "zombie"]]
           \/ runs' = [runs EXCEPT ![active] = [Gone(runs[active]) EXCEPT !.wrapper = "zombie"]]
           \/ runs' = [runs EXCEPT ![active] = [runs[active] EXCEPT !.wrapper = "reaped"]]
    BY <1>2 DEF Supervise, Leave, PollTop, PollWait, ForkFails, Reap, PollWatch,
       LeaveWatch, Terminate, Kill, Terminated, PollSettle, Interrupt, Interrupted,
           Stopping
  <2>2. active \in DOMAIN runs /\ runs[active] \in Run
    BY <2>1, ActiveIsARun, RunType
  <2>3. PICK run \in Run : /\ runs' = [runs EXCEPT ![active] = run]
                           /\ run.release = runs[active].release
                           /\ Dead(runs[active]) => Dead(run)
    BY <2>1, <2>2, SignalledKeeps
  <2> QED
    BY <2>2, <2>3, RunChanges
<1> QED
  BY <1>1, <1>2

\* Each step of the supervisor is one of Missions, or nothing anyone can tell.
LEMMA KeepsPromiseStep ==
  ASSUME Inv, Inv', [Next]_vars
  PROVE  [Promise!Next]_(Promise!promised)
<1> USE DEF Inv
<1> DEFINE done == pc = "done"
<1>0. /\ last \in Report /\ last.release \in Nat /\ LastRuns \in BOOLEAN /\ LastServed \in Nat
  BY LastRunType DEF TypeOK, Report, LastRuns
<1>1. CASE UNCHANGED vars
  BY <1>1 DEF vars, main, LastRuns, LastServed, Dead, Promise!promised
<1>2. CASE HandleSignal
  BY <1>2 DEF HandleSignal, LastRuns, LastServed, Dead, Promise!promised
<1>3. ASSUME NEW killed \in BOOLEAN, Publish(killed)
      PROVE  [Promise!Next]_(Promise!promised)
  <2>1. /\ Len(runs') = Len(runs)
        /\ \A r \in DOMAIN runs : /\ runs'[r].release = runs[r].release
                                  /\ Dead(runs[r]) => Dead(runs'[r])
                                  /\ runs'[r].wrapper = runs[r].wrapper
    BY <1>3, PublishRuns
  <2>2. LastServed' = LastServed /\ LastRuns' = LastRuns
    <3>1. runs # <<>> => Len(runs) \in DOMAIN runs
      BY LastRunType
    <3>2. \A r \in DOMAIN runs : runs'[r].mission = runs[r].mission
      <4> TAKE r \in DOMAIN runs
      <4>1. runs[r] \in Run
        BY RunType
      <4> QED
        BY <1>3, <4>1 DEF Publish, Run
    <3>3. runs' = <<>> <=> runs = <<>>
      BY <2>1, LenProperties, EmptySeq DEF TypeOK
    <3> QED
      BY <2>1, <3>1, <3>2, <3>3 DEF LastServed, LastRuns, Dead
  <2>3. done' = done
    BY <1>3 DEF Publish, main
  <2>4. last'.release \in {last.release, last.release + 1}
    BY <1>0, <1>3 DEF Publish, Reported
  <2> QED
    BY <2>2, <2>3, <2>4 DEF Promise!promised, Promise!Next, Promise!Release
<1>4. ASSUME NEW r \in DOMAIN runs, Mission(r)
      PROVE  [Promise!Next]_(Promise!promised)
  <2>1. PICK run \in Run : /\ Becomes(r, run) /\ run.release = runs[r].release
                           /\ ~Dead(runs[r])
    BY <1>4, MissionType
  <2>2. /\ Len(runs') = Len(runs)
        /\ \A s \in DOMAIN runs : /\ runs'[s].release = runs[s].release
                                  /\ Dead(runs[s]) => Dead(runs'[s])
    BY <2>1, RunChanges DEF Becomes
  <2>3. last' = last /\ done' = done
    BY <2>1 DEF Becomes, main
  <2>4. LastServed' = LastServed /\ (LastRuns' = LastRuns \/ (LastRuns /\ ~LastRuns'))
    BY <2>2, SameRunsKeep
  <2> QED
    BY <1>0, <2>3, <2>4 DEF Promise!promised, Promise!Next, Promise!End, LastRuns
<1>5. ASSUME Supervise
      PROVE  [Promise!Next]_(Promise!promised)
  <2>0. last' = last
    BY <1>5 DEF Supervise, Leave, PollTop, PollWait, Fork, ForkFails, Reap, PollWatch,
       LeaveWatch, Terminate, Kill, Terminated, PollSettle, SpinSome
  <2>1. CASE Leave
    <3>1. active = 0 /\ ~done /\ done' /\ runs' = runs
      BY <2>1 DEF Leave, Supervised, Stopping
    <3>2. ~LastRuns
      BY <3>1, LastRunType DEF LastRuns, Supervised
    <3>3. LastRuns' = LastRuns /\ LastServed' = LastServed
      BY <3>1 DEF LastRuns, LastServed, Dead
    <3> QED
      BY <2>0, <3>1, <3>2, <3>3 DEF Promise!promised, Promise!Next, Promise!Exit
  <2>2. CASE Fork
    <3>1. pc = "fork" /\ pc' = "watch" /\ active = 0 /\ node.release \in Nat
      BY <2>2 DEF Fork, Supervised, Stopping, TypeOK
    <3>4. LastRuns' /\ LastServed' = node.release
      BY <2>2, ForkServes
    <3>5. ~LastRuns
      BY <3>1, LastRunType DEF LastRuns, Supervised
    <3>6. LastServed < node.release
      <4>1. \A r \in DOMAIN runs : runs[r].release < node.release
        BY <3>1 DEF Released, Past
      <4>2. 0 < node.release
        BY <3>1 DEF Released, Heeded, Counted, TypeOK
      <4> QED
        BY <4>1, <4>2, LastRunType DEF LastServed
    <3>7. node.release <= last.release
      BY DEF Heeded, InOrder, Follows
    <3>8. LastServed' \in 1 .. last.release
      BY <1>0, <3>1, <3>4, <3>6, <3>7
    <3> QED
      BY <2>0, <3>1, <3>4, <3>5, <3>6, <3>8
      DEF Promise!promised, Promise!Next, Promise!Start
  <2>3. CASE ~Leave /\ ~Fork
    <3>1. done' = done
      BY <1>5, <2>3 DEF Supervise, PollTop, PollWait, ForkFails, Reap, PollWatch,
         LeaveWatch, Terminate, Kill, Terminated, PollSettle, Interrupt
    <3>2. LastServed' = LastServed /\ (LastRuns' = LastRuns \/ (LastRuns /\ ~LastRuns'))
      BY <1>5, <2>3, SuperviseRuns, SameRunsKeep
    <3> QED
      BY <1>0, <2>0, <3>1, <3>2 DEF Promise!promised, Promise!Next, Promise!End, LastRuns
  <2> QED
    BY <2>1, <2>2, <2>3
<1> QED
  BY <1>1, <1>2, <1>3, <1>4, <1>5 DEF Next

\* However the switch, the runs, the signals and the time-outs interleave, the node
\* does what Missions promises and nothing else.
THEOREM PromiseKept == Spec => KeepsPromise
<1>1. Init => Promise!Init
  BY DEF Init, Promise!Init, LastRuns, LastServed
<1>2. Inv /\ Inv' /\ [Next]_vars => [Promise!Next]_(Promise!promised)
  BY KeepsPromiseStep
<1> QED
  BY <1>1, <1>2, Invariant, PTL DEF Spec, KeepsPromise, Promise!Spec

-----------------------------------------------------------------------------
(* What the supervisor knows of the switch.                                  *)

QuietFrom(i) == \A j \in DOMAIN inbox : j >= i => ~inbox[j].killed
QuietInbox == \A i \in DOMAIN inbox : ~inbox[i].killed

\* The last report waiting is the latest, or what it says is known; and what is
\* heard or waiting with no kill behind it is of the release the switch is in.
HearsLatest ==
  /\ inbox # <<>> => inbox[Len(inbox)] = last
  /\ inbox = <<>> => node.killed = last.killed
  /\ \A i \in DOMAIN inbox : QuietFrom(i) => inbox[i].release = last.release
  /\ QuietInbox /\ ~node.killed => ~last.killed /\ node.release = last.release

\* It counted a kill since it noted the count, or has one to hear, or the switch
\* is in the release it watches.
HearsKill ==
  /\ Captured /\ node.kills = captured => ~node.killed
  /\ MissesNoKill

Hears == HearsLatest /\ HearsKill

\* No kill is lost from the supervisor's queue: the reports alternate and it
\* holds two, or there is room for the next.
InboxRoom == (~Repeats /\ Depth >= 2) \/ Len(inbox) < Depth

\* A step that touches neither the switch nor what is known of it.
LEMMA HearsKept ==
  ASSUME Hears, UNCHANGED <<last, inbox, node, captured>>,
         Captured' => Captured /\ Watched' = Watched
  PROVE  Hears'
  BY DEF Hears, HearsLatest, HearsKill, QuietFrom, QuietInbox, MissesNoKill

LEMMA InboxType ==
  ASSUME TypeOK
  PROVE  /\ last \in Report /\ last.killed \in BOOLEAN /\ last.release \in Nat
         /\ inbox \in Seq(Report)
         /\ \A i \in DOMAIN inbox : /\ inbox[i] \in Report
                                    /\ inbox[i].killed \in BOOLEAN /\ inbox[i].release \in Nat
<1>1. last \in Report /\ inbox \in Seq(Report)
  BY DEF TypeOK
<1>2. \A i \in DOMAIN inbox : inbox[i] \in Report
  BY <1>1, ElementType
<1> QED
  BY <1>1, <1>2 DEF Report

\* Where the reports of a queue are after another came.
LEMMA EnqueuedIndex ==
  ASSUME NEW queue \in Seq(Report), NEW report \in Report
  PROVE  LET longer == Enqueue(queue, report) IN
         \E lost \in {0, 1} :
           /\ \A i \in DOMAIN longer :
                \/ i + lost \in DOMAIN queue /\ longer[i] = queue[i + lost]
                \/ longer[i] = report
           /\ \A j \in DOMAIN queue :
                j > lost => j - lost \in DOMAIN longer /\ longer[j - lost] = queue[j]
<1>0. \A j \in DOMAIN queue : j \in Nat
  BY LenProperties
<1>1. CASE Len(queue) < Depth
  <2>1. Enqueue(queue, report) = Append(queue, report)
    BY <1>1 DEF Enqueue
  <2>2. \A i \in DOMAIN Append(queue, report) : i \in Nat
    BY AppendProperties, LenProperties
  <2> QED
    BY <1>0, <2>1, <2>2, AppendIndex, AppendCovers
<1>2. CASE ~(Len(queue) < Depth)
  <2>1. Len(queue) \in Nat /\ queue # <<>>
    BY <1>2, LenProperties
  <2>2. Tail(queue) \in Seq(Report)
    BY <2>1, HeadTailProperties
  <2>3. Enqueue(queue, report) = Append(Tail(queue), report)
    BY <1>2 DEF Enqueue
  <2>4. \A i \in DOMAIN Append(Tail(queue), report) :
          \/ i + 1 \in DOMAIN queue /\ Append(Tail(queue), report)[i] = queue[i + 1]
          \/ Append(Tail(queue), report)[i] = report
    BY <2>1, <2>2, TailIndex, AppendIndex
  <2>5. \A j \in DOMAIN queue :
          j > 1 => /\ j - 1 \in DOMAIN Append(Tail(queue), report)
                   /\ Append(Tail(queue), report)[j - 1] = queue[j]
    BY <2>1, <2>2, TailCovers, AppendCovers
  <2> QED
    BY <2>3, <2>4, <2>5
<1> QED
  BY <1>1, <1>2

\* A report published leaves every kill that waits in the queue.
LEMMA PublishHears ==
  ASSUME TypeOK, TypeOK', Hears, InboxRoom, NEW killed \in BOOLEAN, Publish(killed)
  PROVE  Hears'
<1>1. /\ last' = Reported(killed) /\ last' \in Report /\ last'.killed = killed
      /\ last.killed /\ killed => last'.release = last.release
      /\ ~last.killed => last'.release = last.release
      /\ inbox' = Enqueue(inbox, last') /\ UNCHANGED <<node, pc, captured>>
      /\ ~Repeats => killed # last.killed
  BY InboxType, ReportedType DEF Publish, Reported, main, Report
<1>2. \/ Len(inbox) < Depth
      \/ Depth >= 2 /\ inbox # <<>> /\ inbox[Len(inbox)].killed # last'.killed
  <2>1. CASE Len(inbox) < Depth
    BY <2>1
  <2>2. CASE ~(Len(inbox) < Depth)
    <3>1. ~Repeats /\ Depth >= 2
      BY <2>2 DEF InboxRoom
    <3>2. inbox # <<>>
      BY <2>2, EmptySeq
    <3> QED
      BY <1>1, <3>1, <3>2 DEF Hears, HearsLatest
  <2> QED
    BY <2>1, <2>2
<1>3. /\ inbox' # <<>> /\ inbox'[Len(inbox')] = last'
      /\ (last'.killed \/ \E i \in DOMAIN inbox : inbox[i].killed)
            => \E i \in DOMAIN inbox' : inbox'[i].killed
  <2> DEFINE longer == Enqueue(inbox, last')
  <2>1. inbox \in Seq(Report) /\ last' \in Report
    BY <1>1, InboxType
  <2>2. /\ longer # <<>> /\ longer[Len(longer)] = last'
        /\ (last'.killed \/ \E i \in DOMAIN inbox : inbox[i].killed)
              => \E i \in DOMAIN longer : longer[i].killed
    BY <1>2, <2>1, EnqueuedAware
  <2> QED
    BY <1>1, <2>2
<1>4. inbox # <<>> => Len(inbox) \in DOMAIN inbox /\ \A i \in DOMAIN inbox : i <= Len(inbox)
  BY InboxType, LenProperties, EmptySeq
<1>5. ASSUME QuietInbox'
      PROVE  /\ QuietInbox /\ ~last'.killed
             /\ ~node'.killed => ~last'.killed /\ node'.release = last'.release
  <2>1. QuietInbox /\ ~last'.killed
    BY <1>3, <1>5 DEF QuietInbox
  <2> QED
    BY <1>1, <2>1 DEF Hears, HearsLatest
<1>6. HearsLatest'
  <2>1. PICK lost \in {0, 1} :
          /\ \A i \in DOMAIN inbox' :
               \/ i + lost \in DOMAIN inbox /\ inbox'[i] = inbox[i + lost]
               \/ inbox'[i] = last'
          /\ \A j \in DOMAIN inbox :
               j > lost => j - lost \in DOMAIN inbox' /\ inbox'[j - lost] = inbox[j]
    <3>1. \E lost \in {0, 1} :
            /\ \A i \in DOMAIN Enqueue(inbox, last') :
                 \/ i + lost \in DOMAIN inbox /\ Enqueue(inbox, last')[i] = inbox[i + lost]
                 \/ Enqueue(inbox, last')[i] = last'
            /\ \A j \in DOMAIN inbox :
                 j > lost => /\ j - lost \in DOMAIN Enqueue(inbox, last')
                             /\ Enqueue(inbox, last')[j - lost] = inbox[j]
      BY <1>1, InboxType, EnqueuedIndex
    <3> QED
      BY <1>1, <3>1
  <2>2. ASSUME NEW i \in DOMAIN inbox', QuietFrom(i)'
        PROVE  inbox'[i].release = last'.release
    <3>0. i \in Nat /\ i >= 1
      BY LenProperties DEF TypeOK
    <3>1. CASE inbox'[i] = last'
      BY <3>1
    <3>2. CASE i + lost \in DOMAIN inbox /\ inbox'[i] = inbox[i + lost]
      <4>1. ASSUME NEW j \in DOMAIN inbox, j >= i + lost
            PROVE  ~inbox[j].killed
        <5>1. j \in Nat
          BY InboxType, LenProperties
        <5>2. j - lost \in DOMAIN inbox' /\ inbox'[j - lost] = inbox[j] /\ j - lost >= i
          BY <2>1, <3>0, <4>1, <5>1
        <5> QED
          BY <2>2, <5>2 DEF QuietFrom
      <4>2. inbox[i + lost].release = last.release
        BY <3>2, <4>1 DEF Hears, HearsLatest, QuietFrom
      <4>3. ~last.killed
        <5>1. inbox # <<>>
          BY <3>2, InboxType, LenProperties, EmptySeq
        <5>2. Len(inbox) >= i + lost /\ Len(inbox) \in DOMAIN inbox
          BY <1>4, <3>2, <5>1
        <5> QED
          BY <4>1, <5>1, <5>2 DEF Hears, HearsLatest
      <4> QED
        BY <1>1, <3>2, <4>2, <4>3
    <3> QED
      BY <2>1, <3>1, <3>2
  <2> QED
    BY <1>3, <1>5, <2>2 DEF HearsLatest
<1>7. LastServed' = LastServed
  BY PublishRuns, SameRunsKeep
<1>8. HearsKill'
  <2>1. Captured' = Captured /\ Watched' = Watched
    BY <1>1, <1>7 DEF Captured, Watched
  <2>2. Captured' /\ node'.kills = captured' => ~node'.killed
    BY <1>1, <2>1 DEF Hears, HearsKill
  <2>3. ASSUME Captured', node'.kills = captured', QuietInbox'
        PROVE  Watched' = last'.release
    <3>1. ~last.killed /\ Watched = last.release
      BY <1>1, <1>5, <2>1, <2>3 DEF Hears, HearsKill, MissesNoKill, QuietInbox
    <3> QED
      BY <1>1, <2>1, <2>3, <3>1
  <2> QED
    BY <2>2, <2>3, <1>5 DEF HearsKill, MissesNoKill, QuietInbox
<1> QED
  BY <1>6, <1>8 DEF Hears

\* A poll takes the oldest report: what it does not count as a kill is none, and
\* leaves as quiet a queue as it found.
LEMMA SpinSomeHears ==
  ASSUME TypeOK, Heeded, HearsLatest, SpinSome
  PROVE  /\ HearsLatest' /\ last' = last
         /\ node.kills <= node'.kills /\ node.kills \in Nat /\ node'.kills \in Nat
         /\ ~node.killed /\ node'.kills = node.kills =>
              ~node'.killed /\ (QuietInbox' => QuietInbox)
<1>0. /\ node.kills \in Nat /\ node.kills <= node'.kills /\ node'.kills \in Nat
      /\ last' = last
  BY SpinSomeHeeds DEF TypeOK
<1>1. CASE inbox = <<>>
  <2>1. node' = node /\ inbox' = inbox
    BY <1>1 DEF SpinSome, Heard
  <2> QED
    BY <1>0, <2>1 DEF HearsLatest, QuietFrom, QuietInbox
<1>2. CASE inbox # <<>>
  <2>1. /\ 1 \in DOMAIN inbox /\ Head(inbox) = inbox[1]
        /\ \A i \in DOMAIN Tail(inbox) : i + 1 \in DOMAIN inbox /\ Tail(inbox)[i] = inbox[i + 1]
        /\ \A j \in DOMAIN inbox : j = 1 \/ (j - 1 \in DOMAIN Tail(inbox)
                                             /\ Tail(inbox)[j - 1] = inbox[j])
    <3>1. /\ 1 \in DOMAIN inbox /\ Head(inbox) = inbox[1]
          /\ \A i \in DOMAIN Tail(inbox) : i + 1 \in DOMAIN inbox /\ Tail(inbox)[i] = inbox[i + 1]
          /\ \A j \in DOMAIN inbox : j > 1 => /\ j - 1 \in DOMAIN Tail(inbox)
                                             /\ Tail(inbox)[j - 1] = inbox[j]
      BY <1>2, InboxType, TailIndex, TailCovers
    <3>2. \A j \in DOMAIN inbox : j = 1 \/ j > 1
      BY InboxType, LenProperties
    <3> QED
      BY <3>1, <3>2
  <2>2. /\ node'.killed = inbox[1].killed /\ node'.release = inbox[1].release
        /\ node'.kills = node.kills + IF inbox[1].killed /\ ~node.killed THEN 1 ELSE 0
        /\ inbox' = Tail(inbox) /\ last' = last
    BY <1>2, <2>1 DEF SpinSome, Heard
  <2>3. QuietInbox' /\ ~inbox[1].killed => QuietInbox
    BY <2>1, <2>2 DEF QuietInbox
  <2>4. /\ inbox' # <<>> => inbox'[Len(inbox')] = last'
        /\ inbox' = <<>> => node'.killed = last'.killed
    BY <1>2, <2>1, <2>2, InboxType, TailLast DEF HearsLatest
  <2>5. ASSUME NEW i \in DOMAIN inbox', QuietFrom(i)'
        PROVE  inbox'[i].release = last'.release
    <3>1. ASSUME NEW j \in DOMAIN inbox, j >= i + 1 PROVE ~inbox[j].killed
      <4>1. j \in Nat /\ i \in Nat /\ i >= 1
        BY <1>2, <2>2, InboxType, HeadTailProperties, LenProperties
      <4>2. j - 1 \in DOMAIN inbox' /\ inbox'[j - 1] = inbox[j] /\ j - 1 >= i
        BY <2>1, <2>2, <3>1, <4>1
      <4> QED
        BY <2>5, <4>2 DEF QuietFrom
    <3>2. i + 1 \in DOMAIN inbox /\ inbox'[i] = inbox[i + 1]
      BY <2>1, <2>2
    <3> QED
      BY <2>2, <3>1, <3>2 DEF HearsLatest, QuietFrom
  <2>6. ASSUME QuietInbox', ~node'.killed
        PROVE  ~last'.killed /\ node'.release = last'.release
    <3>1. QuietFrom(1)
      BY <2>2, <2>3, <2>6 DEF QuietFrom, QuietInbox
    <3>2. node'.release = last.release
      BY <2>1, <2>2, <3>1 DEF HearsLatest
    <3>3. ~last.killed
      <4>1. inbox # <<>> => Len(inbox) \in DOMAIN inbox
        BY InboxType, LenProperties, EmptySeq
      <4> QED
        BY <1>2, <2>2, <2>3, <2>6, <4>1 DEF HearsLatest, QuietInbox
    <3> QED
      BY <2>2, <3>2, <3>3
  <2>7. HearsLatest'
    BY <2>4, <2>5, <2>6 DEF HearsLatest
  <2>8. ~node.killed /\ node'.kills = node.kills => ~inbox[1].killed
    BY <1>0, <2>2
  <2> QED
    BY <1>0, <2>2, <2>3, <2>7, <2>8
<1> QED
  BY <1>1, <1>2

\* What the supervisor does hears every kill.
LEMMA SuperviseHears ==
  ASSUME Inv, Inv', Hears, Supervise
  PROVE  Hears'
<1> USE DEF Inv
<1>1. CASE Fork
  <2>1. pc = "fork" /\ pc' = "watch" /\ UNCHANGED <<last, inbox, node, captured>>
    BY <1>1 DEF Fork
  <2>2. Captured /\ Watched' = Watched
    BY <1>1, <2>1, ForkServes DEF Captured, Watched
  <2> QED
    BY <2>1, <2>2, HearsKept
<1>2. CASE ~Fork
  <2>0. LastServed' = LastServed
    BY <1>2, SuperviseRuns, SameRunsKeep
  <2>1. CASE Leave \/ ForkFails \/ Reap \/ LeaveWatch \/ Terminate \/ Kill \/ Terminated
    <3>1. UNCHANGED <<last, inbox, node, captured>>
      BY <2>1 DEF Leave, ForkFails, Reap, LeaveWatch, Terminate, Kill, Terminated
    <3>2. Captured' => Captured /\ pc # "fork" /\ pc' # "fork"
      BY <2>1 DEF Leave, ForkFails, Reap, LeaveWatch, Terminate, Kill, Terminated, Interrupt,
                  Captured
    <3> QED
      BY <2>0, <3>1, <3>2, HearsKept DEF Watched
  <2>2. CASE PollTop \/ PollWait \/ PollSettle \/ PollWatch
    <3>1. SpinSome
      BY <2>2 DEF PollTop, PollWait, PollSettle, PollWatch
    <3>2. /\ HearsLatest' /\ last' = last
          /\ node.kills <= node'.kills /\ node.kills \in Nat /\ node'.kills \in Nat
          /\ ~node.killed /\ node'.kills = node.kills =>
               ~node'.killed /\ (QuietInbox' => QuietInbox)
      BY <3>1, SpinSomeHears DEF Hears
    <3>3. CASE ~Captured'
      BY <3>2, <3>3 DEF Hears, HearsKill, MissesNoKill
    <3>4. CASE pc' = "fork"
      <4>1. ~node'.killed /\ captured' = node'.kills
        BY <2>2, <3>4 DEF PollTop, PollWait, PollSettle, PollWatch, Interrupt
      <4>2. Watched' = node'.release
        BY <3>4 DEF Watched
      <4> QED
        BY <3>2, <4>1, <4>2 DEF Hears, HearsLatest, HearsKill, MissesNoKill, QuietInbox
    <3>5. CASE Captured' /\ pc' # "fork"
      <4>1. pc \in {"watch", "settle"} /\ captured' = captured /\ captured <= node.kills
        BY <2>2, <3>5 DEF PollTop, PollWait, PollSettle, PollWatch, Captured, TypeOK
      <4>2. Captured /\ Watched' = Watched
        BY <2>0, <3>5, <4>1 DEF Captured, Watched
      <4>3. captured \in Nat
        BY DEF TypeOK
      <4>4. ASSUME node'.kills = captured'
            PROVE  /\ node.kills = captured /\ ~node'.killed
                   /\ QuietInbox' => QuietInbox
        <5>1. node.kills = captured /\ node'.kills = node.kills
          BY <3>2, <4>1, <4>3, <4>4
        <5>2. ~node.killed
          BY <4>2, <5>1 DEF Hears, HearsKill
        <5> QED
          BY <3>2, <5>1, <5>2
      <4>5. ASSUME node'.kills = captured', QuietInbox'
            PROVE  ~last'.killed /\ Watched' = last'.release
        BY <3>2, <4>2, <4>4, <4>5 DEF Hears, HearsKill, MissesNoKill, QuietInbox
      <4> QED
        BY <3>2, <4>4, <4>5 DEF Hears, HearsKill, MissesNoKill, QuietInbox
    <3> QED
      BY <3>3, <3>4, <3>5
  <2> QED
    BY <1>2, <2>1, <2>2 DEF Supervise
<1> QED
  BY <1>1, <1>2

LEMMA StepHears ==
  ASSUME Inv, Inv', Hears, InboxRoom, [Next]_vars
  PROVE  Hears'
<1>1. CASE HandleSignal \/ UNCHANGED vars
  <2>1. UNCHANGED <<last, inbox, node, captured, pc, runs>>
    BY <1>1 DEF HandleSignal, vars, main
  <2> QED
    BY <2>1, HearsKept DEF Captured, Watched, LastServed
<1>2. ASSUME NEW r \in DOMAIN runs, Mission(r)
      PROVE  Hears'
  <2>1. PICK run \in Run : /\ Becomes(r, run) /\ run.release = runs[r].release
                           /\ ~Dead(runs[r])
    BY <1>2, MissionType DEF Inv
  <2>2. /\ Len(runs') = Len(runs)
        /\ \A s \in DOMAIN runs : /\ runs'[s].release = runs[s].release
                                  /\ Dead(runs[s]) => Dead(runs'[s])
    BY <2>1, RunChanges DEF Becomes, Inv
  <2>3. UNCHANGED <<last, inbox, node, captured, pc>>
    BY <2>1 DEF Becomes, main
  <2>4. LastServed' = LastServed
    BY <2>2, SameRunsKeep DEF Inv
  <2> QED
    BY <2>3, <2>4, HearsKept DEF Captured, Watched
<1> QED
  BY <1>1, <1>2, PublishHears, SuperviseHears DEF Next, Inv

LEMMA InitHears == Init => Hears
<1> SUFFICES ASSUME Init PROVE Hears
  OBVIOUS
<1>1. /\ inbox # <<>> /\ Len(inbox) = 1 /\ DOMAIN inbox = {1} /\ inbox[1] = last
      /\ node.killed /\ ~Captured
  BY DEF Init, Captured
<1> QED
  BY <1>1 DEF Hears, HearsLatest, HearsKill, MissesNoKill

LEMMA HearsWithRoom == Spec /\ []InboxRoom => []MissesNoKill
<1>1. Hears => MissesNoKill
  BY DEF Hears, HearsKill
<1> QED
  BY <1>1, InitHears, StepHears, Invariant, PTL DEF Spec

\* With a switch that reports its changes, and a queue of two at least, no kill is
\* lost on the supervisor, and so none that it would wait for in vain.
THEOREM HearsEveryKill ==
  ASSUME ~Repeats, Depth >= 2
  PROVE  Spec => []MissesNoKill
<1>1. InboxRoom
  BY DEF InboxRoom
<1> QED
  BY <1>1, HearsWithRoom, PTL

\* With a switch that reports over and over, none is as long as its queue has room.
THEOREM HearsUnlessFull ==
  Spec /\ [](Len(inbox) < Depth) => []MissesNoKill
<1>1. Len(inbox) < Depth => InboxRoom
  BY DEF InboxRoom
<1> QED
  BY <1>1, HearsWithRoom, PTL

=============================================================================
