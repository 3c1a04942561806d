--------------------------- MODULE MissionServices ---------------------------
(***************************************************************************)
(* The leaves that call a service, each with the server it calls: which of *)
(* them it is is chosen at the beginning.                                  *)
(***************************************************************************)
EXTENDS VisionNode, Devices

vars == <<call, vision, devices>>

Init == CallInit /\ VisionInit /\ DevicesInit

\* The mission's side.  A tree that loads a model waits for no detections
\* meanwhile.
Mission ==
  \/ \E item \in Items, open \in BOOLEAN :
       /\ service \in {"load_model", "actuate"} => open
       /\ Start(item, open) /\ wanted' = None
       /\ UNCHANGED <<active, resident, detections, snapshot, lost, devices>>
  \/ (Tick \/ Halt) /\ UNCHANGED <<vision, devices>>

Passing == Time /\ UNCHANGED <<vision, devices>>

Receiving == \E a \in answers : Receive(a) /\ UNCHANGED <<vision, devices>>

Polls == Tick /\ UNCHANGED <<vision, devices>>

\* sub_low is started again when it dies (respawn).
Respawn == service = "actuate" /\ LoseRequests /\ UNCHANGED <<vision, devices>>

Seeing ==
  /\ \/ OnLoadModel \/ NodeRestarts \/ ProcessFrame \/ OnDetections \/ LoseDetections \/ Match
     \/ \E task \in Items : Want(task)
  /\ UNCHANGED devices

Acting ==
  /\ \/ Actuate \/ LaunchCallback \/ SetDropperCallback
     \/ \E i \in Items, id \in 1 .. MaxRequests : GlueAnswers(i, id)
     \/ Turn \/ JointStateCallback \/ BallLetGo \/ BallStuck
  /\ UNCHANGED vision

Next == Mission \/ Passing \/ Receiving \/ Respawn \/ Seeing \/ Acting

\* The tree is ticked and time passes; the simulator moves the servo, publishes
\* joint states, and its glue does not refuse for ever.
Fairness ==
  /\ WF_vars(Polls) /\ WF_vars(Passing)
  /\ WF_vars(Turn /\ UNCHANGED vision)
  /\ WF_vars(JointStateCallback /\ UNCHANGED vision)
  /\ SF_vars(BallLetGo /\ UNCHANGED vision)

Spec == Init /\ [][Next]_vars
FairSpec == Spec /\ Fairness

-----------------------------------------------------------------------------
TypeOK ==
  /\ service \in Services
  /\ leaf \in [status : {"idle", "running", "success", "failure"}, item : Items, open : BOOLEAN,
               sent : 0 .. MaxRequests, left : 0 .. Deadline, since : 0 .. MaxRequests]
  /\ future \in {"none", "waiting", "ok", "failed"}
  /\ requests \in Seq(Request) /\ answers \subseteq Answer
  /\ nextId \in 0 .. MaxRequests /\ done \subseteq 1 .. MaxRequests
  /\ active \in Maybe /\ resident \in Maybe /\ wanted \in Maybe /\ lost \in 0 .. MaxRequests
  /\ detections \in Seq([task : Items, by : Maybe])
  /\ snapshot \in [task : Maybe, by : Maybe, new : BOOLEAN]
  /\ launched \subseteq Items /\ releasing \in [Items -> SUBSET (1 .. MaxRequests)]
  /\ launches \in [Items -> Nat]
  /\ released \subseteq Items /\ opened \subseteq Items
  /\ dropping \in Maybe /\ inFlight \in Maybe
  /\ turned \in BOOLEAN

\* A leaf succeeds only when the server carried out the request of this very
\* activation: never on the answer to one it sent before, timed out on or was
\* halted over.
SucceedsWhenDone == leaf.status = "success" => leaf.sent \in done /\ leaf.sent > leaf.since

\* Once LoadModel has succeeded its task's model is the one that runs on the
\* frames, whatever loads were given up before and however often the node was
\* started before it was asked, until another is asked for or the node dies.
LoadedIsActive ==
  service = "load_model" /\ leaf.status = "success" /\ leaf.sent > lost
    => active = leaf.item /\ resident = leaf.item

\* A leaf that waits for detections of a task takes none another task's model
\* made, though these are still on their way when the model was swapped.
DetectsOwn == [][Match => snapshot.by = wanted]_vars

\* A simulated torpedo is pushed once, however often it is asked for while its
\* glue lets go, after a time-out or a restart of the mission.
PushedOnce == \A i \in Items : launches[i] <= 1

\* A leaf that calls a service ends, whether the server answers, is not there
\* or dies with the request.
CallsEnd == Running ~> ~Running

\* A simulated dropper that said it opens drops its ball, unless it is closed
\* again: the other dropper does not take its turn.
OpenedDrops == \A i \in Items : i \in opened ~> i \in released \/ i \notin opened

\* The time of a call runs out: nothing renews it, and a poll past the deadline
\* ends the leaf, unless it is the first that finds the service there; the next
\* then ends it.
TimeRunsOut ==
  [][Running /\ Running' =>
       /\ leaf'.left <= leaf.left
       /\ leaf.sent # 0 => leaf'.sent = leaf.sent
       /\ Tick /\ leaf.left = 0 => leaf.sent = 0 /\ leaf'.sent # 0]_vars
=============================================================================
