----------------------------- MODULE VisionNode -----------------------------
(***************************************************************************)
(* A vision node with its model manager, and what the mission makes of it: *)
(* the model it asks for with LoadModel, and the detections that come,     *)
(* labelled with the task of the model that ran.                           *)
(*                                                                         *)
(* The node's executor runs one callback at a time, so that a load and a   *)
(* frame never overlap in it; the manager's lock adds nothing there.       *)
(***************************************************************************)
EXTENDS ServiceCall

CONSTANT MaxInFlight   \* bound: detections on their way

VARIABLES
  active,      \* active_task, None while no model is resident
  resident,    \* the model behind it, which is what runs on a frame
  detections,  \* vision/detections, in order: [task, by]
  snapshot,    \* VisionClient's: [task, by, new], new: since the waiting leaf started
  wanted,      \* the task a leaf waits for detections of, or None
  lost         \* the requests sent before the node last started (a history)

vision == <<active, resident, detections, snapshot, wanted, lost>>

Maybe == Items \cup {None}

VisionInit ==
  /\ active = None /\ resident = None
  /\ detections = <<>> /\ snapshot = [task |-> None, by |-> None, new |-> FALSE]
  /\ wanted = None /\ lost = 0

\* ModelManager.load of a task that is not active: the model is swapped in, or
\* does not open or run and the one before stays.
Loaded(task) ==
  \/ active' = task /\ resident' = task
  \/ UNCHANGED <<active, resident>>

\* Variant: a model that does not load is answered as one that does.
AnswersAnyway(task) == TRUE

\* The answer to a load: the model came up.
Answers(task) == resident' = task

\* _on_load_model.
OnLoadModel ==
  /\ service = "load_model"
  /\ \E r \in Request :
       /\ Takes(r)
       /\ IF r.item = active /\ resident # None
          THEN UNCHANGED <<active, resident>> /\ Responds(r.id, TRUE)
          ELSE Loaded(r.item) /\ Responds(r.id, Answers(r.item))
  /\ UNCHANGED <<service, leaf, future, nextId, detections, snapshot, wanted, lost>>

\* The node dies, with its model and what it was asked, and is started again.
NodeRestarts ==
  /\ service = "load_model"
  /\ active' = None /\ resident' = None
  /\ requests' = <<>> /\ lost' = nextId
  /\ UNCHANGED <<service, leaf, future, answers, nextId, done, detections, snapshot, wanted>>

\* _process_frame with a model: one message of what it found.
ProcessFrame ==
  /\ service = "load_model"
  /\ active # None /\ Len(detections) < MaxInFlight
  /\ detections' = Append(detections, [task |-> active, by |-> resident])
  /\ UNCHANGED <<call, active, resident, snapshot, wanted, lost>>

\* The message comes to VisionClient, or is lost (best effort).
OnDetections ==
  /\ detections # <<>>
  /\ detections' = Tail(detections)
  /\ snapshot' = [task |-> Head(detections).task, by |-> Head(detections).by, new |-> TRUE]
  /\ UNCHANGED <<call, active, resident, wanted, lost>>

LoseDetections ==
  /\ detections # <<>>
  /\ detections' = Tail(detections)
  /\ UNCHANGED <<call, active, resident, snapshot, wanted, lost>>

\* A leaf starts that wants detections of the task, from now on, or one ends.
Want(task) ==
  /\ service = "load_model" /\ ~Running
  /\ wanted' = task
  /\ snapshot' = [snapshot EXCEPT !.new = FALSE]
  /\ UNCHANGED <<call, active, resident, detections, lost>>

\* Variant: whatever task a detection is of.
TaskMatchesAny == TRUE

\* visionTaskMatches.
TaskMatches == snapshot.task = wanted

\* latestMatch finds a detection for the leaf.
Match ==
  /\ wanted # None /\ snapshot.new /\ TaskMatches
  /\ wanted' = None
  /\ UNCHANGED <<call, active, resident, detections, snapshot, lost>>
=============================================================================
