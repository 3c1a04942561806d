----------------------------- MODULE ActionNode -----------------------------
(***************************************************************************)
(* What a mission tree may rely on of any leaf that moves the vehicle: it  *)
(* drives only while it runs.  However an activation ends, by itself or    *)
(* halted, it leaves no velocity or rate behind that would carry the       *)
(* vehicle on under the next leaf.                                         *)
(***************************************************************************)
VARIABLES
  status,   \* BT::NodeStatus of the leaf
  driving   \* a velocity or a rate it asked for is in force

nodeVars == <<status, driving>>

Ended == {"success", "failure"}

Init == status = "idle" /\ driving = FALSE

\* onStart: an activation that ends at once asked for nothing.
Start ==
  /\ status # "running"
  /\ \/ status' = "running" /\ driving' \in BOOLEAN
     \/ status' \in Ended /\ driving' = FALSE

\* onRunning, with RUNNING as its result or with another.
Run == status = "running" /\ UNCHANGED status /\ driving' \in BOOLEAN
Finish == status = "running" /\ status' \in Ended /\ driving' = FALSE

\* onHalted.
Halt == status = "running" /\ status' = "idle" /\ driving' = FALSE

Next == Start \/ Run \/ Finish \/ Halt

Spec == Init /\ [][Next]_nodeVars
=============================================================================
