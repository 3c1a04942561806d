----------------------------- MODULE Interlock -----------------------------
(***************************************************************************)
(* What the thrust path may rely on of sub_control: the kill switch stops  *)
(* the thrusters at once, and nothing but a control cycle that finds the   *)
(* switch released starts them again.                                      *)
(***************************************************************************)
VARIABLES
  killed,     \* the node heard the switch engaged last, or heard nothing yet
  thrusting   \* the last thruster command was not to stop

interlock == <<killed, thrusting>>

Init == killed = TRUE /\ thrusting = FALSE

\* The switch is heard engaged, or the node starts again.
Kill == killed' = TRUE /\ thrusting' = FALSE

Release == killed /\ killed' = FALSE /\ UNCHANGED thrusting

\* Variant: a cycle that does not look at the switch.
DecideKilled ==
  /\ thrusting' \in BOOLEAN
  /\ UNCHANGED killed

\* A control cycle.
Decide ==
  /\ thrusting' \in BOOLEAN
  /\ thrusting' => ~killed
  /\ UNCHANGED killed

Next == Kill \/ Release \/ Decide

Spec == Init /\ [][Next]_interlock
=============================================================================
