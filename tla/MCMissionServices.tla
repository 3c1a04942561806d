-------------------------- MODULE MCMissionServices --------------------------
(* Values for the constants of MissionServices. *)
EXTENDS MissionServices

MCServices == {"load_model", "actuate", "launch", "drop"}
=============================================================================
