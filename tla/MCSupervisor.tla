---------------------------- MODULE MCSupervisor ----------------------------
(***************************************************************************)
(* Supervisor over a few kills, with a switch that reports its changes (as *)
(* the simulator's stand-in does) or reports over and over (as the         *)
(* low-level board does).                                                  *)
(***************************************************************************)
EXTENDS Supervisor
=============================================================================
