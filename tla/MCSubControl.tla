---------------------------- MODULE MCSubControl ----------------------------
(***************************************************************************)
(* SubControl on small instances; the constants are in the cfg files.      *)
(*   Reset    one release, a restart and a reset_pose, no commands: ages   *)
(*            are fresh at 0 and past their limit at 1, so every message   *)
(*            that may be late is late at the next tick.                   *)
(*   Resumes  the same with a tick of slack on every sensor, so that they  *)
(*            can stay fresh while time passes.                            *)
(*   Commands two releases, with a setpoint and cmd_vel around them.       *)
(*   Errors   one command and one reset_pose.                              *)
(***************************************************************************)
EXTENDS SubControl
=============================================================================
