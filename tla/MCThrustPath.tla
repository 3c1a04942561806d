---------------------------- MODULE MCThrustPath ----------------------------
(***************************************************************************)
(* ThrustPath with every limit at one tick: a command, a silence and a     *)
(* quiet board are each fresh, at their limit or past it.                  *)
(***************************************************************************)
EXTENDS ThrustPath
=============================================================================
