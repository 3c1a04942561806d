--------------------------- MODULE MCSetpointLink ---------------------------
(* Values for the constants of SetpointLink. *)
EXTENDS SetpointLink

Setpoint(modes, altitude) ==
  [mode |-> [a \in Axes |-> IF a \in DOMAIN modes THEN modes[a] ELSE "KEEP"],
   altitude |-> altitude, finite |-> TRUE]
Stream(setpoint, timeout, stamped) ==
  [mode |-> setpoint.mode, altitude |-> FALSE, finite |-> TRUE, timeout |-> timeout,
   stamped |-> stamped]

All(mode) == Setpoint([a \in Axes |-> mode], FALSE)
Both(mode) == Setpoint([a \in {"x", "y"} |-> mode], FALSE)
OnZ(mode, altitude) == Setpoint([z |-> mode], altitude)

\* A move, a velocity, a depth and an altitude.
MCSetpoints ==
  {Both("POSITION"), Both("VELOCITY"), OnZ("POSITION", FALSE), OnZ("POSITION", TRUE)}

\* cmd_vel, an effort on all axes, and one that leaves y alone.
MCStreams ==
  {Stream(All("VELOCITY"), 0, FALSE), Stream(All("EFFORT"), 1, TRUE),
   Stream(Setpoint([x |-> "VELOCITY"], FALSE), 0, TRUE)}

\* AltitudeSetpoint.
MCAltitudes == {OnZ("POSITION", TRUE)}
=============================================================================
