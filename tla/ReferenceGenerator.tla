------------------------- MODULE ReferenceGenerator -------------------------
(***************************************************************************)
(* sub_control's reference generator: the mode of each axis, until when a  *)
(* streamed velocity or effort stands, and in which coordinates z is.      *)
(*                                                                         *)
(* The generator is a record g.  What its shapers compute is left out but  *)
(* for one thing, that a held axis comes to rest after a while; a passive  *)
(* axis follows the vehicle and does not.  Times are what is left of them. *)
(***************************************************************************)
EXTENDS Integers

CONSTANTS
  Axes,        \* the axes: x and y share a mode, z may be an altitude
  MaxTimeout,  \* bound: the longest time a streamed command stands
  NoLimit,     \* expires 0: a stream that stands until it is replaced
  Own          \* the source of a target the generator chose by itself

ASSUME AxesAssumption == {"x", "y", "z"} \subseteq Axes
ASSUME LimitAssumption == MaxTimeout \in Nat /\ NoLimit \notin Int

Modes == {"POSITION", "VELOCITY", "HOLD", "EFFORT"}
Streamed == {"VELOCITY", "EFFORT"}
Coordinates == {"depth", "altitude"}
Lefts == (-1 .. MaxTimeout) \cup {NoLimit}

\* A MotionCommand: left is until it expires; zin the coordinates its z target is in.
\* due is what was promised to whoever sent it (a history).
CommandOf(Id) ==
  [id : Id, mode : [Axes -> Modes \cup {"KEEP"}], altitude : BOOLEAN, finite : BOOLEAN,
   left : Lefts, due : Lefts, zin : Coordinates]

\* source is the command an axis has its target from (a history, as due is).
GeneratorOf(Id) ==
  [mode : [Axes -> Modes], left : [Axes -> Lefts], altitude : BOOLEAN,
   reference : Coordinates, target : Coordinates,
   source : [Axes -> Id \cup {Own}], due : [Axes -> Lefts]]

Coordinate(altitude) == IF altitude THEN "altitude" ELSE "depth"

\* A time left, a tick later.
Elapsed(left) == IF left = NoLimit THEN NoLimit ELSE IF left < 0 THEN left ELSE left - 1

Expired(left) == left # NoLimit /\ left < 0

-----------------------------------------------------------------------------
\* reset(): every axis holds the pose.
Reset ==
  [mode |-> [a \in Axes |-> "POSITION"], left |-> [a \in Axes |-> NoLimit], altitude |-> FALSE,
   reference |-> "depth", target |-> "depth",
   source |-> [a \in Axes |-> Own], due |-> [a \in Axes |-> NoLimit]]

\* As constructed: every axis holds, at no target.
Constructed == [Reset EXCEPT !.mode = [a \in Axes |-> "HOLD"]]

\* Variant: x and y may be given different modes.
RejectedSplitting(c, altimeter) ==
  \/ c.mode["z"] = "POSITION" /\ c.altitude /\ ~altimeter
  \/ ~c.finite

\* apply()'s refusals.  A target below the bottom is one of those not finite.
Rejected(c, altimeter) ==
  \/ c.mode["x"] # c.mode["y"]
  \/ c.mode["z"] = "POSITION" /\ c.altitude /\ ~altimeter
  \/ ~c.finite

\* Variant: z changes its coordinates and stays where it was.
RebasesNever(g, c) == FALSE

\* apply() measures z anew when it goes from depth to altitude or back.
Rebases(g, c) == c.mode["z"] = "POSITION" /\ c.altitude # g.altitude

\* apply(), of a command it accepts.
Applied(g, c) ==
  LET gives(a) == c.mode[a] # "KEEP"
  IN  [mode |-> [a \in Axes |-> IF gives(a) THEN c.mode[a] ELSE g.mode[a]],
       left |-> [a \in Axes |-> IF c.mode[a] \in Streamed THEN c.left
                                ELSE IF c.mode[a] = "HOLD" THEN NoLimit ELSE g.left[a]],
       altitude |-> IF c.mode["z"] = "POSITION" THEN c.altitude ELSE g.altitude,
       reference |-> IF Rebases(g, c) THEN Coordinate(c.altitude) ELSE g.reference,
       target |-> IF c.mode["z"] = "POSITION" THEN c.zin ELSE g.target,
       source |-> [a \in Axes |-> IF gives(a) THEN c.id ELSE g.source[a]],
       due |-> [a \in Axes |-> IF c.mode[a] \in Streamed THEN c.due ELSE g.due[a]]]

\* start_hold() on each of the axes.
StartHold(g, axes) ==
  [g EXCEPT !.mode = [a \in Axes |-> IF a \in axes THEN "HOLD" ELSE g.mode[a]],
            !.left = [a \in Axes |-> IF a \in axes THEN NoLimit ELSE g.left[a]]]

\* Variant: the altitude is given up and z not measured anew.
DroppedInPlace(g) ==
  IF ~g.altitude THEN g
  ELSE [StartHold(g, {"z"}) EXCEPT !.altitude = FALSE, !.source["z"] = Own]

\* drop_altitude().
DropAltitude(g) ==
  IF ~g.altitude THEN g
  ELSE [StartHold(g, {"z"}) EXCEPT !.altitude = FALSE, !.reference = "depth",
                                   !.source["z"] = Own]

\* Variant: only an axis with a velocity expires.
OverdueVelocities(g) == {a \in Axes : g.mode[a] = "VELOCITY" /\ Expired(g.left[a])}

\* The axes whose stream has stood for its time.
Overdue(g) == {a \in Axes : g.mode[a] \in Streamed /\ Expired(g.left[a])}

\* Held axes that have come to rest take their place as a target; y goes with x.
Settled(g, resting) ==
  LET settles(a) == (IF a = "y" THEN "x" ELSE a) \in resting
  IN  [g EXCEPT !.mode = [a \in Axes |-> IF settles(a) THEN "POSITION" ELSE g.mode[a]],
                !.target = IF settles("z") THEN g.reference ELSE g.target]

\* The held axes that may be at rest: x stands for x and y, shaped together.
MayRest(g) ==
  {a \in Axes \ {"y"} : g.mode[a] = "HOLD" /\ (a = "x" => g.mode["y"] # "EFFORT")}

\* update(): overdue streams hold, and held axes settle.
Updates(g) ==
  LET held == StartHold(g, Overdue(g))
  IN  {Settled(held, resting) : resting \in SUBSET MayRest(held)}

\* A tick goes by.
Aged(g) == [g EXCEPT !.left = [a \in Axes |-> Elapsed(g.left[a])],
                     !.due = [a \in Axes |-> Elapsed(g.due[a])]]
=============================================================================
