------------------------------ MODULE KillPath ------------------------------
(***************************************************************************)
(* The kill switch and the thrust path together: sub_control, of which     *)
(* Interlock is all that is assumed, and what it sends on its way to the   *)
(* board.  The switch being engaged, how long do the thrusters turn?       *)
(***************************************************************************)
EXTENDS ThrustPath

VARIABLES
  killed,     \* killed_
  thrusting,  \* the last thruster command was not to stop
  killedFor   \* history: ticks since killed_ became TRUE, 0 while it is not

kill == <<killed, thrusting, killedFor>>
pathVars == <<vars, kill>>

Control == INSTANCE Interlock

\* No longer than this may the thrusters follow a decision.
Longest == Reach + Watchdog

PathInit == Init /\ Control!Init /\ killedFor = 0

\* A command is sent to whoever takes it.
Sent(drive) == Send(drive) \/ UNCHANGED vars

\* kill_callback with the switch engaged, or the node starts again.
KillCallback ==
  /\ Control!Kill
  /\ Sent(FALSE)
  /\ UNCHANGED killedFor

ReleaseCallback ==
  /\ Control!Release
  /\ killedFor' = 0
  /\ UNCHANGED vars

\* run() decides, and publishes.
RunCycle ==
  /\ Control!Decide
  /\ Sent(thrusting')
  /\ UNCHANGED killedFor

PathNext ==
  \/ KillCallback \/ ReleaseCallback \/ RunCycle
  \/ /\ Carry
     /\ UNCHANGED kill
  \/ /\ Tick
     /\ killedFor' = IF killed THEN Older(killedFor, Longest) ELSE 0
     /\ UNCHANGED <<killed, thrusting>>

PathSpec == PathInit /\ [][PathNext]_pathVars

\* As ThrustPath's: the poll timer fires and time passes.
FairPathSpec == PathSpec /\ WF_vars(Poll) /\ WF_vars(Tick)

-----------------------------------------------------------------------------
\* Once the node heard the switch engaged, the thrusters stop within the time the
\* graph, the link and the watchdog may each hold an earlier decision, be its own
\* STOP lost, the node gone or the link cut: but for a cut-off line, as above.
KilledStops == killedFor > Longest => ~(board.drive /\ board.whole)
=============================================================================
