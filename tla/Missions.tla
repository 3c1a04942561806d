------------------------------ MODULE Missions ------------------------------
(***************************************************************************)
(* What the restart node promises: the mission runs again from the         *)
(* beginning once the kill switch is released, once for each release at    *)
(* most, one at a time, and none is left when the node is over.            *)
(***************************************************************************)
EXTENDS Naturals

VARIABLES
  releases,  \* times the kill switch was released
  running,   \* a process of a mission may be left
  served,    \* the release the last mission was started for, or 0
  over       \* the node left main()

promised == <<releases, running, served, over>>

Init == releases \in {0, 1} /\ running = FALSE /\ served = 0 /\ over = FALSE

Release ==
  /\ releases' = releases + 1
  /\ UNCHANGED <<running, served, over>>

\* Only for a release there was, and later than those already served.
Start ==
  /\ ~running /\ ~over
  /\ running' = TRUE
  /\ served' \in 1 .. releases /\ served < served'
  /\ UNCHANGED <<releases, over>>

End ==
  /\ running
  /\ running' = FALSE
  /\ UNCHANGED <<releases, served, over>>

Exit ==
  /\ ~running /\ ~over
  /\ over' = TRUE
  /\ UNCHANGED <<releases, running, served>>

Next == Release \/ Start \/ End \/ Exit

Spec == Init /\ [][Next]_promised
=============================================================================
