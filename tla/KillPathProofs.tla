--------------------------- MODULE KillPathProofs ---------------------------
(***************************************************************************)
(* Proofs about KillPath, for every value of its constants: it is a thrust *)
(* path, and what is on its way was decided before the kill.               *)
(***************************************************************************)
EXTENDS KillPath, ThrustPathProofs

USE TimeAssumption, LinkAssumption

\* A kill path is a thrust path whose commands sub_control sends: all that holds
\* of the one holds of the other.
THEOREM IsAThrustPath == PathSpec => Spec
<1>1. PathInit => Init
  BY DEF PathInit
<1>2. [PathNext]_pathVars => [Next]_vars
  <2>1. ASSUME NEW drive \in BOOLEAN, Sent(drive) PROVE [Next]_vars
    BY <2>1 DEF Sent, Decide, Next
  <2>2. CASE KillCallback
    BY <2>1, <2>2 DEF KillCallback
  <2>3. CASE RunCycle
    BY <2>1, <2>3 DEF RunCycle, Control!Decide
  <2>4. CASE ReleaseCallback \/ Carry \/ Tick \/ UNCHANGED pathVars
    BY <2>4 DEF ReleaseCallback, Next, pathVars
  <2> QED
    BY <2>2, <2>3, <2>4 DEF PathNext
<1> QED
  BY <1>1, <1>2, PTL DEF PathSpec, Spec

\* The node in it is one: it does what Interlock says, and nothing else.
LEMMA IsAnInterlock == PathSpec => Control!Spec
<1>1. PathInit => Control!Init
  BY DEF PathInit
<1>2. [PathNext]_pathVars => [Control!Next]_(Control!interlock)
  BY DEF PathNext, KillCallback, ReleaseCallback, RunCycle, kill, pathVars,
         Control!Next, Control!interlock
<1> QED
  BY <1>1, <1>2, PTL DEF PathSpec, Control!Spec

-----------------------------------------------------------------------------
(* The inductive invariant. *)

LongestNat == Longest \in Nat /\ Longest < Ancient

LEMMA LongestIs == LongestNat
  BY AncientNat DEF LongestNat, Longest

KillType ==
  /\ killed \in BOOLEAN /\ thrusting \in BOOLEAN
  /\ killedFor \in 0 .. Longest + 1
  /\ ~killed => killedFor = 0

\* Every command to turn was decided before the kill: in the graph, where one that
\* is stale already does not matter, on the link, cut off, and at the board.
Before ==
  /\ \A i \in DOMAIN graph :
       graph[i].drive => killedFor <= graph[i].age \/ graph[i].age > CommandTimeout
  /\ \A i \in DOMAIN out : out[i].kind = "drive" => killedFor <= out[i].age
  /\ scrap # NoScrap /\ scrap.kind = "drive" => killedFor <= scrap.age
  /\ board.drive => killedFor <= board.age

LEMMA KillTypeStep == KillType /\ [PathNext]_pathVars => KillType'
<1> SUFFICES ASSUME KillType, [PathNext]_pathVars PROVE KillType'
  OBVIOUS
<1>0. Longest \in Nat
  BY LongestIs DEF LongestNat
<1>1. CASE KillCallback
  BY <1>1 DEF KillCallback, Control!Kill, KillType
<1>2. CASE ReleaseCallback
  <2>1. /\ killed' = FALSE /\ thrusting' = thrusting /\ killedFor' = 0
        /\ thrusting \in BOOLEAN
    BY <1>2 DEF ReleaseCallback, Control!Release, KillType
  <2>2. killedFor' \in 0 .. Longest + 1
    BY <1>0, <2>1
  <2> QED
    BY <2>1, <2>2 DEF KillType
<1>3. CASE RunCycle
  BY <1>3 DEF RunCycle, Control!Decide, KillType
<1>4. CASE Carry /\ UNCHANGED kill
  BY <1>4 DEF kill, KillType
<1>5. CASE UNCHANGED pathVars
  BY <1>5 DEF pathVars, kill, KillType
<1>6. CASE /\ killedFor' = IF killed THEN Older(killedFor, Longest) ELSE 0
           /\ UNCHANGED <<killed, thrusting>>
  <2>1. Older(killedFor, Longest) \in 0 .. Longest + 1
    BY <1>0, OlderAge DEF KillType
  <2> QED
    BY <1>0, <1>6, <2>1 DEF KillType
<1> QED
  BY <1>1, <1>2, <1>3, <1>4, <1>5, <1>6 DEF PathNext

\* The ages of what is on its way.
LEMMA AgeTypes ==
  ASSUME TypeOK
  PROVE  /\ \A i \in DOMAIN graph : graph[i] \in Message /\ graph[i].age \in Nat
         /\ \A i \in DOMAIN out : out[i] \in Line /\ out[i].age \in 0 .. Ancient + 1
         /\ scrap # NoScrap => scrap.age \in 0 .. Ancient + 1
         /\ board.age \in 0 .. Ancient + 1 /\ board.drive \in BOOLEAN
<1>1. /\ \A i \in DOMAIN graph : graph[i] \in Message
      /\ \A i \in DOMAIN out : out[i] \in Line
  BY ElementType DEF TypeOK
<1> QED
  BY <1>1, AncientNat DEF TypeOK, Message, Line, Board

\* A command sent while the switch is engaged is to stop.
LEMMA BeforeSend ==
  ASSUME TypeOK, KillType, Before, NEW drive \in BOOLEAN, Sent(drive),
         drive => killedFor = 0, killedFor' = killedFor
  PROVE  Before'
<1>1. CASE UNCHANGED vars
  BY <1>1 DEF vars, device, Before
<1>2. CASE Send(drive)
  <2>1. /\ graph' = Append(graph, [drive |-> drive, age |-> 0])
        /\ UNCHANGED <<out, scrap, board>>
    BY <1>2 DEF Send, device
  <2>2. graph \in Seq(Message) /\ [drive |-> drive, age |-> 0] \in Message
    BY DEF TypeOK, Message
  <2>3. \A i \in DOMAIN graph' : \/ i \in DOMAIN graph /\ graph'[i] = graph[i]
                                 \/ graph'[i] = [drive |-> drive, age |-> 0]
    BY <2>1, <2>2, AppendIndex
  <2> QED
    BY <2>1, <2>3 DEF Before
<1> QED
  BY <1>1, <1>2 DEF Sent

\* What the board has of a line that is cut off is as old as the line.
LEMMA BeforeCutOff ==
  ASSUME TypeOK, Before, NEW cut \in CutOff
  PROVE  cut # NoScrap /\ cut.kind = "drive" => killedFor <= cut.age
<1>1. out # <<>> => 1 \in DOMAIN out /\ Head(out) = out[1]
  BY TailIndex DEF TypeOK
<1> QED
  BY <1>1 DEF CutOff, Before

\* A line is written that a live command became, or that stops.
LEMMA BeforeWrite ==
  ASSUME TypeOK, Before, NEW line \in Line, Write(line),
         line.kind = "drive" => killedFor <= line.age,
         \A i \in DOMAIN graph' : \E j \in DOMAIN graph : graph'[i] = graph[j],
         board' = board, killedFor' = killedFor
  PROVE  Before'
<1>1. CASE out' = Append(out, line) /\ UNCHANGED <<port, scrap>>
  <2>1. \A i \in DOMAIN out' : (i \in DOMAIN out /\ out'[i] = out[i]) \/ out'[i] = line
    BY <1>1, AppendIndex DEF TypeOK
  <2> QED
    BY <1>1, <2>1 DEF Before
<1>2. CASE Disconnect
  BY <1>2, BeforeCutOff DEF Disconnect, Before
<1>3. CASE UNCHANGED <<port, scrap, out>>
  BY <1>3 DEF Before
<1> QED
  BY <1>1, <1>2, <1>3 DEF Write

LEMMA BeforeReads ==
  ASSUME TypeOK, Before, BoardReads, killedFor' = killedFor
  PROVE  Before'
<1>1. /\ 1 \in DOMAIN out /\ Head(out) = out[1] /\ out[1] \in Line
      /\ \A i \in DOMAIN Tail(out) : i + 1 \in DOMAIN out /\ Tail(out)[i] = out[i + 1]
  BY TailIndex, ElementType DEF TypeOK, BoardReads
<1>2. out' = Tail(out) /\ scrap' = NoScrap /\ graph' = graph
  BY DEF BoardReads
<1>3. \/ board' = board
      \/ scrap # NoScrap /\ board' = Obeying(scrap, FALSE)
      \/ board' = Obeying(out[1], TRUE)
  BY <1>1 DEF BoardReads
<1>4. board'.drive => killedFor <= board'.age
  <2>1. ASSUME scrap # NoScrap, board' = Obeying(scrap, FALSE), board'.drive
        PROVE  killedFor <= board'.age
    <3>1. scrap \in Line
      BY <2>1 DEF TypeOK
    <3>2. board'.drive = (scrap.kind = "drive") /\ board'.age = scrap.age
      BY <2>1, <3>1, ObeyingType
    <3> QED
      BY <2>1, <3>2 DEF Before
  <2>2. ASSUME board' = Obeying(out[1], TRUE), board'.drive
        PROVE  killedFor <= board'.age
    <3>1. board'.drive = (out[1].kind = "drive") /\ board'.age = out[1].age
      BY <1>1, <2>2, ObeyingType
    <3> QED
      BY <1>1, <2>2, <3>1 DEF Before
  <2>3. ASSUME board' = board, board'.drive
        PROVE  killedFor <= board'.age
    BY <2>3 DEF Before
  <2> QED
    BY <1>3, <2>1, <2>2, <2>3
<1> QED
  BY <1>1, <1>2, <1>4 DEF Before

LEMMA BeforeCarry ==
  ASSUME TypeOK, Before, Carry, killedFor' = killedFor
  PROVE  Before'
<1>1. CASE BoardReads
  BY <1>1, BeforeReads
<1>2. CASE BoardRestart
  <2>1. board'.drive = FALSE
    BY <1>2 DEF BoardRestart, TypeOK, Board
  <2> QED
    BY <1>2, <2>1 DEF BoardRestart, Before
<1>3. CASE Unplug
  BY <1>3, BeforeCutOff DEF Unplug, Before
<1>4. CASE Plug \/ PollHears \/ PollWaits \/ Start
  BY <1>4 DEF Plug, PollHears, PollWaits, Start, device, Before
<1>5. CASE PollGone \/ ExitCloses \/ Crash \/ PollSilence
  <2>1. CASE Disconnect /\ UNCHANGED <<graph, board>>
    BY <2>1, BeforeCutOff DEF Disconnect, Before
  <2>2. CASE UNCHANGED <<graph, out, scrap, board>>
    BY <2>2 DEF Before
  <2> QED
    BY <1>5, <2>1, <2>2 DEF PollGone, ExitCloses, Crash, PollSilence
<1>6. CASE PollConnects
  <2>1. CASE UNCHANGED <<out, board>>
    BY <1>6, <2>1 DEF PollConnects, Before
  <2>2. CASE out' = Hello /\ board' = [board EXCEPT !.here = FALSE]
    <3>1. board'.drive = board.drive /\ board'.age = board.age
      BY <2>2 DEF TypeOK, Board
    <3>2. \A i \in DOMAIN out' : out'[i].kind # "drive"
      BY <2>2 DEF Hello, End, Stop
    <3> QED
      BY <1>6, <3>1, <3>2 DEF PollConnects, Before
  <2> QED
    BY <1>6, <2>1, <2>2 DEF PollConnects
<1>7. ASSUME graph # <<>>
      PROVE  /\ 1 \in DOMAIN graph /\ Head(graph) = graph[1] /\ graph[1] \in Message
             /\ \A i \in DOMAIN Tail(graph) : i + 1 \in DOMAIN graph
                                             /\ Tail(graph)[i] = graph[i + 1]
  BY <1>7, TailIndex, ElementType DEF TypeOK
<1>8. CASE Lose
  BY <1>7, <1>8 DEF Lose, device, Before
<1>9. CASE ThrustersCallback
  <2>1. /\ graph # <<>> /\ graph' = Tail(graph) /\ board' = board
    BY <1>9 DEF ThrustersCallback
  <2>2. CASE UNCHANGED <<port, scrap, out>>
    BY <1>7, <2>1, <2>2 DEF Before
  <2>3. CASE ~Stale(graph[1])
    <3> DEFINE line == [kind |-> IF graph[1].drive THEN "drive" ELSE "stop",
                        age |-> graph[1].age]
    <3>1. line \in Line /\ line.age = graph[1].age /\ (line.kind = "drive" => graph[1].drive)
      BY <1>7, <2>1, CommandLine
    <3>2. Write(line)
      BY <1>7, <1>9, <2>1, <2>3 DEF ThrustersCallback
    <3>3. line.kind = "drive" => killedFor <= line.age
      <4>1. ~(graph[1].age > CommandTimeout)
        BY <2>3 DEF Stale
      <4> QED
        BY <1>7, <2>1, <3>1, <4>1 DEF Before
    <3> HIDE DEF line
    <3>4. \A i \in DOMAIN graph' : \E j \in DOMAIN graph : graph'[i] = graph[j]
      BY <1>7, <2>1
    <3> QED
      BY <2>1, <3>1, <3>2, <3>3, <3>4, BeforeWrite
  <2> QED
    BY <1>7, <1>9, <2>1, <2>2, <2>3 DEF ThrustersCallback
<1>10. CASE ExitWrites
  <2>1. Stop \in Line /\ Stop.kind # "drive"
    BY HelloType DEF Stop
  <2>2. Write(Stop) /\ UNCHANGED <<graph, board>>
    BY <1>10 DEF ExitWrites
  <2> QED
    BY <2>1, <2>2, BeforeWrite
<1> QED
  BY <1>1, <1>2, <1>3, <1>4, <1>5, <1>6, <1>8, <1>9, <1>10 DEF Carry, Poll

\* All ages grow together; one that is as old as any stays older than the kill.
LEMMA BeforeOlder ==
  ASSUME NEW age \in 0 .. Ancient + 1, NEW since \in 0 .. Longest + 1, since <= age
  PROVE  Older(since, Longest) <= Older(age, Ancient)
  BY LongestIs, AncientNat DEF LongestNat, Older

LEMMA BeforeTick ==
  ASSUME TypeOK, KillType, Before, Tick,
         killedFor' = IF killed THEN Older(killedFor, Longest) ELSE 0
  PROVE  Before'
<1>0. /\ killedFor \in 0 .. Longest + 1
      /\ killedFor' \in {0, Older(killedFor, Longest)}
      /\ Longest \in Nat /\ Ancient \in Nat
  BY LongestIs, AncientNat DEF KillType, LongestNat
<1>1. killedFor' <= killedFor + 1
  <2>1. Older(killedFor, Longest) <= killedFor + 1
    BY <1>0, OlderAge
  <2>2. killedFor \in Nat
    BY <1>0
  <2> QED
    BY <1>0, <2>1, <2>2
<1>2. ASSUME NEW age \in 0 .. Ancient + 1, killedFor <= age
      PROVE  killedFor' <= Older(age, Ancient)
  <2>1. Older(killedFor, Longest) <= Older(age, Ancient)
    BY <1>0, <1>2, BeforeOlder
  <2>2. 0 <= Older(age, Ancient)
    BY <1>0, OlderAge
  <2> QED
    BY <1>0, <2>1, <2>2
<1>3. ASSUME NEW i \in DOMAIN graph', graph'[i].drive
      PROVE  killedFor' <= graph'[i].age \/ graph'[i].age > CommandTimeout
  <2>1. /\ i \in DOMAIN graph
        /\ graph'[i] = [graph[i] EXCEPT !.age = Older(graph[i].age, CommandTimeout)]
    BY <1>3 DEF Tick
  <2>2. graph[i] \in Message
    BY <2>1, AgeTypes
  <2>3. graph'[i].drive = graph[i].drive /\ graph'[i].age = Older(graph[i].age, CommandTimeout)
        /\ graph[i].age \in Nat
    BY <2>1, <2>2 DEF Message
  <2>4. killedFor <= graph[i].age \/ graph[i].age > CommandTimeout
    BY <1>3, <2>1, <2>3 DEF Before
  <2> QED
    BY <1>0, <1>1, <2>3, <2>4 DEF Older
<1>4. ASSUME NEW i \in DOMAIN out', out'[i].kind = "drive"
      PROVE  killedFor' <= out'[i].age
  <2>1. i \in DOMAIN out /\ out'[i] = [out[i] EXCEPT !.age = Older(out[i].age, Ancient)]
    BY <1>4 DEF Tick
  <2>2. out[i] \in Line /\ out[i].age \in 0 .. Ancient + 1
    BY <2>1, AgeTypes
  <2>3. out'[i].kind = out[i].kind /\ out'[i].age = Older(out[i].age, Ancient)
    BY <2>1, <2>2 DEF Line
  <2> QED
    BY <1>2, <1>4, <2>1, <2>2, <2>3 DEF Before
<1>5. ASSUME scrap' # NoScrap, scrap'.kind = "drive" PROVE killedFor' <= scrap'.age
  <2>1. scrap # NoScrap /\ scrap' = [scrap EXCEPT !.age = Older(scrap.age, Ancient)]
    BY <1>5 DEF Tick
  <2>2. scrap \in Line /\ scrap.age \in 0 .. Ancient + 1
    BY <2>1, AgeTypes DEF TypeOK
  <2>3. scrap'.kind = scrap.kind /\ scrap'.age = Older(scrap.age, Ancient)
    BY <2>1, <2>2 DEF Line
  <2> QED
    BY <1>2, <1>5, <2>1, <2>2, <2>3 DEF Before
<1>6. ASSUME board'.drive PROVE killedFor' <= board'.age
  <2>1. board'.age = Older(board.age, Ancient)
        /\ board'.drive = (board.drive /\ board.quiet < Watchdog)
    BY DEF Tick, TypeOK, Board
  <2>2. board.drive
    BY <1>6, <2>1
  <2> QED
    BY <1>2, <2>1, <2>2, AgeTypes DEF Before
<1> QED
  BY <1>3, <1>4, <1>5, <1>6 DEF Before

LEMMA BeforeStep == TypeOK /\ KillType /\ Before /\ [PathNext]_pathVars => Before'
<1> SUFFICES ASSUME TypeOK, KillType, Before, [PathNext]_pathVars PROVE Before'
  OBVIOUS
<1>1. CASE KillCallback
  BY <1>1, BeforeSend DEF KillCallback
<1>2. CASE RunCycle
  <2>1. /\ thrusting' \in BOOLEAN /\ Sent(thrusting') /\ killedFor' = killedFor
        /\ thrusting' => killedFor = 0
    BY <1>2 DEF RunCycle, Control!Decide, KillType
  <2> QED
    BY <2>1, BeforeSend
<1>3. CASE ReleaseCallback
  <2>1. killedFor' = 0 /\ UNCHANGED <<graph, out, scrap, board>>
    BY <1>3 DEF ReleaseCallback, vars, device
  <2> QED
    BY <2>1, AgeTypes DEF Before
<1>4. CASE Carry /\ UNCHANGED kill
  BY <1>4, BeforeCarry DEF kill
<1>5. CASE Tick /\ killedFor' = IF killed THEN Older(killedFor, Longest) ELSE 0
  BY <1>5, BeforeTick
<1>6. CASE UNCHANGED pathVars
  BY <1>6 DEF pathVars, vars, device, kill, Before
<1> QED
  BY <1>1, <1>2, <1>3, <1>4, <1>5, <1>6 DEF PathNext

-----------------------------------------------------------------------------
\* The kill switch engaged, the thrusters stop: within command_timeout, data_timeout
\* and the board's watchdog, and a tick, whatever is lost on the way.
THEOREM StopsWhenKilled == PathSpec => []KilledStops
<1>1. PathInit => KillType /\ Before
  <2> SUFFICES ASSUME PathInit PROVE KillType /\ Before
    OBVIOUS
  <2>1. KillType
    <3>1. killed = TRUE /\ thrusting = FALSE /\ killedFor = 0
      BY DEF PathInit, Control!Init
    <3>2. killedFor \in 0 .. Longest + 1
      BY <3>1, LongestIs DEF LongestNat
    <3> QED
      BY <3>1, <3>2 DEF KillType
  <2>2. Before
    BY DEF PathInit, Init, Before
  <2> QED
    BY <2>1, <2>2
<1>2. TypeOK /\ KillType /\ Before /\ RecentDrive => KilledStops
  BY AgeTypes, LongestIs DEF LongestNat, KillType, Before, RecentDrive, KilledStops, Longest
<1> QED
  BY <1>1, <1>2, IsAThrustPath, TypeCorrect, DrivesRecently, KillTypeStep, BeforeStep, PTL
  DEF PathSpec
=============================================================================
