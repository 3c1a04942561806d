-------------------------- MODULE ThrustPathProofs --------------------------
(***************************************************************************)
(* Proofs about ThrustPath, for every value of its constants.              *)
(***************************************************************************)
EXTENDS ThrustPath, QueueLemmas

USE TimeAssumption, LinkAssumption

\* A tick keeps an age between zero and one past its limit, and adds at most one.
LEMMA OlderAge ==
  ASSUME NEW limit \in Nat, NEW age \in 0 .. limit + 1
  PROVE  /\ Older(age, limit) \in 0 .. limit + 1
         /\ Older(age, limit) <= age + 1
         /\ age <= limit => Older(age, limit) = age + 1
  BY DEF Older

LEMMA AncientNat == Reach \in Nat /\ Ancient \in Nat /\ Reach + Watchdog < Ancient
  BY DEF Reach, Ancient

\* The age of a decision grows by one at most.
LEMMA AncientAge ==
  ASSUME NEW age \in 0 .. Ancient + 1
  PROVE  Older(age, Ancient) \in Int /\ Older(age, Ancient) <= age + 1
  BY AncientNat DEF Older

LEMMA HelloType ==
  /\ End \in Line /\ Stop \in Line /\ Hello \in Seq(Line)
  /\ Len(Hello) = 2 /\ Hello[1] = End /\ Hello[2] = Stop
<1>1. End \in Line /\ Stop \in Line
  BY AncientNat DEF End, Stop, Line
<1>2. <<End, Stop>> \in Seq(Line)
  BY <1>1
<1> QED
  BY <1>1, <1>2 DEF Hello

\* What the board does with a line is typed.
LEMMA ObeyingType ==
  ASSUME NEW line \in Line, NEW whole \in BOOLEAN
  PROVE  /\ Obeying(line, whole) \in Board
         /\ Obeying(line, whole).drive = (line.kind = "drive")
         /\ Obeying(line, whole).age = line.age
         /\ Obeying(line, whole).quiet = 0
         /\ Obeying(line, whole).here = whole
         /\ Obeying(line, whole).whole = whole
  BY DEF Obeying, Board, Line

\* The line cut off by a link that is lost.
LEMMA CutOffType == TypeOK => CutOff \subseteq Line \cup {NoScrap}
<1> SUFFICES ASSUME TypeOK PROVE CutOff \subseteq Line \cup {NoScrap}
  OBVIOUS
<1>1. out # <<>> => Head(out) \in Line
  BY HeadTailProperties DEF TypeOK
<1> QED
  BY <1>1 DEF CutOff, TypeOK

LEMMA DisconnectType ==
  ASSUME TypeOK, Disconnect
  PROVE  port' = "closed" /\ out' = <<>> /\ out' \in Seq(Line) /\ scrap' \in Line \cup {NoScrap}
  BY CutOffType, EmptySeq DEF Disconnect

LEMMA WriteType ==
  ASSUME TypeOK, NEW line \in Line, Write(line)
  PROVE  /\ port' \in {"closed", "open", "hung"}
         /\ out' \in Seq(Line)
         /\ scrap' \in Line \cup {NoScrap}
<1>1. Append(out, line) \in Seq(Line)
  BY AppendProperties DEF TypeOK
<1>2. CASE Disconnect
  BY <1>2, DisconnectType
<1>3. CASE ~Disconnect
  BY <1>1, <1>3 DEF Write, TypeOK
<1> QED
  BY <1>2, <1>3

\* The line a message becomes.
LEMMA CommandLine ==
  ASSUME NEW message \in Message
  PROVE  [kind |-> IF message.drive THEN "drive" ELSE "stop", age |-> message.age] \in Line
  BY AncientNat DEF Message, Line, Ancient, Reach

LEMMA InitType == Init => TypeOK
<1> SUFFICES ASSUME Init PROVE TypeOK
  OBVIOUS
<1>1. board \in Board
  BY AncientNat DEF Init, Board
<1>2. graph \in Seq(Message) /\ out \in Seq(Line)
  BY EmptySeq DEF Init
<1>3. /\ alive \in BOOLEAN /\ port \in {"closed", "open", "hung"}
      /\ polled \in BOOLEAN /\ stopSent \in BOOLEAN /\ plugged \in BOOLEAN
      /\ attempt = NoTime /\ scrap = NoScrap /\ silent = 0
  BY DEF Init
<1>4. silent \in 0 .. DataTimeout + 1
  BY <1>3
<1> QED
  BY <1>1, <1>2, <1>3, <1>4 DEF TypeOK

LEMMA BoardReadsType == TypeOK /\ BoardReads => TypeOK'
<1> SUFFICES ASSUME TypeOK, BoardReads PROVE TypeOK'
  OBVIOUS
<1>1. Tail(out) \in Seq(Line) /\ Head(out) \in Line
  BY HeadTailProperties DEF TypeOK, BoardReads
<1>2. scrap # NoScrap => Obeying(scrap, FALSE) \in Board
  BY ObeyingType DEF TypeOK
<1>3. Obeying(Head(out), TRUE) \in Board
  BY <1>1, ObeyingType
<1>4. board' \in Board
  BY <1>2, <1>3 DEF TypeOK, BoardReads
<1> QED
  BY <1>1, <1>4 DEF TypeOK, BoardReads, node

LEMMA PollType == TypeOK /\ Poll => TypeOK'
<1> SUFFICES ASSUME TypeOK, Poll PROVE TypeOK'
  OBVIOUS
<1>1. CASE PollGone
  BY <1>1, DisconnectType DEF PollGone, TypeOK
<1>2. CASE PollHears
  BY <1>2 DEF PollHears, TypeOK, device
<1>3. CASE PollSilence
  <2>1. CASE silent > DataTimeout
    BY <1>3, <2>1, DisconnectType DEF PollSilence, TypeOK
  <2>2. CASE ~(silent > DataTimeout)
    BY <1>3, <2>2 DEF PollSilence, TypeOK
  <2> QED
    BY <2>1, <2>2
<1>4. CASE PollWaits
  BY <1>4 DEF PollWaits, TypeOK, device
<1>5. CASE PollConnects
  <2>1. [board EXCEPT !.here = FALSE] \in Board
    BY DEF TypeOK, Board
  <2>2. out' \in Seq(Line) /\ board' \in Board
    BY <1>5, <2>1, HelloType DEF PollConnects, TypeOK
  <2> QED
    BY <1>5, <2>2 DEF PollConnects, TypeOK
<1> QED
  BY <1>1, <1>2, <1>3, <1>4, <1>5 DEF Poll

\* The messages and the lines a tick leaves.
LEMMA TickType == TypeOK /\ Tick => TypeOK'
<1> SUFFICES ASSUME TypeOK, Tick PROVE TypeOK'
  OBVIOUS
<1>1. graph' \in Seq(Message)
  <2>1. ASSUME NEW m \in Message
        PROVE  [m EXCEPT !.age = Older(m.age, CommandTimeout)] \in Message
    BY OlderAge DEF Message
  <2>2. \A i \in DOMAIN graph : graph[i] \in Message
    BY ElementOfSeq DEF TypeOK
  <2> DEFINE later == [i \in DOMAIN graph |->
                         [graph[i] EXCEPT !.age = Older(graph[i].age, CommandTimeout)]]
  <2>3. \A i \in DOMAIN graph : later[i] \in Message
    BY <2>1, <2>2
  <2>4. later \in Seq(Message)
    <3>1. later = [i \in DOMAIN graph |-> later[i]]
      OBVIOUS
    <3> HIDE DEF later
    <3> QED
      BY <2>3, <3>1, MapInSeq DEF TypeOK
  <2> QED
    BY <2>4 DEF Tick
<1>2. ASSUME NEW l \in Line
      PROVE  [l EXCEPT !.age = Older(l.age, Ancient)] \in Line
  BY OlderAge, AncientNat DEF Line
<1>3. out' \in Seq(Line)
  <2>2. \A i \in DOMAIN out : out[i] \in Line
    BY ElementOfSeq DEF TypeOK
  <2> DEFINE later == [i \in DOMAIN out |-> [out[i] EXCEPT !.age = Older(out[i].age, Ancient)]]
  <2>3. \A i \in DOMAIN out : later[i] \in Line
    BY <1>2, <2>2
  <2>4. later \in Seq(Line)
    <3>1. later = [i \in DOMAIN out |-> later[i]]
      OBVIOUS
    <3> HIDE DEF later
    <3> QED
      BY <2>3, <3>1, MapInSeq DEF TypeOK
  <2> QED
    BY <2>4 DEF Tick
<1>4. scrap' \in Line \cup {NoScrap}
  BY <1>2 DEF Tick, TypeOK
<1>5. /\ attempt' \in (0 .. ReconnectPeriod + 1) \cup {NoTime}
      /\ silent' \in 0 .. DataTimeout + 1
  BY OlderAge DEF Tick, TypeOK
<1>6. board' \in Board
  <2>1. /\ Older(board.age, Ancient) \in 0 .. Ancient + 1
        /\ Older(board.quiet, Watchdog) \in 0 .. Watchdog + 1
    BY OlderAge, AncientNat DEF TypeOK, Board
  <2>2. (board.drive /\ board.quiet < Watchdog) \in BOOLEAN
    BY DEF TypeOK, Board
  <2> QED
    BY <2>1, <2>2 DEF Tick, TypeOK, Board
<1> QED
  BY <1>1, <1>3, <1>4, <1>5, <1>6 DEF Tick, TypeOK

\* Every step keeps every variable in its type.
LEMMA TypeStep == TypeOK /\ [Next]_vars => TypeOK'
<1> SUFFICES ASSUME TypeOK, [Next]_vars PROVE TypeOK'
  OBVIOUS
<1> USE DEF node, device
<1>1. CASE BoardReads
  BY <1>1, BoardReadsType
<1>2. CASE BoardRestart
  <2>1. [board EXCEPT !.drive = FALSE] \in Board
    BY DEF TypeOK, Board
  <2> QED
    BY <1>2, <2>1 DEF BoardRestart, TypeOK
<1>3. CASE Unplug
  BY <1>3, CutOffType, EmptySeq DEF Unplug, TypeOK
<1>4. CASE Plug
  BY <1>4 DEF Plug, TypeOK
<1>5. CASE Poll
  BY <1>5, PollType
<1>6. CASE Decide
  <2>1. PICK drive \in BOOLEAN : graph' = Append(graph, [drive |-> drive, age |-> 0])
    BY <1>6 DEF Decide, Send
  <2>2. [drive |-> drive, age |-> 0] \in Message
    BY DEF Message
  <2>3. graph' \in Seq(Message)
    BY <2>1, <2>2, AppendProperties DEF TypeOK
  <2> QED
    BY <1>6, <2>3 DEF Decide, Send, TypeOK
<1>7. CASE Lose
  BY <1>7, HeadTailProperties DEF Lose, TypeOK
<1>8. CASE ThrustersCallback
  <2>1. Head(graph) \in Message /\ Tail(graph) \in Seq(Message)
    BY <1>8, HeadTailProperties DEF ThrustersCallback, TypeOK
  <2>2. CASE Stale(Head(graph))
    BY <1>8, <2>1, <2>2 DEF ThrustersCallback, TypeOK
  <2>3. CASE ~Stale(Head(graph))
    <3> DEFINE line == [kind |-> IF Head(graph).drive THEN "drive" ELSE "stop",
                        age |-> Head(graph).age]
    <3>1. line \in Line
      BY <2>1, CommandLine
    <3>2. Write(line)
      BY <1>8, <2>3 DEF ThrustersCallback
    <3> HIDE DEF line
    <3>3. /\ port' \in {"closed", "open", "hung"}
          /\ out' \in Seq(Line) /\ scrap' \in Line \cup {NoScrap}
      BY <3>1, <3>2, WriteType
    <3>4. /\ graph' \in Seq(Message)
          /\ UNCHANGED <<alive, attempt, silent, polled, stopSent, plugged, board>>
      BY <1>8, <2>1 DEF ThrustersCallback
    <3> QED
      BY <3>3, <3>4 DEF TypeOK
  <2> QED
    BY <2>2, <2>3
<1>9. CASE ExitWrites
  BY <1>9, WriteType, HelloType DEF ExitWrites, TypeOK
<1>10. CASE ExitCloses
  BY <1>10, DisconnectType DEF ExitCloses, TypeOK
<1>11. CASE Crash
  BY <1>11, DisconnectType DEF Crash, TypeOK
<1>12. CASE Start
  <2>1. /\ alive' = TRUE /\ attempt' = NoTime /\ polled' = FALSE /\ stopSent' = FALSE
        /\ UNCHANGED <<graph, port, out, plugged, scrap, board>>
        /\ silent' \in 0 .. DataTimeout + 1
    BY <1>12 DEF Start
  <2> QED
    BY <2>1 DEF TypeOK
<1>13. CASE Tick
  BY <1>13, TickType
<1>14. CASE UNCHANGED vars
  BY <1>14 DEF vars, TypeOK
<1> QED
  BY <1>1, <1>2, <1>3, <1>4, <1>5, <1>6, <1>7, <1>8, <1>9, <1>10, <1>11, <1>12, <1>13, <1>14
  DEF Next, Carry

\* Whatever its limits, the thrust path stays within its types.
THEOREM TypeCorrect == Spec => []TypeOK
  BY InitType, TypeStep, PTL DEF Spec

-----------------------------------------------------------------------------
(* A reopened link first stops the thrusters.                              *)

\* What the board is about to read on an open port: the end of a cut-off line
\* and then STOP; STOP; or anything, and the thrusters already obey this
\* connection.
Greeted ==
  port = "open" =>
    \/ Len(out) >= 2 /\ out[1].kind = "end" /\ out[2].kind = "stop"
    \/ scrap = NoScrap /\ Len(out) >= 1 /\ out[1].kind = "stop"
    \/ scrap = NoScrap /\ (board.drive => board.here)

\* A queue keeps its first elements when one is appended.
LEMMA KeepsHead ==
  ASSUME NEW S, NEW s \in Seq(S), NEW e \in S
  PROVE  /\ Len(Append(s, e)) = Len(s) + 1
         /\ \A i \in 1 .. Len(s) : Append(s, e)[i] = s[i]
  BY AppendProperties

LEMMA GreetedWrite ==
  ASSUME TypeOK, Greeted, NEW line \in Line, Write(line), board' = board
  PROVE  Greeted'
<1>1. CASE port = "open" /\ Len(out) < Capacity /\ out' = Append(out, line)
           /\ UNCHANGED <<port, scrap>>
  <2>1. Len(out) \in Nat /\ out \in Seq(Line)
    BY LenProperties DEF TypeOK
  <2>2. Len(out') = Len(out) + 1 /\ \A i \in 1 .. Len(out) : out'[i] = out[i]
    BY <1>1, <2>1, KeepsHead
  <2> QED
    BY <1>1, <2>1, <2>2 DEF Greeted
<1>2. CASE Disconnect
  BY <1>2 DEF Disconnect, Greeted
<1>3. CASE port = "closed" /\ UNCHANGED <<port, scrap, out>>
  BY <1>3 DEF Greeted
<1> QED
  BY <1>1, <1>2, <1>3 DEF Write

LEMMA GreetedReads == TypeOK /\ Greeted /\ BoardReads => Greeted'
<1> SUFFICES ASSUME TypeOK, Greeted, BoardReads, port = "open" PROVE Greeted'
  BY DEF Greeted, BoardReads, node
<1>1. /\ out \in Seq(Line) /\ out # <<>> /\ Len(out) \in Nat /\ Len(out) >= 1
      /\ Head(out) = out[1] /\ out[1] \in Line
      /\ Len(Tail(out)) = Len(out) - 1
      /\ Len(out) >= 2 => Tail(out)[1] = out[2]
  BY HeadTailProperties, LenProperties, EmptySeq, ElementOfSeq DEF TypeOK, BoardReads
<1>2. out' = Tail(out) /\ scrap' = NoScrap /\ port' = "open"
  BY DEF BoardReads, node
<1>3. CASE out[1].kind = "end"
  <2>1. CASE Len(out) >= 2 /\ out[2].kind = "stop"
    BY <1>1, <1>2, <2>1 DEF Greeted
  <2>2. CASE scrap = NoScrap /\ (board.drive => board.here)
    BY <1>1, <1>2, <1>3, <2>2 DEF BoardReads, Greeted
  <2> QED
    BY <1>3, <2>1, <2>2 DEF Greeted
<1>4. CASE out[1].kind # "end"
  <2>1. scrap = NoScrap
    BY <1>4 DEF Greeted
  <2>2. board' = Obeying(out[1], TRUE)
    BY <1>1, <1>4, <2>1 DEF BoardReads
  <2>3. board'.here
    BY <1>1, <2>2, ObeyingType
  <2> QED
    BY <1>2, <2>3 DEF Greeted
<1> QED
  BY <1>3, <1>4

LEMMA GreetedTick == TypeOK /\ Greeted /\ Tick => Greeted'
<1> SUFFICES ASSUME TypeOK, Greeted, Tick PROVE Greeted'
  OBVIOUS
<1>1. out \in Seq(Line) /\ out' \in Seq(Line)
  BY TickType DEF TypeOK
<1>2. DOMAIN out' = DOMAIN out /\ \A i \in DOMAIN out : out'[i].kind = out[i].kind
  <2>1. ASSUME NEW l \in Line
        PROVE  [l EXCEPT !.age = Older(l.age, Ancient)].kind = l.kind
    BY DEF Line
  <2>2. \A i \in DOMAIN out : out[i] \in Line
    BY <1>1, ElementOfSeq
  <2>3. /\ DOMAIN out' = DOMAIN out
        /\ \A i \in DOMAIN out : out'[i] = [out[i] EXCEPT !.age = Older(out[i].age, Ancient)]
    BY DEF Tick
  <2> QED
    BY <2>1, <2>2, <2>3
<1>3. Len(out') = Len(out) /\ Len(out) \in Nat /\ DOMAIN out = 1 .. Len(out)
  BY <1>1, <1>2, LenProperties
<1>4. /\ board'.drive => board.drive
      /\ board'.here = board.here
  BY DEF Tick, TypeOK, Board
<1>5. port' = port /\ (scrap = NoScrap => scrap' = NoScrap)
  BY DEF Tick
<1> QED
  BY <1>2, <1>3, <1>4, <1>5 DEF Greeted

LEMMA GreetedStep == TypeOK /\ Greeted /\ [Next]_vars => Greeted'
<1> SUFFICES ASSUME TypeOK, Greeted, [Next]_vars PROVE Greeted'
  OBVIOUS
<1> USE DEF node, device
<1>1. CASE BoardReads
  BY <1>1, GreetedReads
<1>2. CASE BoardRestart
  BY <1>2 DEF BoardRestart, Greeted, TypeOK, Board
<1>3. CASE Unplug
  BY <1>3 DEF Unplug, Greeted
<1>4. CASE Plug
  BY <1>4 DEF Plug, Greeted
<1>5. CASE PollGone
  BY <1>5 DEF PollGone, Disconnect, Greeted
<1>6. CASE PollHears
  BY <1>6 DEF PollHears, Greeted
<1>7. CASE PollSilence
  BY <1>7 DEF PollSilence, Disconnect, Greeted
<1>8. CASE PollWaits
  BY <1>8 DEF PollWaits, Greeted
<1>9. CASE PollConnects
  <2>1. CASE plugged
    <3>1. out' = Hello
      BY <1>9, <2>1 DEF PollConnects
    <3>2. End.kind = "end" /\ Stop.kind = "stop"
      BY DEF End, Stop
    <3> QED
      BY <3>1, <3>2, HelloType DEF Greeted
  <2>2. CASE ~plugged
    BY <1>9, <2>2 DEF PollConnects, Greeted
  <2> QED
    BY <2>1, <2>2
<1>10. CASE Decide
  BY <1>10 DEF Decide, Send, Greeted
<1>11. CASE Lose
  BY <1>11 DEF Lose, Greeted
<1>12. CASE ThrustersCallback
  <2>1. Head(graph) \in Message
    BY <1>12, HeadTailProperties DEF ThrustersCallback, TypeOK
  <2>2. CASE Stale(Head(graph))
    BY <1>12, <2>2 DEF ThrustersCallback, Greeted
  <2>3. CASE ~Stale(Head(graph))
    BY <1>12, <2>1, <2>3, CommandLine, GreetedWrite DEF ThrustersCallback
  <2> QED
    BY <2>2, <2>3
<1>13. CASE ExitWrites
  BY <1>13, HelloType, GreetedWrite DEF ExitWrites
<1>14. CASE ExitCloses
  BY <1>14 DEF ExitCloses, Disconnect, Greeted
<1>15. CASE Crash
  BY <1>15 DEF Crash, Disconnect, Greeted
<1>16. CASE Start
  BY <1>16 DEF Start, Greeted
<1>17. CASE Tick
  BY <1>17, GreetedTick
<1>18. CASE UNCHANGED vars
  BY <1>18 DEF vars, Greeted
<1> QED
  BY <1>1, <1>2, <1>3, <1>4, <1>5, <1>6, <1>7, <1>8, <1>9, <1>10, <1>11, <1>12, <1>13, <1>14,
     <1>15, <1>16, <1>17, <1>18
  DEF Next, Carry, Poll

\* Thrusters still turning for an earlier connection's command get STOP next,
\* whatever the board was cut off in.
THEOREM StopsFirst == Spec => []StoppedFirst
<1>1. Init => Greeted
  BY DEF Init, Greeted
<1>2. Greeted => StoppedFirst
  BY DEF Greeted, StoppedFirst
<1> QED
  BY <1>1, <1>2, TypeCorrect, GreetedStep, PTL DEF Spec

-----------------------------------------------------------------------------
(* The thrusters follow recent decisions.                                  *)

\* Only an open port holds lines, and once poll() ran in this tick its device
\* has not been silent for longer than it may.
Listening ==
  /\ port # "open" => out = <<>>
  /\ polled /\ port = "open" => silent <= DataTimeout

\* A line was fresh when it was written, and has waited no longer than the
\* device has been silent.
Held == \A i \in DOMAIN out : out[i].age <= CommandTimeout + silent

\* What the thrusters follow was as old as it may be when the board took it up,
\* and has aged no longer than the board has been without a command.
Followed ==
  board.drive => /\ board.quiet <= Watchdog
                 /\ board.whole => board.age <= Reach + board.quiet

LEMMA ListeningStep == TypeOK /\ Listening /\ [Next]_vars => Listening'
<1> SUFFICES ASSUME TypeOK, Listening, [Next]_vars PROVE Listening'
  OBVIOUS
<1> USE DEF node, device, Listening
<1>1. ASSUME NEW line, Write(line), polled' = polled, silent' = silent
      PROVE  Listening'
  BY <1>1 DEF Write, Disconnect
<1>2. CASE BoardReads
  BY <1>2 DEF BoardReads
<1>3. CASE Poll
  BY <1>3 DEF Poll, PollGone, PollHears, PollSilence, PollWaits, PollConnects, Disconnect, TypeOK
<1>4. CASE ThrustersCallback
  BY <1>1, <1>4 DEF ThrustersCallback
<1>5. CASE ExitWrites
  BY <1>1, <1>5 DEF ExitWrites
<1>6. CASE Tick
  <2>1. port' = port /\ polled' = FALSE
    BY <1>6 DEF Tick
  <2>2. port # "open" => out' = <<>>
    BY <1>6 DEF Tick
  <2> QED
    BY <2>1, <2>2
<1>7. CASE BoardRestart \/ Unplug \/ Plug \/ Lose \/ ExitCloses \/ Crash \/ Start
  BY <1>7 DEF BoardRestart, Unplug, Plug, Lose, ExitCloses, Crash, Start, Disconnect
<1>8. CASE Decide
  <2>1. UNCHANGED <<node, out, device>>
    BY <1>8 DEF Decide, Send
  <2> QED
    BY <2>1
<1>9. CASE UNCHANGED vars
  BY <1>9 DEF vars
<1> QED
  BY <1>2, <1>3, <1>4, <1>5, <1>6, <1>7, <1>8, <1>9 DEF Next, Carry

LEMMA HeldWrite ==
  ASSUME TypeOK, Held, NEW line \in Line, line.age <= CommandTimeout,
         Write(line), silent' = silent
  PROVE  Held'
<1>1. CASE out' = Append(out, line)
  <2>1. out \in Seq(Line) /\ silent \in Nat /\ line.age \in Int
    BY DEF TypeOK, Line
  <2>2. \A i \in DOMAIN out' : \/ i \in DOMAIN out /\ out'[i] = out[i]
                              \/ out'[i] = line
    BY <1>1, <2>1, AppendIndex
  <2> QED
    BY <2>1, <2>2 DEF Held
<1>2. CASE out' = <<>>
  BY <1>2 DEF Held
<1>3. CASE out' = out
  BY <1>3 DEF Held
<1> QED
  BY <1>1, <1>2, <1>3 DEF Write, Disconnect

LEMMA HeldTick == TypeOK /\ Listening /\ Held /\ Tick => Held'
<1> SUFFICES ASSUME TypeOK, Listening, Held, Tick PROVE Held'
  OBVIOUS
<1>1. CASE out = <<>>
  BY <1>1 DEF Tick, Held
<1>2. CASE out # <<>>
  <2>1. silent <= DataTimeout /\ silent \in 0 .. DataTimeout + 1
    BY <1>2 DEF Listening, Tick, TypeOK
  <2>2. silent' = silent + 1
    BY <2>1, OlderAge DEF Tick
  <2>3. /\ DOMAIN out' = DOMAIN out
        /\ \A i \in DOMAIN out : out'[i] = [out[i] EXCEPT !.age = Older(out[i].age, Ancient)]
    BY DEF Tick
  <2>4. ASSUME NEW l \in Line, l.age <= CommandTimeout + silent
        PROVE  [l EXCEPT !.age = Older(l.age, Ancient)].age <= CommandTimeout + silent'
    <3>1. l.age \in 0 .. Ancient + 1
      BY DEF Line
    <3>2. Older(l.age, Ancient) <= l.age + 1 /\ Older(l.age, Ancient) \in Int
      BY <3>1, AncientAge
    <3>3. [l EXCEPT !.age = Older(l.age, Ancient)].age = Older(l.age, Ancient)
      BY DEF Line
    <3> QED
      BY <2>1, <2>2, <2>4, <3>1, <3>2, <3>3
  <2>5. \A i \in DOMAIN out : out[i] \in Line
    BY ElementOfSeq DEF TypeOK
  <2> QED
    BY <2>3, <2>4, <2>5 DEF Held
<1> QED
  BY <1>1, <1>2

LEMMA HeldStep == TypeOK /\ Listening /\ Held /\ [Next]_vars => Held'
<1> SUFFICES ASSUME TypeOK, Listening, Held, [Next]_vars PROVE Held'
  OBVIOUS
<1> USE DEF node, device
<1>1. CASE BoardReads
  <2>1. \A i \in DOMAIN out' : i + 1 \in DOMAIN out /\ out'[i] = out[i + 1]
    BY <1>1, TailIndex DEF BoardReads, TypeOK
  <2>2. silent' = silent
    BY <1>1 DEF BoardReads
  <2> QED
    BY <2>1, <2>2 DEF Held
<1>2. CASE out' = <<>>
  BY <1>2 DEF Held
<1>3. CASE out' = out /\ silent' = silent
  BY <1>3 DEF Held
<1>4. CASE Poll
  <2>1. CASE PollConnects /\ plugged
    <3>1. out' = Hello /\ silent' = 0
      BY <2>1 DEF PollConnects
    <3>2. DOMAIN Hello = 1 .. 2 /\ End.age = 0 /\ Stop.age = 0
      BY DEF Hello, End, Stop
    <3>3. \A i \in 1 .. 2 : Hello[i].age = 0
      BY <3>2, HelloType
    <3> QED
      BY <3>1, <3>2, <3>3 DEF Held
  <2>2. CASE ~(PollConnects /\ plugged)
    BY <1>2, <1>3, <1>4, <2>2
    DEF Poll, PollGone, PollHears, PollSilence, PollWaits, PollConnects, Disconnect
  <2> QED
    BY <2>1, <2>2
<1>5. CASE ThrustersCallback
  <2>1. Head(graph) \in Message
    BY <1>5, HeadTailProperties DEF ThrustersCallback, TypeOK
  <2>2. CASE Stale(Head(graph))
    BY <1>3, <1>5, <2>2 DEF ThrustersCallback
  <2>3. CASE ~Stale(Head(graph))
    <3> DEFINE line == [kind |-> IF Head(graph).drive THEN "drive" ELSE "stop",
                        age |-> Head(graph).age]
    <3>1. line \in Line
      BY <2>1, CommandLine
    <3>2. line.age <= CommandTimeout
      BY <2>1, <2>3 DEF Stale, Message
    <3>3. Write(line) /\ silent' = silent
      BY <1>5, <2>3 DEF ThrustersCallback
    <3> HIDE DEF line
    <3> QED
      BY <3>1, <3>2, <3>3, HeldWrite
  <2> QED
    BY <2>2, <2>3
<1>6. CASE ExitWrites
  <2>1. Stop.age = 0
    BY DEF Stop
  <2> QED
    BY <1>6, <2>1, HelloType, HeldWrite DEF ExitWrites
<1>7. CASE Start
  <2>1. out = <<>>
    BY <1>7 DEF Start, Listening
  <2> QED
    BY <1>2, <1>7, <2>1 DEF Start
<1>8. CASE Tick
  BY <1>8, HeldTick
<1>9. CASE BoardRestart \/ Unplug \/ Plug \/ Decide \/ Lose \/ ExitCloses \/ Crash
  BY <1>2, <1>3, <1>9 DEF BoardRestart, Unplug, Plug, Decide, Send, Lose, ExitCloses, Crash, Disconnect
<1>10. CASE UNCHANGED vars
  BY <1>3, <1>10 DEF vars
<1> QED
  BY <1>1, <1>4, <1>5, <1>6, <1>7, <1>8, <1>9, <1>10 DEF Next, Carry

LEMMA FollowedReads == TypeOK /\ Held /\ Followed /\ BoardReads => Followed'
<1> SUFFICES ASSUME TypeOK, Held, Followed, BoardReads PROVE Followed'
  OBVIOUS
<1>1. Head(out) \in Line /\ 1 \in DOMAIN out /\ Head(out) = out[1]
  BY TailIndex, HeadTailProperties DEF TypeOK, BoardReads
<1>2. CASE board' = board
  BY <1>2 DEF Followed
<1>3. CASE board' = Obeying(Head(out), TRUE)
  <2>1. Head(out).age <= CommandTimeout + silent /\ Head(out).age \in Int
    BY <1>1 DEF Held, Line
  <2>2. silent <= DataTimeout + 1 /\ silent \in Int
    BY DEF TypeOK
  <2>3. Head(out).age <= Reach
    BY <2>1, <2>2 DEF Reach
  <2>4. board'.quiet = 0 /\ board'.age = Head(out).age
    BY <1>1, <1>3, ObeyingType
  <2> QED
    BY <2>1, <2>3, <2>4, AncientNat DEF Followed
<1>4. CASE scrap # NoScrap /\ board' = Obeying(scrap, FALSE)
  <2>1. board'.quiet = 0 /\ board'.whole = FALSE
    BY <1>4, ObeyingType DEF TypeOK
  <2> QED
    BY <2>1 DEF Followed
<1> QED
  BY <1>2, <1>3, <1>4 DEF BoardReads

LEMMA FollowedTick == TypeOK /\ Followed /\ Tick => Followed'
<1> SUFFICES ASSUME TypeOK, Followed, Tick, board'.drive PROVE Followed'
  BY DEF Followed
<1>1. /\ board.drive \in BOOLEAN /\ board.quiet \in 0 .. Watchdog + 1
      /\ board.age \in 0 .. Ancient + 1
  BY DEF TypeOK, Board
<1>2. board'.drive = (board.drive /\ board.quiet < Watchdog)
  BY DEF Tick, TypeOK, Board
<1>3. /\ board'.quiet = Older(board.quiet, Watchdog)
      /\ board'.age = Older(board.age, Ancient)
      /\ board'.whole = board.whole
  BY DEF Tick, TypeOK, Board
<1>4. board.drive /\ board.quiet < Watchdog
  BY <1>2
<1>5. board'.quiet = board.quiet + 1
  BY <1>1, <1>3, <1>4 DEF Older
<1>6. board'.age <= board.age + 1 /\ board'.age \in Int
  BY <1>1, <1>3, AncientAge
<1> QED
  BY <1>1, <1>3, <1>4, <1>5, <1>6, AncientNat DEF Followed

LEMMA FollowedStep == TypeOK /\ Held /\ Followed /\ [Next]_vars => Followed'
<1> SUFFICES ASSUME TypeOK, Held, Followed, [Next]_vars PROVE Followed'
  OBVIOUS
<1> USE DEF node, device
<1>1. CASE BoardReads
  BY <1>1, FollowedReads
<1>2. CASE Tick
  BY <1>2, FollowedTick
<1>3. CASE BoardRestart
  <2>1. board'.drive = FALSE
    BY <1>3 DEF BoardRestart, TypeOK, Board
  <2> QED
    BY <2>1 DEF Followed
<1>4. CASE PollConnects
  <2>1. /\ board'.drive = board.drive /\ board'.quiet = board.quiet
        /\ board'.whole = board.whole /\ board'.age = board.age
    BY <1>4 DEF PollConnects, TypeOK, Board
  <2> QED
    BY <2>1 DEF Followed
<1>5. CASE board' = board
  BY <1>5 DEF Followed
<1> QED
  BY <1>1, <1>2, <1>3, <1>4, <1>5
  DEF Next, Carry, Poll, Unplug, Plug, PollGone, PollHears, PollSilence, PollWaits, Decide, Send, Lose,
      ThrustersCallback, ExitWrites, ExitCloses, Crash, Start, vars

\* The thrusters never turn for a decision older than what the graph, the link
\* and the watchdog may each hold it, through any number of lost links.
THEOREM DrivesRecently == Spec => []RecentDrive
<1>1. Init => Listening /\ Held /\ Followed
  BY DEF Init, Listening, Held, Followed
<1>2. TypeOK /\ Followed => RecentDrive
  <2> SUFFICES ASSUME TypeOK, Followed, board.drive, board.whole
               PROVE  board.age <= Reach + Watchdog
    BY DEF RecentDrive
  <2>1. board.quiet \in Int /\ board.age \in Int
    BY DEF TypeOK, Board
  <2> QED
    BY <2>1, AncientNat DEF Followed
<1> QED
  BY <1>1, <1>2, TypeCorrect, ListeningStep, HeldStep, FollowedStep, PTL DEF Spec

=============================================================================
