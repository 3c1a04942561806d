----------------------------- MODULE ThrustPath -----------------------------
(***************************************************************************)
(* The way of a thruster command from control/thrusters to the maritime    *)
(* board: the sub_low node, its serial link, which it closes and reopens   *)
(* by itself, and the board's watchdog.                                    *)
(*                                                                         *)
(* Time is counted in ticks; ages stop growing where nothing tells them    *)
(* apart.  A line on the link is kept by what it makes the board do, and   *)
(* by the age of the decision it carries.  Closing the port may cut the    *)
(* line being sent: what the board has of it stays in its line buffer.     *)
(***************************************************************************)
EXTENDS Integers, Sequences

CONSTANTS
  CommandTimeout,   \* command_timeout_, in ticks
  DataTimeout,      \* data_timeout_
  ReconnectPeriod,  \* reconnect_period_
  Watchdog,         \* the board's COMMAND_WATCHDOG
  NoTime,           \* std::nullopt for last_open_attempt_
  NoScrap,          \* nothing in the board's line buffer
  Capacity,         \* bound: lines the port holds for a device not taking them
  MaxInFlight       \* bound: messages in flight on control/thrusters

ASSUME TimeAssumption ==
  /\ CommandTimeout \in Nat /\ DataTimeout \in Nat /\ ReconnectPeriod \in Nat
  /\ Watchdog \in Nat
  /\ NoTime \notin Int
ASSUME LinkAssumption ==
  /\ Capacity \in Nat /\ Capacity >= 2   \* what on_connect writes fits
  /\ MaxInFlight \in Nat

VARIABLES
  graph,      \* control/thrusters in flight: [drive, age]
  alive,      \* the process runs
  port,       \* port_: "closed", "open", or "hung" when its device is gone
  attempt,    \* the age of last_open_attempt_, or NoTime
  silent,     \* the age of last_data_, or of connected_at_ while there is none
  polled,     \* poll() ran in this tick
  stopSent,   \* the exiting node's STOP was written
  plugged,    \* the device is there and opens: one that does not is as good as gone
  out,        \* lines written to the port that the board has not read
  scrap,      \* the cut-off line in the board's line buffer, or NoScrap
  board       \* what the thrusters do and why; quiet: ticks since a command

node == <<alive, port, attempt, silent, polled, stopSent>>
device == <<plugged, scrap, board>>
vars == <<graph, node, out, device>>

-----------------------------------------------------------------------------
\* The oldest a decision may be when the board takes it up.
Reach == CommandTimeout + DataTimeout + 1
\* Older than anything that is told apart.
Ancient == Reach + Watchdog + 1

\* An age a tick later.
Older(age, limit) == IF age > limit THEN limit + 1 ELSE age + 1

Message == [drive : BOOLEAN, age : 0 .. CommandTimeout + 1]

\* "m ..." drives or stops, STOP is "a 0", and "end" an empty line.
Line == [kind : {"drive", "stop", "end"}, age : 0 .. Ancient + 1]
End == [kind |-> "end", age |-> 0]
Stop == [kind |-> "stop", age |-> 0]

\* drive: some thruster turns; age: of the decision it follows; here: that came
\* over the present connection; whole: as a line that was not cut off.
Board == [drive : BOOLEAN, age : 0 .. Ancient + 1, quiet : 0 .. Watchdog + 1,
          here : BOOLEAN, whole : BOOLEAN]

Init ==
  /\ graph = <<>>
  /\ alive = TRUE /\ port = "closed" /\ attempt = NoTime /\ silent = 0
  /\ polled = FALSE /\ stopSent = FALSE
  /\ plugged \in BOOLEAN /\ out = <<>> /\ scrap = NoScrap
  /\ board = [drive |-> FALSE, age |-> 0, quiet |-> Watchdog + 1, here |-> FALSE, whole |-> TRUE]

-----------------------------------------------------------------------------
(* The board. *)

\* It obeys a line: it does what the line says until the next one, or until
\* its watchdog.
Obeying(line, whole) ==
  [drive |-> line.kind = "drive", age |-> line.age, quiet |-> 0,
   here |-> whole, whole |-> whole]

\* The board reads the next line.  An empty one ends what was cut off, which may
\* by then read as a command; any other joined to a cut-off line is garbage.
BoardReads ==
  /\ out # <<>>
  /\ out' = Tail(out)
  /\ scrap' = NoScrap
  /\ \/ /\ Head(out).kind = "end"
        /\ board' \in {board} \cup IF scrap = NoScrap THEN {} ELSE {Obeying(scrap, FALSE)}
     \/ /\ Head(out).kind # "end" /\ scrap # NoScrap
        /\ UNCHANGED board
     \/ /\ Head(out).kind # "end" /\ scrap = NoScrap
        /\ board' = Obeying(Head(out), TRUE)
  /\ UNCHANGED <<graph, node, plugged>>

\* It loses power, and what it was doing.
BoardRestart ==
  /\ board' = [board EXCEPT !.drive = FALSE]
  /\ scrap' = NoScrap
  /\ UNCHANGED <<graph, node, out, plugged>>

\* What may be left in the board's line buffer when the line at the head of the
\* link is cut off.  It reads a newline whole or not at all.
CutOff ==
  {scrap} \cup IF out # <<>> /\ scrap = NoScrap /\ Head(out).kind # "end"
               THEN {Head(out)} ELSE {}

Unplug ==
  /\ plugged
  /\ plugged' = FALSE
  /\ port' = IF port = "open" THEN "hung" ELSE port
  /\ scrap' \in CutOff
  /\ out' = <<>>
  /\ UNCHANGED <<graph, alive, attempt, silent, polled, stopSent, board>>

Plug ==
  /\ ~plugged
  /\ plugged' = TRUE
  /\ UNCHANGED <<graph, node, out, scrap, board>>

-----------------------------------------------------------------------------
(* SerialNode. *)

\* disconnect, and ~SerialPort, which drops what the device has not taken.
Disconnect ==
  /\ port' = "closed"
  /\ scrap' \in CutOff
  /\ out' = <<>>

\* poll() finds the device gone.
PollGone ==
  /\ alive /\ port = "hung"
  /\ Disconnect
  /\ polled' = TRUE
  /\ UNCHANGED <<graph, alive, attempt, silent, stopSent, plugged, board>>

\* poll() reads a line the handler accepts.  The board sends its lines once it
\* has read what was waiting; what it sent before the first newline after
\* opening counts for nothing, as silence does.
PollHears ==
  /\ alive /\ port = "open"
  /\ out = <<>>
  /\ silent' = 0
  /\ polled' = TRUE
  /\ UNCHANGED <<graph, alive, port, attempt, stopSent, out, device>>

\* poll() reads nothing of use.
PollSilence ==
  /\ alive /\ port = "open"
  /\ polled' = TRUE
  /\ IF silent > DataTimeout THEN Disconnect ELSE UNCHANGED <<port, scrap, out>>
  /\ UNCHANGED <<graph, alive, attempt, silent, stopSent, plugged, board>>

\* Variant: the port is tried once.
DueOnce == attempt = NoTime

\* Time to try the port.
Due == attempt # NoTime => attempt >= ReconnectPeriod

PollWaits ==
  /\ alive /\ port = "closed"
  /\ ~Due
  /\ polled' = TRUE
  /\ UNCHANGED <<graph, alive, port, attempt, silent, stopSent, out, device>>

\* Variant: on_connect sends no newline.
HelloUnended == <<Stop>>

\* What on_connect writes.
Hello == <<End, Stop>>

\* poll() opens the port: whatever was in it is dropped.
PollConnects ==
  /\ alive /\ port = "closed"
  /\ Due
  /\ attempt' = 0
  /\ polled' = TRUE
  /\ \/ /\ plugged
        /\ port' = "open" /\ silent' = 0
        /\ out' = Hello
        /\ board' = [board EXCEPT !.here = FALSE]
     \/ /\ ~plugged
        /\ UNCHANGED <<port, silent, out, board>>
  /\ UNCHANGED <<graph, alive, stopSent, plugged, scrap>>

Poll == PollGone \/ PollHears \/ PollSilence \/ PollWaits \/ PollConnects

\* write(line) on an open port: taken, or given up after WRITE_TIMEOUT because
\* the device has stopped taking input or is gone.
Write(line) ==
  \/ /\ port = "open" /\ Len(out) < Capacity
     /\ out' = Append(out, line)
     /\ UNCHANGED <<port, scrap>>
  \/ /\ port = "hung" \/ (port = "open" /\ Len(out) >= Capacity)
     /\ Disconnect
  \/ /\ port = "closed"
     /\ UNCHANGED <<port, scrap, out>>

-----------------------------------------------------------------------------
(* SubLow. *)

\* sub_control publishes a decision.
Send(drive) ==
  /\ Len(graph) < MaxInFlight
  /\ graph' = Append(graph, [drive |-> drive, age |-> 0])
  /\ UNCHANGED <<node, out, device>>

\* Whatever it decides.
Decide == \E drive \in BOOLEAN : Send(drive)

\* Best effort, and a queue of one: a message may never be delivered.
Lose ==
  /\ graph # <<>>
  /\ graph' = Tail(graph)
  /\ UNCHANGED <<node, out, device>>

\* Variant: a command acts however old it is.
StaleNever(message) == FALSE

\* Delayed in the graph for longer than command_timeout.
Stale(message) == message.age > CommandTimeout

ThrustersCallback ==
  /\ alive
  /\ graph # <<>>
  /\ graph' = Tail(graph)
  /\ LET message == Head(graph) IN
       \/ /\ Stale(message)
          /\ UNCHANGED <<port, scrap, out>>
       \/ /\ ~Stale(message)
          /\ Write([kind |-> IF message.drive THEN "drive" ELSE "stop", age |-> message.age])
  /\ UNCHANGED <<alive, attempt, silent, polled, stopSent, plugged, board>>

\* ~SubLow: a last STOP ...
ExitWrites ==
  /\ alive
  /\ alive' = FALSE
  /\ Write(Stop)
  /\ stopSent' = (port = "open" /\ Len(out) < Capacity)
  /\ UNCHANGED <<graph, attempt, silent, polled, plugged, board>>

\* ... and then ~SerialNode, which closes the port.
ExitCloses ==
  /\ ~alive /\ port # "closed"
  /\ Disconnect
  /\ UNCHANGED <<graph, alive, attempt, silent, polled, stopSent, plugged, board>>

\* The process dies without running its destructors: the kernel closes the port.
Crash ==
  /\ alive
  /\ alive' = FALSE
  /\ Disconnect
  /\ UNCHANGED <<graph, attempt, silent, polled, stopSent, plugged, board>>

Start ==
  /\ ~alive /\ port = "closed"
  /\ alive' = TRUE
  /\ attempt' = NoTime /\ silent' = 0 /\ polled' = FALSE /\ stopSent' = FALSE
  /\ UNCHANGED <<graph, port, out, device>>

-----------------------------------------------------------------------------
\* A tick: poll() runs many times in each while the node is alive, and an exit
\* takes no time.  The board's watchdog stops thrusters that had no command.
Tick ==
  /\ IF alive THEN polled ELSE port = "closed"
  /\ polled' = FALSE
  /\ graph' = [i \in DOMAIN graph |->
                 [graph[i] EXCEPT !.age = Older(graph[i].age, CommandTimeout)]]
  /\ out' = [i \in DOMAIN out |-> [out[i] EXCEPT !.age = Older(out[i].age, Ancient)]]
  /\ scrap' = IF scrap = NoScrap THEN NoScrap
              ELSE [scrap EXCEPT !.age = Older(scrap.age, Ancient)]
  /\ attempt' = IF attempt = NoTime THEN NoTime ELSE Older(attempt, ReconnectPeriod)
  /\ silent' = Older(silent, DataTimeout)
  /\ board' = [board EXCEPT !.age = Older(board.age, Ancient),
                            !.quiet = Older(board.quiet, Watchdog),
                            !.drive = board.drive /\ board.quiet < Watchdog]
  /\ UNCHANGED <<alive, port, stopSent, plugged>>

\* The path: sub_low, its link and the board.
Carry ==
  \/ BoardReads \/ BoardRestart \/ Unplug \/ Plug
  \/ Poll
  \/ Lose \/ ThrustersCallback
  \/ ExitWrites \/ ExitCloses \/ Crash \/ Start

Next == Decide \/ Carry \/ Tick

Spec == Init /\ [][Next]_vars

\* The poll timer fires and time passes; nothing is promised of the rest.
FairSpec == Spec /\ WF_vars(Poll) /\ WF_vars(Tick)

-----------------------------------------------------------------------------
(* What the path promises. *)

TypeOK ==
  /\ graph \in Seq(Message)
  /\ alive \in BOOLEAN /\ port \in {"closed", "open", "hung"}
  /\ attempt \in (0 .. ReconnectPeriod + 1) \cup {NoTime}
  /\ silent \in 0 .. DataTimeout + 1
  /\ polled \in BOOLEAN /\ stopSent \in BOOLEAN /\ plugged \in BOOLEAN
  /\ out \in Seq(Line)
  /\ scrap \in Line \cup {NoScrap}
  /\ board \in Board

\* "The thrusters are stopped whenever the port (re)opens" (sub_low.hpp:78-79):
\* thrusters still turning for an earlier connection's command get STOP next,
\* whatever the board was cut off in.
StoppedFirst ==
  port = "open" /\ board.drive /\ ~board.here
    => \/ /\ Len(out) >= 1 /\ out[1].kind = "stop" /\ scrap = NoScrap
       \/ /\ Len(out) >= 2 /\ out[1].kind = "end" /\ out[2].kind = "stop"

\* The thrusters never turn for a decision older than what the graph, the link
\* and the watchdog may each hold it, through any number of lost links: only a
\* line that was cut off, just before the STOP that follows it, may be older.
RecentDrive ==
  board.drive /\ board.whole => board.age <= Reach + Watchdog

\* However often the device goes away or falls silent, while it stays plugged in
\* the port comes back.
Reopens == <>[](plugged /\ alive) => []<>(port = "open")

\* "The thrusters are stopped ... when this node exits" (sub_low.hpp:78-79): the
\* STOP was written to a device that is still there, and nothing stops it since.
ExitStops == ~alive /\ stopSent /\ plugged /\ port = "closed" => ~board.drive

=============================================================================
