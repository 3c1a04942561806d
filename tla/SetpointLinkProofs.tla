------------------------- MODULE SetpointLinkProofs -------------------------
(***************************************************************************)
(* Proofs about SetpointLink, for every value of its constants.            *)
(***************************************************************************)
EXTENDS SetpointLink, QueueLemmas

USE AxesAssumption, LimitAssumption, SetpointAssumption, LevelAssumption, BoundAssumption

\* What is left of a stream is no more than what its sender was promised.
Within(left, due) == due = NoLimit \/ (left # NoLimit /\ left <= due)

GoodCommand(c) ==
  /\ c \in Command
  /\ c.zin = Coordinate(c.altitude)
  /\ Within(c.left, c.due)

Shared(g) ==
  /\ g.mode["x"] = g.mode["y"]
  /\ g.mode["x"] \in Streamed => g.left["x"] = g.left["y"]

InCoordinates(g) ==
  /\ g.reference = Coordinate(g.altitude)
  /\ g.mode["z"] = "POSITION" => g.target = Coordinate(g.altitude)

Promised(g) == \A a \in Axes : g.mode[a] \in Streamed => Within(g.left[a], g.due[a])

GoodGenerator(g) == g \in Generator /\ Shared(g) /\ InCoordinates(g) /\ Promised(g)

\* No stream of a command, or of a generator, stands without a limit.
Finite(c) == \A a \in Axes : c.mode[a] \in Streamed => c.left # NoLimit
Limited(g) == \A a \in Axes : g.mode[a] \in Streamed => g.left[a] # NoLimit

IsStop(c) == c.finite /\ ~c.altitude /\ \A a \in Axes : c.mode[a] = "HOLD"

-----------------------------------------------------------------------------
(* The generator. *)

LEMMA LeftsFacts ==
  /\ NoLimit \in Lefts
  /\ \A t \in Lefts : t = NoLimit \/ (t \in Int /\ t >= -1 /\ t <= MaxTimeout)
  /\ \A t \in 0 .. MaxTimeout : t \in Lefts /\ t # NoLimit
  BY DEF Lefts

LEMMA ElapsedFacts ==
  ASSUME NEW t \in Lefts
  PROVE  /\ Elapsed(t) \in Lefts
         /\ Elapsed(t) = NoLimit <=> t = NoLimit
         /\ \A u \in Lefts : Within(t, u) => Within(Elapsed(t), Elapsed(u))
  BY DEF Lefts, Elapsed, Within

LEMMA Good ==
  ASSUME NEW g, GoodGenerator(g)
  PROVE  /\ g \in Generator
         /\ g.mode \in [Axes -> Modes] /\ g.left \in [Axes -> Lefts] /\ g.due \in [Axes -> Lefts]
         /\ g.source \in [Axes -> Ids \cup {Own}] /\ g.altitude \in BOOLEAN
         /\ g.reference \in Coordinates /\ g.target \in Coordinates
         /\ Shared(g) /\ InCoordinates(g) /\ Promised(g)
  BY DEF GoodGenerator, Generator, GeneratorOf

LEMMA GoodFields ==
  ASSUME NEW c, GoodCommand(c)
  PROVE  /\ c \in Command /\ c.id \in Ids /\ c.mode \in [Axes -> Modes \cup {"KEEP"}]
         /\ c.altitude \in BOOLEAN /\ c.left \in Lefts /\ c.due \in Lefts /\ c.zin \in Coordinates
         /\ c.zin = Coordinate(c.altitude) /\ Within(c.left, c.due)
  BY DEF GoodCommand, Command, CommandOf

LEMMA CoordinateType == \A b \in BOOLEAN : Coordinate(b) \in Coordinates
  BY DEF Coordinate, Coordinates

LEMMA ResetGood ==
  /\ GoodGenerator(Reset) /\ Limited(Reset)
  /\ \A a \in Axes : Reset.source[a] = Own
<1>1. Reset \in Generator
  BY LeftsFacts DEF Reset, Generator, GeneratorOf, Modes, Coordinates
<1> QED
  BY <1>1 DEF Reset, GoodGenerator, Shared, InCoordinates, Promised, Limited, Coordinate, Streamed

LEMMA ConstructedGood ==
  /\ GoodGenerator(Constructed) /\ Limited(Constructed)
  /\ \A a \in Axes : Constructed.source[a] = Own
<1>1. Constructed \in Generator
  BY LeftsFacts DEF Constructed, Reset, Generator, GeneratorOf, Modes, Coordinates
<1> QED
  BY <1>1 DEF Constructed, Reset, GoodGenerator, Shared, InCoordinates, Promised, Limited,
     Coordinate, Streamed

\* What each axis is told by a command that is applied.
LEMMA AppliedFields ==
  ASSUME NEW g, NEW c, GoodGenerator(g), GoodCommand(c)
  PROVE  LET h == Applied(g, c)
         IN  /\ h \in Generator
             /\ \A a \in Axes :
                  /\ h.mode[a] = IF c.mode[a] # "KEEP" THEN c.mode[a] ELSE g.mode[a]
                  /\ h.left[a] = IF c.mode[a] \in Streamed THEN c.left
                                 ELSE IF c.mode[a] = "HOLD" THEN NoLimit ELSE g.left[a]
                  /\ h.source[a] = IF c.mode[a] # "KEEP" THEN c.id ELSE g.source[a]
                  /\ h.due[a] = IF c.mode[a] \in Streamed THEN c.due ELSE g.due[a]
             /\ h.altitude = IF c.mode["z"] = "POSITION" THEN c.altitude ELSE g.altitude
             /\ h.reference = IF Rebases(g, c) THEN Coordinate(c.altitude) ELSE g.reference
             /\ h.target = IF c.mode["z"] = "POSITION" THEN c.zin ELSE g.target
<1> DEFINE mode == [a \in Axes |-> IF c.mode[a] # "KEEP" THEN c.mode[a] ELSE g.mode[a]]
           left == [a \in Axes |-> IF c.mode[a] \in Streamed THEN c.left
                                   ELSE IF c.mode[a] = "HOLD" THEN NoLimit ELSE g.left[a]]
           altitude == IF c.mode["z"] = "POSITION" THEN c.altitude ELSE g.altitude
           reference == IF Rebases(g, c) THEN Coordinate(c.altitude) ELSE g.reference
           target == IF c.mode["z"] = "POSITION" THEN c.zin ELSE g.target
           source == [a \in Axes |-> IF c.mode[a] # "KEEP" THEN c.id ELSE g.source[a]]
           due == [a \in Axes |-> IF c.mode[a] \in Streamed THEN c.due ELSE g.due[a]]
<1>1. Applied(g, c) = [mode |-> mode, left |-> left, altitude |-> altitude,
                       reference |-> reference, target |-> target, source |-> source, due |-> due]
  BY DEF Applied
<1>2. mode \in [Axes -> Modes] /\ source \in [Axes -> Ids \cup {Own}]
  BY Good, GoodFields
<1>3. left \in [Axes -> Lefts] /\ due \in [Axes -> Lefts]
  BY Good, GoodFields, LeftsFacts
<1>4. altitude \in BOOLEAN /\ reference \in Coordinates /\ target \in Coordinates
  BY Good, GoodFields, CoordinateType
<1>5. /\ \A a \in Axes :
           /\ mode[a] = IF c.mode[a] # "KEEP" THEN c.mode[a] ELSE g.mode[a]
           /\ left[a] = IF c.mode[a] \in Streamed THEN c.left
                        ELSE IF c.mode[a] = "HOLD" THEN NoLimit ELSE g.left[a]
           /\ source[a] = IF c.mode[a] # "KEEP" THEN c.id ELSE g.source[a]
           /\ due[a] = IF c.mode[a] \in Streamed THEN c.due ELSE g.due[a]
      /\ altitude = IF c.mode["z"] = "POSITION" THEN c.altitude ELSE g.altitude
      /\ reference = IF Rebases(g, c) THEN Coordinate(c.altitude) ELSE g.reference
      /\ target = IF c.mode["z"] = "POSITION" THEN c.zin ELSE g.target
  OBVIOUS
<1> HIDE DEF mode, left, altitude, reference, target, source, due
<1>6. Applied(g, c) \in Generator
  BY <1>1, <1>2, <1>3, <1>4 DEF Generator, GeneratorOf
<1> QED
  BY <1>1, <1>5, <1>6

LEMMA AppliedGood ==
  ASSUME NEW g, NEW c, GoodGenerator(g), GoodCommand(c), c.mode["x"] = c.mode["y"]
  PROVE  GoodGenerator(Applied(g, c))
<1> DEFINE h == Applied(g, c)
<1>1. h \in Generator
  BY AppliedFields
<1>2. Shared(h)
  BY AppliedFields, Good DEF Shared, Streamed
<1>3. InCoordinates(h)
  BY AppliedFields, Good, GoodFields DEF InCoordinates, Rebases
<1>4. Promised(h)
  BY AppliedFields, Good, GoodFields DEF Promised, Streamed
<1> QED
  BY <1>1, <1>2, <1>3, <1>4 DEF GoodGenerator

LEMMA AppliedLimited ==
  ASSUME NEW g, NEW c, GoodGenerator(g), GoodCommand(c),
         (Limited(g) /\ Finite(c)) \/ IsStop(c)
  PROVE  Limited(Applied(g, c))
  BY AppliedFields DEF Limited, Finite, IsStop, Streamed

LEMMA StartHoldGood ==
  ASSUME NEW g, GoodGenerator(g), NEW axes \in SUBSET Axes, "x" \in axes <=> "y" \in axes
  PROVE  LET h == StartHold(g, axes)
         IN  /\ GoodGenerator(h)
             /\ h.source = g.source /\ h.altitude = g.altitude /\ h.reference = g.reference
             /\ \A a \in Axes :
                  /\ a \in axes => h.mode[a] = "HOLD"
                  /\ a \notin axes => h.mode[a] = g.mode[a] /\ h.left[a] = g.left[a]
                  /\ h.due[a] = g.due[a]
<1> DEFINE mode == [a \in Axes |-> IF a \in axes THEN "HOLD" ELSE g.mode[a]]
           left == [a \in Axes |-> IF a \in axes THEN NoLimit ELSE g.left[a]]
           h == StartHold(g, axes)
<1>0. g \in Generator
  BY Good
<1>1. mode \in [Axes -> Modes] /\ left \in [Axes -> Lefts]
  BY Good, LeftsFacts DEF Modes
<1>2. \A a \in Axes : /\ mode[a] = IF a \in axes THEN "HOLD" ELSE g.mode[a]
                      /\ left[a] = IF a \in axes THEN NoLimit ELSE g.left[a]
  OBVIOUS
<1>3. h = [g EXCEPT !.mode = mode, !.left = left]
  BY DEF StartHold
<1> HIDE DEF mode, left, h
<1>4. /\ h \in Generator /\ h.mode = mode /\ h.left = left /\ h.source = g.source
      /\ h.due = g.due /\ h.altitude = g.altitude /\ h.reference = g.reference
      /\ h.target = g.target
  BY <1>0, <1>1, <1>3 DEF Generator, GeneratorOf
<1>5. Shared(h)
  BY <1>2, <1>4, Good DEF Shared, Streamed
<1>6. InCoordinates(h)
  BY <1>2, <1>4, Good DEF InCoordinates
<1>7. Promised(h)
  BY <1>2, <1>4, Good DEF Promised, Streamed
<1> QED
  BY <1>2, <1>4, <1>5, <1>6, <1>7 DEF GoodGenerator, h

LEMMA DropGood ==
  ASSUME NEW g, GoodGenerator(g)
  PROVE  LET h == DropAltitude(g)
         IN  /\ GoodGenerator(h)
             /\ Limited(g) => Limited(h)
             /\ \A a \in Axes : h.source[a] \in {g.source[a], Own}
<1>1. CASE ~g.altitude
  BY <1>1 DEF DropAltitude
<1>2. CASE g.altitude
  <2> DEFINE k == StartHold(g, {"z"})
             h == DropAltitude(g)
  <2>1. {"z"} \in SUBSET Axes /\ ("x" \in {"z"} <=> "y" \in {"z"})
    OBVIOUS
  <2>2. /\ GoodGenerator(k) /\ k.source = g.source /\ k.mode["z"] = "HOLD"
        /\ \A a \in Axes \ {"z"} : k.mode[a] = g.mode[a] /\ k.left[a] = g.left[a]
    <3>3. PICK axes : axes = {"z"}
      OBVIOUS
    <3>4. axes \in SUBSET Axes /\ ("x" \in axes <=> "y" \in axes)
      BY <2>1, <3>3
    <3>1. /\ GoodGenerator(StartHold(g, axes)) /\ StartHold(g, axes).source = g.source
          /\ \A a \in Axes :
               /\ a \in axes => StartHold(g, axes).mode[a] = "HOLD"
               /\ a \notin axes => /\ StartHold(g, axes).mode[a] = g.mode[a]
                                   /\ StartHold(g, axes).left[a] = g.left[a]
      BY <3>4, StartHoldGood
    <3> HIDE DEF k
    <3>2. k = StartHold(g, axes)
      BY <3>3 DEF k
    <3> QED
      BY <3>1, <3>2, <3>3
  <2>3. h = [k EXCEPT !.altitude = FALSE, !.reference = "depth", !.source["z"] = Own]
    BY <1>2 DEF DropAltitude
  <2> HIDE DEF k, h
  <2>4. k \in Generator /\ k.source \in [Axes -> Ids \cup {Own}]
    BY <2>2, Good
  <2>5. [k.source EXCEPT !["z"] = Own] \in [Axes -> Ids \cup {Own}]
    BY <2>4
  <2>6. h = [k EXCEPT !.altitude = FALSE, !.reference = "depth",
                      !.source = [k.source EXCEPT !["z"] = Own]]
    BY <2>3, <2>4 DEF Generator, GeneratorOf
  <2>7. /\ h \in Generator /\ h.mode = k.mode /\ h.left = k.left /\ h.due = k.due
        /\ h.altitude = FALSE /\ h.reference = "depth"
        /\ h.source = [k.source EXCEPT !["z"] = Own]
    BY <2>4, <2>5, <2>6 DEF Generator, GeneratorOf, Coordinates
  <2>8. Shared(h) /\ InCoordinates(h) /\ Promised(h)
    BY <2>2, <2>7, Good DEF Shared, InCoordinates, Promised, Coordinate
  <2>9. \A a \in Axes : h.source[a] \in {g.source[a], Own}
    BY <2>2, <2>4, <2>7
  <2>10. Limited(g) => Limited(h)
    BY <2>2, <2>7 DEF Limited, Streamed
  <2> QED
    BY <2>7, <2>8, <2>9, <2>10 DEF GoodGenerator, h
<1> QED
  BY <1>1, <1>2, Good

LEMMA SettledGood ==
  ASSUME NEW g, GoodGenerator(g), NEW resting \in SUBSET MayRest(g)
  PROVE  LET h == Settled(g, resting)
         IN  /\ GoodGenerator(h)
             /\ h.source = g.source /\ h.left = g.left
             /\ \A a \in Axes : h.mode[a] = g.mode[a] \/ h.mode[a] = "POSITION"
<1> DEFINE settles(a) == (IF a = "y" THEN "x" ELSE a) \in resting
           mode == [a \in Axes |-> IF settles(a) THEN "POSITION" ELSE g.mode[a]]
           target == IF settles("z") THEN g.reference ELSE g.target
           h == Settled(g, resting)
<1>0. g \in Generator
  BY Good
<1>1. mode \in [Axes -> Modes] /\ target \in Coordinates
  BY Good DEF Modes
<1>2. /\ \A a \in Axes : mode[a] = g.mode[a] \/ mode[a] = "POSITION"
      /\ mode["x"] = IF "x" \in resting THEN "POSITION" ELSE g.mode["x"]
      /\ mode["y"] = IF "x" \in resting THEN "POSITION" ELSE g.mode["y"]
      /\ mode["z"] = IF "z" \in resting THEN "POSITION" ELSE g.mode["z"]
      /\ target = IF "z" \in resting THEN g.reference ELSE g.target
  OBVIOUS
<1>3. h = [g EXCEPT !.mode = mode, !.target = target]
  BY DEF Settled
<1> HIDE DEF mode, target, h
<1>4. /\ h \in Generator /\ h.mode = mode /\ h.left = g.left /\ h.source = g.source
      /\ h.due = g.due /\ h.altitude = g.altitude /\ h.reference = g.reference
      /\ h.target = target
  BY <1>0, <1>1, <1>3 DEF Generator, GeneratorOf
<1>5. Shared(h)
  BY <1>2, <1>4, Good DEF Shared, Streamed
<1>6. InCoordinates(h)
  BY <1>2, <1>4, Good DEF InCoordinates
<1>7. Promised(h)
  BY <1>2, <1>4, Good DEF Promised, Streamed
<1> QED
  BY <1>2, <1>4, <1>5, <1>6, <1>7 DEF GoodGenerator, h

\* An update ends every stream that is overdue, x and y together.
LEMMA UpdatesGood ==
  ASSUME NEW g, GoodGenerator(g), NEW h \in Updates(g)
  PROVE  /\ GoodGenerator(h)
         /\ h.source = g.source
         /\ \A a \in Axes : h.mode[a] \in Streamed => ~Expired(h.left[a])
         /\ Limited(g) => Limited(h)
<1> DEFINE held == StartHold(g, Overdue(g))
<1>1. Overdue(g) \in SUBSET Axes /\ ("x" \in Overdue(g) <=> "y" \in Overdue(g))
  BY Good DEF Overdue, Shared
<1>2. /\ GoodGenerator(held) /\ held.source = g.source
      /\ \A a \in Axes : /\ a \in Overdue(g) => held.mode[a] = "HOLD"
                         /\ a \notin Overdue(g) => held.mode[a] = g.mode[a] /\ held.left[a] = g.left[a]
  BY <1>1, StartHoldGood
<1>3. PICK resting \in SUBSET MayRest(held) : h = Settled(held, resting)
  BY DEF Updates
<1> HIDE DEF held
<1>4. /\ GoodGenerator(h) /\ h.source = held.source /\ h.left = held.left
      /\ \A a \in Axes : h.mode[a] = held.mode[a] \/ h.mode[a] = "POSITION"
  BY <1>2, <1>3, SettledGood
<1>5. \A a \in Axes : h.mode[a] \in Streamed =>
        a \notin Overdue(g) /\ h.mode[a] = g.mode[a] /\ h.left[a] = g.left[a]
  BY <1>2, <1>4 DEF Streamed
<1> QED
  BY <1>2, <1>4, <1>5 DEF Overdue, Limited

LEMMA AgedGood ==
  ASSUME NEW g, GoodGenerator(g)
  PROVE  /\ GoodGenerator(Aged(g)) /\ Aged(g).source = g.source
         /\ Limited(g) => Limited(Aged(g))
<1> DEFINE left == [a \in Axes |-> Elapsed(g.left[a])]
           due == [a \in Axes |-> Elapsed(g.due[a])]
           h == Aged(g)
<1>0. g \in Generator
  BY Good
<1>1. left \in [Axes -> Lefts] /\ due \in [Axes -> Lefts]
  BY Good, ElapsedFacts
<1>2. \A a \in Axes : left[a] = Elapsed(g.left[a]) /\ due[a] = Elapsed(g.due[a])
  OBVIOUS
<1>3. h = [g EXCEPT !.left = left, !.due = due]
  BY DEF Aged
<1> HIDE DEF left, due, h
<1>4. /\ h \in Generator /\ h.mode = g.mode /\ h.left = left /\ h.source = g.source
      /\ h.due = due /\ h.altitude = g.altitude /\ h.reference = g.reference
      /\ h.target = g.target
  BY <1>0, <1>1, <1>3 DEF Generator, GeneratorOf
<1>5. Shared(h) /\ InCoordinates(h)
  BY <1>2, <1>4, Good DEF Shared, InCoordinates
<1>6. Promised(h)
  BY <1>2, <1>4, Good, ElapsedFacts DEF Promised
<1>7. Limited(g) => Limited(h)
  BY <1>2, <1>4, Good, ElapsedFacts DEF Limited
<1> QED
  BY <1>4, <1>5, <1>6, <1>7 DEF GoodGenerator, h

LEMMA AgedCommandGood ==
  ASSUME NEW c, GoodCommand(c)
  PROVE  LET d == AgedCommand(c)
         IN  /\ GoodCommand(d)
             /\ d.id = c.id /\ d.mode = c.mode
             /\ Finite(c) => Finite(d)
             /\ IsStop(c) => IsStop(d)
<1>1. Elapsed(c.left) \in Lefts /\ Elapsed(c.due) \in Lefts /\ Within(Elapsed(c.left), Elapsed(c.due))
  BY GoodFields, ElapsedFacts
<1> DEFINE left == Elapsed(c.left)
           due == Elapsed(c.due)
<1>4. AgedCommand(c) = [c EXCEPT !.left = left, !.due = due]
  BY DEF AgedCommand
<1>5. left \in Lefts /\ due \in Lefts /\ c \in Command
  BY <1>1, GoodFields
<1> HIDE DEF left, due
<1>6. /\ AgedCommand(c) \in Command
      /\ AgedCommand(c).left = left /\ AgedCommand(c).due = due
      /\ AgedCommand(c).id = c.id /\ AgedCommand(c).mode = c.mode
      /\ AgedCommand(c).altitude = c.altitude /\ AgedCommand(c).zin = c.zin
      /\ AgedCommand(c).finite = c.finite
  BY <1>4, <1>5 DEF Command, CommandOf
<1>2. /\ AgedCommand(c) \in Command
      /\ AgedCommand(c).left = Elapsed(c.left) /\ AgedCommand(c).due = Elapsed(c.due)
      /\ AgedCommand(c).id = c.id /\ AgedCommand(c).mode = c.mode
      /\ AgedCommand(c).altitude = c.altitude /\ AgedCommand(c).zin = c.zin
      /\ AgedCommand(c).finite = c.finite
  BY <1>6 DEF left, due
<1>3. Finite(c) => Finite(AgedCommand(c))
  BY <1>2, GoodFields, ElapsedFacts DEF Finite
<1> QED
  BY <1>1, <1>2, <1>3, GoodFields DEF GoodCommand, IsStop

\* What the senders send is good, and a stream's time is limited.
LEMMA SentGood ==
  ASSUME NEW s, s \in SetpointOf \/ s \in StreamOf, NEW id \in Ids, NEW left \in Lefts, NEW due \in Lefts,
         Within(left, due)
  PROVE  LET c == AsCommand(s, id, left, due)
         IN  GoodCommand(c) /\ c.id = id /\ c.mode = s.mode /\ c.left = left
<1>1. s.mode \in [Axes -> Modes \cup {"KEEP"}] /\ s.altitude \in BOOLEAN /\ s.finite \in BOOLEAN
  BY DEF SetpointOf, StreamOf
<1> QED
  BY <1>1, CoordinateType DEF AsCommand, GoodCommand, Command, CommandOf

LEMMA StopGood ==
  /\ StopSetpoint \in SetpointOf
  /\ Level = {} => \A id \in Ids : IsStop(AsCommand(StopSetpoint, id, NoLimit, NoLimit))
<1>1. [a \in Axes |-> IF a \in Level THEN "KEEP" ELSE "HOLD"] \in [Axes -> Modes \cup {"KEEP"}]
  BY DEF Modes
<1> QED
  BY <1>1 DEF StopSetpoint, SetpointOf, IsStop, AsCommand

\* What a pose reset carries over.
LEMMA CarriedGood ==
  ASSUME NEW g, GoodGenerator(g)
  PROVE  /\ GoodCommand(Carried(g)) /\ Finite(Carried(g))
         /\ Carried(g).mode["x"] = Carried(g).mode["y"]
<1> DEFINE mode == CarriedMode(g)
           zin == IF g.mode["z"] = "POSITION" THEN g.target ELSE g.reference
<1>1. /\ mode \in [Axes -> {"KEEP", "POSITION", "HOLD"}] /\ mode["x"] = "KEEP" /\ mode["y"] = "KEEP"
  BY DEF CarriedMode
<1>2. zin \in Coordinates /\ zin = Coordinate(g.altitude)
  BY Good DEF InCoordinates
<1>3. Carried(g) = [id |-> 0, mode |-> mode, altitude |-> g.altitude, finite |-> TRUE,
                    left |-> NoLimit, due |-> NoLimit, zin |-> zin]
  BY DEF Carried
<1> HIDE DEF mode, zin
<1>4. 0 \in Ids /\ mode \in [Axes -> Modes \cup {"KEEP"}] /\ g.altitude \in BOOLEAN /\ NoLimit \in Lefts
  BY <1>1, Good, LeftsFacts DEF Ids, Modes
<1>5. Carried(g) \in Command
  BY <1>2, <1>3, <1>4 DEF Command, CommandOf
<1> QED
  BY <1>1, <1>2, <1>3, <1>5 DEF GoodCommand, Finite, Within, Streamed

-----------------------------------------------------------------------------
(* Queues of commands. *)

GoodCommands(q) == q \in Seq(Command) /\ \A i \in DOMAIN q : GoodCommand(q[i])

LEMMA EmptyCommands == GoodCommands(<<>>)
  BY DEF GoodCommands

LEMMA AppendCommands ==
  ASSUME NEW q, NEW c, GoodCommands(q), GoodCommand(c)
  PROVE  GoodCommands(Append(q, c)) /\ Append(q, c) # <<>>
<1>1. c \in Command
  BY DEF GoodCommand
<1> QED
  BY <1>1, AppendIndex, AppendProperties DEF GoodCommands

LEMMA TailCommands ==
  ASSUME NEW q, GoodCommands(q), q # <<>>
  PROVE  GoodCommands(Tail(q)) /\ GoodCommand(Head(q))
  BY TailIndex, HeadTailProperties DEF GoodCommands

LEMMA PrefixCommands ==
  ASSUME NEW q, GoodCommands(q), NEW n \in 0 .. Len(q)
  PROVE  /\ GoodCommands(SubSeq(q, 1, n))
         /\ \A i \in DOMAIN SubSeq(q, 1, n) : i \in DOMAIN q /\ SubSeq(q, 1, n)[i] = q[i]
         /\ n = Len(q) => SubSeq(q, 1, n) = q
<1>1. q \in Seq(Command) /\ Len(q) \in Nat /\ DOMAIN q = 1 .. Len(q)
  BY LenProperties DEF GoodCommands
<1>2. /\ SubSeq(q, 1, n) \in Seq(Command) /\ DOMAIN SubSeq(q, 1, n) = 1 .. n
      /\ \A i \in 1 .. n : SubSeq(q, 1, n)[i] = q[i]
  BY <1>1, SubSeqProperties
<1>3. \A i \in 1 .. n : i \in DOMAIN q
  BY <1>1
<1>4. n = Len(q) => SubSeq(q, 1, n) = q
  BY <1>1, <1>2, SeqEqual
<1> QED
  BY <1>2, <1>3, <1>4 DEF GoodCommands

AgedCommands(q) == [i \in DOMAIN q |-> AgedCommand(q[i])]

LEMMA AgedCommandsGood ==
  ASSUME NEW q, GoodCommands(q)
  PROVE  /\ GoodCommands(AgedCommands(q)) /\ DOMAIN AgedCommands(q) = DOMAIN q
         /\ \A i \in DOMAIN q : AgedCommands(q)[i] = AgedCommand(q[i])
         /\ q = <<>> => AgedCommands(q) = <<>>
<1>1. \A i \in DOMAIN q : GoodCommand(AgedCommand(q[i])) /\ AgedCommand(q[i]) \in Command
  BY AgedCommandGood DEF GoodCommands, GoodCommand
<1>2. q \in Seq(Command)
  BY DEF GoodCommands
<1> DEFINE f == AgedCommands(q)
<1>3. f = [i \in DOMAIN q |-> f[i]] /\ \A i \in DOMAIN q : f[i] = AgedCommand(q[i])
  BY DEF AgedCommands
<1> HIDE DEF f
<1>4. f \in Seq(Command) /\ Len(f) = Len(q) /\ DOMAIN f = DOMAIN q
  BY <1>1, <1>2, <1>3, MapInSeq
<1>5. q = <<>> => f = <<>>
  BY <1>4, EmptySeq
<1> QED
  BY <1>1, <1>3, <1>4, <1>5 DEF f, GoodCommands

-----------------------------------------------------------------------------
(* What the generator holds and the queues carry is good at all times. *)

Base ==
  /\ TypeOK
  /\ GoodGenerator(gen)
  /\ GoodCommands(pending) /\ GoodCommands(link)
  /\ phase = "holding" => pending = <<>>

LEMMA BaseFacts ==
  ASSUME Base
  PROVE  /\ TypeOK /\ GoodGenerator(gen) /\ GoodCommands(pending) /\ GoodCommands(link)
         /\ phase = "holding" => pending = <<>>
  BY DEF Base

LEMMA InitBase == Init => Base
<1> SUFFICES ASSUME Init PROVE Base
  OBVIOUS
<1>1. GoodGenerator(gen) /\ gen \in Generator
  BY ConstructedGood, Good DEF Init
<1>2. GoodCommands(pending) /\ GoodCommands(link)
  BY EmptyCommands DEF Init
<1>3. 0 \in Ids /\ kills \in 0 .. MaxKills /\ pending \in Seq(Command) /\ link \in Seq(Command)
  BY <1>2 DEF Init, Ids, GoodCommands
<1>4. ack \in [id : Ids, rejected : BOOLEAN]
  BY <1>3 DEF Init
<1>5. TypeOK
  BY <1>1, <1>3, <1>4 DEF Init, TypeOK
<1> QED
  BY <1>1, <1>2, <1>5 DEF Init, Base

\* A command that is not rejected leaves x and y in one mode.
LEMMA TakenGood ==
  ASSUME NEW g, NEW c, GoodGenerator(g), GoodCommand(c), NEW altimeter \in BOOLEAN
  PROVE  GoodGenerator(IF Rejected(c, altimeter) THEN g ELSE Applied(g, c))
  BY AppliedGood DEF Rejected

LEMMA AckedType ==
  ASSUME TypeOK, NEW id \in Ids, NEW rejected \in BOOLEAN
  PROVE  Acked(id, rejected) \in [id : Ids, rejected : BOOLEAN]
  BY DEF Acked, TypeOK

LEMMA RejectedType ==
  ASSUME NEW c, GoodCommand(c), NEW altimeter \in BOOLEAN
  PROVE  Rejected(c, altimeter) \in BOOLEAN
  BY DEF Rejected

LEMMA ApplyBase ==
  ASSUME Base, NEW c, GoodCommand(c), ApplyCommand(c)
  PROVE  /\ GoodGenerator(gen') /\ GoodCommands(pending')
         /\ ack' \in [id : Ids, rejected : BOOLEAN]
         /\ phase = "holding" => pending' = <<>>
<1>1. c.id \in Ids
  BY GoodFields
<1>2. CASE phase = "disarmed"
  <2>1. ack' = Acked(c.id, TRUE) /\ UNCHANGED <<gen, pending>>
    BY <1>2 DEF ApplyCommand
  <2> QED
    BY <1>1, <1>2, <2>1, BaseFacts, AckedType
<1>3. CASE phase \in {"waiting", "rebasing"}
  <2>1. pending' = Append(pending, c) /\ UNCHANGED <<gen, ack>>
    BY <1>3 DEF ApplyCommand
  <2>2. GoodCommands(pending')
    BY <2>1, BaseFacts, AppendCommands
  <2> QED
    BY <1>3, <2>1, <2>2, BaseFacts DEF TypeOK
<1>4. CASE phase = "holding"
  <2>1. PICK altimeter \in BOOLEAN :
          /\ gen' = IF Rejected(c, altimeter) THEN gen ELSE Applied(gen, c)
          /\ ack' = Acked(c.id, Rejected(c, altimeter))
    BY <1>4 DEF ApplyCommand
  <2>2. GoodGenerator(gen')
    BY <2>1, BaseFacts, TakenGood
  <2>3. ack' \in [id : Ids, rejected : BOOLEAN]
    BY <1>1, <2>1, BaseFacts, AckedType, RejectedType
  <2>4. UNCHANGED pending
    BY <1>4 DEF ApplyCommand
  <2> QED
    BY <2>2, <2>3, <2>4, BaseFacts, <1>4
<1> QED
  BY <1>2, <1>3, <1>4 DEF ApplyCommand

\* What is published.
LEMMA PublishBase ==
  ASSUME Base, NEW s \in SetpointOf, Publish(s)
  PROVE  /\ GoodCommands(link') /\ nextId' \in Ids /\ lastId' = nextId' /\ nextId' = nextId + 1
         /\ \E c : /\ GoodCommand(c) /\ link' = Append(link, c) /\ c.id = nextId' /\ c.mode = s.mode
                   /\ c = AsCommand(s, nextId', NoLimit, NoLimit)
<1> DEFINE c == AsCommand(s, nextId', NoLimit, NoLimit)
<1>1. nextId' = nextId + 1 /\ nextId' \in Ids /\ lastId' = nextId'
  BY BaseFacts DEF Publish, TypeOK, Ids
<1>2. NoLimit \in Lefts /\ Within(NoLimit, NoLimit)
  BY LeftsFacts DEF Within
<1>3. GoodCommand(c) /\ c.id = nextId' /\ c.mode = s.mode
  BY <1>1, <1>2, SentGood
<1>4. link' = Append(link, c)
  BY DEF Publish
<1> HIDE DEF c
<1>5. GoodCommands(link')
  BY <1>3, <1>4, BaseFacts, AppendCommands
<1> QED
  BY <1>1, <1>3, <1>4, <1>5 DEF c

LEMMA ReportType ==
  ASSUME NEW g, GoodGenerator(g), Report(g), TypeOK
  PROVE  /\ errors' \in [id : Ids, rejected : BOOLEAN, held : SUBSET {"x", "z"},
                         source : [{"x", "z"} -> SourceOf]] \cup {None}
         /\ errors' # None =>
              /\ errors'.id = ack.id /\ errors'.rejected = ack.rejected
              /\ \A a \in {"x", "z"} : errors'.source[a] = g.source[a]
<1> DEFINE held == {a \in {"x", "z"} : g.mode[a] = "POSITION"}
           source == [a \in {"x", "z"} |-> g.source[a]]
<1>1. held \in SUBSET {"x", "z"} /\ source \in [{"x", "z"} -> SourceOf]
  BY Good DEF SourceOf
<1>2. ack.id \in Ids /\ ack.rejected \in BOOLEAN
  BY DEF TypeOK
<1>3. errors' = None \/ errors' = [id |-> ack.id, rejected |-> ack.rejected,
                                   held |-> held, source |-> source]
  BY DEF Report
<1>4. \A a \in {"x", "z"} : source[a] = g.source[a]
  OBVIOUS
<1> HIDE DEF held, source
<1> QED
  BY <1>1, <1>2, <1>3, <1>4

LEMMA GoodType == ASSUME Base PROVE TypeOK
  BY DEF Base

\* The steps of the mission process and of others.
LEMMA MissionBase ==
  ASSUME Base, \/ StartMission \/ GiveUp \/ Arrive \/ GoOn \/ End \/ Exit \/ Die \/ HearKill
               \/ \E s \in Setpoints : Send(s)
               \/ \E s \in Streams : OtherSends(s)
  PROVE  Base'
<1>1. CASE StartMission
  <2>1. 0 \in Ids
    BY DEF Ids
  <2> QED
    BY <1>1, <2>1, BaseFacts DEF StartMission, control, wires, Base, TypeOK
<1>2. CASE GiveUp
  BY <1>2, BaseFacts DEF GiveUp, control, wires, Base, TypeOK
<1>3. CASE Arrive
  BY <1>3, BaseFacts DEF Arrive, control, Base, TypeOK
<1>4. CASE GoOn
  BY <1>4, BaseFacts DEF GoOn, control, process, Base, TypeOK
<1>5. CASE End
  <2>1. Publish(StopSetpoint) /\ StopSetpoint \in SetpointOf
    BY <1>5, StopGood DEF End
  <2>2. GoodCommands(link') /\ nextId' \in Ids /\ lastId' \in Ids
    BY <2>1, PublishBase
  <2> QED
    BY <1>5, <2>2, BaseFacts DEF End, control, Base, TypeOK, GoodCommands
<1>6. CASE Exit
  <2>1. PICK n \in 0 .. Len(link) : link' = SubSeq(link, 1, n) /\ quiet' = (n = Len(link))
    BY <1>6 DEF Exit
  <2>2. GoodCommands(link')
    BY <2>1, BaseFacts, PrefixCommands
  <2>3. quiet' \in BOOLEAN
    BY <2>1
  <2> QED
    BY <1>6, <2>2, <2>3, BaseFacts DEF Exit, control, Base, TypeOK, GoodCommands
<1>7. CASE Die
  BY <1>7, BaseFacts DEF Die, control, Base, TypeOK
<1>8. CASE HearKill
  BY <1>8, BaseFacts DEF HearKill, control, Base, TypeOK
<1>9. ASSUME NEW s \in Setpoints, Send(s) PROVE Base'
  <2>1. Publish(s)
    BY <1>9 DEF Send
  <2>2. GoodCommands(link') /\ nextId' \in Ids /\ lastId' \in Ids
    BY <2>1, PublishBase
  <2>3. goal' \in Goals \cup {None}
    BY <1>9, <2>2, BaseFacts DEF Send, Goals, TypeOK
  <2> QED
    BY <1>9, <2>2, <2>3, BaseFacts DEF Send, control, Base, TypeOK, GoodCommands
<1>10. ASSUME NEW s \in Streams, OtherSends(s) PROVE Base'
  <2>1. s.timeout \in Lefts
    BY LeftsFacts DEF StreamOf
  <2>2. others' \in [setpoint : Streams, left : Lefts]
    BY <1>10, <2>1 DEF OtherSends
  <2> QED
    BY <1>10, <2>2, BaseFacts DEF OtherSends, control, process, Base, TypeOK
<1> QED
  BY <1>1, <1>2, <1>3, <1>4, <1>5, <1>6, <1>7, <1>8, <1>9, <1>10

\* A command of someone else is good, and stands for a limited time.
LEMMA OtherCommand ==
  ASSUME TypeOK, others # None, OtherCallback
  PROVE  \E c : /\ GoodCommand(c) /\ c.id = 0 /\ ApplyCommand(c)
                /\ others.left # NoLimit => c.left # NoLimit
<1> DEFINE due == IF others.setpoint.stamped THEN others.left ELSE others.setpoint.timeout
           c == AsCommand(others.setpoint, 0, Expires(others), due)
<1>1. others.setpoint \in StreamOf /\ others.left \in Lefts
  BY DEF TypeOK
<1>2. others.setpoint.timeout \in 0 .. MaxTimeout
  BY <1>1 DEF StreamOf
<1>3. due \in Lefts /\ Expires(others) = due /\ 0 \in Ids /\ (others.left # NoLimit => due # NoLimit)
  BY <1>1, <1>2, LeftsFacts DEF Expires, Ids
<1>4. Within(due, due)
  BY <1>3, LeftsFacts DEF Within
<1>5. GoodCommand(c) /\ c.id = 0 /\ c.left = due
  BY <1>1, <1>3, <1>4, SentGood
<1>6. ApplyCommand(c)
  BY DEF OtherCallback
<1> QED
  BY <1>3, <1>5, <1>6

\* What a pose reset leaves: a good generator, its targets its own, nothing unlimited.
LEMMA RebasedGood ==
  ASSUME NEW g, GoodGenerator(g), NEW h,
         \/ h = [Applied(Reset, Carried(g)) EXCEPT !.source = [a \in Axes |-> Own]]
         \/ h = Reset
  PROVE  GoodGenerator(h) /\ Limited(h) /\ \A a \in Axes : h.source[a] = Own
<1>1. CASE h = Reset
  BY <1>1, ResetGood
<1>2. CASE h = [Applied(Reset, Carried(g)) EXCEPT !.source = [a \in Axes |-> Own]]
  <2> DEFINE k == Applied(Reset, Carried(g))
             source == [a \in Axes |-> Own]
  <2>1. GoodGenerator(k) /\ Limited(k)
    BY ResetGood, CarriedGood, AppliedGood, AppliedLimited
  <2>2. source \in [Axes -> Ids \cup {Own}] /\ \A a \in Axes : source[a] = Own
    OBVIOUS
  <2>3. h = [k EXCEPT !.source = source]
    BY <1>2
  <2>4. k \in Generator
    BY <2>1, Good
  <2> HIDE DEF k, source
  <2>5. /\ h \in Generator /\ h.source = source /\ h.mode = k.mode /\ h.left = k.left
        /\ h.due = k.due /\ h.altitude = k.altitude /\ h.reference = k.reference
        /\ h.target = k.target
    BY <2>2, <2>3, <2>4 DEF Generator, GeneratorOf
  <2> QED
    BY <2>1, <2>2, <2>5 DEF GoodGenerator, Shared, InCoordinates, Promised, Limited
<1> QED
  BY <1>1, <1>2

LEMMA AgedOthers ==
  ASSUME TypeOK, Tick
  PROVE  /\ others' \in [setpoint : Streams, left : Lefts] \cup {None}
         /\ others' # None => others # None /\ (others.left # NoLimit => others'.left # NoLimit)
<1>1. CASE others = None
  BY <1>1 DEF Tick
<1>2. CASE others # None
  <2> DEFINE left == Elapsed(others.left)
  <2>1. others \in [setpoint : Streams, left : Lefts]
    BY <1>2 DEF TypeOK
  <2>2. left \in Lefts /\ (others.left # NoLimit => left # NoLimit)
    BY <2>1, ElapsedFacts
  <2>3. others' = [others EXCEPT !.left = left]
    BY <1>2 DEF Tick
  <2> HIDE DEF left
  <2> QED
    BY <1>2, <2>1, <2>2, <2>3
<1> QED
  BY <1>1, <1>2

\* The steps of sub_control.
LEMMA ControlBase ==
  ASSUME Base, \/ MotionSetpointCallback \/ OtherCallback
               \/ Kill \/ Release \/ Seed \/ ResetPose \/ Rebase \/ TakePending
               \/ Cycle \/ IdleCycle \/ Tick
  PROVE  Base'
<1>1. CASE MotionSetpointCallback
  <2>1. GoodCommands(link') /\ GoodCommand(Head(link)) /\ ApplyCommand(Head(link))
    BY <1>1, BaseFacts, TailCommands DEF MotionSetpointCallback
  <2>2. /\ GoodGenerator(gen') /\ GoodCommands(pending') /\ ack' \in [id : Ids, rejected : BOOLEAN]
        /\ phase = "holding" => pending' = <<>>
    BY <2>1, ApplyBase
  <2>3. gen' \in Generator
    BY <2>2, Good
  <2> QED
    BY <1>1, <2>1, <2>2, <2>3, BaseFacts
       DEF MotionSetpointCallback, process, Base, TypeOK, GoodCommands
<1>2. CASE OtherCallback
  <2>1. PICK c : GoodCommand(c) /\ ApplyCommand(c)
    BY <1>2, BaseFacts, OtherCommand DEF OtherCallback
  <2>2. /\ GoodGenerator(gen') /\ GoodCommands(pending') /\ ack' \in [id : Ids, rejected : BOOLEAN]
        /\ phase = "holding" => pending' = <<>>
    BY <2>1, ApplyBase
  <2>3. gen' \in Generator
    BY <2>2, Good
  <2> QED
    BY <1>2, <2>2, <2>3, BaseFacts DEF OtherCallback, process, Base, TypeOK, GoodCommands
<1>3. CASE Kill
  BY <1>3, BaseFacts DEF Kill, process, Base, TypeOK
<1>4. CASE Release
  BY <1>4, BaseFacts, EmptyCommands DEF Release, process, wires, Base, TypeOK, GoodCommands
<1>5. CASE Seed
  <2>1. GoodGenerator(gen') /\ gen' \in Generator
    BY <1>5, ResetGood, Good DEF Seed
  <2> QED
    BY <1>5, <2>1, BaseFacts DEF Seed, process, wires, Base, TypeOK
<1>6. CASE ResetPose
  BY <1>6, BaseFacts DEF ResetPose, process, wires, Base, TypeOK
<1>7. CASE Rebase
  <2>1. GoodGenerator(gen')
    BY <1>7, BaseFacts, RebasedGood DEF Rebase
  <2>2. gen' \in Generator
    BY <2>1, Good
  <2> QED
    BY <1>7, <2>1, <2>2, BaseFacts DEF Rebase, process, wires, Base, TypeOK
<1>8. CASE TakePending
  <2>1. GoodCommands(pending') /\ GoodCommand(Head(pending))
    BY <1>8, BaseFacts, TailCommands DEF TakePending
  <2>2. PICK altimeter \in BOOLEAN :
          /\ gen' = IF Rejected(Head(pending), altimeter) THEN gen ELSE Applied(gen, Head(pending))
          /\ ack' = Acked(Head(pending).id, Rejected(Head(pending), altimeter))
    BY <1>8 DEF TakePending
  <2>3. GoodGenerator(gen')
    BY <2>1, <2>2, BaseFacts, TakenGood
  <2>4. ack' \in [id : Ids, rejected : BOOLEAN]
    BY <2>1, <2>2, BaseFacts, AckedType, RejectedType, GoodFields
  <2>5. gen' \in Generator
    BY <2>3, Good
  <2> QED
    BY <1>8, <2>1, <2>3, <2>4, <2>5, BaseFacts
       DEF TakePending, process, wires, Base, TypeOK, GoodCommands
<1>9. CASE Cycle
  <2>1. PICK altimeter \in BOOLEAN : gen' \in Updates(IF altimeter THEN gen ELSE DropAltitude(gen))
    BY <1>9 DEF Cycle
  <2>2. GoodGenerator(IF altimeter THEN gen ELSE DropAltitude(gen))
    BY BaseFacts, DropGood
  <2>3. GoodGenerator(gen')
    BY <2>1, <2>2, UpdatesGood
  <2>4. gen' \in Generator
    BY <2>3, Good
  <2>5. errors' \in [id : Ids, rejected : BOOLEAN, held : SUBSET {"x", "z"},
                     source : [{"x", "z"} -> SourceOf]] \cup {None}
    BY <1>9, <2>3, BaseFacts, ReportType DEF Cycle
  <2>6. phase' = "holding" /\ pending' = pending /\ pending = <<>>
    BY <1>9, BaseFacts DEF Cycle
  <2> QED
    BY <1>9, <2>3, <2>4, <2>5, <2>6, BaseFacts DEF Cycle, process, Base, TypeOK
<1>10. CASE IdleCycle
  <2>1. errors' \in [id : Ids, rejected : BOOLEAN, held : SUBSET {"x", "z"},
                     source : [{"x", "z"} -> SourceOf]] \cup {None}
    BY <1>10, BaseFacts, ReportType DEF IdleCycle
  <2> QED
    BY <1>10, <2>1, BaseFacts DEF IdleCycle, control, process, Base, TypeOK
<1>11. CASE Tick
  <2>1. GoodGenerator(gen')
    BY <1>11, BaseFacts, AgedGood DEF Tick
  <2>2. gen' \in Generator
    BY <2>1, Good
  <2>3. GoodCommands(pending') /\ (pending = <<>> => pending' = <<>>)
    BY <1>11, BaseFacts, AgedCommandsGood DEF Tick, AgedCommands
  <2>4. others' \in [setpoint : Streams, left : Lefts] \cup {None}
    BY <1>11, BaseFacts, AgedOthers DEF Tick
  <2> QED
    BY <1>11, <2>1, <2>2, <2>3, <2>4, BaseFacts DEF Tick, process, Base, TypeOK, GoodCommands
<1> QED
  BY <1>1, <1>2, <1>3, <1>4, <1>5, <1>6, <1>7, <1>8, <1>9, <1>10, <1>11

LEMMA NextBase == Base /\ [Next]_vars => Base'
<1> SUFFICES ASSUME Base, [Next]_vars PROVE Base'
  OBVIOUS
<1>1. CASE UNCHANGED vars
  BY <1>1 DEF vars, control, process, wires, Base, TypeOK
<1> QED
  BY <1>1, MissionBase, ControlBase DEF Next

THEOREM AlwaysBase == Spec => []Base
  BY InitBase, NextBase, PTL DEF Spec

\* Every reachable state is typed.
THEOREM TypeCorrect == Spec => []TypeOK
  BY AlwaysBase, GoodType, PTL

\* x and y always share a mode, and their streams end together.
THEOREM XYTogether == Spec => []SharedMode
<1>1. Base => SharedMode
  BY DEF Base, GoodGenerator, Shared, SharedMode
<1> QED
  BY <1>1, AlwaysBase, PTL

\* The z reference and target are always in the coordinates of the hold.
THEOREM NoMixedCoordinates == Spec => []OneCoordinate
<1>1. Base => OneCoordinate
  BY DEF Base, GoodGenerator, InCoordinates, OneCoordinate
<1> QED
  BY <1>1, AlwaysBase, PTL

\* A control cycle leaves no stream standing past what its sender was promised.
THEOREM StreamsExpire == Spec => StreamsEnd
<1>1. Base /\ [Next]_vars =>
        [Cycle => \A a \in Axes : ~(gen'.mode[a] \in Streamed /\ Expired(gen'.due[a]))]_vars
  <2> SUFFICES ASSUME Base, Cycle
               PROVE  \A a \in Axes : ~(gen'.mode[a] \in Streamed /\ Expired(gen'.due[a]))
    OBVIOUS
  <2>1. PICK altimeter \in BOOLEAN : gen' \in Updates(IF altimeter THEN gen ELSE DropAltitude(gen))
    BY DEF Cycle
  <2>2. GoodGenerator(IF altimeter THEN gen ELSE DropAltitude(gen))
    BY BaseFacts, DropGood
  <2>3. /\ GoodGenerator(gen')
        /\ \A a \in Axes : gen'.mode[a] \in Streamed => ~Expired(gen'.left[a])
    BY <2>1, <2>2, UpdatesGood
  <2>4. \A a \in Axes : gen'.left[a] \in Lefts /\ gen'.due[a] \in Lefts
    BY <2>3, Good
  <2>5. \A a \in Axes : gen'.mode[a] \in Streamed => Within(gen'.left[a], gen'.due[a])
    BY <2>3 DEF GoodGenerator, Promised
  <2>6. \A t, u \in Lefts : Within(t, u) /\ ~Expired(t) => ~Expired(u)
    BY DEF Within, Expired, Lefts
  <2> QED
    BY <2>3, <2>4, <2>5, <2>6
<1> QED
  BY <1>1, AlwaysBase, PTL DEF Spec, StreamsEnd

-----------------------------------------------------------------------------
(* While a leaf waits for a move, its command is the latest: nothing comes  *)
(* behind it, and once it was answered nothing is on its way.               *)

Order ==
  /\ \A i \in DOMAIN link : link[i].id <= nextId
  /\ \A i \in DOMAIN pending : pending[i].id <= nextId
  /\ ack.id <= nextId
  /\ errors # None => errors.id <= nextId
  /\ mission = "running" => others = None
  /\ goal # None => mission = "running" /\ goal.id = nextId /\ lastId = nextId /\ nextId > 0

AtLast(q, to) ==
  \A i \in DOMAIN q : q[i].id = to.id =>
    (\A j \in DOMAIN q : j <= i) /\ q[i].mode[to.axis] = "POSITION"

Answered ==
  /\ link = <<>>
  /\ pending = <<>> \/ phase = "disarmed"
  /\ ack.rejected \/ gen.source[goal.axis] \in {goal.id, Own}

Waited ==
  /\ AtLast(link, goal) /\ AtLast(pending, goal)
  /\ \A i \in DOMAIN pending : pending[i].id = goal.id => link = <<>>
  /\ ack.id = goal.id => Answered
  /\ errors # None /\ errors.id = goal.id
       => errors.rejected \/ errors.source[goal.axis] \in {goal.id, Own}

Arrivals == goal # None => Waited

LEMMA InitArrivals == Init => Order /\ Arrivals
  BY EmptySeq DEF Init, Order, Arrivals

LEMMA GoalType ==
  ASSUME Base, Order, goal # None
  PROVE  /\ goal.axis \in {"x", "z"} /\ goal.axis \in Axes
         /\ goal.id = nextId /\ lastId = nextId /\ nextId > 0
         /\ mission = "running" /\ others = None
  BY BaseFacts DEF TypeOK, Goals, Order, Ids

LEMMA TailIds ==
  ASSUME NEW q, NEW n \in Nat, GoodCommands(q), q # <<>>, \A i \in DOMAIN q : q[i].id <= n
  PROVE  /\ \A i \in DOMAIN Tail(q) : Tail(q)[i].id <= n
         /\ Head(q).id <= n
  BY TailIndex DEF GoodCommands

\* The command that is waited for is at the end of what is left, or was the head.
LEMMA TailAtLast ==
  ASSUME NEW q, NEW to, GoodCommands(q), q # <<>>, AtLast(q, to)
  PROVE  /\ AtLast(Tail(q), to)
         /\ Head(q).id = to.id => Tail(q) = <<>> /\ Head(q).mode[to.axis] = "POSITION"
<1>1. q \in Seq(Command) /\ 1 \in DOMAIN q /\ Head(q) = q[1]
  BY TailIndex DEF GoodCommands
<1>2. \A i \in DOMAIN Tail(q) : i \in Nat /\ 1 < i + 1 /\ i + 1 \in DOMAIN q /\ Tail(q)[i] = q[i + 1]
  BY <1>1, TailIndex
<1>3. AtLast(Tail(q), to)
  <2> SUFFICES ASSUME NEW i \in DOMAIN Tail(q), Tail(q)[i].id = to.id
               PROVE  /\ \A j \in DOMAIN Tail(q) : j <= i
                      /\ Tail(q)[i].mode[to.axis] = "POSITION"
    BY DEF AtLast
  <2>1. i + 1 \in DOMAIN q /\ q[i + 1] = Tail(q)[i] /\ i \in Nat
    BY <1>2
  <2>2. (\A j \in DOMAIN q : j <= i + 1) /\ q[i + 1].mode[to.axis] = "POSITION"
    BY <2>1 DEF AtLast
  <2>3. ASSUME NEW j \in DOMAIN Tail(q) PROVE j <= i
    <3>1. j \in Nat /\ j + 1 \in DOMAIN q
      BY <1>2
    <3> QED
      BY <2>1, <2>2, <3>1
  <2> QED
    BY <2>1, <2>2, <2>3
<1>4. ASSUME Head(q).id = to.id PROVE Tail(q) = <<>> /\ Head(q).mode[to.axis] = "POSITION"
  <2>1. (\A j \in DOMAIN q : j <= 1) /\ q[1].mode[to.axis] = "POSITION"
    BY <1>1, <1>4 DEF AtLast
  <2>2. ASSUME NEW i \in DOMAIN Tail(q) PROVE FALSE
    BY <1>2, <2>1
  <2>3. Tail(q) \in Seq(Command)
    BY <1>1, HeadTailProperties
  <2>4. Tail(q) = <<>>
    BY <2>2, <2>3, NoElements
  <2> QED
    BY <1>1, <2>1, <2>4
<1> QED
  BY <1>3, <1>4

LEMMA AppendAtLast ==
  ASSUME NEW q, NEW c, NEW to, GoodCommands(q), GoodCommand(c),
         \A i \in DOMAIN q : q[i].id # to.id,
         c.id = to.id => c.mode[to.axis] = "POSITION"
  PROVE  AtLast(Append(q, c), to)
<1>1. c \in Command /\ q \in Seq(Command)
  BY DEF GoodCommand, GoodCommands
<1> QED
  BY <1>1, AppendIndex DEF AtLast

LEMMA AppendIds ==
  ASSUME NEW q, NEW c, GoodCommands(q), GoodCommand(c), NEW n \in Nat,
         \A i \in DOMAIN q : q[i].id <= n, c.id <= n
  PROVE  \A i \in DOMAIN Append(q, c) : Append(q, c)[i].id <= n
<1>1. c \in Command /\ q \in Seq(Command)
  BY DEF GoodCommand, GoodCommands
<1> QED
  BY <1>1, AppendIndex

LEMMA IdsType ==
  ASSUME Base
  PROVE  /\ nextId \in Nat /\ ack.id \in Nat
         /\ \A i \in DOMAIN link : link[i].id \in Nat
         /\ \A i \in DOMAIN pending : pending[i].id \in Nat
  BY BaseFacts, GoodFields DEF TypeOK, Ids, GoodCommands

LEMMA PublishOrder ==
  ASSUME Base, Order, NEW s \in SetpointOf, Publish(s)
  PROVE  /\ \A i \in DOMAIN link' : link'[i].id <= nextId'
         /\ \A to : /\ to.id = nextId' /\ s.mode[to.axis] = "POSITION"
                    => AtLast(link', to)
         /\ nextId' \in Nat /\ nextId' = nextId + 1 /\ lastId' = nextId'
<1>1. PICK c : GoodCommand(c) /\ link' = Append(link, c) /\ c.id = nextId' /\ c.mode = s.mode
  BY PublishBase
<1>2. nextId' = nextId + 1 /\ nextId \in Nat /\ nextId' \in Nat /\ lastId' = nextId'
  BY PublishBase, IdsType
<1>3. \A i \in DOMAIN link : link[i].id <= nextId /\ link[i].id \in Nat
  BY IdsType DEF Order
<1>4. \A i \in DOMAIN link : link[i].id <= nextId' /\ link[i].id # nextId'
  BY <1>2, <1>3
<1>5. \A i \in DOMAIN link' : link'[i].id <= nextId'
  BY <1>1, <1>2, <1>4, BaseFacts, AppendIds
<1>6. ASSUME NEW to, to.id = nextId', s.mode[to.axis] = "POSITION"
      PROVE  AtLast(link', to)
  BY <1>1, <1>4, <1>6, BaseFacts, AppendAtLast
<1> QED
  BY <1>2, <1>5, <1>6

LEMMA MissionArrivals ==
  ASSUME Base, Order, Arrivals,
         \/ StartMission \/ GiveUp \/ Arrive \/ GoOn \/ End \/ Exit \/ Die \/ HearKill
         \/ \E s \in Setpoints : Send(s)
         \/ \E s \in Streams : OtherSends(s)
  PROVE  Order' /\ Arrivals'
<1>1. CASE StartMission
  BY <1>1 DEF StartMission, control, wires, Order, Arrivals
<1>2. CASE GiveUp
  BY <1>2 DEF GiveUp, control, wires, Order, Arrivals
<1>3. CASE Arrive
  BY <1>3 DEF Arrive, control, Order, Arrivals
<1>4. CASE GoOn
  BY <1>4 DEF GoOn, control, process, Order, Arrivals, Waited, Answered
<1>5. CASE End
  <2>1. Publish(StopSetpoint) /\ StopSetpoint \in SetpointOf
    BY <1>5, StopGood DEF End
  <2>2. /\ \A i \in DOMAIN link' : link'[i].id <= nextId'
        /\ nextId' \in Nat /\ nextId' = nextId + 1
    BY <2>1, PublishOrder
  <2>3. /\ \A i \in DOMAIN pending : pending[i].id <= nextId' /\ ack.id <= nextId'
    BY <2>2, IdsType DEF Order
  <2>4. ack.id <= nextId'
    BY <2>2, IdsType DEF Order
  <2>5. errors # None => errors.id <= nextId'
    BY <2>2, BaseFacts, IdsType DEF Order, TypeOK, Ids
  <2> QED
    BY <1>5, <2>2, <2>3, <2>4, <2>5 DEF End, control, Order, Arrivals
<1>6. CASE Exit
  <2>1. PICK n \in 0 .. Len(link) : link' = SubSeq(link, 1, n)
    BY <1>6 DEF Exit
  <2>2. \A i \in DOMAIN link' : i \in DOMAIN link /\ link'[i] = link[i]
    BY <2>1, BaseFacts, PrefixCommands
  <2>3. goal = None
    BY <1>6 DEF Exit, Order
  <2> QED
    BY <1>6, <2>2, <2>3 DEF Exit, control, Order, Arrivals
<1>7. CASE Die
  BY <1>7 DEF Die, control, Order, Arrivals
<1>8. CASE HearKill
  BY <1>8 DEF HearKill, control, Order, Arrivals
<1>9. ASSUME NEW s \in Setpoints, Send(s) PROVE Order' /\ Arrivals'
  <2>1. Publish(s) /\ s \in SetpointOf
    BY <1>9 DEF Send
  <2>2. /\ \A i \in DOMAIN link' : link'[i].id <= nextId'
        /\ \A to : /\ to.id = nextId' /\ s.mode[to.axis] = "POSITION" => AtLast(link', to)
        /\ nextId' \in Nat /\ nextId' = nextId + 1 /\ lastId' = nextId'
    BY <2>1, PublishOrder
  <2>3. /\ \A i \in DOMAIN pending : pending[i].id <= nextId' /\ pending[i].id # nextId'
    BY <2>2, IdsType DEF Order
  <2>4. ack.id <= nextId' /\ ack.id # nextId'
    BY <2>2, IdsType DEF Order
  <2>5. errors # None => errors.id <= nextId' /\ errors.id # nextId'
    BY <2>2, BaseFacts, IdsType DEF Order, TypeOK, Ids
  <2>6. goal' # None => goal'.id = nextId' /\ s.mode[goal'.axis] = "POSITION"
    BY <1>9 DEF Send
  <2>7. UNCHANGED <<control, mission, errors, others>>
    BY <1>9 DEF Send
  <2>8. Order'
    <3>1. mission' = "running" /\ nextId' > 0 /\ others' = None
      BY <1>9, <2>2, <2>7, IdsType DEF Send, Order
    <3> QED
      BY <2>2, <2>3, <2>4, <2>5, <2>6, <2>7, <3>1 DEF control, Order
  <2>9. Arrivals'
    <3> SUFFICES ASSUME goal' # None PROVE Waited'
      BY DEF Arrivals
    <3>1. AtLast(link', goal')
      BY <2>2, <2>6
    <3>2. AtLast(pending', goal')
      BY <2>3, <2>6, <2>7 DEF control, AtLast
    <3> QED
      BY <2>3, <2>4, <2>5, <2>6, <2>7, <3>1, <3>2 DEF control, Waited
  <2> QED
    BY <2>8, <2>9
<1>10. ASSUME NEW s \in Streams, OtherSends(s) PROVE Order' /\ Arrivals'
  BY <1>10 DEF OtherSends, control, process, Order, Arrivals, Waited, Answered
<1> QED
  BY <1>1, <1>2, <1>3, <1>4, <1>5, <1>6, <1>7, <1>8, <1>9, <1>10

\* A command taken up gives its axis the target, or is rejected.
LEMMA TakenSource ==
  ASSUME NEW g, NEW c, NEW a \in Axes, GoodGenerator(g), GoodCommand(c), NEW rejected \in BOOLEAN,
         c.mode[a] = "POSITION"
  PROVE  rejected \/ (IF rejected THEN g ELSE Applied(g, c)).source[a] = c.id
  BY AppliedFields

LEMMA ApplyIds ==
  ASSUME Base, Order, NEW c, GoodCommand(c), c.id <= nextId, ApplyCommand(c)
  PROVE  /\ \A i \in DOMAIN pending' : pending'[i].id <= nextId
         /\ ack'.id <= nextId
<1>1. nextId \in Nat /\ ack.id <= nextId /\ \A i \in DOMAIN pending : pending[i].id <= nextId
  BY IdsType DEF Order
<1>2. CASE phase = "disarmed"
  BY <1>1, <1>2 DEF ApplyCommand, Acked
<1>3. CASE phase \in {"waiting", "rebasing"}
  <2>1. pending' = Append(pending, c) /\ UNCHANGED ack
    BY <1>3 DEF ApplyCommand
  <2>2. \A i \in DOMAIN pending' : pending'[i].id <= nextId
    BY <1>1, <2>1, BaseFacts, AppendIds
  <2> QED
    BY <1>1, <2>1, <2>2
<1>4. CASE phase = "holding"
  BY <1>1, <1>4 DEF ApplyCommand, Acked
<1> QED
  BY <1>2, <1>3, <1>4 DEF ApplyCommand

\* A command of the mission's is queued at the end or answered.
LEMMA ApplyWaited ==
  ASSUME Base, Order, Waited, goal # None, link # <<>>, ApplyCommand(Head(link)), link' = Tail(link),
         UNCHANGED <<phase, goal, errors>>
  PROVE  Waited'
<1> DEFINE c == Head(link)
<1>1. AtLast(link, goal) /\ AtLast(pending, goal) /\ \A i \in DOMAIN pending : pending[i].id # goal.id
  BY DEF Waited
<1>2. /\ AtLast(link', goal')
      /\ c.id = goal.id => link' = <<>> /\ c.mode[goal.axis] = "POSITION"
  BY <1>1, BaseFacts, TailAtLast
<1>3. GoodCommand(c) /\ goal.axis \in Axes
  BY BaseFacts, TailCommands, GoalType
<1>4. ack.id # goal.id
  BY DEF Waited, Answered
<1>5. errors' # None /\ errors'.id = goal'.id
        => errors'.rejected \/ errors'.source[goal'.axis] \in {goal'.id, Own}
  BY DEF Waited
<1> HIDE DEF c
<1>6. CASE phase = "disarmed"
  <2>1. ack' = Acked(c.id, TRUE) /\ UNCHANGED <<gen, pending>>
    BY <1>6 DEF ApplyCommand, c
  <2>2. AtLast(pending', goal') /\ \A i \in DOMAIN pending' : pending'[i].id # goal'.id
    BY <1>1, <2>1
  <2>3. ack'.id = goal'.id => c.id = goal.id /\ ack'.rejected
    BY <1>4, <2>1 DEF Acked
  <2>4. ack'.id = goal'.id => Answered'
    BY <1>2, <1>6, <2>3 DEF Answered
  <2> QED
    BY <1>2, <1>5, <2>2, <2>4 DEF Waited
<1>7. CASE phase \in {"waiting", "rebasing"}
  <2>1. pending' = Append(pending, c) /\ UNCHANGED <<gen, ack>>
    BY <1>7 DEF ApplyCommand, c
  <2>2. AtLast(pending', goal')
    BY <1>1, <1>2, <1>3, <2>1, BaseFacts, AppendAtLast
  <2>3. \A i \in DOMAIN pending' : pending'[i].id = goal'.id => link' = <<>>
    <3>1. c \in Command /\ pending \in Seq(Command)
      BY <1>3, BaseFacts DEF GoodCommand, GoodCommands
    <3>2. \A i \in DOMAIN pending' : (i \in DOMAIN pending /\ pending'[i] = pending[i]) \/ pending'[i] = c
      BY <3>1, <2>1, AppendIndex
    <3> QED
      BY <1>1, <1>2, <3>2
  <2> QED
    BY <1>2, <1>4, <1>5, <2>1, <2>2, <2>3 DEF Waited
<1>8. CASE phase = "holding"
  <2>1. PICK altimeter \in BOOLEAN :
          /\ gen' = IF Rejected(c, altimeter) THEN gen ELSE Applied(gen, c)
          /\ ack' = Acked(c.id, Rejected(c, altimeter))
    BY <1>8 DEF ApplyCommand, c
  <2>2. pending' = <<>> /\ DOMAIN pending' = {}
    BY <1>8, BaseFacts DEF ApplyCommand
  <2>3. AtLast(pending', goal') /\ \A i \in DOMAIN pending' : pending'[i].id # goal'.id
    BY <2>2 DEF AtLast
  <2>4. Rejected(c, altimeter) \in BOOLEAN
    BY <1>3, RejectedType
  <2>5. ack'.id = goal'.id => c.id = goal.id /\ ack'.rejected = Rejected(c, altimeter)
    BY <1>4, <2>1 DEF Acked
  <2>6. c.id = goal.id => Rejected(c, altimeter) \/ gen'.source[goal.axis] = c.id
    BY <1>2, <1>3, <2>1, <2>4, BaseFacts, TakenSource
  <2>7. ack'.id = goal'.id => Answered'
    BY <1>2, <2>2, <2>5, <2>6 DEF Answered
  <2> QED
    BY <1>2, <1>5, <2>3, <2>7 DEF Waited
<1> QED
  BY <1>6, <1>7, <1>8 DEF ApplyCommand

LEMMA TakePendingArrivals ==
  ASSUME Base, Order, Arrivals, TakePending
  PROVE  Order' /\ Arrivals'
<1> DEFINE c == Head(pending)
<1>1. pending # <<>> /\ pending' = Tail(pending) /\ phase = "taking"
      /\ UNCHANGED <<phase, process, wires, nextId>>
  BY DEF TakePending
<1>2. PICK altimeter \in BOOLEAN :
        /\ gen' = IF Rejected(c, altimeter) THEN gen ELSE Applied(gen, c)
        /\ ack' = Acked(c.id, Rejected(c, altimeter))
  BY DEF TakePending
<1>3. GoodCommand(c) /\ Rejected(c, altimeter) \in BOOLEAN
  BY <1>1, BaseFacts, TailCommands, RejectedType
<1>4. c.id <= nextId /\ \A i \in DOMAIN pending' : pending'[i].id <= nextId
  BY <1>1, BaseFacts, IdsType, TailIds DEF Order
<1> HIDE DEF c
<1>5. Order'
  BY <1>1, <1>2, <1>4 DEF Order, Acked, process, wires
<1>6. ASSUME goal' # None PROVE Waited'
  <2>1. goal # None /\ goal' = goal /\ Waited
    BY <1>1, <1>6 DEF process, Arrivals
  <2>2. AtLast(pending, goal)
    BY <2>1 DEF Waited
  <2>3. /\ AtLast(pending', goal')
        /\ c.id = goal.id => pending' = <<>> /\ c.mode[goal.axis] = "POSITION"
    BY <1>1, <2>1, <2>2, BaseFacts, TailAtLast DEF c
  <2>4. c.id = goal.id => link = <<>>
    <3>1. 1 \in DOMAIN pending /\ c = pending[1]
      BY <1>1, BaseFacts, TailIndex DEF GoodCommands, c
    <3> QED
      BY <2>1, <3>1 DEF Waited
  <2>5. \A i \in DOMAIN pending' : pending'[i].id = goal'.id => link' = <<>>
    <3>1. \A i \in DOMAIN pending' : i + 1 \in DOMAIN pending /\ pending'[i] = pending[i + 1]
      BY <1>1, BaseFacts, TailIndex DEF GoodCommands
    <3> QED
      BY <1>1, <2>1, <3>1 DEF Waited, wires
  <2>6. ack.id # goal.id
    BY <1>1, <2>1 DEF Waited, Answered
  <2>7. ack'.id = goal'.id => c.id = goal.id /\ ack'.rejected = Rejected(c, altimeter)
    BY <1>2, <2>1, <2>6 DEF Acked
  <2>8. c.id = goal.id => Rejected(c, altimeter) \/ gen'.source[goal.axis] = c.id
    BY <1>2, <1>3, <2>1, <2>3, BaseFacts, TakenSource, GoalType
  <2>9. ack'.id = goal'.id => Answered'
    BY <1>1, <2>1, <2>3, <2>4, <2>7, <2>8 DEF Answered, wires
  <2>10. AtLast(link', goal')
    BY <1>1, <2>1 DEF Waited, wires
  <2> QED
    BY <1>1, <2>1, <2>3, <2>5, <2>9, <2>10 DEF Waited, wires
<1> QED
  BY <1>5, <1>6 DEF Arrivals

\* What of Waited a step of the generator or a report keeps.
LEMMA KeptWaited ==
  ASSUME Waited, goal # None, UNCHANGED <<link, pending, goal, ack>>,
         phase = "disarmed" => phase' = "disarmed",
         gen.source[goal.axis] \in {goal.id, Own} => gen'.source[goal.axis] \in {goal.id, Own},
         \/ UNCHANGED errors
         \/ errors' # None =>
              /\ errors'.id = ack.id /\ errors'.rejected = ack.rejected
              /\ errors'.source[goal.axis] = gen'.source[goal.axis]
  PROVE  Waited'
  BY DEF Waited, Answered, AtLast

LEMMA ControlArrivals ==
  ASSUME Base, Order, Arrivals,
         \/ MotionSetpointCallback \/ OtherCallback
         \/ Kill \/ Release \/ Seed \/ ResetPose \/ Rebase \/ TakePending
         \/ Cycle \/ IdleCycle \/ Tick
  PROVE  Order' /\ Arrivals'
<1>1. CASE MotionSetpointCallback
  <2>1. /\ link # <<>> /\ link' = Tail(link) /\ ApplyCommand(Head(link))
        /\ UNCHANGED <<phase, process, errors, others, nextId>>
    BY <1>1 DEF MotionSetpointCallback
  <2>2. /\ GoodCommand(Head(link)) /\ Head(link).id <= nextId
        /\ \A i \in DOMAIN link' : link'[i].id <= nextId
    BY <2>1, BaseFacts, TailCommands, TailIds, IdsType DEF Order
  <2>3. /\ \A i \in DOMAIN pending' : pending'[i].id <= nextId
        /\ ack'.id <= nextId
    BY <2>1, <2>2, ApplyIds
  <2>4. Order'
    BY <2>1, <2>2, <2>3 DEF process, Order
  <2>5. Arrivals'
    BY <2>1, ApplyWaited DEF process, Arrivals
  <2> QED
    BY <2>4, <2>5
<1>2. CASE OtherCallback
  <2>1. PICK c : GoodCommand(c) /\ c.id = 0 /\ ApplyCommand(c)
    BY <1>2, BaseFacts, OtherCommand DEF OtherCallback
  <2>2. /\ \A i \in DOMAIN pending' : pending'[i].id <= nextId
        /\ ack'.id <= nextId
    BY <2>1, ApplyIds, IdsType
  <2>3. others # None /\ others' = None /\ UNCHANGED <<process, link, errors, nextId>>
    BY <1>2 DEF OtherCallback
  <2>4. Order'
    BY <2>2, <2>3 DEF process, Order
  <2>5. goal' = None
    BY <2>3 DEF process, Order
  <2> QED
    BY <2>4, <2>5 DEF Arrivals
<1>3. CASE Kill
  BY <1>3 DEF Kill, process, Order, Arrivals, Waited, Answered
<1>4. CASE Release
  <2>1. DOMAIN pending' = {}
    BY <1>4 DEF Release
  <2>2. Order'
    BY <1>4, <2>1 DEF Release, process, wires, Order
  <2>3. Arrivals'
    BY <1>4, <2>1 DEF Release, process, wires, Arrivals, Waited, Answered, AtLast
  <2> QED
    BY <2>2, <2>3
<1>5. CASE Seed
  <2>1. Order'
    BY <1>5 DEF Seed, process, wires, Order
  <2>2. ASSUME goal # None PROVE Waited'
    <3>1. gen'.source[goal.axis] = Own
      BY <1>5, <2>2, ResetGood, GoalType DEF Seed
    <3> QED
      BY <1>5, <2>2, <3>1, KeptWaited DEF Seed, process, wires, Arrivals
  <2> QED
    BY <1>5, <2>1, <2>2 DEF Seed, process, Arrivals
<1>6. CASE ResetPose
  BY <1>6, BaseFacts DEF ResetPose, process, wires, Order, Arrivals, Waited, Answered
<1>7. CASE Rebase
  <2>1. Order'
    BY <1>7 DEF Rebase, process, wires, Order
  <2>2. ASSUME goal # None PROVE Waited'
    <3>1. gen'.source[goal.axis] = Own
      BY <1>7, <2>2, BaseFacts, RebasedGood, GoalType DEF Rebase
    <3> QED
      BY <1>7, <2>2, <3>1, KeptWaited DEF Rebase, process, wires, Arrivals
  <2> QED
    BY <1>7, <2>1, <2>2 DEF Rebase, process, Arrivals
<1>8. CASE TakePending
  BY <1>8, TakePendingArrivals
<1>9. CASE Cycle
  <2>1. PICK altimeter \in BOOLEAN : gen' \in Updates(IF altimeter THEN gen ELSE DropAltitude(gen))
    BY <1>9 DEF Cycle
  <2>2. /\ GoodGenerator(IF altimeter THEN gen ELSE DropAltitude(gen))
        /\ \A a \in Axes : (IF altimeter THEN gen ELSE DropAltitude(gen)).source[a] \in {gen.source[a], Own}
    BY BaseFacts, DropGood
  <2>3. GoodGenerator(gen') /\ \A a \in Axes : gen'.source[a] \in {gen.source[a], Own}
    BY <2>1, <2>2, UpdatesGood
  <2>4. errors' # None =>
          /\ errors'.id = ack.id /\ errors'.rejected = ack.rejected
          /\ \A a \in {"x", "z"} : errors'.source[a] = gen'.source[a]
    BY <1>9, <2>3, BaseFacts, ReportType DEF Cycle
  <2>5. Order'
    BY <1>9, <2>4 DEF Cycle, process, Order
  <2>6. phase # "disarmed"
    BY <1>9 DEF Cycle
  <2>7. ASSUME goal # None PROVE Waited'
    <3>1. goal.axis \in {"x", "z"} /\ goal.axis \in Axes
      BY <2>7, GoalType
    <3> QED
      BY <1>9, <2>3, <2>4, <2>6, <2>7, <3>1, KeptWaited DEF Cycle, process, Arrivals
  <2> QED
    BY <1>9, <2>5, <2>7 DEF Cycle, process, Arrivals
<1>10. CASE IdleCycle
  <2>1. errors' # None =>
          /\ errors'.id = ack.id /\ errors'.rejected = ack.rejected
          /\ \A a \in {"x", "z"} : errors'.source[a] = gen.source[a]
    BY <1>10, BaseFacts, ReportType DEF IdleCycle
  <2>2. Order'
    BY <1>10, <2>1 DEF IdleCycle, control, process, Order
  <2>3. ASSUME goal # None PROVE Waited'
    BY <1>10, <2>1, <2>3, KeptWaited, GoalType DEF IdleCycle, control, process, Arrivals
  <2> QED
    BY <1>10, <2>2, <2>3 DEF IdleCycle, process, Arrivals
<1>11. CASE Tick
  <2>1. /\ DOMAIN pending' = DOMAIN pending
        /\ \A i \in DOMAIN pending : pending'[i] = AgedCommand(pending[i])
        /\ pending = <<>> => pending' = <<>>
    BY <1>11, BaseFacts, AgedCommandsGood DEF Tick, AgedCommands
  <2>2. \A i \in DOMAIN pending : pending'[i].id = pending[i].id /\ pending'[i].mode = pending[i].mode
    BY <2>1, BaseFacts, AgedCommandGood DEF GoodCommands
  <2>3. gen'.source = gen.source
    BY <1>11, BaseFacts, AgedGood DEF Tick
  <2>4. others' # None => others # None
    BY <1>11 DEF Tick
  <2>5. Order'
    BY <1>11, <2>1, <2>2, <2>4 DEF Tick, process, Order
  <2>6. Arrivals'
    BY <1>11, <2>1, <2>2, <2>3 DEF Tick, process, Arrivals, Waited, Answered, AtLast
  <2> QED
    BY <2>5, <2>6
<1> QED
  BY <1>1, <1>2, <1>3, <1>4, <1>5, <1>6, <1>7, <1>8, <1>9, <1>10, <1>11

LEMMA NextArrivals == Base /\ Order /\ Arrivals /\ [Next]_vars => Order' /\ Arrivals'
<1> SUFFICES ASSUME Base, Order, Arrivals, [Next]_vars PROVE Order' /\ Arrivals'
  OBVIOUS
<1>1. CASE UNCHANGED vars
  BY <1>1 DEF vars, control, process, wires, Order, Arrivals, Waited, Answered
<1> QED
  BY <1>1, MissionArrivals, ControlArrivals DEF Next

\* An arrival counts a report on the target that was sent, or on one the node
\* put in its place, and never one of a command before or after it.
THEOREM ArrivalsOwn == Spec => ArrivesAtOwn
<1>1. Order /\ Arrivals /\ Base /\ [Next]_vars =>
        [Arrive => errors.source[goal.axis] \in {goal.id, Own}]_vars
  <2> SUFFICES ASSUME Order, Arrivals, Base, Arrive
               PROVE  errors.source[goal.axis] \in {goal.id, Own}
    OBVIOUS
  <2>1. goal # None /\ errors # None /\ Current(errors) /\ goal.id = lastId /\ lastId > 0 /\ lastId \in Nat
    BY GoalType, IdsType DEF Arrive, Order
  <2> QED
    BY <2>1 DEF Current, Arrivals, Waited
<1>2. Spec => [](Base /\ Order /\ Arrivals)
  <2>1. Init => Base /\ Order /\ Arrivals
    BY InitBase, InitArrivals
  <2>2. (Base /\ Order /\ Arrivals) /\ [Next]_vars => (Base /\ Order /\ Arrivals)'
    BY NextBase, NextArrivals
  <2> QED
    BY <2>1, <2>2, PTL DEF Spec
<1> QED
  BY <1>1, <1>2, PTL DEF Spec, ArrivesAtOwn

-----------------------------------------------------------------------------
(* Where a stop holds every axis, whatever has no limit has a stop behind   *)
(* it once its mission is over.                                             *)

StopAfter(q, i) == \E j \in DOMAIN q : j > i /\ IsStop(q[j])
HasStop(q) == \E j \in DOMAIN q : IsStop(q[j])

\* Every command of the queue has a limit, or a stop behind it, or it is known to follow.
Stopped(q, follows) == \A i \in DOMAIN q : Finite(q[i]) \/ StopAfter(q, i) \/ follows

AllStopped ==
  /\ Stopped(link, FALSE)
  /\ Stopped(pending, HasStop(link))
  /\ phase \in {"taking", "holding"} => Limited(gen) \/ HasStop(pending) \/ HasStop(link)

Ends ==
  /\ alarm => phase = "disarmed"
  /\ mission = "running" => ~quiet
  /\ mission = "ending" => quiet
  /\ others # None => others.left # NoLimit
  /\ quiet /\ phase # "disarmed" => AllStopped

LEMMA StopIsFinite == ASSUME NEW c, IsStop(c) PROVE Finite(c)
  BY DEF IsStop, Finite, Streamed

LEMMA EmptyStopped == ~HasStop(<<>>) /\ \A b \in BOOLEAN : Stopped(<<>>, b)
  BY EmptySeq DEF HasStop, Stopped

LEMMA AppendStops ==
  ASSUME NEW q, NEW c, GoodCommands(q), GoodCommand(c), NEW follows \in BOOLEAN
  PROVE  /\ HasStop(Append(q, c)) <=> HasStop(q) \/ IsStop(c)
         /\ Stopped(q, follows \/ IsStop(c)) /\ (Finite(c) \/ follows)
              => Stopped(Append(q, c), follows)
<1>1. c \in Command /\ q \in Seq(Command)
  BY DEF GoodCommand, GoodCommands
<1> DEFINE r == Append(q, c)
<1>2. \A i \in DOMAIN q : i \in DOMAIN r /\ r[i] = q[i]
  BY <1>1, AppendCovers
<1>3. PICK k \in DOMAIN r : r[k] = c /\ \A i \in DOMAIN q : i < k
  BY <1>1, AppendCovers
<1>4. \A i \in DOMAIN r : (i \in DOMAIN q /\ r[i] = q[i]) \/ r[i] = c
  BY <1>1, AppendIndex
<1> HIDE DEF r
<1>5. \A i \in DOMAIN q : StopAfter(q, i) \/ IsStop(c) => StopAfter(r, i)
  <2>1. \A i \in DOMAIN q : i \in Nat
    BY <1>1, ElementType
  <2>2. \A i \in DOMAIN r : i \in Nat
    <3>1. r \in Seq(Command)
      BY <1>1, AppendProperties DEF r
    <3> QED
      BY <3>1, ElementType
  <2> QED
    BY <1>2, <1>3, <2>1, <2>2 DEF StopAfter
<1>6. HasStop(r) <=> HasStop(q) \/ IsStop(c)
  BY <1>2, <1>3, <1>4 DEF HasStop
<1>7. ASSUME Stopped(q, follows \/ IsStop(c)), Finite(c) \/ follows PROVE Stopped(r, follows)
  BY <1>4, <1>5, <1>7 DEF Stopped
<1> QED
  BY <1>6, <1>7 DEF r

LEMMA TailStops ==
  ASSUME NEW q, GoodCommands(q), q # <<>>, NEW follows \in BOOLEAN
  PROVE  /\ HasStop(q) => IsStop(Head(q)) \/ HasStop(Tail(q))
         /\ Stopped(q, follows) =>
              /\ Stopped(Tail(q), follows)
              /\ Finite(Head(q)) \/ HasStop(Tail(q)) \/ follows
<1>1. q \in Seq(Command) /\ 1 \in DOMAIN q /\ Head(q) = q[1]
  BY TailIndex DEF GoodCommands
<1>2. \A i \in DOMAIN Tail(q) : i \in Nat /\ i + 1 \in DOMAIN q /\ Tail(q)[i] = q[i + 1]
  BY <1>1, TailIndex
<1>3. \A j \in DOMAIN q : j > 1 => j - 1 \in DOMAIN Tail(q) /\ Tail(q)[j - 1] = q[j]
  BY <1>1, TailCovers
<1>4. \A j \in DOMAIN q : j \in Nat /\ (j > 1 \/ j = 1)
  <2>1. DOMAIN q = 1 .. Len(q) /\ Len(q) \in Nat
    BY <1>1, LenProperties
  <2> QED
    BY <2>1
<1>5. HasStop(q) => IsStop(Head(q)) \/ HasStop(Tail(q))
  BY <1>1, <1>3, <1>4 DEF HasStop
<1>6. StopAfter(q, 1) => HasStop(Tail(q))
  BY <1>3 DEF StopAfter, HasStop
<1>7. ASSUME NEW i \in DOMAIN Tail(q), StopAfter(q, i + 1) PROVE StopAfter(Tail(q), i)
  <2>1. PICK j \in DOMAIN q : j > i + 1 /\ IsStop(q[j])
    BY <1>7 DEF StopAfter
  <2>2. j \in Nat /\ i \in Nat /\ j > 1 /\ j - 1 > i
    BY <1>2, <1>4, <2>1
  <2>3. j - 1 \in DOMAIN Tail(q) /\ IsStop(Tail(q)[j - 1])
    BY <1>3, <2>1, <2>2
  <2> QED
    BY <2>2, <2>3 DEF StopAfter
<1>8. ASSUME Stopped(q, follows) PROVE Stopped(Tail(q), follows)
  BY <1>2, <1>7, <1>8 DEF Stopped
<1>9. ASSUME Stopped(q, follows) PROVE Finite(Head(q)) \/ HasStop(Tail(q)) \/ follows
  BY <1>1, <1>6, <1>9 DEF Stopped
<1> QED
  BY <1>5, <1>8, <1>9

LEMMA MoreStopped ==
  ASSUME NEW q, NEW b \in BOOLEAN, NEW c \in BOOLEAN, Stopped(q, b), b => c
  PROVE  Stopped(q, c)
  BY DEF Stopped

LEMMA AgedStopped ==
  ASSUME NEW q, GoodCommands(q), NEW b \in BOOLEAN
  PROVE  /\ HasStop(q) => HasStop(AgedCommands(q))
         /\ Stopped(q, b) => Stopped(AgedCommands(q), b)
<1>1. \A i \in DOMAIN q : GoodCommand(q[i])
  BY DEF GoodCommands
<1>2. /\ DOMAIN AgedCommands(q) = DOMAIN q
      /\ \A i \in DOMAIN q : AgedCommands(q)[i] = AgedCommand(q[i])
  BY AgedCommandsGood
<1> DEFINE r == AgedCommands(q)
<1>3. DOMAIN r = DOMAIN q /\ \A i \in DOMAIN q : r[i] = AgedCommand(q[i])
  BY <1>2
<1> HIDE DEF r
<1>4. \A i \in DOMAIN q : (Finite(q[i]) => Finite(r[i])) /\ (IsStop(q[i]) => IsStop(r[i]))
  BY <1>1, <1>3, AgedCommandGood
<1>5. HasStop(q) => HasStop(r)
  BY <1>3, <1>4 DEF HasStop
<1>6. \A i \in DOMAIN q : StopAfter(q, i) => StopAfter(r, i)
  BY <1>3, <1>4 DEF StopAfter
<1>7. Stopped(q, b) => Stopped(r, b)
  BY <1>3, <1>4, <1>6 DEF Stopped
<1> QED
  BY <1>5, <1>7 DEF r

\* A stop is never rejected.
LEMMA StopAccepted ==
  ASSUME NEW c, IsStop(c), NEW altimeter \in BOOLEAN
  PROVE  ~Rejected(c, altimeter)
  BY DEF IsStop, Rejected

\* What taking up a command leaves: limited streams, if it is a stop, or if they and it were.
LEMMA TakenLimited ==
  ASSUME NEW g, NEW c, GoodGenerator(g), GoodCommand(c), NEW altimeter \in BOOLEAN,
         NEW follows \in BOOLEAN, IsStop(c) \/ Limited(g) \/ follows, Finite(c) \/ follows
  PROVE  follows \/ Limited(IF Rejected(c, altimeter) THEN g ELSE Applied(g, c))
<1>1. CASE follows
  BY <1>1
<1>2. CASE IsStop(c)
  BY <1>2, StopAccepted, AppliedLimited
<1>3. CASE Limited(g) /\ Finite(c)
  BY <1>3, AppliedLimited
<1> QED
  BY <1>1, <1>2, <1>3

LEMMA BooleanStops == \A q : HasStop(q) \in BOOLEAN
  BY DEF HasStop

\* A command taken up keeps every stream limited, or leaves a stop to come.
LEMMA ApplyStopped ==
  ASSUME Base, NEW c, GoodCommand(c), ApplyCommand(c), phase # "disarmed",
         NEW follows \in BOOLEAN,
         Finite(c) \/ follows,
         Stopped(pending, follows \/ IsStop(c)),
         phase = "holding" => Limited(gen) \/ IsStop(c) \/ follows
  PROVE  /\ Stopped(pending', follows)
         /\ phase = "holding" => Limited(gen') \/ follows
<1>1. CASE phase \in {"waiting", "rebasing"}
  <2>1. pending' = Append(pending, c)
    BY <1>1 DEF ApplyCommand
  <2> QED
    BY <1>1, <2>1, BaseFacts, AppendStops
<1>2. CASE phase = "holding"
  <2>1. PICK altimeter \in BOOLEAN :
          gen' = IF Rejected(c, altimeter) THEN gen ELSE Applied(gen, c)
    BY <1>2 DEF ApplyCommand
  <2>2. Limited(gen') \/ follows
    BY <1>2, <2>1, BaseFacts, TakenLimited
  <2>3. pending' = <<>>
    BY <1>2, BaseFacts DEF ApplyCommand
  <2> QED
    BY <2>2, <2>3, EmptyStopped
<1> QED
  BY <1>1, <1>2 DEF ApplyCommand

LEMMA InitEnds == Init => Ends
<1> SUFFICES ASSUME Init PROVE Ends
  OBVIOUS
<1> QED
  BY ConstructedGood DEF Init, Ends

LEMMA MissionEnds ==
  ASSUME Base, Ends, Level = {},
         \/ StartMission \/ GiveUp \/ Arrive \/ GoOn \/ End \/ Exit \/ Die \/ HearKill
         \/ \E s \in Setpoints : Send(s)
         \/ \E s \in Streams : OtherSends(s)
  PROVE  Ends'
<1>1. CASE StartMission
  BY <1>1 DEF StartMission, control, wires, Ends
<1>2. CASE GiveUp
  BY <1>2 DEF GiveUp, control, wires, Ends, AllStopped
<1>3. CASE Arrive
  BY <1>3 DEF Arrive, control, Ends, AllStopped
<1>4. CASE GoOn
  BY <1>4 DEF GoOn, control, process, Ends, AllStopped
<1>5. CASE End
  <2>1. Publish(StopSetpoint) /\ StopSetpoint \in SetpointOf
    BY <1>5, StopGood DEF End
  <2>2. PICK c : /\ GoodCommand(c) /\ link' = Append(link, c)
                 /\ c = AsCommand(StopSetpoint, nextId', NoLimit, NoLimit)
    BY <2>1, PublishBase
  <2>3. nextId' \in Ids
    BY <2>1, PublishBase
  <2>4. IsStop(c) /\ Finite(c)
    BY <2>2, <2>3, StopGood, StopIsFinite
  <2>5. HasStop(link')
    BY <2>2, <2>4, BaseFacts, AppendStops
  <2>6. Stopped(link, TRUE) /\ Stopped(pending, TRUE)
    BY DEF Stopped
  <2>7. Stopped(link', FALSE)
    BY <2>2, <2>4, <2>6, BaseFacts, AppendStops
  <2>8. Stopped(pending', HasStop(link'))
    BY <1>5, <2>5, <2>6 DEF End, control, Stopped
  <2> QED
    BY <1>5, <2>5, <2>7, <2>8 DEF End, control, Ends, AllStopped
<1>6. CASE Exit
  <2>1. PICK n \in 0 .. Len(link) : link' = SubSeq(link, 1, n) /\ quiet' = (n = Len(link))
    BY <1>6 DEF Exit
  <2>2. quiet' => link' = link
    BY <2>1, BaseFacts, PrefixCommands
  <2>3. UNCHANGED <<control, others>> /\ mission' = "none" /\ alarm' = FALSE
    BY <1>6 DEF Exit
  <2>4. quiet
    BY <1>6 DEF Exit, Ends
  <2> QED
    BY <2>2, <2>3, <2>4 DEF control, Ends, AllStopped
<1>7. CASE Die
  BY <1>7 DEF Die, control, Ends
<1>8. CASE HearKill
  BY <1>8 DEF HearKill, control, Ends
<1>9. ASSUME NEW s \in Setpoints, Send(s) PROVE Ends'
  BY <1>9 DEF Send, Publish, control, Ends
<1>10. ASSUME NEW s \in Streams, OtherSends(s) PROVE Ends'
  <2>1. s.timeout # NoLimit
    BY LeftsFacts DEF StreamOf
  <2> QED
    BY <1>10, <2>1 DEF OtherSends, control, process, Ends, AllStopped
<1> QED
  BY <1>1, <1>2, <1>3, <1>4, <1>5, <1>6, <1>7, <1>8, <1>9, <1>10

LEMMA ControlEnds ==
  ASSUME Base, Ends,
         \/ MotionSetpointCallback \/ OtherCallback
         \/ Kill \/ Release \/ Seed \/ ResetPose \/ Rebase \/ TakePending
         \/ Cycle \/ IdleCycle \/ Tick
  PROVE  Ends'
<1>1. CASE MotionSetpointCallback
  <2>1. /\ link # <<>> /\ link' = Tail(link) /\ ApplyCommand(Head(link)) /\ GoodCommand(Head(link))
        /\ UNCHANGED <<phase, process, alarm, others, quiet>>
    BY <1>1, BaseFacts, TailCommands DEF MotionSetpointCallback
  <2>2. ASSUME quiet, phase # "disarmed" PROVE AllStopped'
    <3> DEFINE c == Head(link)
               follows == HasStop(link')
    <3>1. Stopped(link, FALSE) /\ Stopped(pending, HasStop(link))
          /\ (phase \in {"taking", "holding"} => Limited(gen) \/ HasStop(pending) \/ HasStop(link))
      BY <2>2 DEF Ends, AllStopped
    <3>2. /\ HasStop(link) => IsStop(c) \/ follows
          /\ Stopped(link', FALSE) /\ (Finite(c) \/ follows)
      BY <2>1, <3>1, BaseFacts, TailStops
    <3>3. follows \in BOOLEAN /\ HasStop(link) \in BOOLEAN /\ (follows \/ IsStop(c)) \in BOOLEAN
      BY BooleanStops
    <3>4. Stopped(pending, follows \/ IsStop(c))
      BY <3>1, <3>2, <3>3, MoreStopped
    <3>5. phase = "holding" => Limited(gen) \/ IsStop(c) \/ follows
      <4>1. phase = "holding" => ~HasStop(pending)
        BY BaseFacts, EmptyStopped
      <4> QED
        BY <3>1, <3>2, <4>1
    <3> HIDE DEF c, follows
    <3>6. ApplyCommand(c) /\ GoodCommand(c)
      BY <2>1 DEF c
    <3>7. /\ Stopped(pending', follows)
          /\ phase = "holding" => Limited(gen') \/ follows
      BY <2>2, <3>2, <3>3, <3>4, <3>5, <3>6, ApplyStopped
    <3>8. phase # "taking"
      BY <2>1 DEF ApplyCommand
    <3> QED
      BY <2>1, <3>2, <3>7, <3>8 DEF AllStopped, follows
  <2> QED
    BY <2>1, <2>2 DEF process, Ends
<1>2. CASE OtherCallback
  <2>1. PICK c : GoodCommand(c) /\ ApplyCommand(c) /\ (others.left # NoLimit => c.left # NoLimit)
    BY <1>2, BaseFacts, OtherCommand DEF OtherCallback
  <2>2. others # None /\ others' = None /\ UNCHANGED <<phase, process, link, alarm, quiet>>
    BY <1>2 DEF OtherCallback
  <2>3. Finite(c)
    BY <2>1, <2>2 DEF Ends, Finite
  <2>4. ASSUME quiet, phase # "disarmed" PROVE AllStopped'
    <3> DEFINE follows == HasStop(link)
    <3>1. Stopped(link, FALSE) /\ Stopped(pending, follows)
          /\ (phase = "holding" => Limited(gen) \/ HasStop(pending) \/ follows)
      BY <2>4 DEF Ends, AllStopped
    <3>2. phase = "holding" => ~HasStop(pending)
      BY BaseFacts, EmptyStopped
    <3>3. follows \in BOOLEAN /\ (follows \/ IsStop(c)) \in BOOLEAN
      BY BooleanStops
    <3> HIDE DEF follows
    <3>4. Stopped(pending, follows \/ IsStop(c))
      BY <3>1, <3>3, MoreStopped
    <3>5. /\ Stopped(pending', follows)
          /\ phase = "holding" => Limited(gen') \/ follows
      BY <2>1, <2>3, <2>4, <3>1, <3>2, <3>3, <3>4, ApplyStopped
    <3>6. phase # "taking"
      BY <2>1 DEF ApplyCommand
    <3> QED
      BY <2>2, <3>1, <3>5, <3>6 DEF AllStopped, follows
  <2> QED
    BY <2>2, <2>4 DEF process, Ends
<1>3. CASE Kill
  BY <1>3 DEF Kill, process, Ends
<1>4. CASE Release
  <2>1. link' = <<>> /\ pending' = <<>> /\ phase' = "waiting"
    BY <1>4 DEF Release, wires
  <2>2. AllStopped'
    BY <2>1, EmptyStopped, BooleanStops DEF AllStopped
  <2> QED
    BY <1>4, <2>1, <2>2 DEF Release, process, wires, Ends
<1>5. CASE Seed
  <2>1. Limited(gen')
    BY <1>5, ResetGood DEF Seed
  <2> QED
    BY <1>5, <2>1 DEF Seed, process, wires, Ends, AllStopped
<1>6. CASE ResetPose
  BY <1>6 DEF ResetPose, process, wires, Ends, AllStopped
<1>7. CASE Rebase
  <2>1. Limited(gen')
    BY <1>7, BaseFacts, RebasedGood DEF Rebase
  <2> QED
    BY <1>7, <2>1 DEF Rebase, process, wires, Ends, AllStopped
<1>8. CASE TakePending
  <2>1. /\ pending # <<>> /\ pending' = Tail(pending) /\ phase = "taking" /\ GoodCommand(Head(pending))
        /\ UNCHANGED <<phase, process, wires, quiet>>
    BY <1>8, BaseFacts, TailCommands DEF TakePending
  <2>2. PICK altimeter \in BOOLEAN :
          gen' = IF Rejected(Head(pending), altimeter) THEN gen ELSE Applied(gen, Head(pending))
    BY <1>8 DEF TakePending
  <2>3. ASSUME quiet PROVE AllStopped'
    <3> DEFINE c == Head(pending)
               follows == HasStop(pending') \/ HasStop(link)
    <3>1. /\ Stopped(link, FALSE) /\ Stopped(pending, HasStop(link))
          /\ Limited(gen) \/ HasStop(pending) \/ HasStop(link)
      BY <2>1, <2>3 DEF Ends, AllStopped
    <3>2. /\ Stopped(pending', HasStop(link)) /\ (Finite(c) \/ follows)
          /\ HasStop(pending) => IsStop(c) \/ HasStop(pending')
      BY <2>1, <3>1, BaseFacts, BooleanStops, TailStops
    <3>3. IsStop(c) \/ Limited(gen) \/ follows
      BY <3>1, <3>2
    <3>4. follows \in BOOLEAN
      BY BooleanStops
    <3> HIDE DEF c, follows
    <3>5. GoodCommand(c) /\ gen' = IF Rejected(c, altimeter) THEN gen ELSE Applied(gen, c)
      BY <2>1, <2>2 DEF c
    <3>6. follows \/ Limited(gen')
      BY <3>2, <3>3, <3>4, <3>5, BaseFacts, TakenLimited
    <3> QED
      BY <2>1, <3>1, <3>2, <3>6 DEF AllStopped, follows, wires
  <2> QED
    BY <2>1, <2>3 DEF process, wires, Ends
<1>9. CASE Cycle
  <2>1. PICK altimeter \in BOOLEAN : gen' \in Updates(IF altimeter THEN gen ELSE DropAltitude(gen))
    BY <1>9 DEF Cycle
  <2>2. /\ GoodGenerator(IF altimeter THEN gen ELSE DropAltitude(gen))
        /\ Limited(gen) => Limited(IF altimeter THEN gen ELSE DropAltitude(gen))
    BY BaseFacts, DropGood
  <2>3. Limited(gen) => Limited(gen')
    BY <2>1, <2>2, UpdatesGood
  <2> QED
    BY <1>9, <2>3 DEF Cycle, process, Ends, AllStopped
<1>10. CASE IdleCycle
  BY <1>10 DEF IdleCycle, control, process, Ends, AllStopped
<1>11. CASE Tick
  <2>1. pending' = AgedCommands(pending) /\ UNCHANGED <<link, phase, process, alarm, quiet>>
    BY <1>11 DEF Tick, AgedCommands
  <2>2. Limited(gen) => Limited(gen')
    BY <1>11, BaseFacts, AgedGood DEF Tick
  <2>3. HasStop(pending) => HasStop(pending')
    BY <2>1, BaseFacts, AgedStopped
  <2>4. Stopped(pending, HasStop(link)) => Stopped(pending', HasStop(link))
    BY <2>1, BaseFacts, BooleanStops, AgedStopped
  <2>5. others' # None => others # None /\ (others.left # NoLimit => others'.left # NoLimit)
    BY <1>11, BaseFacts, AgedOthers
  <2> QED
    BY <2>1, <2>2, <2>3, <2>4, <2>5 DEF process, Ends, AllStopped
<1> QED
  BY <1>1, <1>2, <1>3, <1>4, <1>5, <1>6, <1>7, <1>8, <1>9, <1>10, <1>11

\* Where a stop holds every axis, nothing a mission started drives on once it is
\* over, unless its process died or its stop was lost on exit.
THEOREM NothingLeftDriving == (Level = {}) => (Spec => []NothingDrivesOn)
<1> SUFFICES ASSUME Level = {} PROVE Spec => []NothingDrivesOn
  OBVIOUS
<1>1. Init => Base /\ Ends
  BY InitBase, InitEnds
<1>2. (Base /\ Ends) /\ [Next]_vars => (Base /\ Ends)'
  <2> SUFFICES ASSUME Base, Ends, [Next]_vars PROVE Base' /\ Ends'
    OBVIOUS
  <2>1. CASE UNCHANGED vars
    BY <2>1, NextBase DEF vars, control, process, wires, Ends, AllStopped
  <2>2. Base'
    BY NextBase
  <2> QED
    BY <2>1, <2>2, MissionEnds, ControlEnds DEF Next
<1>3. Base /\ Ends => NothingDrivesOn
  BY EmptyStopped, BaseFacts DEF Ends, AllStopped, NothingDrivesOn, Limited
<1> QED
  BY <1>1, <1>2, <1>3, PTL DEF Spec

-----------------------------------------------------------------------------
(* The desk.                                                                 *)

LEMMA DeskFacts ==
  ASSUME Base
  PROVE  /\ WaitingIds = IdsOf(pending) /\ WaitingIds' = IdsOf(pending')
         /\ WaitingIds \in Seq(Ids) /\ Len(WaitingIds) = Len(pending) /\ Len(pending) \in Nat
         /\ \A i \in 1 .. Len(pending) : WaitingIds[i] = pending[i].id
         /\ \A c \in Command : c.id \in Ids
<1>1. WaitingIds = IdsOf(pending) /\ WaitingIds' = IdsOf(pending')
  BY DEF WaitingIds, IdsOf
<1>2. pending \in Seq(Command) /\ \A c \in Command : c.id \in Ids
  BY DEF Base, TypeOK, Command, CommandOf
<1>3. /\ IdsOf(pending) \in Seq(Ids) /\ Len(IdsOf(pending)) = Len(pending) /\ Len(pending) \in Nat
      /\ \A i \in 1 .. Len(pending) : IdsOf(pending)[i] = pending[i].id
  BY <1>2, IdsOfType
<1> QED
  BY <1>1, <1>2, <1>3

\* A command at the desk.
LEMMA CommandAtDesk ==
  ASSUME Base, NEW c, GoodCommand(c), ApplyCommand(c), UNCHANGED phase
  PROVE  [Desk!Next]_(Desk!deskVars)
<1> USE DEF Desk!Next, Desk!deskVars
<1>1. c.id \in Ids /\ c \in Command
  BY GoodFields
<1>2. CASE phase = "disarmed"
  <2>1. ack' = Acked(c.id, TRUE) /\ WaitingIds' = WaitingIds
    BY <1>2 DEF ApplyCommand, WaitingIds
  <2>2. c.id # 0 => Desk!Reject
    BY <1>1, <2>1 DEF Desk!Reject, Acked
  <2>3. c.id = 0 => ack' = ack
    BY <2>1 DEF Acked
  <2> QED
    BY <2>1, <2>2, <2>3
<1>3. CASE phase \in {"waiting", "rebasing"}
  <2>1. pending' = Append(pending, c) /\ ack' = ack
    BY <1>3 DEF ApplyCommand
  <2>2. WaitingIds' = Append(WaitingIds, c.id)
    BY <1>1, <2>1, DeskFacts, BaseFacts, IdsAppend DEF GoodCommands
  <2>3. Desk!Enqueue
    BY <1>1, <1>3, <2>1, <2>2 DEF Desk!Enqueue
  <2> QED
    BY <2>3
<1>4. CASE phase = "holding"
  <2>1. PICK altimeter \in BOOLEAN : ack' = Acked(c.id, Rejected(c, altimeter))
    BY <1>4 DEF ApplyCommand
  <2>2. WaitingIds' = WaitingIds
    BY <1>4 DEF ApplyCommand, WaitingIds
  <2>3. Rejected(c, altimeter) \in BOOLEAN
    BY RejectedType
  <2>4. c.id # 0 => Desk!Take
    BY <1>1, <1>4, <2>1, <2>2, <2>3 DEF Desk!Take, Acked
  <2>5. c.id = 0 => ack' = ack
    BY <2>1 DEF Acked
  <2> QED
    BY <2>2, <2>4, <2>5
<1> QED
  BY <1>2, <1>3, <1>4 DEF ApplyCommand

\* One that waited is taken up, the first of them.
LEMMA TakenAtDesk ==
  ASSUME Base, TakePending
  PROVE  Desk!TakeUp
<1> DEFINE c == Head(pending)
<1>1. /\ pending # <<>> /\ pending' = Tail(pending) /\ phase = "taking" /\ phase' = phase
      /\ GoodCommand(c) /\ c = pending[1]
  BY BaseFacts, TailCommands, HeadTailProperties DEF TakePending, GoodCommands
<1>2. PICK altimeter \in BOOLEAN : ack' = Acked(c.id, Rejected(c, altimeter))
  BY DEF TakePending
<1>3. Rejected(c, altimeter) \in BOOLEAN
  BY <1>1, RejectedType
<1>4. WaitingIds' = SubSeq(WaitingIds, 2, Len(WaitingIds))
  BY <1>1, DeskFacts, BaseFacts, IdsTail DEF GoodCommands
<1>5. Len(pending) \in Nat /\ Len(pending) >= 1 /\ Len(WaitingIds) = Len(pending)
  BY <1>1, DeskFacts, BaseFacts, EmptySeq DEF GoodCommands
<1>6. WaitingIds[1] = c.id
  BY <1>1, <1>5, DeskFacts
<1> HIDE DEF c
<1>7. Desk!AcknowledgesLast(1)
  <2>1. CASE c.id # 0
    <3>1. \A j \in 1 + 1 .. 1 : WaitingIds[j] = 0
      OBVIOUS
    <3>2. 1 \in 1 .. 1
      OBVIOUS
    <3>3. ack' = [id |-> WaitingIds[1], rejected |-> Rejected(c, altimeter)]
      BY <1>2, <1>6, <2>1 DEF Acked
    <3> QED
      BY <1>3, <1>6, <2>1, <3>1, <3>2, <3>3 DEF Desk!AcknowledgesLast
  <2>2. CASE c.id = 0
    BY <1>2, <1>6, <2>2 DEF Desk!AcknowledgesLast, Acked
  <2> QED
    BY <2>1, <2>2
<1>8. 1 \in 0 .. Len(WaitingIds) /\ 1 + 1 = 2
  BY <1>5
<1> QED
  BY <1>1, <1>4, <1>7, <1>8 DEF Desk!TakeUp

\* The desk opens with nothing left to be taken up.
LEMMA OpenedDesk ==
  ASSUME Base, phase = "taking", phase' = "holding", pending = <<>>, UNCHANGED <<pending, ack>>
  PROVE  Desk!TakeUp
<1>1. WaitingIds \in Seq(Ids) /\ Len(WaitingIds) = 0 /\ WaitingIds' = WaitingIds
  BY DeskFacts, BaseFacts, EmptySeq DEF GoodCommands, WaitingIds
<1>2. SubSeq(WaitingIds, 0 + 1, Len(WaitingIds)) = WaitingIds
  BY <1>1, SubSeqFull
<1>3. Desk!AcknowledgesLast(0)
  BY <1>1 DEF Desk!AcknowledgesLast
<1>4. 0 \in 0 .. Len(WaitingIds)
  BY <1>1
<1> QED
  BY <1>1, <1>2, <1>3, <1>4 DEF Desk!TakeUp

\* The node here rejects, queues and takes up commands as CommandDesk says, which
\* is what SubControl's keeps as well.
THEOREM DeskKept == Spec => KeepsDesk
<1> USE DEF Desk!Next, Desk!deskVars
<1>1. Init => Desk!Init
  BY IdsEmpty DEF Init, Desk!Init, WaitingIds, IdsOf
<1>2. ASSUME Base, Next
      PROVE  [Desk!Next]_(Desk!deskVars)
  <2>1. CASE UNCHANGED <<phase, pending, ack>>
    BY <2>1 DEF WaitingIds
  <2>2. CASE \/ StartMission \/ GiveUp \/ Arrive \/ GoOn \/ End \/ Exit \/ Die \/ HearKill
             \/ \E s \in Setpoints : Send(s)
             \/ \E s \in Streams : OtherSends(s)
    BY <2>1, <2>2 DEF StartMission, GiveUp, Arrive, GoOn, End, Exit, Die, HearKill, Send, OtherSends,
                      control
  <2>3. CASE MotionSetpointCallback
    <3>1. GoodCommand(Head(link)) /\ ApplyCommand(Head(link)) /\ UNCHANGED phase
      BY <1>2, <2>3, BaseFacts, TailCommands DEF MotionSetpointCallback
    <3> QED
      BY <1>2, <3>1, CommandAtDesk
  <2>4. CASE OtherCallback
    <3>1. PICK c : GoodCommand(c) /\ ApplyCommand(c)
      BY <1>2, <2>4, BaseFacts, OtherCommand DEF OtherCallback
    <3> QED
      BY <1>2, <2>4, <3>1, CommandAtDesk DEF OtherCallback
  <2>5. CASE Kill
    BY <2>5 DEF Kill, Desk!Close, WaitingIds
  <2>6. CASE Release
    <3>1. WaitingIds' = <<>>
      BY <1>2, <2>6, DeskFacts, IdsEmpty DEF Release
    <3> QED
      BY <2>6, <3>1 DEF Release, Desk!Arm
  <2>7. CASE ResetPose
    BY <2>7 DEF ResetPose, Desk!Suspend, WaitingIds
  <2>8. CASE Seed \/ Rebase
    BY <2>8 DEF Seed, Rebase, WaitingIds
  <2>9. CASE TakePending
    BY <1>2, <2>9, TakenAtDesk
  <2>10. CASE Cycle
    <3>1. CASE phase = "holding"
      BY <2>1, <2>10, <3>1 DEF Cycle
    <3>2. CASE phase # "holding"
      BY <1>2, <2>10, <3>2, OpenedDesk DEF Cycle
    <3> QED
      BY <3>1, <3>2
  <2>11. CASE IdleCycle
    BY <2>1, <2>11 DEF IdleCycle, control
  <2>12. CASE Tick
    <3>1. pending' = AgedCommands(pending) /\ UNCHANGED <<phase, ack>>
      BY <2>12 DEF Tick, AgedCommands
    <3>2. /\ DOMAIN pending' = DOMAIN pending
          /\ \A i \in DOMAIN pending : pending'[i].id = pending[i].id
      BY <1>2, <3>1, BaseFacts, AgedCommandsGood, AgedCommandGood DEF GoodCommands
    <3>3. WaitingIds' = WaitingIds
      BY <3>2 DEF WaitingIds
    <3> QED
      BY <3>1, <3>3
  <2> QED
    BY <1>2, <2>2, <2>3, <2>4, <2>5, <2>6, <2>7, <2>8, <2>9, <2>10, <2>11, <2>12 DEF Next
<1>3. UNCHANGED vars => UNCHANGED Desk!deskVars
  BY DEF vars, control, WaitingIds
<1>4. Base /\ [Next]_vars => [Desk!Next]_(Desk!deskVars)
  BY <1>2, <1>3
<1> QED
  BY <1>1, <1>4, AlwaysBase, PTL DEF Spec, KeepsDesk, Desk!Spec
=============================================================================
