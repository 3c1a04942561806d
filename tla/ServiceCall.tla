----------------------------- MODULE ServiceCall -----------------------------
(***************************************************************************)
(* The leaves that call a service, LoadModel, DropBalls and ShootTorpedo:  *)
(* each sends one request an activation, waits for its answer until a      *)
(* deadline, and forgets the request when it gives up or is halted.  The   *)
(* server goes on with a forgotten request all the same, and its answer    *)
(* may come in the next activation.                                        *)
(***************************************************************************)
EXTENDS Integers, Sequences

CONSTANTS
  Services,     \* among "load_model", "actuate" (the board), "launch", "drop" (simulated)
  Items,        \* the tasks to load, or the torpedoes and droppers
  Deadline,     \* bound: ticks until a leaf gives up
  MaxRequests,  \* bound: requests sent
  None          \* no model, no request

ASSUME ServiceAssumption ==
  /\ Services \subseteq {"load_model", "actuate", "launch", "drop"}
  /\ Deadline \in Nat /\ MaxRequests \in Nat
  /\ None \notin Items

VARIABLES
  service,   \* which service this is about
  leaf,      \* the leaf: [status, item, open, sent (its request, 0: none), left, since]
  future,    \* what is known of the answer to leaf.sent
  requests,  \* on their way to the server, in order
  answers,   \* on their way back
  nextId,    \* requests sent so far
  done       \* the requests the server carried out (a history)

call == <<service, leaf, future, requests, answers, nextId, done>>

Request == [id : 1 .. MaxRequests, item : Items, open : BOOLEAN]
Answer == [id : 1 .. MaxRequests, ok : BOOLEAN]

\* since is the last request sent before the activation (a history).
CallInit ==
  /\ service \in Services
  /\ \E i \in Items :
       leaf = [status |-> "idle", item |-> i, open |-> TRUE, sent |-> 0, left |-> 0, since |-> 0]
  /\ future = "none" /\ requests = <<>> /\ answers = {} /\ nextId = 0 /\ done = {}

Running == leaf.status = "running"

-----------------------------------------------------------------------------
\* Variant: what was sent before an activation still counts as sent.
BegunStale(item, open) ==
  [leaf EXCEPT !.status = "running", !.item = item, !.open = open, !.left = Deadline,
               !.since = nextId]

\* onStart, up to its poll.
Begun(item, open) ==
  [status |-> "running", item |-> item, open |-> open, sent |-> 0, left |-> Deadline,
   since |-> nextId]

Ends(x, result) == [x EXCEPT !.status = result]

\* dropPendingRequest(), after which no answer is waited for.
Dropped(x) == [x EXCEPT !.sent = 0]

\* The request, if the service is there; LoadModel looks for the answer and at
\* the deadline from its next tick on, the actuators at once.
SendRequest(x) ==
  /\ x.sent = 0 /\ nextId < MaxRequests
  /\ nextId' = nextId + 1
  /\ requests' = Append(requests, [id |-> nextId', item |-> x.item, open |-> x.open])
  /\ IF service # "load_model" /\ x.left = 0
     THEN leaf' = Ends(Dropped(x), "failure") /\ future' = "none"
     ELSE leaf' = [x EXCEPT !.sent = nextId'] /\ future' = "waiting"

AwaitService(x) ==
  /\ x.sent = 0
  /\ leaf' = IF x.left = 0 THEN Ends(x, "failure") ELSE x
  /\ UNCHANGED <<future, requests, nextId>>

\* Variant: an answer is waited for without a limit.
AwaitAnswerForever(x) ==
  \/ future = "ok" /\ leaf' = Ends(x, "success") /\ UNCHANGED future
  \/ future = "failed" /\ leaf' = Ends(x, "failure") /\ UNCHANGED future
  \/ future = "waiting" /\ leaf' = x /\ UNCHANGED future

AwaitAnswer(x) ==
  \/ future = "ok" /\ leaf' = Ends(x, "success") /\ UNCHANGED future
  \/ future = "failed" /\ leaf' = Ends(x, "failure") /\ UNCHANGED future
  \/ future = "waiting" /\ x.left > 0 /\ leaf' = x /\ UNCHANGED future
  \/ /\ future = "waiting" /\ x.left = 0
     /\ leaf' = Ends(Dropped(x), "failure") /\ future' = "none"

\* poll() and tickImpl().
Poll(x) ==
  /\ \/ SendRequest(x)
     \/ AwaitService(x)
     \/ x.sent # 0 /\ AwaitAnswer(x) /\ UNCHANGED <<requests, nextId>>
  /\ UNCHANGED <<service, answers, done>>

Start(item, open) == ~Running /\ Poll(Begun(item, open))

Tick == Running /\ Poll(leaf)

\* onHalted().
Halt ==
  /\ Running
  /\ leaf' = Ends(IF future = "waiting" THEN Dropped(leaf) ELSE leaf, "idle")
  /\ future' = IF future = "waiting" THEN "none" ELSE future
  /\ UNCHANGED <<service, requests, answers, nextId, done>>

\* A tick goes by.
Time ==
  /\ Running /\ leaf.left > 0
  /\ leaf' = [leaf EXCEPT !.left = @ - 1]
  /\ UNCHANGED <<service, future, requests, answers, nextId, done>>

\* The client has an answer: to the request it waits for, or to one it forgot.
Receive(a) ==
  /\ a \in answers
  /\ answers' = answers \ {a}
  /\ future' = IF future = "waiting" /\ a.id = leaf.sent
               THEN IF a.ok THEN "ok" ELSE "failed"
               ELSE future
  /\ UNCHANGED <<service, leaf, requests, nextId, done>>

-----------------------------------------------------------------------------
\* The server's side: it takes requests in the order they were sent.

Takes(r) == requests # <<>> /\ r = Head(requests) /\ requests' = Tail(requests)

Responds(id, ok) ==
  /\ answers' = answers \cup {[id |-> id, ok |-> ok]}
  /\ done' = IF ok THEN done \cup {id} ELSE done

\* The server dies with what it was asked, and the next one starts.
LoseRequests ==
  /\ requests # <<>>
  /\ requests' = <<>>
  /\ UNCHANGED <<service, leaf, future, answers, nextId, done>>
=============================================================================
