------------------------ MODULE MissionServicesProofs ------------------------
(***************************************************************************)
(* Proofs about MissionServices, for every value of its constants.         *)
(***************************************************************************)
EXTENDS MissionServices, QueueLemmas

USE ServiceAssumption

Leaf ==
  [status : {"idle", "running", "success", "failure"}, item : Items, open : BOOLEAN,
   sent : 0 .. MaxRequests, left : 0 .. Deadline, since : 0 .. MaxRequests]

\* The leaf waits for the last request sent, one of its own activation.
SentLast ==
  /\ leaf.sent # 0 => leaf.sent = nextId /\ leaf.since < leaf.sent
  /\ leaf.since <= nextId

\* The requests on their way, among which the last sent is last.
LastIsLast ==
  \A i \in DOMAIN requests :
    /\ requests[i].id <= nextId
    /\ requests[i].id = nextId =>
         /\ \A j \in DOMAIN requests : j <= i
         /\ leaf.sent = nextId => requests[i].item = leaf.item

\* What an answer that is still waited for stands for, unless the node that gave
\* it is gone.
HasLoaded ==
  service = "load_model" /\ leaf.sent > lost
    => requests = <<>> /\ active = leaf.item /\ resident = leaf.item

AnswersTrue ==
  /\ \A a \in answers :
       /\ a.id <= nextId
       /\ a.ok => a.id \in done
       /\ a.ok /\ a.id = leaf.sent => HasLoaded
  /\ future = "ok" /\ leaf.sent # 0 => leaf.sent \in done /\ HasLoaded
  /\ leaf.status = "success" => future = "ok" /\ leaf.sent # 0

\* A torpedo's glue is being released for one request at most, and for none
\* once it was pushed.
OneRelease ==
  \A i \in Items :
    /\ launches[i] = IF i \in launched THEN 1 ELSE 0
    /\ i \in launched => releasing[i] = {}
    /\ \A d, e \in releasing[i] : d = e
    /\ \A d \in releasing[i] : d <= nextId /\ service = "launch"

\* Detections carry the task of the model that made them.
Labelled ==
  /\ active = resident
  /\ \A i \in DOMAIN detections : detections[i].task = detections[i].by
  /\ snapshot.task = snapshot.by

CallInv == SentLast /\ LastIsLast /\ AnswersTrue

IInv == TypeOK /\ CallInv /\ OneRelease /\ Labelled

CallTypeOK ==
  /\ service \in Services /\ leaf \in Leaf
  /\ future \in {"none", "waiting", "ok", "failed"}
  /\ requests \in Seq(Request) /\ answers \subseteq Answer
  /\ nextId \in 0 .. MaxRequests /\ done \subseteq 1 .. MaxRequests

VisionTypeOK ==
  /\ active \in Maybe /\ resident \in Maybe /\ wanted \in Maybe /\ lost \in 0 .. MaxRequests
  /\ detections \in Seq([task : Items, by : Maybe])
  /\ snapshot \in [task : Maybe, by : Maybe, new : BOOLEAN]

DevicesTypeOK ==
  /\ launched \subseteq Items /\ releasing \in [Items -> SUBSET (1 .. MaxRequests)]
  /\ launches \in [Items -> Nat]
  /\ released \subseteq Items /\ opened \subseteq Items
  /\ dropping \in Maybe /\ inFlight \in Maybe
  /\ turned \in BOOLEAN

LEMMA TypeParts == TypeOK <=> CallTypeOK /\ VisionTypeOK /\ DevicesTypeOK
  BY DEF TypeOK, CallTypeOK, VisionTypeOK, DevicesTypeOK, Leaf

LEMMA InvAfter ==
  ASSUME CallTypeOK', CallInv', VisionTypeOK', Labelled', DevicesTypeOK', OneRelease'
  PROVE  IInv'
  BY DEF IInv, TypeOK, CallTypeOK, VisionTypeOK, DevicesTypeOK, Leaf

LEMMA RequestsTyped ==
  ASSUME CallTypeOK
  PROVE  \A i \in DOMAIN requests :
           requests[i] \in Request /\ requests[i].id \in 1 .. MaxRequests /\ requests[i].item \in Items
<1>1. \A i \in DOMAIN requests : requests[i] \in Request
  BY ElementType DEF CallTypeOK
<1> QED
  BY <1>1 DEF Request

\* A leaf that forgets its request.
LEMMA DroppedLeaf ==
  ASSUME NEW x \in Leaf
  PROVE  /\ Dropped(x) \in Leaf /\ Dropped(x).sent = 0 /\ Dropped(x).since = x.since
         /\ Dropped(x).item = x.item
<1>1. 0 \in 0 .. MaxRequests
  OBVIOUS
<1> QED
  BY <1>1 DEF Dropped, Leaf

LEMMA EndsLeaf ==
  ASSUME NEW x \in Leaf, NEW result \in {"idle", "success", "failure"}
  PROVE  /\ Ends(x, result) \in Leaf /\ Ends(x, result).sent = x.sent
         /\ Ends(x, result).since = x.since /\ Ends(x, result).item = x.item
         /\ Ends(x, result).status = result
  BY DEF Ends, Leaf

-----------------------------------------------------------------------------
(* The mission's side. *)

\* The request that is sent is the last, and nothing answers it yet.
LEMMA SendStep ==
  ASSUME CallTypeOK, CallInv, NEW x \in Leaf, x.status = "running", x.since <= nextId,
         SendRequest(x), UNCHANGED <<service, answers, done, active, resident, lost>>
  PROVE  CallTypeOK' /\ CallInv'
<1> DEFINE r == [id |-> nextId + 1, item |-> x.item, open |-> x.open]
<1>1. /\ x.sent = 0 /\ nextId < MaxRequests /\ nextId' = nextId + 1
      /\ requests' = Append(requests, r)
  BY DEF SendRequest
<1>2. r \in Request /\ requests \in Seq(Request) /\ r.id = nextId + 1 /\ r.item = x.item
  BY <1>1 DEF CallTypeOK, Request, Leaf
<1> HIDE DEF r
<1>3. requests' \in Seq(Request)
  BY <1>1, <1>2, AppendProperties
<1>4. \/ leaf' = Ends(Dropped(x), "failure") /\ future' = "none"
      \/ leaf' = [x EXCEPT !.sent = nextId + 1] /\ future' = "waiting"
  BY <1>1 DEF SendRequest
<1>5. /\ leaf' \in Leaf /\ leaf'.since = x.since /\ leaf'.item = x.item
      /\ leaf'.sent \in {0, nextId + 1} /\ leaf'.status # "success"
      /\ future' \in {"none", "waiting"}
  <2>1. CASE leaf' = Ends(Dropped(x), "failure") /\ future' = "none"
    BY <2>1, <1>1, DroppedLeaf, EndsLeaf
  <2>2. CASE leaf' = [x EXCEPT !.sent = nextId + 1] /\ future' = "waiting"
    <3>1. nextId + 1 \in 0 .. MaxRequests
      BY <1>1 DEF CallTypeOK
    <3> QED
      BY <2>2, <3>1 DEF Leaf
  <2> QED
    BY <1>4, <2>1, <2>2
<1>6. CallTypeOK'
  BY <1>1, <1>3, <1>5 DEF CallTypeOK
<1>7. SentLast'
  BY <1>1, <1>5 DEF SentLast, CallTypeOK, Leaf
<1>8. LastIsLast'
  <2> SUFFICES ASSUME NEW i \in DOMAIN requests'
               PROVE  /\ requests'[i].id <= nextId + 1
                      /\ requests'[i].id = nextId + 1 =>
                           /\ \A j \in DOMAIN requests' : j <= i
                           /\ requests'[i].item = leaf'.item
    BY <1>1 DEF LastIsLast
  <2>1. CASE i \in DOMAIN requests /\ requests'[i] = requests[i]
    <3>1. requests[i].id <= nextId /\ requests[i].id \in Nat
      BY <2>1, RequestsTyped DEF CallInv, LastIsLast
    <3> QED
      BY <2>1, <3>1 DEF CallTypeOK
  <2>2. CASE (\A j \in DOMAIN requests' : j <= i) /\ requests'[i] = r
    BY <2>2, <1>2, <1>5 DEF CallTypeOK
  <2> QED
    BY <1>1, <1>2, <2>1, <2>2, AppendIndex
<1>9. AnswersTrue'
  <2>1. \A a \in answers : a.id <= nextId /\ a.id \in Nat /\ a.id # 0 /\ (a.ok => a.id \in done)
    BY DEF CallInv, AnswersTrue, CallTypeOK, Answer
  <2>2. \A a \in answers' : a.id <= nextId' /\ a.id # leaf'.sent /\ (a.ok => a.id \in done')
    BY <1>1, <1>5, <2>1 DEF CallTypeOK
  <2> QED
    BY <1>5, <2>2 DEF AnswersTrue
<1> QED
  BY <1>6, <1>7, <1>8, <1>9 DEF CallInv

\* What holds of a leaf whose request, if it has one, stays what it was.
LEMMA KeepsCall ==
  ASSUME CallTypeOK, CallInv, leaf' \in Leaf, future' \in {"none", future},
         leaf'.since <= nextId, leaf'.sent # 0 => leaf'.sent = leaf.sent /\ leaf'.since = leaf.since
                                                   /\ leaf'.item = leaf.item,
         leaf'.status = "success" => future' = "ok" /\ leaf'.sent # 0,
         UNCHANGED <<service, requests, answers, nextId, done, active, resident, lost>>
  PROVE  CallTypeOK' /\ CallInv'
<1>1. CallTypeOK'
  BY DEF CallTypeOK
<1>2. SentLast'
  BY DEF CallInv, SentLast
<1>3. LastIsLast'
  <2>1. \A i \in DOMAIN requests : requests[i].id # 0
    BY RequestsTyped
  <2>2. leaf'.sent = nextId => (nextId = 0 \/ (leaf.sent = nextId /\ leaf'.item = leaf.item))
    BY DEF Leaf
  <2> QED
    BY <2>1, <2>2 DEF CallInv, LastIsLast
<1>4. AnswersTrue'
  <2>1. \A a \in answers : a.id # 0
    BY DEF CallTypeOK, Answer
  <2>2. leaf'.sent # 0 => (HasLoaded => HasLoaded')
    BY DEF HasLoaded
  <2>3. \A a \in answers : a.ok /\ a.id = leaf'.sent => HasLoaded'
    BY <2>1, <2>2 DEF CallInv, AnswersTrue
  <2>4. future' = "ok" /\ leaf'.sent # 0 => leaf'.sent \in done /\ HasLoaded'
    BY <2>2 DEF CallInv, AnswersTrue
  <2> QED
    BY <2>3, <2>4 DEF CallInv, AnswersTrue
<1> QED
  BY <1>1, <1>2, <1>3, <1>4 DEF CallInv

LEMMA AwaitServiceStep ==
  ASSUME CallTypeOK, CallInv, NEW x \in Leaf, x.status = "running", x.since <= nextId,
         AwaitService(x), UNCHANGED <<service, answers, done, active, resident, lost>>
  PROVE  CallTypeOK' /\ CallInv'
<1>1. /\ x.sent = 0 /\ leaf' \in {Ends(x, "failure"), x}
      /\ UNCHANGED <<future, requests, nextId>>
  BY DEF AwaitService
<1>2. leaf' \in Leaf /\ leaf'.sent = 0 /\ leaf'.since = x.since /\ leaf'.status # "success"
  BY <1>1 DEF Ends, Leaf
<1> QED
  BY <1>1, <1>2, KeepsCall

LEMMA AwaitAnswerStep ==
  ASSUME CallTypeOK, CallInv, leaf.status = "running", leaf.sent # 0, AwaitAnswer(leaf),
         UNCHANGED <<service, requests, answers, nextId, done, active, resident, lost>>
  PROVE  CallTypeOK' /\ CallInv'
<1>0. leaf \in Leaf /\ leaf.since <= nextId
  BY DEF CallTypeOK, CallInv, SentLast
<1>1. CASE future = "ok" /\ leaf' = Ends(leaf, "success") /\ UNCHANGED future
  <2>1. leaf' \in Leaf /\ leaf'.sent = leaf.sent /\ leaf'.since = leaf.since /\ leaf'.item = leaf.item
    BY <1>0, <1>1 DEF Ends, Leaf
  <2> QED
    BY <1>0, <1>1, <2>1, KeepsCall
<1>2. CASE leaf' \in {Ends(leaf, "failure"), leaf} /\ UNCHANGED future
  <2>1. /\ leaf' \in Leaf /\ leaf'.sent = leaf.sent /\ leaf'.since = leaf.since
        /\ leaf'.item = leaf.item /\ leaf'.status # "success"
    BY <1>0, <1>2 DEF Ends, Leaf
  <2> QED
    BY <1>0, <1>2, <2>1, KeepsCall
<1>3. CASE leaf' = Ends(Dropped(leaf), "failure") /\ future' = "none"
  <2>3. /\ leaf' \in Leaf /\ leaf'.sent = 0 /\ leaf'.since = leaf.since /\ leaf'.status # "success"
    BY <1>0, <1>3, DroppedLeaf, EndsLeaf
  <2> QED
    BY <1>0, <1>3, <2>3, KeepsCall
<1> QED
  BY <1>1, <1>2, <1>3 DEF AwaitAnswer

LEMMA StartStep ==
  ASSUME CallTypeOK, CallInv, NEW item \in Items, NEW open \in BOOLEAN, Start(item, open),
         UNCHANGED <<active, resident, lost>>
  PROVE  CallTypeOK' /\ CallInv'
<1> DEFINE x == Begun(item, open)
<1>1. x \in Leaf /\ x.status = "running" /\ x.since <= nextId /\ x.sent = 0
  BY DEF Begun, Leaf, CallTypeOK
<1>2. (SendRequest(x) \/ AwaitService(x)) /\ UNCHANGED <<service, answers, done>>
  BY <1>1 DEF Start, Poll
<1> HIDE DEF x
<1> QED
  BY <1>1, <1>2, SendStep, AwaitServiceStep

LEMMA TickStep ==
  ASSUME CallTypeOK, CallInv, Tick, UNCHANGED <<active, resident, lost>>
  PROVE  CallTypeOK' /\ CallInv'
<1>1. leaf \in Leaf /\ leaf.status = "running" /\ leaf.since <= nextId
  BY DEF CallTypeOK, CallInv, SentLast, Tick, Running
<1>2. UNCHANGED <<service, answers, done>>
  BY DEF Tick, Poll
<1>3. CASE SendRequest(leaf)
  BY <1>1, <1>2, <1>3, SendStep
<1>4. CASE AwaitService(leaf)
  BY <1>1, <1>2, <1>4, AwaitServiceStep
<1>5. CASE leaf.sent # 0 /\ AwaitAnswer(leaf) /\ UNCHANGED <<requests, nextId>>
  BY <1>1, <1>2, <1>5, AwaitAnswerStep
<1> QED
  BY <1>3, <1>4, <1>5 DEF Tick, Poll

LEMMA HaltStep ==
  ASSUME CallTypeOK, CallInv, Halt, UNCHANGED <<active, resident, lost>>
  PROVE  CallTypeOK' /\ CallInv'
<1>1. leaf \in Leaf /\ leaf.since <= nextId
  BY DEF CallTypeOK, CallInv, SentLast
<1>2. /\ leaf' \in Leaf /\ leaf'.sent \in {0, leaf.sent} /\ leaf'.since = leaf.since
      /\ leaf'.item = leaf.item /\ leaf'.status # "success"
  BY <1>1 DEF Halt, Ends, Dropped, Leaf
<1> QED
  BY <1>1, <1>2, KeepsCall DEF Halt

LEMMA TimeStep ==
  ASSUME CallTypeOK, CallInv, Time, UNCHANGED <<active, resident, lost>>
  PROVE  CallTypeOK' /\ CallInv'
<1>1. leaf \in Leaf /\ leaf.since <= nextId
  BY DEF CallTypeOK, CallInv, SentLast
<1>2. /\ leaf' \in Leaf /\ leaf'.sent = leaf.sent /\ leaf'.since = leaf.since
      /\ leaf'.item = leaf.item /\ leaf'.status # "success"
  BY <1>1 DEF Time, Running, Leaf
<1> QED
  BY <1>1, <1>2, KeepsCall DEF Time

\* An answer is taken only for the request it answers.
LEMMA ReceiveStep ==
  ASSUME CallTypeOK, CallInv, NEW a \in answers, Receive(a), UNCHANGED <<active, resident, lost>>
  PROVE  CallTypeOK' /\ CallInv'
<1>1. UNCHANGED <<service, leaf, requests, nextId, done>> /\ answers' \subseteq answers
  BY DEF Receive
<1>2. future' \in {future, "ok", "failed"} /\ (future' = "ok" => (future = "ok" \/ (a.ok /\ a.id = leaf.sent)))
  BY DEF Receive, CallTypeOK, Answer
<1>3. CallTypeOK'
  BY <1>1, <1>2 DEF CallTypeOK
<1>4. SentLast' /\ LastIsLast'
  BY <1>1 DEF CallInv, SentLast, LastIsLast
<1>5. HasLoaded' = HasLoaded
  BY <1>1 DEF HasLoaded
<1>6. future = "ok" => future' = "ok"
  BY DEF Receive
<1> QED
  BY <1>1, <1>2, <1>3, <1>4, <1>5, <1>6 DEF CallInv, AnswersTrue

-----------------------------------------------------------------------------
(* The servers' side. *)

\* A request is taken and answered, or kept for later.
LEMMA TakeStep ==
  ASSUME CallTypeOK, CallInv, NEW r \in Request, NEW ok \in BOOLEAN, Takes(r),
         Responds(r.id, ok) \/ UNCHANGED <<answers, done>>,
         ok /\ service = "load_model" => active' = r.item /\ resident' = r.item,
         UNCHANGED <<service, leaf, future, nextId, lost>>
  PROVE  CallTypeOK' /\ CallInv' /\ r.id \in 1 .. MaxRequests /\ r.id <= nextId
<1>1. /\ requests # <<>> /\ requests \in Seq(Request) /\ requests' = Tail(requests)
      /\ 1 \in DOMAIN requests /\ r = requests[1]
  BY TailIndex DEF Takes, CallTypeOK
<1>2. r.id \in 1 .. MaxRequests /\ r.item \in Items
  BY DEF Request
<1>3. /\ r.id <= nextId
      /\ r.id = nextId => (\A j \in DOMAIN requests : j <= 1) /\ (leaf.sent = nextId => r.item = leaf.item)
  BY <1>1 DEF CallInv, LastIsLast
<1>4. [id |-> r.id, ok |-> ok] \in Answer
  BY <1>2 DEF Answer
<1>5. CallTypeOK'
  <2>1. requests' \in Seq(Request)
    BY <1>1, HeadTailProperties
  <2>2. answers' \subseteq Answer /\ done' \subseteq 1 .. MaxRequests
    BY <1>2, <1>4 DEF Responds, CallTypeOK
  <2> QED
    BY <2>1, <2>2 DEF CallTypeOK
<1>6. SentLast'
  BY DEF CallInv, SentLast
<1>7. LastIsLast'
  <2> SUFFICES ASSUME NEW i \in DOMAIN requests'
               PROVE  /\ requests'[i].id <= nextId
                      /\ requests'[i].id = nextId =>
                           /\ \A j \in DOMAIN requests' : j <= i
                           /\ leaf.sent = nextId => requests'[i].item = leaf.item
    BY DEF LastIsLast
  <2>1. i + 1 \in DOMAIN requests /\ requests'[i] = requests[i + 1] /\ i \in Nat
    BY <1>1, TailIndex
  <2>2. \A j \in DOMAIN requests' : j + 1 \in DOMAIN requests /\ j \in Nat
    BY <1>1, TailIndex
  <2> QED
    BY <2>1, <2>2 DEF CallInv, LastIsLast
<1>8. AnswersTrue'
  <2>2. HasLoaded => HasLoaded'
    BY <1>1 DEF HasLoaded
  <2>3. ok /\ r.id = leaf.sent => HasLoaded'
    <3>1. CASE service = "load_model" /\ ok /\ r.id = leaf.sent
      <4>1. r.id = nextId /\ leaf.sent = nextId
        BY <3>1, <1>2 DEF CallInv, SentLast
      <4>2. requests' = <<>>
        <5>1. Len(requests) \in Nat /\ DOMAIN requests = 1 .. Len(requests)
          BY <1>1, LenProperties
        <5>2. Len(requests) = 1
          BY <5>1, <4>1, <1>1, <1>3
        <5>3. Tail(requests) \in Seq(Request) /\ Len(Tail(requests)) = 0
          BY <5>2, <1>1, HeadTailProperties
        <5> QED
          BY <5>3, <1>1, EmptySeq
      <4> QED
        BY <4>1, <4>2, <3>1, <1>3 DEF HasLoaded
    <3>2. CASE service # "load_model"
      BY <3>2 DEF HasLoaded
    <3> QED
      BY <3>1, <3>2
  <2>4. \A a \in answers' : a \in answers \/ a = [id |-> r.id, ok |-> ok]
    BY DEF Responds
  <2>5. [id |-> r.id, ok |-> ok] \in answers' /\ ok => r.id \in done' \/ [id |-> r.id, ok |-> ok] \in answers
    BY DEF Responds
  <2>6. done \subseteq done'
    BY DEF Responds
  <2>7. \A a \in answers' : a.id <= nextId /\ (a.ok => a.id \in done') /\ (a.ok /\ a.id = leaf.sent => HasLoaded')
    <3> SUFFICES ASSUME NEW a \in answers'
                 PROVE  a.id <= nextId /\ (a.ok => a.id \in done') /\ (a.ok /\ a.id = leaf.sent => HasLoaded')
      OBVIOUS
    <3>1. CASE a \in answers
      BY <3>1, <2>2, <2>6 DEF CallInv, AnswersTrue
    <3>2. CASE a = [id |-> r.id, ok |-> ok] /\ a \notin answers
      BY <3>2, <2>3, <2>5, <1>3
    <3> QED
      BY <2>4, <3>1, <3>2
  <2> QED
    BY <2>2, <2>6, <2>7 DEF CallInv, AnswersTrue
<1> QED
  BY <1>2, <1>3, <1>5, <1>6, <1>7, <1>8 DEF CallInv

\* A request that was kept is answered.
LEMMA LateStep ==
  ASSUME CallTypeOK, CallInv, NEW id \in 1 .. MaxRequests, id <= nextId, NEW ok \in BOOLEAN,
         Responds(id, ok), service # "load_model",
         UNCHANGED <<service, leaf, future, requests, nextId>>
  PROVE  CallTypeOK' /\ CallInv'
<1>1. [id |-> id, ok |-> ok] \in Answer /\ answers' = answers \cup {[id |-> id, ok |-> ok]}
  BY DEF Answer, Responds
<1>2. CallTypeOK'
  BY <1>1 DEF CallTypeOK, Responds
<1>3. SentLast' /\ LastIsLast'
  BY DEF CallInv, SentLast, LastIsLast
<1>4. HasLoaded'
  BY DEF HasLoaded
<1>5. done \subseteq done' /\ (ok => id \in done')
  BY DEF Responds
<1>6. \A a \in answers' : a.id <= nextId /\ (a.ok => a.id \in done')
  BY <1>1, <1>5 DEF CallInv, AnswersTrue
<1> QED
  BY <1>2, <1>3, <1>4, <1>5, <1>6 DEF CallInv, AnswersTrue

\* The server dies with its requests.
LEMMA LoseStep ==
  ASSUME CallTypeOK, CallInv, LoseRequests, service = "actuate"
  PROVE  CallTypeOK' /\ CallInv'
<1>1. requests' = <<>> /\ UNCHANGED <<service, leaf, future, answers, nextId, done>>
  BY DEF LoseRequests
<1>2. CallTypeOK'
  BY <1>1, EmptySeq DEF CallTypeOK
<1>3. LastIsLast'
  BY <1>1, EmptySeq DEF LastIsLast
<1>4. HasLoaded'
  BY <1>1 DEF HasLoaded
<1> QED
  BY <1>1, <1>2, <1>3, <1>4 DEF CallInv, SentLast, AnswersTrue

-----------------------------------------------------------------------------
(* The steps of the whole. *)

LEMMA InitInv == Init => IInv
<1> SUFFICES ASSUME Init PROVE IInv
  OBVIOUS
<1> USE DEF Init, CallInit, VisionInit, DevicesInit
<1>1. /\ leaf \in Leaf /\ leaf.sent = 0 /\ leaf.since = 0 /\ leaf.status = "idle"
      /\ requests = <<>> /\ nextId = 0 /\ future = "none" /\ answers = {}
  BY DEF Leaf
<1>2. CallTypeOK
  BY <1>1, EmptySeq DEF CallTypeOK
<1>3. VisionTypeOK
  BY EmptySeq DEF VisionTypeOK, Maybe
<1>4. DevicesTypeOK
  BY DEF DevicesTypeOK, Maybe
<1>5. CallInv
  BY <1>1, EmptySeq DEF CallInv, SentLast, LastIsLast, AnswersTrue
<1>6. OneRelease
  BY DEF OneRelease
<1>7. Labelled
  BY EmptySeq DEF Labelled
<1> QED
  BY <1>2, <1>3, <1>4, <1>5, <1>6, <1>7, TypeParts DEF IInv

\* The devices do not see what happens elsewhere.
LEMMA DevicesKept ==
  ASSUME DevicesTypeOK, OneRelease, UNCHANGED <<devices, service>>, nextId \in Nat, nextId' \in Nat,
         nextId <= nextId'
  PROVE  DevicesTypeOK' /\ OneRelease'
<1>1. DevicesTypeOK'
  BY DEF DevicesTypeOK, devices
<1>2. OneRelease'
  <2> SUFFICES ASSUME NEW i \in Items
               PROVE  /\ launches'[i] = IF i \in launched' THEN 1 ELSE 0
                      /\ i \in launched' => releasing'[i] = {}
                      /\ \A d, e \in releasing'[i] : d = e
                      /\ \A d \in releasing'[i] : d <= nextId' /\ service' = "launch"
    BY DEF OneRelease
  <2>1. releasing[i] \subseteq 1 .. MaxRequests
    BY DEF DevicesTypeOK
  <2> QED
    BY <2>1 DEF OneRelease, devices
<1> QED
  BY <1>1, <1>2

LEMMA VisionKept ==
  ASSUME VisionTypeOK, Labelled, UNCHANGED <<active, resident, detections, snapshot, lost>>,
         wanted' \in Maybe
  PROVE  VisionTypeOK' /\ Labelled'
  BY DEF VisionTypeOK, Labelled

\* The calls' side of a step leaves the service, and never takes an id back.
LEMMA NextIds ==
  ASSUME CallTypeOK, CallTypeOK',
         \/ \E item \in Items, open \in BOOLEAN : Start(item, open)
         \/ Tick
         \/ Halt \/ Time \/ LoseRequests
         \/ \E a \in answers : Receive(a)
  PROVE  service' = service /\ nextId \in Nat /\ nextId' \in Nat /\ nextId <= nextId'
<1>1. nextId \in Nat /\ nextId' \in Nat
  BY DEF CallTypeOK
<1>2. service' = service /\ nextId' \in {nextId, nextId + 1}
  <2>1. ASSUME NEW x, Poll(x) PROVE service' = service /\ nextId' \in {nextId, nextId + 1}
    BY <2>1 DEF Poll, SendRequest, AwaitService
  <2>2. CASE \E item \in Items, open \in BOOLEAN : Start(item, open)
    BY <2>1, <2>2 DEF Start
  <2>3. CASE Tick
    BY <2>1, <2>3 DEF Tick
  <2>4. CASE Halt \/ Time \/ LoseRequests
    BY <2>4 DEF Halt, Time, LoseRequests
  <2>5. CASE \E a \in answers : Receive(a)
    BY <2>5 DEF Receive
  <2> QED
    BY <2>2, <2>3, <2>4, <2>5
<1> QED
  BY <1>1, <1>2

\* A step of the mission, or of its client.
LEMMA MissionStep ==
  ASSUME IInv, Mission \/ Passing \/ Receiving \/ Respawn
  PROVE  IInv'
<1>0. CallTypeOK /\ VisionTypeOK /\ DevicesTypeOK /\ CallInv /\ OneRelease /\ Labelled
  BY TypeParts DEF IInv
<1>1. /\ UNCHANGED <<active, resident, detections, snapshot, lost, devices>> /\ wanted' \in Maybe
      /\ \/ \E item \in Items, open \in BOOLEAN : Start(item, open)
         \/ Tick
         \/ Halt
         \/ Time
         \/ service = "actuate" /\ LoseRequests
         \/ \E a \in answers : Receive(a)
  BY <1>0 DEF Mission, Passing, Receiving, Respawn, vision, VisionTypeOK, Maybe
<1>2. CallTypeOK' /\ CallInv'
  BY <1>0, <1>1, StartStep, TickStep, HaltStep, TimeStep, ReceiveStep, LoseStep
<1>3. VisionTypeOK' /\ Labelled'
  BY <1>0, <1>1, VisionKept
<1>4. DevicesTypeOK' /\ OneRelease'
  BY <1>0, <1>1, <1>2, NextIds, DevicesKept
<1> QED
  BY <1>2, <1>3, <1>4, InvAfter

\* A step of the vision node, or of what is made of its detections.
LEMMA SeeingStep ==
  ASSUME IInv, Seeing
  PROVE  IInv'
<1>0. CallTypeOK /\ VisionTypeOK /\ DevicesTypeOK /\ CallInv /\ OneRelease /\ Labelled
  BY TypeParts DEF IInv
<1>1. nextId \in Nat /\ devices' = devices
  BY <1>0 DEF CallTypeOK, Seeing
<1>2. CASE OnLoadModel
  <2>1. PICK r \in Request :
          /\ Takes(r)
          /\ \/ /\ r.item = active /\ resident # None /\ UNCHANGED <<active, resident>>
                /\ Responds(r.id, TRUE)
             \/ Loaded(r.item) /\ Responds(r.id, Answers(r.item))
    BY <1>2 DEF OnLoadModel
  <2>2. /\ UNCHANGED <<service, leaf, future, nextId, detections, snapshot, wanted, lost>>
        /\ service = "load_model"
    BY <1>2 DEF OnLoadModel
  <2>3. r.item \in Items
    BY DEF Request
  <2>4. active' \in Maybe /\ resident' \in Maybe /\ active' = resident'
    BY <2>1, <2>3, <1>0 DEF Loaded, VisionTypeOK, Maybe, Labelled
  <2>5. CallTypeOK' /\ CallInv'
    <3>1. CASE r.item = active /\ UNCHANGED <<active, resident>> /\ Responds(r.id, TRUE)
      BY <3>1, <2>1, <2>2, <2>4, <1>0, TakeStep
    <3>2. CASE Loaded(r.item) /\ Responds(r.id, Answers(r.item))
      <4>1. Answers(r.item) \in BOOLEAN /\ (Answers(r.item) => active' = r.item /\ resident' = r.item)
        BY <2>4 DEF Answers
      <4> QED
        BY <3>2, <4>1, <2>1, <2>2, <1>0, TakeStep
    <3> QED
      BY <2>1, <3>1, <3>2
  <2>6. VisionTypeOK' /\ Labelled'
    BY <2>2, <2>4, <1>0 DEF VisionTypeOK, Labelled
  <2>7. DevicesTypeOK' /\ OneRelease'
    BY <1>0, <1>1, <2>2, DevicesKept
  <2> QED
    BY <2>5, <2>6, <2>7, InvAfter
<1>3. CASE ProcessFrame \/ OnDetections \/ LoseDetections \/ Match \/ (\E task \in Items : Want(task))
  <2>1. UNCHANGED <<call, active, resident, lost>>
    BY <1>3 DEF ProcessFrame, OnDetections, LoseDetections, Match, Want
  <2>2. CallTypeOK' /\ CallInv'
    BY <2>1, <1>0 DEF call, CallTypeOK, CallInv, SentLast, LastIsLast, AnswersTrue, HasLoaded
  <2>3. DevicesTypeOK' /\ OneRelease'
    BY <1>0, <1>1, <2>1, DevicesKept DEF call
  <2>4. VisionTypeOK' /\ Labelled'
    <3> DEFINE D == [task : Items, by : Maybe]
    <3>0. detections \in Seq(D)
      BY <1>0 DEF VisionTypeOK
    <3>1. CASE ProcessFrame
      <4>1. [task |-> active, by |-> resident] \in D
        BY <3>1, <1>0 DEF ProcessFrame, VisionTypeOK, Maybe
      <4>2. detections' = Append(detections, [task |-> active, by |-> resident])
        BY <3>1 DEF ProcessFrame
      <4> HIDE DEF D
      <4>3. detections' \in Seq(D)
        BY <3>0, <4>1, <4>2, AppendProperties
      <4>4. \A i \in DOMAIN detections' : detections'[i].task = detections'[i].by
        BY <3>0, <4>1, <4>2, AppendIndex, <1>0 DEF Labelled
      <4> QED
        BY <3>1, <4>3, <4>4, <1>0 DEF ProcessFrame, VisionTypeOK, Labelled, D
    <3>2. CASE detections # <<>> /\ detections' = Tail(detections) /\ UNCHANGED wanted
               /\ snapshot' \in {snapshot, [task |-> Head(detections).task,
                                            by |-> Head(detections).by, new |-> TRUE]}
      <4>1. Head(detections) \in D /\ Head(detections).task = Head(detections).by
        <5>1. 1 \in DOMAIN detections /\ Head(detections) = detections[1]
          BY <3>0, <3>2, TailIndex
        <5>2. detections[1] \in D
          BY <5>1, <3>0, ElementType
        <5> QED
          BY <5>1, <5>2, <1>0 DEF Labelled
      <4>2. snapshot' \in [task : Maybe, by : Maybe, new : BOOLEAN] /\ snapshot'.task = snapshot'.by
        <5>1. CASE snapshot' = snapshot
          BY <5>1, <1>0 DEF VisionTypeOK, Labelled
        <5>2. CASE snapshot' = [task |-> Head(detections).task, by |-> Head(detections).by, new |-> TRUE]
          <6>1. Head(detections).task \in Maybe /\ Head(detections).by \in Maybe
            BY <4>1 DEF Maybe
          <6> QED
            BY <6>1, <5>2, <4>1
        <5> QED
          BY <3>2, <5>1, <5>2
      <4> HIDE DEF D
      <4>3. detections' \in Seq(D)
        BY <3>0, <3>2, HeadTailProperties
      <4>4. \A i \in DOMAIN detections' : detections'[i].task = detections'[i].by
        BY <3>0, <3>2, TailIndex, <1>0 DEF Labelled
      <4> QED
        BY <2>1, <3>2, <4>2, <4>3, <4>4, <1>0 DEF VisionTypeOK, Labelled, D
    <3>3. CASE Match \/ (\E task \in Items : Want(task))
      <4>1. UNCHANGED <<active, resident, detections>> /\ wanted' \in Maybe
        BY <3>3 DEF Match, Want, Maybe
      <4>2. snapshot' \in [task : Maybe, by : Maybe, new : BOOLEAN] /\ snapshot'.task = snapshot'.by
        BY <3>3, <1>0 DEF Match, Want, VisionTypeOK, Labelled
      <4> QED
        BY <2>1, <4>1, <4>2, <1>0 DEF VisionTypeOK, Labelled
    <3> QED
      BY <1>3, <3>1, <3>2, <3>3 DEF OnDetections, LoseDetections
  <2> QED
    BY <2>2, <2>3, <2>4, InvAfter
<1>4. CASE NodeRestarts
  <2>1. /\ active' = None /\ resident' = None /\ requests' = <<>> /\ lost' = nextId
        /\ UNCHANGED <<service, leaf, future, answers, nextId, done, detections, snapshot, wanted>>
    BY <1>4 DEF NodeRestarts
  <2>2. CallTypeOK'
    BY <2>1, <1>0, EmptySeq DEF CallTypeOK
  <2>3. HasLoaded'
    BY <2>1, <1>0, <1>1 DEF HasLoaded, CallInv, SentLast
  <2>4. CallInv'
    BY <2>1, <2>3, <1>0, EmptySeq DEF CallInv, SentLast, LastIsLast, AnswersTrue
  <2>5. VisionTypeOK' /\ Labelled'
    BY <2>1, <1>0 DEF VisionTypeOK, CallTypeOK, Labelled, Maybe
  <2>6. DevicesTypeOK' /\ OneRelease'
    BY <2>1, <1>0, <1>1, DevicesKept
  <2> QED
    BY <2>2, <2>4, <2>5, <2>6, InvAfter
<1> QED
  BY <1>2, <1>3, <1>4 DEF Seeing

\* A step of the board or of a simulated device.
LEMMA ActingStep ==
  ASSUME IInv, Acting
  PROVE  IInv'
<1>0. CallTypeOK /\ VisionTypeOK /\ DevicesTypeOK /\ CallInv /\ OneRelease /\ Labelled
  BY TypeParts DEF IInv
<1>1. nextId \in Nat /\ UNCHANGED vision
  BY <1>0 DEF CallTypeOK, Acting
<1>2. VisionTypeOK' /\ Labelled' /\ UNCHANGED <<active, resident, lost>>
  BY <1>0, <1>1 DEF vision, VisionTypeOK, Labelled
<1>3. CASE Actuate
  <2>1. PICK r \in Request, ok \in BOOLEAN : Takes(r) /\ Responds(r.id, ok)
    BY <1>3 DEF Actuate
  <2>2. UNCHANGED <<service, leaf, future, nextId, devices>> /\ service = "actuate"
    BY <1>3 DEF Actuate
  <2>3. CallTypeOK' /\ CallInv'
    BY <2>1, <2>2, <1>0, <1>2, TakeStep
  <2>4. DevicesTypeOK' /\ OneRelease'
    BY <2>2, <1>0, <1>1, DevicesKept
  <2> QED
    BY <2>3, <2>4, <1>2, InvAfter
<1>4. CASE LaunchCallback
  <2>1. PICK r \in Request :
          /\ Takes(r)
          /\ \/ ~r.open /\ Responds(r.id, TRUE) /\ UNCHANGED releasing
             \/ r.open /\ Responds(r.id, FALSE) /\ UNCHANGED releasing
             \/ /\ r.open /\ ~Spent(r.item)
                /\ releasing' = [releasing EXCEPT ![r.item] = @ \cup {r.id}]
                /\ UNCHANGED <<answers, done>>
    BY <1>4 DEF LaunchCallback
  <2>2. /\ service = "launch"
        /\ UNCHANGED <<service, leaf, future, nextId, launched, launches, released, opened,
                       dropping, inFlight, turned>>
    BY <1>4 DEF LaunchCallback
  <2>3. /\ CallTypeOK' /\ CallInv' /\ r.id \in 1 .. MaxRequests /\ r.id <= nextId /\ r.item \in Items
    <3>1. r.item \in Items
      BY DEF Request
    <3>2. CASE Responds(r.id, TRUE)
      BY <3>1, <3>2, <2>1, <2>2, <1>0, <1>2, TakeStep
    <3>3. CASE Responds(r.id, FALSE) \/ UNCHANGED <<answers, done>>
      BY <3>1, <3>3, <2>1, <2>2, <1>0, <1>2, TakeStep
    <3> QED
      BY <2>1, <3>2, <3>3
  <2>4. DevicesTypeOK' /\ OneRelease'
    <3>1. CASE UNCHANGED releasing
      BY <3>1, <2>2, <1>0, <1>1, DevicesKept DEF devices
    <3>2. CASE ~Spent(r.item) /\ releasing' = [releasing EXCEPT ![r.item] = @ \cup {r.id}]
      <4>1. r.item \notin launched /\ releasing[r.item] = {}
        BY <3>2 DEF Spent
      <4>2. releasing \in [Items -> SUBSET (1 .. MaxRequests)]
        BY <1>0 DEF DevicesTypeOK
      <4>3. releasing'[r.item] = {r.id} /\ \A i \in Items \ {r.item} : releasing'[i] = releasing[i]
        BY <4>1, <4>2, <3>2, <2>3
      <4>4. releasing' \in [Items -> SUBSET (1 .. MaxRequests)]
        BY <4>2, <3>2, <2>3
      <4>5. OneRelease'
        <5> SUFFICES ASSUME NEW i \in Items
                     PROVE  /\ launches'[i] = IF i \in launched' THEN 1 ELSE 0
                            /\ i \in launched' => releasing'[i] = {}
                            /\ \A d, e \in releasing'[i] : d = e
                            /\ \A d \in releasing'[i] : d <= nextId' /\ service' = "launch"
          BY DEF OneRelease
        <5>1. CASE i = r.item
          BY <5>1, <4>1, <4>3, <2>2, <2>3, <1>0 DEF OneRelease
        <5>2. CASE i # r.item
          BY <5>2, <4>3, <2>2, <1>0 DEF OneRelease
        <5> QED
          BY <5>1, <5>2
      <4> QED
        BY <4>4, <4>5, <2>2, <1>0 DEF DevicesTypeOK
    <3> QED
      BY <2>1, <3>1, <3>2
  <2> QED
    BY <2>3, <2>4, <1>2, InvAfter
<1>5. CASE \E i \in Items, id \in 1 .. MaxRequests : GlueAnswers(i, id)
  <2>1. PICK i \in Items, id \in 1 .. MaxRequests : GlueAnswers(i, id)
    BY <1>5
  <2>2. /\ id \in releasing[i]
        /\ releasing' = [releasing EXCEPT ![i] = @ \ {id}]
        /\ UNCHANGED <<service, leaf, future, requests, nextId, released, opened, dropping,
                       inFlight, turned>>
    BY <2>1 DEF GlueAnswers
  <2>3. \/ /\ launched' = launched \cup {i} /\ launches' = [launches EXCEPT ![i] = @ + 1]
           /\ Responds(id, TRUE)
        \/ UNCHANGED <<launched, launches>> /\ Responds(id, FALSE)
    BY <2>1 DEF GlueAnswers
  <2>4. id <= nextId /\ service = "launch" /\ i \notin launched /\ \A d \in releasing[i] : d = id
    BY <2>2, <1>0 DEF OneRelease
  <2>5. CallTypeOK' /\ CallInv'
    BY <2>2, <2>3, <2>4, <1>0, LateStep
  <2>6. /\ releasing \in [Items -> SUBSET (1 .. MaxRequests)] /\ launches \in [Items -> Nat]
        /\ launched \subseteq Items
    BY <1>0 DEF DevicesTypeOK
  <2>7. releasing'[i] = {} /\ \A j \in Items \ {i} : releasing'[j] = releasing[j]
    BY <2>2, <2>4, <2>6
  <2>8. OneRelease'
    <3> SUFFICES ASSUME NEW j \in Items
                 PROVE  /\ launches'[j] = IF j \in launched' THEN 1 ELSE 0
                        /\ j \in launched' => releasing'[j] = {}
                        /\ \A d, e \in releasing'[j] : d = e
                        /\ \A d \in releasing'[j] : d <= nextId' /\ service' = "launch"
      BY DEF OneRelease
    <3>1. launches[j] = IF j \in launched THEN 1 ELSE 0
      BY <1>0 DEF OneRelease
    <3>2. launches'[j] = IF j \in launched' THEN 1 ELSE 0
      <4>1. CASE launched' = launched \cup {i} /\ launches' = [launches EXCEPT ![i] = @ + 1]
        <5>1. launches'[i] = launches[i] + 1 /\ (j # i => launches'[j] = launches[j])
          BY <4>1, <2>6
        <5> QED
          BY <5>1, <4>1, <3>1, <2>4
      <4>2. CASE UNCHANGED <<launched, launches>>
        BY <4>2, <3>1
      <4> QED
        BY <4>1, <4>2, <2>3
    <3>3. CASE j = i
      BY <3>2, <3>3, <2>7
    <3>4. CASE j # i
      <4>1. releasing'[j] = releasing[j]
        BY <3>4, <2>7
      <4>2. j \in launched' => j \in launched
        BY <3>4, <2>3
      <4>3. nextId' = nextId /\ service' = service
        BY <2>2
      <4> QED
        BY <3>2, <4>1, <4>2, <4>3, <1>0 DEF OneRelease
    <3> QED
      BY <3>3, <3>4
  <2>9. DevicesTypeOK'
    <3>1. releasing' \in [Items -> SUBSET (1 .. MaxRequests)]
      BY <2>2, <2>6
    <3>2. launches' \in [Items -> Nat] /\ launched' \subseteq Items
      <4>1. launches[i] \in Nat
        BY <2>6
      <4>2. launches[i] + 1 \in Nat
        BY <4>1
      <4> QED
        BY <4>2, <2>3, <2>6
    <3> QED
      BY <3>1, <3>2, <2>2, <1>0 DEF DevicesTypeOK
  <2> QED
    BY <2>5, <2>8, <2>9, <1>2, InvAfter
<1>6. CASE SetDropperCallback
  <2>1. PICK r \in Request :
          /\ Takes(r)
          /\ \/ dropping' = r.item /\ opened' = opened \cup {r.item} /\ Responds(r.id, TRUE)
             \/ Responds(r.id, FALSE) /\ UNCHANGED <<opened, dropping>>
             \/ dropping' = None /\ opened' = {} /\ Responds(r.id, TRUE)
    BY <1>6 DEF SetDropperCallback
  <2>2. /\ service = "drop"
        /\ UNCHANGED <<service, leaf, future, nextId, launched, releasing, launches, released, inFlight,
                       turned>>
    BY <1>6 DEF SetDropperCallback
  <2>3. CallTypeOK' /\ CallInv'
    <3>1. CASE Responds(r.id, TRUE)
      BY <3>1, <2>1, <2>2, <1>0, <1>2, TakeStep
    <3>2. CASE Responds(r.id, FALSE)
      BY <3>2, <2>1, <2>2, <1>0, <1>2, TakeStep
    <3> QED
      BY <2>1, <3>1, <3>2
  <2>4. r.item \in Items
    BY DEF Request
  <2>5. DevicesTypeOK'
    BY <2>1, <2>2, <2>4, <1>0 DEF DevicesTypeOK, Maybe
  <2>6. OneRelease'
    BY <2>2, <1>0 DEF OneRelease
  <2> QED
    BY <2>3, <2>5, <2>6, <1>2, InvAfter
<1>7. CASE Turn \/ JointStateCallback \/ BallLetGo \/ BallStuck
  <2>1. UNCHANGED <<call, launched, releasing, launches, opened>>
    BY <1>7 DEF Turn, JointStateCallback, BallLetGo, BallStuck
  <2>2. CallTypeOK' /\ CallInv'
    BY <2>1, <1>0, <1>2 DEF call, CallTypeOK, CallInv, SentLast, LastIsLast, AnswersTrue, HasLoaded
  <2>3. released' \subseteq Items /\ dropping' \in Maybe /\ inFlight' \in Maybe /\ turned' \in BOOLEAN
    BY <1>7, <1>0 DEF Turn, JointStateCallback, BallLetGo, BallStuck, DevicesTypeOK, Maybe
  <2>4. DevicesTypeOK' /\ OneRelease'
    BY <2>1, <2>3, <1>0 DEF DevicesTypeOK, OneRelease, call
  <2> QED
    BY <2>2, <2>4, <1>2, InvAfter
<1> QED
  BY <1>3, <1>4, <1>5, <1>6, <1>7 DEF Acting

LEMMA StutterStep ==
  ASSUME IInv, UNCHANGED vars
  PROVE  IInv'
<1>1. TypeOK'
  BY DEF IInv, TypeOK, vars, call, vision, devices
<1>2. CallInv'
  BY DEF IInv, vars, call, vision, CallInv, SentLast, LastIsLast, AnswersTrue, HasLoaded
<1>3. OneRelease' /\ Labelled'
  BY DEF IInv, vars, call, vision, devices, OneRelease, Labelled
<1> QED
  BY <1>1, <1>2, <1>3 DEF IInv

LEMMA Invariant == Spec => []IInv
<1>1. IInv /\ [Next]_vars => IInv'
  BY MissionStep, SeeingStep, ActingStep, StutterStep DEF Next
<1> QED
  BY <1>1, InitInv, PTL DEF Spec

-----------------------------------------------------------------------------
\* Every reachable state is typed.
THEOREM TypeCorrect == Spec => []TypeOK
<1>1. IInv => TypeOK
  BY DEF IInv
<1> QED
  BY <1>1, Invariant, PTL

\* A leaf succeeds only on the answer to its own activation's request, for any
\* number of requests given up before (LoadModelAction::poll, ShootTorpedoAction).
THEOREM OwnAnswer == Spec => []SucceedsWhenDone
<1>1. IInv => SucceedsWhenDone
  <2> SUFFICES ASSUME IInv PROVE SucceedsWhenDone
    OBVIOUS
  <2>1. leaf.sent \in Nat /\ leaf.since \in Nat
    BY DEF IInv, TypeOK
  <2> QED
    BY <2>1 DEF IInv, CallInv, SentLast, AnswersTrue, SucceedsWhenDone
<1> QED
  BY <1>1, Invariant, PTL

\* After a successful LoadModel its model is the active one, whatever loads were
\* asked for and given up before, until the node is started again
\* (ModelManager.load).
THEOREM ModelLoaded == Spec => []LoadedIsActive
<1>1. IInv => LoadedIsActive
  BY DEF IInv, CallInv, AnswersTrue, HasLoaded, LoadedIsActive
<1> QED
  BY <1>1, Invariant, PTL

\* No torpedo is pushed twice (SimTorpedoLauncher::launch_callback).
THEOREM NoSecondPush == Spec => []PushedOnce
<1>1. IInv => PushedOnce
  BY DEF IInv, OneRelease, PushedOnce
<1> QED
  BY <1>1, Invariant, PTL

\* A waiting leaf takes only detections its task's model made (visionTaskMatches).
THEOREM OwnDetections == Spec => DetectsOwn
<1>1. IInv => [Match => snapshot.by = wanted]_vars
  BY DEF IInv, Labelled, Match, TaskMatches
<1> QED
  BY <1>1, Invariant, PTL DEF DetectsOwn

-----------------------------------------------------------------------------
(* The time of a call. *)

LEMMA PollRunsOut ==
  ASSUME leaf \in Leaf, nextId \in 0 .. MaxRequests, Running, Poll(leaf), Running'
  PROVE  /\ leaf'.left = leaf.left
         /\ leaf.sent # 0 => leaf'.sent = leaf.sent
         /\ leaf.left = 0 => leaf.sent = 0 /\ leaf'.sent # 0
<1>1. CASE SendRequest(leaf)
  <2>1. leaf.sent = 0 /\ nextId' = nextId + 1
    BY <1>1 DEF SendRequest
  <2>2. leaf' = Ends(Dropped(leaf), "failure") \/ leaf' = [leaf EXCEPT !.sent = nextId']
    BY <1>1 DEF SendRequest
  <2>3. leaf' # Ends(Dropped(leaf), "failure")
    BY DroppedLeaf, EndsLeaf DEF Running
  <2> QED
    BY <2>1, <2>2, <2>3 DEF Leaf
<1>2. CASE AwaitService(leaf)
  BY <1>2, EndsLeaf DEF AwaitService, Running
<1>3. CASE leaf.sent # 0 /\ AwaitAnswer(leaf)
  <2>1. \/ leaf' = Ends(leaf, "success") \/ leaf' = Ends(leaf, "failure")
        \/ leaf.left > 0 /\ leaf' = leaf
        \/ leaf' = Ends(Dropped(leaf), "failure")
    BY <1>3 DEF AwaitAnswer
  <2> QED
    BY <2>1, <1>3, DroppedLeaf, EndsLeaf DEF Running
<1> QED
  BY <1>1, <1>2, <1>3 DEF Poll

\* No leaf that calls a service outlasts its deadline by more than the one poll
\* that finds the service at last, and nothing renews the deadline.
THEOREM RunsOutOfTime == Spec => TimeRunsOut
<1>1. ASSUME TypeOK, Next, Running, Running'
      PROVE  /\ leaf'.left <= leaf.left
             /\ leaf.sent # 0 => leaf'.sent = leaf.sent
             /\ Tick /\ leaf.left = 0 => leaf.sent = 0 /\ leaf'.sent # 0
  <2>1. leaf \in Leaf /\ nextId \in 0 .. MaxRequests /\ leaf.left \in 0 .. Deadline
    BY <1>1 DEF TypeOK, Leaf
  <2>2. CASE Tick
    BY <1>1, <2>1, <2>2, PollRunsOut DEF Tick
  <2>3. CASE ~Tick /\ leaf' = leaf
    BY <2>1, <2>3
  <2>4. CASE Time /\ ~Tick
    BY <2>1, <2>4 DEF Time, Leaf
  <2>5. CASE Halt \/ \E item \in Items, open \in BOOLEAN : Start(item, open)
    <3>1. Dropped(leaf) \in Leaf
      BY <2>1, DroppedLeaf
    <3> QED
      BY <1>1, <2>1, <2>5, <3>1, EndsLeaf DEF Halt, Start, Running
  <2>6. Mission => Tick \/ Halt \/ \E item \in Items, open \in BOOLEAN : Start(item, open)
    BY DEF Mission
  <2>7. Seeing \/ Acting \/ Receiving \/ Respawn => leaf' = leaf
    <3>1. Seeing => leaf' = leaf
      BY DEF Seeing, OnLoadModel, NodeRestarts, ProcessFrame, OnDetections, LoseDetections, Match,
         Want, call
    <3>2. Acting => leaf' = leaf
      <4>1. Actuate \/ LaunchCallback \/ SetDropperCallback => leaf' = leaf
        BY DEF Actuate, LaunchCallback, SetDropperCallback
      <4>2. ASSUME NEW i \in Items, NEW id \in 1 .. MaxRequests, GlueAnswers(i, id)
            PROVE  leaf' = leaf
        BY <4>2 DEF GlueAnswers
      <4>3. Turn \/ JointStateCallback \/ BallLetGo \/ BallStuck => leaf' = leaf
        BY DEF Turn, JointStateCallback, BallLetGo, BallStuck, call
      <4> QED
        BY <4>1, <4>2, <4>3 DEF Acting
    <3>3. Receiving \/ Respawn => leaf' = leaf
      BY DEF Receiving, Receive, Respawn, LoseRequests
    <3> QED
      BY <3>1, <3>2, <3>3
  <2> QED
    BY <1>1, <2>2, <2>3, <2>4, <2>5, <2>6, <2>7 DEF Next, Passing
<1> QED
  BY <1>1, TypeCorrect, PTL DEF Spec, TimeRunsOut
=============================================================================
