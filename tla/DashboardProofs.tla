-------------------------- MODULE DashboardProofs --------------------------
(***************************************************************************)
(* What TLAPS proves of Dashboard, with any set of slices: any number of   *)
(* views, changes, clicks, sign-ins, flights and failures.                 *)
(*                                                                         *)
(* PageInv is the inductive invariant, in eight parts: what may be under   *)
(* way to the page (FlightInv), the bounds of the slice (CountInv), the    *)
(* panel of a job (DetailInv), the page's own state (UiInv), the           *)
(* announcements of the server (ServerInv), the traffic of the sockets     *)
(* (WireInv), their state (LiveInv) and what the views show (ShownInv).    *)
(* The parts lean on one another: what a view shows is what a flight or a  *)
(* frame brought, and a frame brings what the server had recorded.         *)
(***************************************************************************)
EXTENDS Dashboard, FiniteSetTheorems, SequenceTheorems, TLAPS

USE DashboardAssumption
USE DEF server, sockets, bounds

---------------------------------------------------------------------------
(* The flights: what a response may bring, by what was asked for.          *)

OneOf(X, S) == X = {} \/ \E x \in S : X = {x}

Sound(f) ==
  /\ f = [what |-> f.what, id |-> f.id, key |-> f.key, state |-> f.state, rows |-> f.rows,
          follow |-> f.follow]
  /\ f.state \in {"sent", "partly", "answered"}
  /\ f.what = "details" => /\ f.key \subseteq Jobs
                           /\ f.state = "answered" /\ failures = 0 => f.rows = Parts
  /\ f.what = "projects" => OneOf(f.key, made) /\ f.rows \subseteq {0} \cup made
  /\ f.what = "create_project" => OneOf(f.rows, made)
  /\ f.what = "submit" => f.key \in {{"jobs"}, {"batches"}}
  /\ f.what = "events" => f.rows \subseteq recorded

Deep(f) == Sound(f) /\ \A g \in f.follow : Sound(g) /\ g.follow = {}

FlightInv == \A f \in flights : Deep(f)

\* What is sound stays so while the tables grow.
LEMMA StaysDeep ==
  ASSUME made \subseteq made', recorded \subseteq recorded', failures' = 0 => failures = 0,
         NEW f, Deep(f)
  PROVE  Deep(f)'
<1>1. ASSUME NEW g, Sound(g) PROVE Sound(g)'
  BY <1>1 DEF Sound, OneOf
<1>2. QED
  BY <1>1 DEF Deep

LEMMA GetDeep ==
  ASSUME NEW v \in Views, NEW key, v = "details" => key \subseteq Jobs,
         v = "projects" => OneOf(key, made)
  PROVE  Deep(Get(v, key)) /\ Get(v, key).follow = {} /\ Sound(Get(v, key)) /\ Get(v, key).what = v
  BY DEF Deep, Sound, Get, Views

LEMMA PostDeep ==
  ASSUME NEW op \in Operations, NEW key, op = "submit" => key \in {{"jobs"}, {"batches"}},
         NEW gets, \A g \in gets : Sound(g) /\ g.follow = {}
  PROVE  Deep(Post(op, key, gets)) /\ Sound(Post(op, key, gets)) /\ Post(op, key, gets).what = op
         /\ Post(op, key, gets).follow \subseteq gets
  BY DEF Deep, Sound, Post, Operations, OneOf

LEMMA EffectsDeep ==
  ASSUME NEW u, NEW s, NEW changed
  PROVE  \A f \in Effects(u, s, changed) : Deep(f)
<1>1. \A v \in PolledViews : v \in Views /\ v \notin {"details", "projects"}
  BY DEF PolledViews, Views
<1>2. QED
  BY <1>1, GetDeep DEF Effects

LEMMA PendingDeep ==
  ASSUME NEW u, NEW fs, \A f \in fs : Deep(f)
  PROVE  \A f \in Pending(u, fs) : Deep(f)
<1>1. ASSUME NEW f \in fs
      PROVE  Deep([f EXCEPT !.follow = {g \in @ : g.what # "batches"}])
  BY DEF Deep, Sound
<1>2. QED
  BY <1>1 DEF Pending

LEMMA PageFlights ==
  ASSUME FlightInv, NEW u, NEW s, NEW changed, NEW landed, NEW started,
         \A f \in started : Deep(f), Page(u, s, changed, landed, started),
         made \subseteq made', recorded \subseteq recorded', failures' = 0 => failures = 0
  PROVE  FlightInv'
<1>1. \A f \in flights \ landed : Deep(f)
  BY DEF FlightInv
<1>2. \A f \in Pending(u, flights \ landed) : Deep(f)
  BY <1>1, PendingDeep
<1>3. \A f \in flights' : Deep(f)
  BY <1>2, EffectsDeep DEF Page
<1>4. QED
  BY <1>3, StaysDeep DEF FlightInv

LEMMA FewerFlights ==
  ASSUME FlightInv, flights' \subseteq flights,
         made \subseteq made', recorded \subseteq recorded', failures' = 0 => failures = 0
  PROVE  FlightInv'
<1>1. \A f \in flights' : Deep(f)
  BY DEF FlightInv
<1>2. QED
  BY <1>1, StaysDeep DEF FlightInv

\* A response takes the place of its request.
LEMMA AnsweredFlights ==
  ASSUME FlightInv, NEW f \in flights, NEW state \in {"partly", "answered"}, NEW rows,
         Replaced(f, [f EXCEPT !.state = state, !.rows = rows]),
         f.what = "details" => (state = "answered" /\ failures' = 0 => rows = Parts),
         f.what = "projects" => rows \subseteq {0} \cup made',
         f.what = "create_project" => OneOf(rows, made'),
         f.what = "events" => rows \subseteq recorded',
         made \subseteq made', recorded \subseteq recorded', failures' = 0 => failures = 0
  PROVE  FlightInv'
<1> DEFINE g == [f EXCEPT !.state = state, !.rows = rows]
<1>1. \A e \in flights : Deep(e)'
  BY StaysDeep DEF FlightInv
<1>2. Sound(f)' /\ \A e \in f.follow : Sound(e)' /\ e.follow = {}
  BY <1>1 DEF Deep
<1>3. f = [what |-> f.what, id |-> f.id, key |-> f.key, state |-> f.state, rows |-> f.rows,
           follow |-> f.follow]
  BY <1>2 DEF Sound
<1>4. g = [what |-> f.what, id |-> f.id, key |-> f.key, state |-> state, rows |-> rows,
           follow |-> f.follow]
  <2>1. PICK w, i, k, st, ro, fo :
          f = [what |-> w, id |-> i, key |-> k, state |-> st, rows |-> ro, follow |-> fo]
    BY <1>3
  <2>2. PICK h : h = [f EXCEPT !.state = state]
    OBVIOUS
  <2>3. h = [what |-> w, id |-> i, key |-> k, state |-> state, rows |-> ro, follow |-> fo]
    BY <2>1, <2>2
  <2>4. [h EXCEPT !.rows = rows] =
          [what |-> w, id |-> i, key |-> k, state |-> state, rows |-> rows, follow |-> fo]
    BY <2>3
  <2>5. g = [h EXCEPT !.rows = rows]
    BY <2>2
  <2>6. f.what = w /\ f.id = i /\ f.key = k /\ f.follow = fo
    BY <2>1
  <2>7. QED
    BY <2>4, <2>5, <2>6
<1> HIDE DEF g
<1>5. Sound(g)'
  BY <1>2, <1>4 DEF Sound, OneOf
<1>6. Deep(g)'
  BY <1>2, <1>4, <1>5 DEF Deep
<1>7. flights' = (flights \ {f}) \cup {g}
  BY DEF Replaced, g
<1>8. QED
  BY <1>1, <1>6, <1>7 DEF FlightInv

CountInv ==
  /\ watch \in Slices
  /\ logins \in 0 .. watch.logins /\ clicks \in 0 .. watch.clicks
  /\ failures \in 0 .. watch.failures

LEMMA SliceTypes ==
  ASSUME CountInv
  PROVE  /\ watch.views \subseteq Views /\ watch.changes \in 0 .. MaxChanges
         /\ watch.logins \in 0 .. MaxLogins /\ watch.clicks \in Nat /\ watch.failures \in Nat
         /\ logins \in Nat /\ logins <= MaxLogins /\ clicks \in Nat /\ failures \in Nat
<1>1. watch \in [views : SUBSET Views, changes : 0 .. MaxChanges, clicks : Nat,
                 logins : 0 .. MaxLogins, failures : Nat]
  BY DEF CountInv
<1>2. /\ watch.views \subseteq Views /\ watch.changes \in 0 .. MaxChanges
      /\ watch.logins \in 0 .. MaxLogins /\ watch.clicks \in Nat /\ watch.failures \in Nat
  BY <1>1
<1>3. QED
  BY <1>2 DEF CountInv

LEMMA UseFlights ==
  ASSUME FlightInv, Use
  PROVE  FlightInv' /\ UNCHANGED <<watch, server, sockets, logins, failures>>
<1>1. CASE \E j \in Jobs : OpenDetails(j)
  <2>1. PICK j \in Jobs : Page(ui, shown, {}, {}, {Get("details", {j})})
    BY <1>1 DEF OpenDetails
  <2>2. Deep(Get("details", {j}))
    BY <2>1, GetDeep DEF Views
  <2>3. UNCHANGED <<watch, server, sockets, logins, failures>>
    BY <1>1 DEF OpenDetails
  <2>4. PICK started : started = {Get("details", {j})} /\ Page(ui, shown, {}, {}, started)
    BY <2>1
  <2>5. \A f \in started : Deep(f)
    BY <2>2, <2>4
  <2>6. FlightInv'
    BY <2>3, <2>4, <2>5, PageFlights
  <2>7. QED
    BY <2>3, <2>6
<1>2. ASSUME NEW op \in Operations, NEW key, NEW gets, Sends(op, key, gets),
             op = "submit" => key \in {{"jobs"}, {"batches"}},
             \A g \in gets : Sound(g) /\ g.follow = {}
      PROVE  FlightInv' /\ UNCHANGED <<watch, server, sockets, logins, failures>>
  <2>1. Deep(Post(op, key, gets))
    BY <1>2, PostDeep
  <2>2. QED
    BY <1>2, <2>1, PageFlights DEF Sends
<1>3. CASE \E j \in Jobs : RetryJob(j)
  <2>1. PICK j, gets : /\ j \in Jobs
                       /\ gets = {Get("jobs", {ui.filter}), Get("details", {j})}
                       /\ Sends("retry", {}, gets)
    BY <1>3 DEF RetryJob
  <2>2. \A g \in gets : Sound(g) /\ g.follow = {}
    BY <2>1, GetDeep DEF Views
  <2>3. QED
    BY <1>2, <2>1, <2>2 DEF Operations
<1>4. CASE ReplayDlq \/ CancelBatch
  <2>1. \A v \in {"dlq", "batches"} : Sound(Get(v, {})) /\ Get(v, {}).follow = {}
    BY GetDeep DEF Views
  <2>2. Sends("replay", {}, {Get("dlq", {})}) \/ Sends("cancel", {}, {Get("batches", {})})
    BY <1>4 DEF ReplayDlq, CancelBatch
  <2>3. QED
    BY <1>2, <2>1, <2>2 DEF Operations
<1>5. CASE \E op \in {"update_queue", "create_queue"} : ChangeQueue(op)
  <2>1. PICK op \in {"update_queue", "create_queue"} : Sends(op, {}, {Get("queues", ui.project)})
    BY <1>5 DEF ChangeQueue
  <2>2. Sound(Get("queues", ui.project)) /\ Get("queues", ui.project).follow = {}
    BY GetDeep DEF Views
  <2>3. QED
    BY <1>2, <2>1, <2>2 DEF Operations
<1>6. CASE CreateProject
  BY <1>2, <1>6 DEF CreateProject, Operations
<1>7. CASE \E t \in {"jobs", "batches"} : SubmitJob(t)
  <2>1. PICK key, gets : /\ key \in {{"jobs"}, {"batches"}}
                         /\ gets = {Get("jobs", {ui.filter})} /\ Sends("submit", key, gets)
    BY <1>7 DEF SubmitJob
  <2>2. \A g \in gets : Sound(g) /\ g.follow = {}
    BY <2>1, GetDeep DEF Views
  <2>3. "submit" \in Operations
    BY DEF Operations
  <2>4. QED
    BY <1>2, <2>1, <2>2, <2>3
<1>8. CASE \E first \in {"parent", "burst"} : RunScenario(first)
  <2>1. PICK first \in {"parent", "burst"} :
          Page(ui, shown, {}, {}, {[Post(first, {}, {}) EXCEPT !.follow = {Post("last", {}, {})}]})
    BY <1>8 DEF RunScenario
  <2>2. Sound(Post("last", {}, {})) /\ Post("last", {}, {}).follow = {}
    BY PostDeep DEF Operations
  <2>3. Sound(Post(first, {}, {})) /\ Post(first, {}, {}).what = first
    BY <2>1, PostDeep DEF Operations
  <2>4. Deep([Post(first, {}, {}) EXCEPT !.follow = {Post("last", {}, {})}])
    <3> DEFINE f == Post(first, {}, {})
               g == Post("last", {}, {})
    <3>1. Sound(f) /\ f.what \in {"parent", "burst"} /\ Sound(g) /\ g.follow = {}
      BY <2>1, <2>2, <2>3
    <3> HIDE DEF f, g
    <3>2. Deep([f EXCEPT !.follow = {g}])
      BY <3>1 DEF Deep, Sound
    <3>3. QED
      BY <3>2 DEF f, g
  <2>5. PICK started : /\ Page(ui, shown, {}, {}, started)
                       /\ started = {[Post(first, {}, {}) EXCEPT !.follow = {Post("last", {}, {})}]}
    BY <2>1
  <2>6. \A f \in started : Deep(f)
    BY <2>4, <2>5
  <2>7. UNCHANGED <<watch, server, sockets, logins, failures>>
    BY <1>8 DEF RunScenario
  <2>8. QED
    BY <2>5, <2>6, <2>7, PageFlights
<1>9. CASE CloseDetails
  BY <1>9, FewerFlights DEF CloseDetails
<1>10. CASE \/ \E t \in TabsHere : SelectTab(t)
            \/ \E f \in Filters : SelectFilter(f)
            \/ \E p \in {0} \cup made : SelectProject(p)
  <2>1. UNCHANGED <<watch, server, sockets, logins, failures>>
    BY <1>10 DEF SelectTab, SelectFilter, SelectProject
  <2>2. \E u, changed : Page(u, shown, changed, {}, {})
    BY <1>10 DEF SelectTab, SelectFilter, SelectProject
  <2>3. QED
    BY <2>1, <2>2, PageFlights
<1>11. QED
  BY <1>1, <1>3, <1>4, <1>5, <1>6, <1>7, <1>8, <1>9, <1>10 DEF Use

LEMMA SessionFlights ==
  ASSUME FlightInv, Session
  PROVE  FlightInv' /\ UNCHANGED <<watch, server, clicks, failures>>
<1>1. CASE SignIn
  <2>1. Deep(Get("projects", {})) /\ Deep(Get("events", {}))
    BY GetDeep DEF Views, OneOf
  <2>2. \E u : Page(u, shown, {"token"}, {}, {Get("projects", {}), Get("events", {})})
    BY <1>1 DEF SignIn
  <2>3. QED
    BY <1>1, <2>1, <2>2, PageFlights DEF SignIn
<1>2. CASE SignOut \/ Tick
  <2>1. \E u, changed : Page(u, shown, changed, {}, {})
    BY <1>2 DEF SignOut, Tick
  <2>2. QED
    BY <1>2, <2>1, PageFlights DEF SignOut, Tick
<1>3. QED
  BY <1>1, <1>2 DEF Session

LEMMA AnswerFlights ==
  ASSUME FlightInv, CountInv, NEW f \in flights,
         \/ AnswerGet(f) \/ Accept(f) \/ Refuse(f)
         \/ \E parts \in SUBSET Parts : AnswerDetails(f, parts)
  PROVE  FlightInv' /\ UNCHANGED <<watch, recorded, sockets, ui, logins, shown, details, clicks>>
<1>1. Sound(f) /\ failures \in Nat
  BY SliceTypes DEF FlightInv, Deep
<1>2. UNCHANGED <<watch, recorded, sockets, ui, logins, shown, details, clicks>>
  BY DEF AnswerGet, AnswerDetails, Accept, Refuse
<1>3. CASE AnswerGet(f)
  <2>1. UNCHANGED <<made, recorded, failures>> /\ f.what # "details" /\ f.what # "create_project"
    BY <1>3 DEF AnswerGet, Views
  <2>2. PICK rows : /\ rows = IF f.state = "sent" THEN Snapshot(f.what) ELSE f.rows
                    /\ \E state \in {"partly", "answered"} :
                         Replaced(f, [f EXCEPT !.state = state, !.rows = rows])
    BY <1>3 DEF AnswerGet
  <2>3. PICK state \in {"partly", "answered"} :
          Replaced(f, [f EXCEPT !.state = state, !.rows = rows])
    BY <2>2
  <2>4. f.what = "projects" => rows \subseteq {0} \cup made
    BY <1>1, <2>2 DEF Sound, Snapshot
  <2>5. f.what = "events" => rows \subseteq recorded
    BY <1>1, <2>2 DEF Sound, Snapshot
  <2>6. FlightInv'
    BY <2>1, <2>3, <2>4, <2>5, AnsweredFlights
  <2>7. QED
    BY <1>2, <2>6
<1>4. ASSUME NEW parts \in SUBSET Parts, AnswerDetails(f, parts)
      PROVE  FlightInv'
  <2>1. UNCHANGED <<made, recorded>> /\ f.what = "details"
        /\ Replaced(f, [f EXCEPT !.state = "answered", !.rows = parts])
    BY <1>4 DEF AnswerDetails
  <2>2. failures' = 0 => failures = 0 /\ parts = Parts
    <3>1. CASE parts = Parts
      <4>1. failures' = failures + 0
        BY <1>4, <3>1 DEF AnswerDetails
      <4>2. failures' = failures
        BY <1>1, <4>1
      <4>3. QED
        BY <3>1, <4>2
    <3>2. CASE parts # Parts
      <4>1. failures' = failures + 1
        BY <1>4, <3>2 DEF AnswerDetails
      <4>2. QED
        BY <1>1, <4>1
    <3>3. QED
      BY <3>1, <3>2
  <2>3. QED
    BY <2>1, <2>2, AnsweredFlights
<1>5. CASE Accept(f)
  <2>1. /\ UNCHANGED <<recorded, failures>> /\ made \subseteq made' /\ f.what \in Operations
        /\ f.what = "create_project" => NextChange \in made'
    BY <1>5 DEF Accept
  <2>2. PICK rows : rows = {NextChange} /\ Replaced(f, [f EXCEPT !.state = "answered", !.rows = rows])
    BY <1>5 DEF Accept
  <2>3. /\ f.what = "create_project" => OneOf(rows, made')
        /\ f.what \notin {"details", "projects", "events"}
    BY <2>1, <2>2 DEF OneOf, Operations
  <2>4. QED
    <3>1. FlightInv'
      BY <2>1, <2>2, <2>3, AnsweredFlights
    <3>2. QED
      BY <1>2, <3>1
<1>6. CASE Refuse(f)
  <2>1. /\ UNCHANGED <<made, recorded, failures>> /\ f.what \in Operations
        /\ Replaced(f, [f EXCEPT !.state = "answered"])
    BY <1>6 DEF Refuse
  <2>2. [f EXCEPT !.state = "answered"] = [f EXCEPT !.state = "answered", !.rows = f.rows]
    BY <1>1 DEF Sound
  <2>3. /\ f.what = "create_project" => OneOf(f.rows, made)
        /\ f.what \notin {"details", "projects", "events"}
    BY <1>1, <2>1 DEF Sound, Operations
  <2>4. PICK rows : rows = f.rows /\ Replaced(f, [f EXCEPT !.state = "answered", !.rows = rows])
    BY <2>1, <2>2
  <2>5. FlightInv'
    BY <2>1, <2>3, <2>4, AnsweredFlights
  <2>6. QED
    BY <1>2, <2>5
<1>7. QED
  BY <1>2, <1>3, <1>4, <1>5, <1>6

LEMMA ReceiveFlights ==
  ASSUME FlightInv, NEW f \in flights, Receive(f)
  PROVE  FlightInv' /\ UNCHANGED <<watch, server, sockets, logins, bounds>>
<1>1. UNCHANGED <<watch, server, sockets, logins, bounds>>
  BY DEF Receive, ReceiveList, ReceiveProjects, ReceiveDetails, ReceiveAck, ReceiveProject,
     ReceiveSubmitted, ReceiveRefusal, ReceiveScenario
<1>2. Deep(f)
  BY DEF FlightInv
<1>3. f.what = "create_project" => Deep(Get("projects", f.rows))
  BY <1>2, GetDeep DEF Deep, Sound, Views
<1>4. \A g \in f.follow : Deep(g)
  BY <1>2 DEF Deep
<1>5. \E u, s, changed, started :
        /\ started = {} \/ started = f.follow
           \/ (f.what = "create_project" /\ started = {Get("projects", f.rows)})
        /\ Page(u, s, changed, {f}, started)
  <2>1. CASE ReceiveScenario(f)
    BY <2>1 DEF ReceiveScenario
  <2>2. CASE \E p \in f.rows : ReceiveProjects(f, p)
    BY <2>2 DEF ReceiveProjects
  <2>3. CASE ReceiveSubmitted(f)
    BY <2>3 DEF ReceiveSubmitted
  <2>4. QED
    BY <2>1, <2>2, <2>3 DEF Receive, ReceiveList, ReceiveDetails, ReceiveAck, ReceiveProject,
       ReceiveRefusal
<1>6. QED
  BY <1>1, <1>3, <1>4, <1>5, PageFlights

LEMMA FaultFlights ==
  ASSUME FlightInv, CountInv, Faults
  PROVE  FlightInv'
<1>1. CASE \E f \in flights : Lost(f)
  <2>1. failures' # 0 /\ UNCHANGED <<made, recorded>> /\ flights' \subseteq flights
    BY <1>1, SliceTypes DEF Lost
  <2>2. QED
    BY <2>1, FewerFlights
<1>2. CASE \E f \in flights : WithoutData(f)
  <2>1. PICK f \in flights : WithoutData(f)
    BY <1>2
  <2>2. Deep(f) /\ failures' = failures + 1 /\ failures \in Nat /\ UNCHANGED <<made, recorded>>
    BY <2>1, SliceTypes DEF WithoutData, FlightInv
  <2>3. failures' # 0
    BY <2>2
  <2>4. CASE f.what = "stats" /\ Replaced(f, [f EXCEPT !.state = "answered", !.rows = {}])
    BY <2>1, <2>2, <2>3, <2>4, AnsweredFlights
  <2>5. CASE \E u, changed : Page(u, shown, changed, {f}, {})
    BY <2>2, <2>3, <2>5, PageFlights
  <2>6. QED
    BY <2>1, <2>4, <2>5 DEF WithoutData
<1>3. CASE \E f \in flights : \E parts \in (SUBSET Parts) \ {Parts} : AnswerDetails(f, parts)
  BY <1>3, AnswerFlights
<1>4. CASE \/ \E s \in Sessions : \E n \in 0 .. Len(wire[s]) : SocketLost(s, n)
           \/ \E e \in publishing : PublisherDies(e)
  <2>1. failures' # 0 /\ UNCHANGED <<made, recorded, flights>>
    BY <1>4, SliceTypes DEF SocketLost, PublisherDies
  <2>2. QED
    BY <2>1, FewerFlights
<1>5. QED
  BY <1>1, <1>2, <1>3, <1>4 DEF Faults

LEMMA OtherFlights ==
  ASSUME FlightInv,
         \/ \E by \in {"api", "worker"} : ElsewhereChange(by)
         \/ \E e \in publishing : PublishEvent(e)
         \/ \E s \in Sessions : Upgrade(s) \/ OnSocket(s)
         \/ UNCHANGED vars
  PROVE  FlightInv'
<1>1. made' = made /\ recorded \subseteq recorded' /\ failures' = failures
  BY DEF ElsewhereChange, PublishEvent, Upgrade, OnSocket, OnOpen, OnMessage, OnClose, vars
<1>2. CASE \E s \in Sessions : OnMessage(s)
  <2>1. \E s : Page(ui, s, {"refresh"}, {}, {})
    BY <1>2 DEF OnMessage
  <2>2. QED
    BY <1>1, <2>1, PageFlights
<1>3. CASE flights' = flights
  BY <1>1, <1>3, FewerFlights
<1>4. QED
  BY <1>2, <1>3 DEF ElsewhereChange, PublishEvent, Upgrade, OnSocket, OnOpen, OnClose, vars

LEMMA NextFlights ==
  ASSUME FlightInv, CountInv, [Next]_vars
  PROVE  FlightInv'
<1>1. \A f \in flights : Answer(f) => \E parts \in SUBSET Parts :
          AnswerGet(f) \/ AnswerDetails(f, parts) \/ Accept(f) \/ Refuse(f)
  BY DEF Answer
<1>2. \A f \in flights : Answer(f) => FlightInv'
  BY <1>1, AnswerFlights
<1>3. QED
  BY <1>2, SessionFlights, UseFlights, FaultFlights, ReceiveFlights, OtherFlights DEF Next

---------------------------------------------------------------------------
(* The bounds, and the panel of a job.                                     *)

DetailInv == details \in [Parts -> SUBSET Jobs] /\ DetailsAgree

LEMMA AnswerCounts ==
  ASSUME CountInv, NEW f, NEW parts,
         AnswerGet(f) \/ AnswerDetails(f, parts) \/ Accept(f) \/ Refuse(f)
  PROVE  CountInv'
<1>1. CASE AnswerDetails(f, parts)
  <2>1. UNCHANGED <<watch, logins, clicks>>
    BY <1>1 DEF AnswerDetails
  <2>2. PICK d \in {0, 1} : failures' = failures + d /\ failures + d <= watch.failures
    BY <1>1 DEF AnswerDetails
  <2>3. failures' \in 0 .. watch.failures
    BY <2>2, SliceTypes
  <2>4. QED
    BY <2>1, <2>3 DEF CountInv
<1>2. CASE AnswerGet(f) \/ Accept(f) \/ Refuse(f)
  BY <1>2 DEF AnswerGet, Accept, Refuse, CountInv
<1>3. QED
  BY <1>1, <1>2

LEMMA NextCounts ==
  ASSUME CountInv, [Next]_vars
  PROVE  CountInv'
<1>1. logins \in Nat /\ clicks \in Nat /\ failures \in Nat /\ watch.logins \in Nat
      /\ watch.clicks \in Nat /\ watch.failures \in Nat
  BY SliceTypes
<1>2. CASE \E f \in flights : \E parts \in SUBSET Parts :
             AnswerGet(f) \/ AnswerDetails(f, parts) \/ Accept(f) \/ Refuse(f)
  BY <1>2, AnswerCounts
<1>3. CASE UNCHANGED <<watch, logins, clicks>> /\ failures' = failures + 1 /\ failures < watch.failures
  BY <1>1, <1>3 DEF CountInv
<1>4. CASE UNCHANGED <<watch, logins, failures>> /\ clicks' = clicks + 1 /\ clicks < watch.clicks
  BY <1>1, <1>4 DEF CountInv
<1>5. CASE UNCHANGED <<watch, clicks, failures>> /\ logins' = logins + 1 /\ logins < watch.logins
  BY <1>1, <1>5 DEF CountInv
<1>6. CASE UNCHANGED <<watch, logins, clicks, failures>>
  BY <1>6 DEF CountInv
<1>7. ASSUME Session PROVE CountInv'
  BY <1>5, <1>6, <1>7 DEF Session, SignIn, SignOut, Tick
<1>8. ASSUME Use PROVE CountInv'
  BY <1>4, <1>8 DEF Use, SelectTab, SelectFilter, SelectProject, OpenDetails, RetryJob, CloseDetails,
     ReplayDlq, CancelBatch, CreateProject, ChangeQueue, SubmitJob, RunScenario, Sends, Click
<1>9. ASSUME NEW f \in flights, Answer(f) PROVE CountInv'
  BY <1>2, <1>9 DEF Answer
<1>10. ASSUME Faults PROVE CountInv'
  BY <1>2, <1>3, <1>10 DEF Faults, Lost, WithoutData, SocketLost, PublisherDies
<1>11. ASSUME NEW f \in flights, Receive(f) PROVE CountInv'
  BY <1>6, <1>11 DEF Receive, ReceiveList, ReceiveProjects, ReceiveDetails, ReceiveAck,
     ReceiveProject, ReceiveSubmitted, ReceiveRefusal, ReceiveScenario
<1>12. ASSUME \/ \E by \in {"api", "worker"} : ElsewhereChange(by)
              \/ \E e \in publishing : PublishEvent(e)
              \/ \E s \in Sessions : Upgrade(s) \/ OnSocket(s)
              \/ UNCHANGED vars
       PROVE  CountInv'
  BY <1>6, <1>12 DEF ElsewhereChange, PublishEvent, Upgrade, OnSocket, OnOpen, OnMessage, OnClose, vars
<1>13. QED
  BY <1>7, <1>8, <1>9, <1>10, <1>11, <1>12 DEF Next

LEMMA OnlyDetails ==
  ASSUME [Next]_vars, ~\E f \in flights : ReceiveDetails(f), ~CloseDetails
  PROVE  UNCHANGED details
<1>1. ASSUME Session \/ Use PROVE UNCHANGED details
  BY <1>1 DEF Session, SignIn, SignOut, Tick, Use, SelectTab, SelectFilter, SelectProject,
     OpenDetails, RetryJob, ReplayDlq, CancelBatch, CreateProject, ChangeQueue, SubmitJob,
     RunScenario, Sends
<1>2. ASSUME NEW f \in flights, Answer(f) \/ Receive(f) PROVE UNCHANGED details
  BY <1>2 DEF Answer, AnswerGet, AnswerDetails, Accept, Refuse, Receive, ReceiveList,
     ReceiveProjects, ReceiveAck, ReceiveProject, ReceiveSubmitted, ReceiveRefusal, ReceiveScenario
<1>3. ASSUME Faults PROVE UNCHANGED details
  BY <1>3 DEF Faults, Lost, WithoutData, AnswerDetails, SocketLost, PublisherDies
<1>4. ASSUME \/ \E by \in {"api", "worker"} : ElsewhereChange(by)
             \/ \E e \in publishing : PublishEvent(e)
             \/ \E s \in Sessions : Upgrade(s) \/ OnSocket(s)
             \/ UNCHANGED vars
      PROVE  UNCHANGED details
  BY <1>4 DEF ElsewhereChange, PublishEvent, Upgrade, OnSocket, OnOpen, OnMessage, OnClose, vars
<1>5. QED
  BY <1>1, <1>2, <1>3, <1>4 DEF Next

LEMMA NextDetails ==
  ASSUME FlightInv, CountInv, DetailInv, [Next]_vars
  PROVE  DetailInv'
<1>1. CASE \E f \in flights : ReceiveDetails(f)
  <2>1. PICK f \in flights : ReceiveDetails(f)
    BY <1>1
  <2>2. Sound(f)
    BY <2>1 DEF FlightInv, Deep
  <2>3. f.key \subseteq Jobs /\ (failures = 0 => f.rows = Parts) /\ failures' = failures
        /\ details' = [p \in Parts |-> IF p \in f.rows THEN f.key ELSE details[p]]
    BY <2>1, <2>2 DEF ReceiveDetails, Sound
  <2>4. details' \in [Parts -> SUBSET Jobs]
    BY <2>3 DEF DetailInv
  <2>5. failures' = 0 => \A p \in Parts : details'[p] = f.key
    BY <2>3
  <2>6. "job" \in Parts
    BY DEF Parts
  <2>7. QED
    BY <2>4, <2>5, <2>6 DEF DetailInv, DetailsAgree
<1>2. CASE CloseDetails
  <2>1. details' = [details EXCEPT !["job"] = {}] /\ "job" \in Parts
    BY <1>2 DEF CloseDetails, Parts
  <2>2. details' \in [Parts -> SUBSET Jobs] /\ details'["job"] = {}
    BY <2>1 DEF DetailInv
  <2>3. QED
    BY <2>2 DEF DetailInv, DetailsAgree
<1>3. CASE UNCHANGED details
  <2>1. failures' = 0 => failures = 0
    <3>1. failures' = failures \/ failures' = failures + 1
      \/ \E d \in {0, 1} : failures' = failures + d
      BY DEF Next, Session, SignIn, SignOut, Tick, Use, SelectTab, SelectFilter, SelectProject,
         OpenDetails, RetryJob, ReplayDlq, CancelBatch, CreateProject, ChangeQueue, SubmitJob,
         RunScenario, Sends, CloseDetails, Answer, AnswerGet, AnswerDetails, Accept, Refuse, Receive,
         ReceiveList, ReceiveDetails, ReceiveProjects, ReceiveAck, ReceiveProject, ReceiveSubmitted,
         ReceiveRefusal, ReceiveScenario, Faults, Lost, WithoutData, SocketLost, PublisherDies,
         ElsewhereChange, PublishEvent, Upgrade, OnSocket, OnOpen, OnMessage, OnClose, vars
    <3>2. failures \in Nat
      BY SliceTypes
    <3>3. QED
      BY <3>1, <3>2
  <2>2. QED
    BY <1>3, <2>1 DEF DetailInv, DetailsAgree
<1>4. QED
  BY <1>1, <1>2, <1>3, OnlyDetails

LEMMA InitFlights == Init => CountInv /\ FlightInv /\ DetailInv
<1> SUFFICES ASSUME Init PROVE CountInv /\ FlightInv /\ DetailInv
  OBVIOUS
<1>1. watch \in [views : SUBSET Views, changes : 0 .. MaxChanges, clicks : Nat,
                 logins : 0 .. MaxLogins, failures : Nat]
  BY DEF Init
<1>2. watch.logins \in Nat /\ watch.clicks \in Nat /\ watch.failures \in Nat
  BY <1>1
<1>3. CountInv
  BY <1>2 DEF Init, CountInv
<1>4. FlightInv /\ DetailInv
  BY DEF Init, FlightInv, DetailInv, DetailsAgree, Parts
<1>5. QED
  BY <1>3, <1>4

\* The row, the logs, the executions and the dependencies in the panel of a
\* job are the same job's, however the answers overtake one another.
THEOREM PanelAgrees == Spec => []DetailsAgree
<1>1. CountInv /\ FlightInv /\ DetailInv /\ [Next]_vars => CountInv' /\ FlightInv' /\ DetailInv'
  BY NextCounts, NextFlights, NextDetails
<1>2. DetailInv => DetailsAgree
  BY DEF DetailInv
<1>3. QED
  BY InitFlights, <1>1, <1>2, PTL DEF Spec

---------------------------------------------------------------------------
(* The page's own state.                                                   *)

UiInv ==
  /\ ui \in [session : Nat, project : SUBSET ({0} \cup made), tab : Tabs, filter : Filters,
             live : BOOLEAN]
  /\ ui.session <= logins
  /\ OneOf(ui.project, {0} \cup made)

LEMMA TabsExist ==
  ASSUME CountInv, NEW t \in TabsHere
  PROVE  t \in Tabs
<1>1. \A v \in Views : TabOf[v] \in Tabs
  BY DEF Views, TabOf, Tabs
<1>2. watch.views \subseteq Views
  BY SliceTypes
<1>3. QED
  BY <1>1, <1>2 DEF TabsHere, Tabs

LEMMA SameUi ==
  ASSUME UiInv, ui' = ui, logins' = logins \/ logins' = logins + 1, logins \in Nat, made \subseteq made'
  PROVE  UiInv'
  BY DEF UiInv, OneOf

\* The project of the page, or its tab, changes.
LEMMA OtherProject ==
  ASSUME UiInv, NEW key, OneOf(key, {0} \cup made), ui' = [ui EXCEPT !.project = key],
         UNCHANGED <<logins, made>>
  PROVE  UiInv'
  BY DEF UiInv, OneOf

LEMMA OtherTab ==
  ASSUME UiInv, NEW t \in Tabs, ui' = [ui EXCEPT !.tab = t], UNCHANGED <<logins, made>>
  PROVE  UiInv'
  BY DEF UiInv, OneOf

LEMMA SessionUi ==
  ASSUME UiInv, CountInv, Session
  PROVE  UiInv'
<1>1. CASE SignIn
  <2>1. logins \in Nat /\ logins' = logins + 1 /\ ui' = [ui EXCEPT !.session = logins + 1]
        /\ UNCHANGED made
    BY <1>1, SliceTypes DEF SignIn, Page
  <2>2. ui'.session = logins + 1 /\ ui'.project = ui.project
        /\ ui' \in [session : Nat, project : SUBSET ({0} \cup made), tab : Tabs, filter : Filters,
                   live : BOOLEAN]
    <3>1. logins + 1 \in Nat
      BY <2>1
    <3>2. QED
      BY <2>1, <3>1 DEF UiInv
  <2>3. ui'.session <= logins'
    BY <2>1, <2>2
  <2>4. OneOf(ui'.project, {0} \cup made)
    BY <2>2 DEF UiInv
  <2>5. QED
    BY <2>1, <2>2, <2>3, <2>4 DEF UiInv
<1>2. CASE SignOut
  <2>1. logins \in Nat /\ ui' = [ui EXCEPT !.session = 0, !.project = {}] /\ UNCHANGED <<logins, made>>
    BY <1>2, SliceTypes DEF SignOut, Page
  <2>2. PICK h : h = [ui EXCEPT !.session = 0]
    OBVIOUS
  <2>3. h \in [session : Nat, project : SUBSET ({0} \cup made), tab : Tabs, filter : Filters,
              live : BOOLEAN] /\ h.session = 0
    BY <2>2 DEF UiInv
  <2>4. ui' = [h EXCEPT !.project = {}]
    BY <2>1, <2>2
  <2>5. ui' \in [session : Nat, project : SUBSET ({0} \cup made), tab : Tabs, filter : Filters,
                live : BOOLEAN] /\ ui'.session = 0 /\ ui'.project = {}
    BY <2>3, <2>4
  <2>6. ui'.session <= logins'
    BY <2>1, <2>5
  <2>7. QED
    BY <2>1, <2>5, <2>6 DEF UiInv, OneOf
<1>3. CASE Tick
  BY <1>3, SameUi, SliceTypes DEF Tick, Page
<1>4. QED
  BY <1>1, <1>2, <1>3 DEF Session

LEMMA UseUi ==
  ASSUME UiInv, CountInv, Use
  PROVE  UiInv'
<1>1. CASE \E t \in TabsHere : SelectTab(t)
  BY <1>1, TabsExist, OtherTab DEF SelectTab, Page
<1>2. CASE \E f \in Filters : SelectFilter(f)
  BY <1>2 DEF SelectFilter, Page, UiInv
<1>3. CASE \E p \in {0} \cup made : SelectProject(p)
  <2>1. PICK p \in {0} \cup made : SelectProject(p)
    BY <1>3
  <2>2. OneOf({p}, {0} \cup made)
    BY <2>1 DEF OneOf
  <2>3. QED
    BY <2>1, <2>2, OtherProject DEF SelectProject, Page
<1>4. CASE ui' = ui /\ UNCHANGED <<logins, made>>
  BY <1>4, SameUi, SliceTypes
<1>5. QED
  BY <1>1, <1>2, <1>3, <1>4 DEF Use, OpenDetails, RetryJob, CloseDetails, ReplayDlq, CancelBatch,
     CreateProject, ChangeQueue, SubmitJob, RunScenario, Sends, Page

LEMMA ReceiveUi ==
  ASSUME UiInv, CountInv, FlightInv, NEW f \in flights, Receive(f)
  PROVE  UiInv'
<1>1. Sound(f) /\ UNCHANGED <<logins, made>>
  BY DEF FlightInv, Deep, Receive, ReceiveList, ReceiveProjects, ReceiveDetails, ReceiveAck,
     ReceiveProject, ReceiveSubmitted, ReceiveRefusal, ReceiveScenario
<1>2. CASE \E p \in f.rows : ReceiveProjects(f, p)
  <2>1. PICK p \in f.rows : ReceiveProjects(f, p)
    BY <1>2
  <2>2. OneOf(f.key, made) /\ p \in {0} \cup made /\ OneOf(ui.project, {0} \cup made)
    BY <1>1, <2>1 DEF ReceiveProjects, Sound, UiInv
  <2>3. PICK active : /\ ui' = [ui EXCEPT !.project = active]
                      /\ active = IF f.key # {} THEN f.key
                                  ELSE IF ui.project # {} THEN ui.project ELSE {p}
    BY <2>1 DEF ReceiveProjects, Page
  <2>4. OneOf(active, {0} \cup made)
    BY <2>2, <2>3 DEF OneOf
  <2>5. QED
    BY <1>1, <2>3, <2>4, OtherProject
<1>3. CASE ReceiveSubmitted(f)
  <2>1. f.key \in {{"jobs"}, {"batches"}}
    BY <1>1, <1>3 DEF Sound, ReceiveSubmitted
  <2>2. PICK t : t = CHOOSE x \in f.key : TRUE
    OBVIOUS
  <2>3. t \in Tabs
    BY <2>1, <2>2 DEF Tabs
  <2>4. ui' = [ui EXCEPT !.tab = t]
    BY <1>3, <2>2 DEF ReceiveSubmitted, Page
  <2>5. QED
    BY <1>1, <2>3, <2>4, OtherTab
<1>4. CASE ui' = ui
  BY <1>1, <1>4, SameUi, SliceTypes
<1>5. QED
  BY <1>2, <1>3, <1>4 DEF Receive, ReceiveList, ReceiveDetails, ReceiveAck, ReceiveProject,
     ReceiveRefusal, ReceiveScenario, Page

LEMMA FaultUi ==
  ASSUME UiInv, CountInv, FlightInv, Faults
  PROVE  UiInv'
<1>1. UNCHANGED <<logins, made>>
  BY DEF Faults, Lost, WithoutData, AnswerDetails, SocketLost, PublisherDies
<1>2. CASE ui' = ui
  BY <1>1, <1>2, SameUi, SliceTypes
<1>3. ASSUME NEW f \in flights, f.what = "projects", ui' = [ui EXCEPT !.project = f.key]
      PROVE  UiInv'
  <2>1. OneOf(f.key, {0} \cup made)
    BY <1>3 DEF FlightInv, Deep, Sound, OneOf
  <2>2. QED
    BY <1>1, <1>3, <2>1, OtherProject
<1>4. QED
  BY <1>2, <1>3 DEF Faults, Lost, WithoutData, AnswerDetails, SocketLost, PublisherDies, Page

LEMMA OtherUi ==
  ASSUME UiInv, CountInv,
         \/ \E by \in {"api", "worker"} : ElsewhereChange(by)
         \/ \E e \in publishing : PublishEvent(e)
         \/ \E f \in flights : Answer(f)
         \/ \E s \in Sessions : Upgrade(s) \/ OnSocket(s)
         \/ UNCHANGED vars
  PROVE  UiInv'
<1>1. logins' = logins /\ made \subseteq made'
  BY DEF ElsewhereChange, PublishEvent, Answer, AnswerGet, AnswerDetails, Accept, Refuse, Upgrade,
     OnSocket, OnOpen, OnMessage, OnClose, vars
<1>2. CASE ui' = ui
  BY <1>1, <1>2, SameUi, SliceTypes
<1>3. CASE ui' = [ui EXCEPT !.live = TRUE] \/ ui' = [ui EXCEPT !.live = FALSE]
  BY <1>1, <1>3 DEF UiInv, OneOf
<1>4. QED
  BY <1>2, <1>3 DEF ElsewhereChange, PublishEvent, Answer, AnswerGet, AnswerDetails, Accept, Refuse,
     Upgrade, OnSocket, OnOpen, OnMessage, OnClose, Page, vars

---------------------------------------------------------------------------
(* The announcements of the server.                                        *)

ServerInv ==
  /\ \E n \in 0 .. MaxChanges : changes = 1 .. n
  /\ made \subseteq changes /\ recorded \subseteq changes
  /\ publishing \subseteq
       [change : changes, by : {"api", "worker"}, step : {"insert", "emit"}]
  /\ \A e \in publishing : e.step = "emit" => e.change \in recorded

LEMMA CommitsServer ==
  ASSUME ServerInv, CountInv, NEW by \in {"api", "worker"}, Commits(by),
         made' \subseteq made \cup {NextChange}, recorded' = recorded
  PROVE  ServerInv'
<1>1. PICK n \in 0 .. MaxChanges : changes = 1 .. n
  BY DEF ServerInv
<1>2. Cardinality(1 .. n) = n
  BY <1>1, FS_Interval
<1>3. NextChange = n + 1
  BY <1>1, <1>2 DEF NextChange
<1>4. n + 1 \in 0 .. MaxChanges /\ changes' = changes \cup {n + 1}
  <2>1. n + 1 <= watch.changes /\ watch.changes \in 0 .. MaxChanges
    BY <1>3, SliceTypes DEF Commits
  <2>2. QED
    BY <1>1, <1>3, <2>1 DEF Commits
<1>5. 1 .. n + 1 = (1 .. n) \cup {n + 1}
  BY <1>1
<1>6. \E m \in 0 .. MaxChanges : changes' = 1 .. m
  BY <1>1, <1>4, <1>5
<1>7. publishing' \subseteq publishing \cup {[change |-> n + 1, by |-> by, step |-> "insert"]}
  BY <1>3 DEF Commits
<1>8. made' \subseteq changes' /\ recorded' \subseteq changes'
  BY <1>3, <1>4 DEF ServerInv
<1>9. ASSUME NEW e \in publishing'
      PROVE  /\ e \in [change : changes', by : {"api", "worker"}, step : {"insert", "emit"}]
             /\ e.step = "emit" => e.change \in recorded'
  <2>1. CASE e \in publishing
    <3>1. e \in [change : changes, by : {"api", "worker"}, step : {"insert", "emit"}]
      BY <2>1 DEF ServerInv
    <3>2. QED
      BY <1>4, <2>1, <3>1 DEF ServerInv
  <2>2. CASE e = [change |-> n + 1, by |-> by, step |-> "insert"]
    BY <1>4, <2>2
  <2>3. QED
    BY <1>7, <1>9, <2>1, <2>2
<1>10. QED
  BY <1>6, <1>8, <1>9 DEF ServerInv

LEMMA PublishServer ==
  ASSUME ServerInv, NEW e \in publishing, PublishEvent(e)
  PROVE  ServerInv'
<1>1. e \in [change : changes, by : {"api", "worker"}, step : {"insert", "emit"}]
  BY DEF ServerInv
<1>2. UNCHANGED <<changes, made>> /\ recorded' \subseteq changes /\ recorded \subseteq recorded'
      /\ (e.step = "insert" => e.change \in recorded')
  BY <1>1 DEF PublishEvent, ServerInv
<1>3. PICK d : d = [e EXCEPT !.step = "emit"]
  OBVIOUS
<1>4. /\ d \in [change : changes, by : {"api", "worker"}, step : {"insert", "emit"}]
      /\ d.change = e.change
  BY <1>1, <1>3
<1>5. \A x \in publishing' : x \in publishing \/ (x = d /\ e.step = "insert")
  BY <1>3 DEF PublishEvent
<1>6. QED
  BY <1>2, <1>4, <1>5 DEF ServerInv

LEMMA NextServer ==
  ASSUME ServerInv, CountInv, [Next]_vars
  PROVE  ServerInv'
<1>1. CASE \E f \in flights : Accept(f)
  BY <1>1, CommitsServer DEF Accept
<1>2. CASE \E by \in {"api", "worker"} : ElsewhereChange(by)
  BY <1>2, CommitsServer DEF ElsewhereChange
<1>3. CASE UNCHANGED <<changes, made, recorded>> /\ publishing' \subseteq publishing
  BY <1>3 DEF ServerInv
<1>4. ASSUME Session \/ Use PROVE ServerInv'
  BY <1>3, <1>4 DEF Session, SignIn, SignOut, Tick, Use, SelectTab, SelectFilter, SelectProject,
     OpenDetails, RetryJob, CloseDetails, ReplayDlq, CancelBatch, CreateProject, ChangeQueue,
     SubmitJob, RunScenario, Sends
<1>5. ASSUME NEW f \in flights, Answer(f) \/ Receive(f) PROVE ServerInv'
  BY <1>1, <1>3, <1>5 DEF Answer, AnswerGet, AnswerDetails, Refuse, Receive, ReceiveList,
     ReceiveProjects, ReceiveDetails, ReceiveAck, ReceiveProject, ReceiveSubmitted,
     ReceiveRefusal, ReceiveScenario
<1>6. ASSUME Faults PROVE ServerInv'
  BY <1>3, <1>6 DEF Faults, Lost, WithoutData, AnswerDetails, SocketLost, PublisherDies
<1>7. ASSUME \/ \E s \in Sessions : Upgrade(s) \/ OnSocket(s)
             \/ UNCHANGED vars
      PROVE  ServerInv'
  BY <1>3, <1>7 DEF Upgrade, OnSocket, OnOpen, OnMessage, OnClose, vars
<1>8. QED
  BY <1>2, <1>4, <1>5, <1>6, <1>7, PublishServer DEF Next

---------------------------------------------------------------------------
(* What the views show.                                                    *)

ShownInv ==
  /\ DOMAIN shown = watch.views
  /\ "events" \in watch.views =>
       /\ shown["events"] = [key |-> shown["events"].key, rows |-> shown["events"].rows]
       /\ shown["events"].rows \subseteq recorded \cup {Connected}

LEMMA PageShown ==
  ASSUME ShownInv, watch' = watch, recorded' = recorded,
         NEW u, NEW s, NEW changed, NEW landed, NEW started, Page(u, s, changed, landed, started),
         "events" \in watch.views =>
           /\ s["events"] = [key |-> s["events"].key, rows |-> s["events"].rows]
           /\ s["events"].rows \subseteq recorded \cup {Connected}
  PROVE  ShownInv'
<1>1. shown' = [v \in watch.views |-> IF v = "batches" /\ Unmounts(u) THEN Empty ELSE s[v]]
  BY DEF Page, Forget
<1>2. "events" \in watch.views => shown'["events"] = s["events"]
  BY <1>1
<1>3. DOMAIN shown' = watch'.views
  BY <1>1
<1>4. QED
  BY <1>2, <1>3 DEF ShownInv

LEMMA SameShown ==
  ASSUME ShownInv, watch' = watch, recorded \subseteq recorded',
         \/ shown' = shown
         \/ recorded' = recorded /\ \E u, changed, landed, started : Page(u, shown, changed, landed, started)
  PROVE  ShownInv'
<1>1. CASE shown' = shown
  BY <1>1 DEF ShownInv
<1>2. CASE recorded' = recorded /\ \E u, changed, landed, started : Page(u, shown, changed, landed, started)
  <2>1. PICK s : s = shown
    OBVIOUS
  <2>2. PICK u, changed, landed, started : Page(u, s, changed, landed, started)
    BY <1>2, <2>1
  <2>3. QED
    BY <1>2, <2>1, <2>2, PageShown DEF ShownInv
<1>3. QED
  BY <1>1, <1>2

LEMMA ListShown ==
  ASSUME ShownInv, FlightInv, NEW f \in flights, ReceiveList(f)
  PROVE  ShownInv'
<1>1. Sound(f) /\ watch' = watch /\ recorded' = recorded
  BY DEF FlightInv, Deep, ReceiveList
<1>2. PICK s : s = [shown EXCEPT ![f.what] = [key |-> f.key, rows |-> f.rows]]
  OBVIOUS
<1>3. \E changed : Page(ui, s, changed, {f}, {})
  BY <1>2 DEF ReceiveList
<1>4. ASSUME "events" \in watch.views
      PROVE  /\ s["events"] = [key |-> s["events"].key, rows |-> s["events"].rows]
             /\ s["events"].rows \subseteq recorded \cup {Connected}
  <2>1. CASE f.what = "events"
    <3>1. s["events"] = [key |-> f.key, rows |-> f.rows]
      BY <1>2, <1>4, <2>1 DEF ShownInv
    <3>2. f.rows \subseteq recorded
      BY <1>1, <2>1 DEF Sound
    <3>3. QED
      BY <3>1, <3>2
  <2>2. CASE f.what # "events"
    <3>1. s["events"] = shown["events"]
      BY <1>2, <1>4, <2>2 DEF ShownInv
    <3>2. QED
      BY <1>4, <3>1 DEF ShownInv
  <2>3. QED
    BY <2>1, <2>2
<1>5. QED
  BY <1>1, <1>3, <1>4, PageShown

LEMMA ProjectsShown ==
  ASSUME ShownInv, NEW f, NEW p, ReceiveProjects(f, p)
  PROVE  ShownInv'
<1>1. watch' = watch /\ recorded' = recorded
  BY DEF ReceiveProjects
<1>2. PICK s : s = [shown EXCEPT !["projects"] = [key |-> {}, rows |-> f.rows]]
  OBVIOUS
<1>3. \E u, changed : Page(u, s, changed, {f}, {})
  BY <1>2 DEF ReceiveProjects
<1>4. "events" \in watch.views => s["events"] = shown["events"]
  BY <1>2 DEF ShownInv
<1>5. QED
  BY <1>1, <1>3, <1>4, PageShown DEF ShownInv

LEMMA ReceiveShown ==
  ASSUME ShownInv, FlightInv, NEW f \in flights, Receive(f)
  PROVE  ShownInv'
<1>1. watch' = watch /\ recorded' = recorded
  BY DEF Receive, ReceiveList, ReceiveProjects, ReceiveDetails, ReceiveAck, ReceiveProject,
     ReceiveSubmitted, ReceiveRefusal, ReceiveScenario
<1>2. CASE ReceiveScenario(f) \/ ReceiveSubmitted(f)
  <2>1. \E u, changed, landed, started : Page(u, shown, changed, landed, started)
    <3>1. CASE ReceiveScenario(f)
      BY <3>1 DEF ReceiveScenario
    <3>2. CASE ReceiveSubmitted(f)
      BY <3>2 DEF ReceiveSubmitted
    <3>3. QED
      BY <1>2, <3>1, <3>2
  <2>2. QED
    BY <1>1, <2>1, SameShown
<1>3. CASE ReceiveDetails(f) \/ ReceiveAck(f) \/ ReceiveProject(f) \/ ReceiveRefusal(f)
  <2>1. \E u, changed, landed, started : Page(u, shown, changed, landed, started)
    BY <1>3 DEF ReceiveDetails, ReceiveAck, ReceiveProject, ReceiveRefusal
  <2>2. QED
    BY <1>1, <2>1, SameShown
<1>4. QED
  BY <1>2, <1>3, ListShown, ProjectsShown DEF Receive

---------------------------------------------------------------------------
(* The sockets.                                                            *)

Traffic == {"open", "close", "event"} \X ({Connected} \cup recorded)

WireInv ==
  /\ hub \subseteq Sessions
  /\ wire \in [Sessions -> Seq(Traffic)]

LiveInv ==
  /\ socket \in [Sessions -> {"none", "connecting", "open", "closing", "closed"}]
  /\ \A s \in Sessions : s > logins => socket[s] = "none"
  /\ ui.live \in BOOLEAN
  /\ ui.live => \E s \in Sessions : socket[s] \in {"open", "closing"}

\* A longer list of what may be on its way has the same sequences, and more.
LEMMA SeqGrows ==
  ASSUME NEW S, NEW T, S \subseteq T, NEW q \in Seq(S)
  PROVE  q \in Seq(T)
<1>1. Len(q) \in Nat /\ q \in [1 .. Len(q) -> S]
  BY LenProperties
<1>2. q \in [1 .. Len(q) -> T]
  BY <1>1
<1>3. QED
  BY <1>1, <1>2

\* What a step does to the traffic of each socket.
LEMMA WireSteps ==
  ASSUME NEW S, NEW q \in Seq(S), NEW x \in S, NEW n \in 0 .. Len(q)
  PROVE  /\ Append(q, x) \in Seq(S) /\ <<x>> \in Seq(S)
         /\ q # <<>> => Tail(q) \in Seq(S) /\ Head(q) \in S
         /\ SubSeq(q, 1, n) \in Seq(S)
<1>1. Append(q, x) \in Seq(S) /\ <<x>> \in Seq(S)
  OBVIOUS
<1>2. q # <<>> => Tail(q) \in Seq(S) /\ Head(q) \in S
  OBVIOUS
<1>3. SubSeq(q, 1, n) \in Seq(S)
  <2>1. \A i \in 1 .. n : i \in 1 .. Len(q)
    BY LenProperties
  <2>2. \A i \in 1 .. n : q[i] \in S
    BY <2>1, ElementOfSeq
  <2>3. 1 \in 1 .. Len(q) + 1 /\ n \in 0 .. Len(q) /\ Len(q) \in Nat
    BY LenProperties
  <2>4. QED
    BY <2>2, <2>3, SubSeqProperties
<1>4. QED
  BY <1>1, <1>2, <1>3

LEMMA FramesTravel ==
  /\ Open \in Traffic /\ Close \in Traffic /\ Frame(Connected) \in Traffic
  /\ \A c \in recorded : Frame(c) \in Traffic
BY DEF Open, Close, Frame, Traffic, Connected

LEMMA WireGrows ==
  ASSUME WireInv, recorded \subseteq recorded', hub' \subseteq Sessions,
         \A s \in Sessions : wire'[s] \in Seq(Traffic), DOMAIN wire' = Sessions,
         wire' = [s \in Sessions |-> wire'[s]]
  PROVE  WireInv'
<1>1. PICK S, T : S = Traffic /\ T = Traffic'
  OBVIOUS
<1>2. S \subseteq T
  BY <1>1 DEF Traffic
<1>3. \A s \in Sessions : wire'[s] \in Seq(T)
  BY <1>1, <1>2, SeqGrows
<1>4. wire' \in [Sessions -> Seq(T)]
  BY <1>3
<1>5. QED
  BY <1>1, <1>4 DEF WireInv

LEMMA PublishWire ==
  ASSUME WireInv, ServerInv, NEW e \in publishing, PublishEvent(e)
  PROVE  WireInv'
<1>1. recorded \subseteq recorded' /\ hub' = hub
  BY DEF PublishEvent
<1>2. CASE wire' = wire
  <2>1. wire = [s \in Sessions |-> wire[s]]
    BY DEF WireInv
  <2>2. QED
    BY <1>1, <1>2, <2>1, WireGrows DEF WireInv
<1>3. CASE e.step = "emit" /\ wire' = Broadcast(e.change)
  <2>1. Frame(e.change) \in Traffic
    BY <1>3, FramesTravel DEF ServerInv
  <2>2. \A s \in Sessions : wire[s] \in Seq(Traffic)
    BY DEF WireInv
  <2>3. \A s \in Sessions : Append(wire[s], Frame(e.change)) \in Seq(Traffic)
    BY <2>1, <2>2
  <2>4. /\ wire' = [s \in Sessions |-> wire'[s]] /\ DOMAIN wire' = Sessions
        /\ \A s \in Sessions : wire'[s] = wire[s] \/ wire'[s] = Append(wire[s], Frame(e.change))
    BY <1>3 DEF Broadcast
  <2>5. \A s \in Sessions : wire'[s] \in Seq(Traffic)
    BY <2>2, <2>3, <2>4
  <2>6. QED
    BY <1>1, <2>4, <2>5, WireGrows DEF WireInv
<1>4. QED
  BY <1>2, <1>3 DEF PublishEvent

\* What one socket has on its way is replaced.
LEMMA OneWire ==
  ASSUME WireInv, recorded' = recorded, hub' \subseteq Sessions,
         NEW s \in Sessions, NEW q \in Seq(Traffic), wire' = [wire EXCEPT ![s] = q]
  PROVE  WireInv'
<1>1. wire' \in [Sessions -> Seq(Traffic)]
  BY DEF WireInv
<1>2. wire' = [t \in Sessions |-> wire'[t]] /\ DOMAIN wire' = Sessions
      /\ \A t \in Sessions : wire'[t] \in Seq(Traffic)
  BY <1>1
<1>3. QED
  BY <1>2, WireGrows

LEMMA SocketWire ==
  ASSUME WireInv, NEW s \in Sessions,
         \/ Upgrade(s) \/ OnOpen(s) \/ OnMessage(s) \/ OnClose(s)
         \/ \E n \in 0 .. Len(wire[s]) : SocketLost(s, n)
  PROVE  WireInv'
<1>1. wire[s] \in Seq(Traffic) /\ hub \subseteq Sessions
  BY DEF WireInv
<1>2. recorded' = recorded /\ hub' \subseteq Sessions
  BY <1>1 DEF Upgrade, OnOpen, OnMessage, OnClose, SocketLost
<1>3. CASE Upgrade(s)
  <2>1. <<Open, Frame(Connected)>> \in Seq(Traffic)
    BY FramesTravel
  <2>2. QED
    BY <1>2, <1>3, <2>1, OneWire DEF Upgrade
<1>4. CASE OnOpen(s) \/ OnMessage(s)
  <2>1. wire' = [wire EXCEPT ![s] = Tail(wire[s])] /\ wire[s] # <<>>
    BY <1>4 DEF OnOpen, OnMessage, Arrived
  <2>2. Tail(wire[s]) \in Seq(Traffic)
    <3>1. PICK S, q : S = Traffic /\ q = wire[s]
      OBVIOUS
    <3>2. Tail(q) \in Seq(S)
      BY <1>1, <2>1, <3>1
    <3>3. QED
      BY <3>1, <3>2
  <2>3. QED
    BY <1>2, <2>1, <2>2, OneWire
<1>5. CASE OnClose(s)
  <2>1. <<Close>> \in Seq(Traffic)
    BY FramesTravel
  <2>2. QED
    BY <1>2, <1>5, <2>1, OneWire DEF OnClose
<1>6. CASE \E n \in 0 .. Len(wire[s]) : SocketLost(s, n)
  <2>1. PICK n \in 0 .. Len(wire[s]) : SocketLost(s, n)
    BY <1>6
  <2>2. SubSeq(wire[s], 1, n) \in Seq(Traffic)
    BY <1>1, <2>1, FramesTravel, WireSteps
  <2>3. Append(SubSeq(wire[s], 1, n), Close) \in Seq(Traffic)
    BY <2>2, FramesTravel
  <2>4. QED
    BY <1>2, <2>1, <2>3, OneWire DEF SocketLost
<1>7. QED
  BY <1>3, <1>4, <1>5, <1>6

LEMMA NextWire ==
  ASSUME WireInv, ServerInv, [Next]_vars
  PROVE  WireInv'
<1>1. CASE UNCHANGED <<hub, wire, recorded>>
  BY <1>1 DEF WireInv, Traffic
<1>2. ASSUME Session \/ Use PROVE WireInv'
  BY <1>1, <1>2 DEF Session, SignIn, SignOut, Tick, Use, SelectTab, SelectFilter, SelectProject,
     OpenDetails, RetryJob, CloseDetails, ReplayDlq, CancelBatch, CreateProject, ChangeQueue,
     SubmitJob, RunScenario, Sends
<1>3. ASSUME NEW f \in flights, Answer(f) \/ Receive(f) PROVE WireInv'
  BY <1>1, <1>3 DEF Answer, AnswerGet, AnswerDetails, Accept, Refuse, Receive, ReceiveList,
     ReceiveProjects, ReceiveDetails, ReceiveAck, ReceiveProject, ReceiveSubmitted,
     ReceiveRefusal, ReceiveScenario
<1>4. ASSUME Faults PROVE WireInv'
  BY <1>1, <1>4, SocketWire DEF Faults, Lost, WithoutData, AnswerDetails, PublisherDies
<1>5. ASSUME \/ \E by \in {"api", "worker"} : ElsewhereChange(by)
             \/ UNCHANGED vars
      PROVE  WireInv'
  BY <1>1, <1>5 DEF ElsewhereChange, vars
<1>6. QED
  BY <1>2, <1>3, <1>4, <1>5, SocketWire, PublishWire DEF Next, OnSocket

LEMMA NextLive ==
  ASSUME LiveInv, UiInv, CountInv, [Next]_vars
  PROVE  LiveInv'
<1>1. logins \in Nat /\ ui.session \in Nat /\ ui.session <= logins
  BY SliceTypes DEF UiInv
<1>2. CASE SignIn
  <2>1. logins' = logins + 1 /\ ui'.live = ui.live
    BY <1>2 DEF SignIn, Page, UiInv
  <2>2. PICK st \in {"none", "connecting"} : socket' = [socket EXCEPT ![logins + 1] = st]
    BY <1>2 DEF SignIn
  <2>3. \A s \in Sessions : s # logins + 1 => socket'[s] = socket[s]
    BY <2>2 DEF LiveInv
  <2>4. \A s \in Sessions : s > logins' => s > logins /\ s # logins + 1
    BY <1>1, <2>1 DEF Sessions
  <2>5. \A s \in Sessions : socket[s] \in {"open", "closing"} => s # logins + 1
    BY <1>1 DEF LiveInv
  <2>6. socket' \in [Sessions -> {"none", "connecting", "open", "closing", "closed"}]
    BY <2>2 DEF LiveInv
  <2>7. QED
    BY <2>1, <2>3, <2>4, <2>5, <2>6 DEF LiveInv
<1>3. CASE SignOut
  <2>1. logins' = logins /\ ui'.live = ui.live
    BY <1>3 DEF SignOut, Page, UiInv
  <2>2. PICK st : /\ socket' = [socket EXCEPT ![ui.session] = st]
                  /\ st = IF socket[ui.session] \in {"connecting", "open"} THEN "closing"
                          ELSE socket[ui.session]
    BY <1>3 DEF SignOut
  <2>3. \A s \in Sessions : socket'[s] = socket[s] \/ (socket[s] \in {"connecting", "open"} /\ socket'[s] = "closing")
    BY <2>2 DEF LiveInv
  <2>4. socket' \in [Sessions -> {"none", "connecting", "open", "closing", "closed"}]
    <3>1. DOMAIN socket' = Sessions /\ socket' = [s \in Sessions |-> socket'[s]]
      BY <2>2 DEF LiveInv
    <3>2. QED
      BY <2>3, <3>1 DEF LiveInv
  <2>5. QED
    BY <2>1, <2>3, <2>4 DEF LiveInv
<1>4. CASE logins' = logins /\ socket' = socket /\ ui'.live = ui.live
  BY <1>4 DEF LiveInv
<1>5. ASSUME Tick \/ Use PROVE LiveInv'
  BY <1>4, <1>5 DEF Tick, Use, SelectTab, SelectFilter, SelectProject, OpenDetails, RetryJob,
     CloseDetails, ReplayDlq, CancelBatch, CreateProject, ChangeQueue, SubmitJob, RunScenario,
     Sends, Page, UiInv
<1>6. ASSUME NEW f \in flights, Answer(f) \/ Receive(f) PROVE LiveInv'
  BY <1>4, <1>6 DEF Answer, AnswerGet, AnswerDetails, Accept, Refuse, Receive, ReceiveList,
     ReceiveProjects, ReceiveDetails, ReceiveAck, ReceiveProject, ReceiveSubmitted,
     ReceiveRefusal, ReceiveScenario, Page, UiInv
<1>7. ASSUME Faults PROVE LiveInv'
  BY <1>4, <1>7 DEF Faults, Lost, WithoutData, AnswerDetails, SocketLost, PublisherDies, Page, UiInv
<1>8. ASSUME \/ \E by \in {"api", "worker"} : ElsewhereChange(by)
             \/ \E e \in publishing : PublishEvent(e)
             \/ \E s \in Sessions : Upgrade(s) \/ OnMessage(s)
             \/ UNCHANGED vars
      PROVE  LiveInv'
  BY <1>4, <1>8 DEF ElsewhereChange, PublishEvent, Upgrade, OnMessage, Page, vars
<1>9. ASSUME NEW s \in Sessions, OnOpen(s) PROVE LiveInv'
  <2>1. logins' = logins /\ ui'.live = TRUE /\ socket[s] = "connecting"
        /\ socket' = [socket EXCEPT ![s] = "open"]
    BY <1>9 DEF OnOpen, UiInv
  <2>2. socket'[s] = "open" /\ \A t \in Sessions : t > logins => socket'[t] = "none"
    BY <2>1 DEF LiveInv
  <2>3. socket' \in [Sessions -> {"none", "connecting", "open", "closing", "closed"}]
    BY <2>1 DEF LiveInv
  <2>4. QED
    BY <2>1, <2>2, <2>3 DEF LiveInv
<1>10. ASSUME NEW s \in Sessions, OnClose(s) PROVE LiveInv'
  <2>1. logins' = logins /\ ui'.live = FALSE /\ socket[s] # "none"
        /\ socket' = [socket EXCEPT ![s] = "closed"]
    BY <1>10 DEF OnClose, UiInv
  <2>2. \A t \in Sessions : t > logins => socket'[t] = "none"
    BY <2>1 DEF LiveInv
  <2>3. socket' \in [Sessions -> {"none", "connecting", "open", "closing", "closed"}]
    BY <2>1 DEF LiveInv
  <2>4. QED
    BY <2>1, <2>2, <2>3 DEF LiveInv
<1>11. QED
  BY <1>2, <1>3, <1>5, <1>6, <1>7, <1>8, <1>9, <1>10 DEF Next, Session, OnSocket

LEMMA MessageShown ==
  ASSUME ShownInv, WireInv, NEW n \in Sessions, OnMessage(n)
  PROVE  ShownInv'
<1>1. watch' = watch /\ recorded' = recorded
  BY DEF OnMessage
<1>2. Head(wire[n])[2] \in {Connected} \cup recorded
  <2>1. wire[n] \in Seq(Traffic) /\ wire[n] # <<>>
    BY DEF WireInv, OnMessage
  <2>2. Head(wire[n]) \in Traffic
    <3>1. PICK S, q : S = Traffic /\ q = wire[n]
      OBVIOUS
    <3>2. Head(q) \in S
      BY <2>1, <3>1
    <3>3. QED
      BY <3>1, <3>2
  <2>3. QED
    BY <2>2 DEF Traffic
<1>3. PICK s : s = [shown EXCEPT !["events"].rows = @ \cup {Head(wire[n])[2]}]
  OBVIOUS
<1>4. Page(ui, s, {"refresh"}, {}, {})
  BY <1>3 DEF OnMessage
<1>5. ASSUME "events" \in watch.views
      PROVE  /\ s["events"] = [key |-> s["events"].key, rows |-> s["events"].rows]
             /\ s["events"].rows \subseteq recorded \cup {Connected}
  <2>1. PICK k, r : /\ shown["events"] = [key |-> k, rows |-> r]
                    /\ r \subseteq recorded \cup {Connected}
    BY <1>5 DEF ShownInv
  <2>2. s["events"] = [shown["events"] EXCEPT !.rows = shown["events"].rows \cup {Head(wire[n])[2]}]
    BY <1>3, <1>5 DEF ShownInv
  <2>3. s["events"] = [key |-> k, rows |-> r \cup {Head(wire[n])[2]}]
    <3>1. PICK e, m : e = shown["events"] /\ m = e.rows \cup {Head(wire[n])[2]}
      OBVIOUS
    <3>2. e = [key |-> k, rows |-> r] /\ s["events"] = [e EXCEPT !.rows = m]
      BY <2>1, <2>2, <3>1
    <3>3. s["events"] = [key |-> k, rows |-> m] /\ e.rows = r
      BY <3>2
    <3>4. QED
      BY <3>1, <3>3
  <2>4. QED
    BY <1>2, <2>1, <2>3
<1>6. QED
  BY <1>1, <1>4, <1>5, PageShown

LEMMA NextShown ==
  ASSUME ShownInv, WireInv, FlightInv, [Next]_vars
  PROVE  ShownInv'
<1>1. CASE /\ watch' = watch /\ recorded' = recorded
           /\ \E u, changed, landed, started : Page(u, shown, changed, landed, started)
  BY <1>1, SameShown
<1>2. CASE watch' = watch /\ recorded \subseteq recorded' /\ shown' = shown
  BY <1>2, SameShown
<1>3. ASSUME Session PROVE ShownInv'
  BY <1>1, <1>3 DEF Session, SignIn, SignOut, Tick
<1>4. ASSUME Use PROVE ShownInv'
  <2>1. watch' = watch /\ recorded' = recorded
    BY <1>4 DEF Use, SelectTab, SelectFilter, SelectProject, OpenDetails, RetryJob, CloseDetails,
       ReplayDlq, CancelBatch, CreateProject, ChangeQueue, SubmitJob, RunScenario, Sends
  <2>2. \/ shown' = shown
        \/ \E u, changed, landed, started : Page(u, shown, changed, landed, started)
    BY <1>4 DEF Use, SelectTab, SelectFilter, SelectProject, OpenDetails, RetryJob, CloseDetails,
       ReplayDlq, CancelBatch, CreateProject, ChangeQueue, SubmitJob, RunScenario, Sends
  <2>3. QED
    BY <1>1, <1>2, <2>1, <2>2
<1>5. ASSUME NEW f \in flights, Answer(f) PROVE ShownInv'
  BY <1>2, <1>5 DEF Answer, AnswerGet, AnswerDetails, Accept, Refuse
<1>6. ASSUME Faults PROVE ShownInv'
  <2>1. watch' = watch /\ recorded' = recorded
    BY <1>6 DEF Faults, Lost, WithoutData, AnswerDetails, SocketLost, PublisherDies
  <2>2. \/ shown' = shown
        \/ \E u, changed, landed, started : Page(u, shown, changed, landed, started)
    BY <1>6 DEF Faults, Lost, WithoutData, AnswerDetails, SocketLost, PublisherDies
  <2>3. QED
    BY <1>1, <1>2, <2>1, <2>2
<1>7. ASSUME \/ \E by \in {"api", "worker"} : ElsewhereChange(by)
             \/ \E e \in publishing : PublishEvent(e)
             \/ \E s \in Sessions : Upgrade(s) \/ OnOpen(s) \/ OnClose(s)
             \/ UNCHANGED vars
      PROVE  ShownInv'
  BY <1>2, <1>7 DEF ElsewhereChange, PublishEvent, Upgrade, OnOpen, OnClose, vars
<1>8. QED
  BY <1>3, <1>4, <1>5, <1>6, <1>7, ReceiveShown, MessageShown DEF Next, OnSocket

LEMMA NextUi ==
  ASSUME UiInv, CountInv, FlightInv, [Next]_vars
  PROVE  UiInv'
BY SessionUi, UseUi, ReceiveUi, FaultUi, OtherUi DEF Next

PageInv ==
  /\ CountInv /\ FlightInv /\ DetailInv /\ UiInv
  /\ ServerInv /\ WireInv /\ LiveInv /\ ShownInv

LEMMA InitPage == Init => PageInv
<1> SUFFICES ASSUME Init PROVE PageInv
  OBVIOUS
<1>1. CountInv /\ FlightInv /\ DetailInv
  BY InitFlights
<1>2. UiInv
  <2>1. PICK f \in Filters : f = CHOOSE x \in Filters : TRUE
    OBVIOUS
  <2>2. ui = [session |-> 0, project |-> {}, tab |-> "queues", filter |-> f, live |-> FALSE]
    BY <2>1 DEF Init
  <2>3. QED
    BY <2>2 DEF Init, UiInv, Tabs, OneOf
<1>3. ServerInv
  <2>1. 1 .. 0 = {} /\ 0 \in 0 .. MaxChanges
    OBVIOUS
  <2>2. changes = 1 .. 0
    BY <2>1 DEF Init
  <2>3. QED
    BY <2>1, <2>2 DEF Init, ServerInv
<1>4. WireInv
  BY DEF Init, WireInv
<1>5. LiveInv
  BY DEF Init, LiveInv
<1>6. ShownInv
  BY DEF Init, ShownInv, Empty
<1>7. QED
  BY <1>1, <1>2, <1>3, <1>4, <1>5, <1>6 DEF PageInv

LEMMA PageTypes == PageInv => TypeOK
<1> SUFFICES ASSUME PageInv PROVE TypeOK
  OBVIOUS
<1>1. watch \in Slices /\ logins \in 0 .. watch.logins /\ clicks \in 0 .. watch.clicks
      /\ failures \in 0 .. watch.failures /\ logins \in Nat
  BY SliceTypes DEF PageInv, CountInv
<1>2. \E n \in 0 .. MaxChanges : changes = 1 .. n
  BY DEF PageInv, ServerInv
<1>3. /\ made \subseteq changes /\ recorded \subseteq changes
      /\ publishing \subseteq [change : changes, by : {"api", "worker"}, step : {"insert", "emit"}]
  BY DEF PageInv, ServerInv
<1>4. hub \subseteq Sessions
      /\ wire \in [Sessions -> Seq({"open", "close", "event"} \X ({Connected} \cup Changes))]
  <2>1. PICK S, T : S = Traffic /\ T = {"open", "close", "event"} \X ({Connected} \cup Changes)
    OBVIOUS
  <2>2. recorded \subseteq Changes
    BY <1>2, <1>3 DEF Changes
  <2>3. S \subseteq T
    BY <2>1, <2>2 DEF Traffic
  <2>4. hub \subseteq Sessions /\ wire \in [Sessions -> Seq(S)]
    BY <2>1 DEF PageInv, WireInv
  <2>5. \A s \in Sessions : wire[s] \in Seq(T)
    BY <2>3, <2>4, SeqGrows
  <2>6. wire \in [Sessions -> Seq(T)]
    BY <2>4, <2>5
  <2>7. QED
    BY <2>1, <2>4, <2>6
<1>5. socket \in [Sessions -> {"none", "connecting", "open", "closing", "closed"}]
  BY DEF PageInv, LiveInv
<1>6. ui.session \in 0 .. logins
  BY <1>1 DEF PageInv, UiInv
<1>7. ui.project \subseteq {0} \cup made /\ ui.tab \in Tabs /\ ui.filter \in Filters
  BY DEF PageInv, UiInv
<1>8. ui.live \in BOOLEAN
  BY DEF PageInv, LiveInv
<1>9. Cardinality(ui.project) <= 1
  <2>1. ui.project = {} \/ \E x : ui.project = {x}
    BY DEF PageInv, UiInv, OneOf
  <2>2. CASE ui.project = {}
    BY <2>2, FS_EmptySet
  <2>3. CASE \E x : ui.project = {x}
    <3>1. PICK x : ui.project = {x}
      BY <2>3
    <3>2. Cardinality({x}) = 1
      BY FS_Singleton
    <3>3. QED
      BY <3>1, <3>2
  <2>4. QED
    BY <2>1, <2>2, <2>3
<1>10. DOMAIN shown = watch.views
  BY DEF PageInv, ShownInv
<1>11. details \in [Parts -> SUBSET Jobs]
  BY DEF PageInv, DetailInv
<1>12. \A f \in flights : f.state \in {"sent", "partly", "answered"}
  BY DEF PageInv, FlightInv, Deep, Sound
<1>13. QED
  BY <1>1, <1>2, <1>3, <1>4, <1>5, <1>6, <1>7, <1>8, <1>9, <1>10, <1>11, <1>12 DEF TypeOK

LEMMA PageHolds == PageInv => DashboardInv
<1> SUFFICES ASSUME PageInv PROVE DashboardInv
  OBVIOUS
<1>1. "events" \in watch.views => shown["events"].rows \subseteq recorded \cup {Connected}
  BY DEF PageInv, ShownInv
<1>2. ASSUME NEW s \in Sessions, NEW i \in DOMAIN wire[s]
      PROVE  wire[s][i][2] \in recorded \cup {Connected}
  <2>1. wire[s] \in Seq(Traffic)
    BY DEF PageInv, WireInv
  <2>2. i \in 1 .. Len(wire[s])
    BY <1>2, <2>1, LenProperties
  <2>3. wire[s][i] \in Traffic
    BY <2>1, <2>2, ElementOfSeq
  <2>4. QED
    BY <2>3 DEF Traffic
<1>3. ui.live => \E s \in Sessions : socket[s] \in {"open", "closing"}
  BY DEF PageInv, LiveInv
<1>4. QED
  BY <1>1, <1>2, <1>3, PageTypes DEF DashboardInv

\* An event that the page shows, or that is on its way to it, has a row in
\* system_events, and "Live" is shown only while a socket is open or has an
\* onclose to come: for any number of sign-ins, changes, views and failures.
THEOREM ShowsWhatIsRecorded == Spec => []DashboardInv
<1>1. PageInv /\ [Next]_vars => PageInv'
  BY NextCounts, NextFlights, NextDetails, NextUi, NextServer, NextWire, NextLive, NextShown
     DEF PageInv
<1>2. QED
  BY InitPage, <1>1, PageHolds, PTL DEF Spec
=============================================================================
