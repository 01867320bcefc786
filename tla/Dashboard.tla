----------------------------- MODULE Dashboard -----------------------------
(***************************************************************************)
(* The dashboard (client/src/App.tsx and its components) with what it talks*)
(* to: the list and detail endpoints, the requests that change something,  *)
(* publishEvent (engine/events.ts) and the hub of web sockets              *)
(* (realtime/websocketHub.ts) of an API process.                           *)
(*                                                                         *)
(* The database is the set of changes committed so far, numbered in order. *)
(* A response is the set that was committed when it was computed, and a    *)
(* view of the page shows what its last response brought, for the project  *)
(* or the filter it was asked for. Requests and responses in the network   *)
(* overtake one another. The browser runs one callback at a time, with the *)
(* render and the effects it causes: that is one action.                   *)
(*                                                                         *)
(* Views have nothing in common but the page's own state, so a behaviour   *)
(* watches some of them (`watch') and leaves the others' requests out.     *)
(***************************************************************************)
EXTENDS Naturals, Sequences, FiniteSets

CONSTANTS
  Slices,       \* what a behaviour may watch, and its bounds: the views, how many
                \* changes of the database, clicks, sign-ins and failures (lost
                \* responses, sockets, publishers)
  Filters,      \* the filters of the job explorer
  Jobs,         \* the jobs whose details may be opened
  MaxChanges,   \* bound on changes in every slice
  MaxLogins,    \* bound on sign-ins in every slice
  MaxFlights    \* the interval and the user wait while so many are under way

Views == {"queues", "stats", "jobs", "workers", "dlq", "events", "batches",
          "projects", "details"}

Operations == {"retry", "replay", "update_queue", "create_queue", "create_project",
               "submit", "cancel", "parent", "burst", "last"}

ASSUME DashboardAssumption ==
  /\ MaxChanges \in Nat /\ MaxLogins \in Nat /\ MaxFlights \in Nat \ {0} /\ Filters # {}
  /\ Slices \subseteq [views : SUBSET Views, changes : 0 .. MaxChanges, clicks : Nat,
                      logins : 0 .. MaxLogins, failures : Nat]

VARIABLES
  watch,
  changes,     \* the database: 1 .. number of committed changes
  made,        \* the changes that created a project; project 0 was seeded
  recorded,    \* system_events: the changes announced by a row
  publishing,  \* publishEvent calls under way: [change, by, step]
  hub,         \* sockets of websocketHub.ts, named by the sign-in they belong to
  wire,        \* what each socket still has to bring to the browser
  socket,      \* readyState of each socket
  ui,          \* [session, project, tab, filter, live]; no session is 0
  logins,      \* sign-ins so far
  shown,       \* what each view shows: [key, rows]
  details,     \* the job whose row, logs, executions, dependencies are shown
  flights,     \* requests and responses under way
  clicks, failures

server == <<changes, made, recorded, publishing>>
sockets == <<hub, wire, socket>>
bounds == <<clicks, failures>>
vars == <<watch, server, sockets, ui, logins, shown, details, flights, bounds>>

Changes == 1 .. MaxChanges
Sessions == 1 .. MaxLogins
Parts == {"job", "logs", "executions", "dependencies"}
Tabs == {"queues", "jobs", "batches", "workers", "dlq", "metrics", "events"}

(* What a socket brings: frames, and the ends of the connection.           *)
Connected == 0  \* socket.connected, the hub's greeting, beside the changes
Frame(c) == <<"event", c>>
Open == <<"open", 0>>
Close == <<"close", 0>>

Empty == [key |-> {}, rows |-> {}]

TypeOK ==
  /\ watch \in Slices
  /\ \E n \in 0 .. MaxChanges : changes = 1 .. n
  /\ made \subseteq changes /\ recorded \subseteq changes
  /\ publishing \subseteq
       [change : changes, by : {"api", "worker"}, step : {"insert", "emit"}]
  /\ hub \subseteq Sessions
  /\ wire \in [Sessions -> Seq({"open", "close", "event"} \X ({Connected} \cup Changes))]
  /\ socket \in [Sessions -> {"none", "connecting", "open", "closing", "closed"}]
  /\ ui.session \in 0 .. logins /\ logins \in 0 .. watch.logins
  /\ ui.project \subseteq {0} \cup made /\ Cardinality(ui.project) <= 1
  /\ ui.tab \in Tabs /\ ui.filter \in Filters /\ ui.live \in BOOLEAN
  /\ DOMAIN shown = watch.views
  /\ details \in [Parts -> SUBSET Jobs]
  /\ \A f \in flights : f.state \in {"sent", "partly", "answered"}
  /\ clicks \in 0 .. watch.clicks /\ failures \in 0 .. watch.failures

Init ==
  /\ watch \in Slices
  /\ changes = {} /\ made = {} /\ recorded = {} /\ publishing = {}
  /\ hub = {} /\ wire = [s \in Sessions |-> <<>>]
  /\ socket = [s \in Sessions |-> "none"]
  /\ ui = [session |-> 0, project |-> {}, tab |-> "queues",
           filter |-> CHOOSE f \in Filters : TRUE, live |-> FALSE]
  /\ logins = 0
  /\ shown = [v \in watch.views |-> Empty]
  /\ details = [p \in Parts |-> {}]
  /\ flights = {}
  /\ clicks = 0 /\ failures = 0

---------------------------------------------------------------------------
(* Requests. A GET has no identity: two of the same kind and at the same   *)
(* point are one flight, since what each does on arrival is the same twice.*)
(* A request that changes something has its click's number, and `follow',  *)
(* the requests its handler goes on to make. They are those of the closure:*)
(* with the project and the filter of the time of the click.               *)
Get(v, key) ==
  [what |-> v, id |-> 0, key |-> key, state |-> "sent", rows |-> {}, follow |-> {}]

Post(op, key, gets) ==
  [what |-> op, id |-> clicks + 1, key |-> key, state |-> "sent", rows |-> {},
   follow |-> {g \in gets : g.what \in watch.views}]

Room == Cardinality(flights) < MaxFlights

(* What is watched of the tabs, and the tab that polls nothing watched.    *)
TabOf == [queues |-> "queues", stats |-> "metrics", jobs |-> "jobs", details |-> "jobs",
          workers |-> "workers", dlq |-> "dlq", events |-> "events",
          batches |-> "batches", projects |-> "queues"]
TabsHere == {TabOf[v] : v \in watch.views} \cup {"queues"}

(* The effects: what each depends on, when it asks, and for what.          *)
PolledViews == {"queues", "stats", "batches", "jobs", "workers", "dlq", "events"}

\* Mutant: the tab's effect without refreshTrigger.
DependsButRefresh(v) ==
  CASE v = "queues"  -> {"token", "project", "refresh"}
    [] v = "stats"   -> {"token", "queues", "refresh"}
    [] v = "batches" -> {"token", "tab", "refresh"}
    [] OTHER         -> {"token", "tab", "filter"}

DependsOn(v) ==
  CASE v = "queues"  -> {"token", "project", "refresh"}
    [] v = "stats"   -> {"token", "queues", "refresh"}
    [] v = "batches" -> {"token", "tab", "refresh"}
    [] OTHER         -> {"token", "tab", "filter", "refresh"}

Polled(v, u, s) ==
  /\ u.session # 0
  /\ v \in watch.views \cap PolledViews
  /\ CASE v = "queues" -> u.project # {}
       [] v = "stats"  -> s["queues"].key # {}
       [] OTHER        -> u.tab = v

KeyOf(v, u, s) ==
  CASE v = "queues" -> u.project
    [] v = "stats"  -> s["queues"].key
    [] v = "jobs"   -> {u.filter}
    [] OTHER        -> {}

Effects(u, s, changed) ==
  {Get(v, KeyOf(v, u, s)) :
     v \in {w \in PolledViews : Polled(w, u, s) /\ DependsOn(w) \cap changed # {}}}

(* BatchesTab is a component of its own: when it goes, so does its list,   *)
(* and what it has asked for, or would ask for, reaches nothing.           *)
Unmounts(u) == ui.tab = "batches" /\ (u.tab # "batches" \/ u.session = 0)

Forget(u, s) ==
  [v \in watch.views |-> IF v = "batches" /\ Unmounts(u) THEN Empty ELSE s[v]]

Pending(u, fs) ==
  IF Unmounts(u) THEN {[f EXCEPT !.follow = {g \in @ : g.what # "batches"}] :
                         f \in {g \in fs : g.what # "batches"}}
                 ELSE fs

(* A step of the page: its new state and what it shows, the dependencies   *)
(* that changed, the flights that have landed and those its code starts.   *)
Page(u, s, changed, landed, started) ==
  /\ ui' = u
  /\ shown' = Forget(u, s)
  /\ flights' = Pending(u, flights \ landed) \cup {g \in started : g.what \in watch.views \cup Operations}
                \cup Effects(u, s, changed)

Click == clicks < watch.clicks /\ Room /\ clicks' = clicks + 1

---------------------------------------------------------------------------
(* handleAuth, and the effects of a new token; logout. `ui.live' stays as  *)
(* it is, for the old socket reports its end later.                        *)
SignIn ==
  /\ ui.session = 0 /\ logins < watch.logins /\ Room
  /\ logins' = logins + 1
  /\ Page([ui EXCEPT !.session = logins + 1], shown, {"token"}, {},
          {Get("projects", {}), Get("events", {})})
  /\ socket' = [socket EXCEPT ![logins + 1] =
                  IF "events" \in watch.views THEN "connecting" ELSE "none"]
  /\ UNCHANGED <<watch, server, hub, wire, details, bounds>>

SignOut ==
  /\ ui.session # 0 /\ logins < watch.logins
  /\ Page([ui EXCEPT !.session = 0, !.project = {}], shown, {"token", "project"}, {}, {})
  /\ socket' = [socket EXCEPT ![ui.session] =
                  IF @ \in {"connecting", "open"} THEN "closing" ELSE @]
  /\ UNCHANGED <<watch, server, hub, wire, logins, details, bounds>>

(* setInterval, every three seconds.                                       *)
Tick ==
  /\ ui.session # 0 /\ Room
  /\ Page(ui, shown, {"refresh"}, {}, {})
  /\ UNCHANGED <<watch, server, sockets, logins, details, bounds>>

(* What the user does besides: tabs, filters, the list of projects.        *)
SelectTab(t) ==
  /\ ui.session # 0 /\ ui.tab # t /\ Click
  /\ Page([ui EXCEPT !.tab = t], shown, {"tab"}, {}, {})
  /\ UNCHANGED <<watch, server, sockets, logins, details, failures>>

SelectFilter(f) ==
  /\ ui.session # 0 /\ ui.tab = "jobs" /\ ui.filter # f /\ Click
  /\ Page([ui EXCEPT !.filter = f], shown, {"filter"}, {}, {})
  /\ UNCHANGED <<watch, server, sockets, logins, details, failures>>

SelectProject(p) ==
  /\ ui.session # 0 /\ "projects" \in watch.views
  /\ p \in shown["projects"].rows /\ ui.project # {p} /\ Click
  /\ Page([ui EXCEPT !.project = {p}], shown, {"project"}, {}, {})
  /\ UNCHANGED <<watch, server, sockets, logins, details, failures>>

OpenDetails(j) ==
  /\ ui.session # 0 /\ ui.tab = "jobs" /\ "details" \in watch.views /\ Click
  /\ Page(ui, shown, {}, {}, {Get("details", {j})})
  /\ UNCHANGED <<watch, server, sockets, logins, details, failures>>

CloseDetails ==
  /\ ui.session # 0 /\ details["job"] # {} /\ Click
  /\ details' = [details EXCEPT !["job"] = {}]
  /\ UNCHANGED <<watch, server, sockets, ui, logins, shown, flights, failures>>

(* The requests that change something: where the user finds them, and what *)
(* follows them. A scenario of the metrics tab is a sequence of POSTs; two *)
(* stand for it, and it ends with a bump of refreshTrigger.                *)
Sends(op, key, gets) ==
  /\ Click
  /\ Page(ui, shown, {}, {}, {Post(op, key, gets)})
  /\ UNCHANGED <<watch, server, sockets, logins, details, failures>>

RetryJob(j) ==
  /\ ui.session # 0 /\ watch.views \cap {"jobs", "details"} # {}
  /\ ui.tab = "jobs" \/ details["job"] = {j}
  /\ Sends("retry", {}, {Get("jobs", {ui.filter}), Get("details", {j})})

ReplayDlq == ui.session # 0 /\ ui.tab = "dlq" /\ Sends("replay", {}, {Get("dlq", {})})

CancelBatch ==
  ui.session # 0 /\ ui.tab = "batches" /\ Sends("cancel", {}, {Get("batches", {})})

ChangeQueue(op) ==
  /\ ui.session # 0 /\ ui.tab = "queues" /\ "queues" \in watch.views /\ ui.project # {}
  /\ op \in {"update_queue", "create_queue"}
  /\ Sends(op, {}, {Get("queues", ui.project)})

CreateProject ==
  /\ ui.session # 0 /\ "projects" \in watch.views
  /\ Sends("create_project", {}, {})

SubmitJob(tab) ==
  /\ ui.session # 0 /\ ui.tab = "queues" /\ watch.views \cap {"jobs", "batches"} # {}
  /\ Sends("submit", {tab}, {Get("jobs", {ui.filter})})

RunScenario(first) ==
  /\ ui.session # 0 /\ ui.tab = "metrics" /\ shown["queues"].key # {}
  /\ Click
  /\ Page(ui, shown, {}, {},
          {[Post(first, {}, {}) EXCEPT !.follow = {Post("last", {}, {})}]})
  /\ UNCHANGED <<watch, server, sockets, logins, details, failures>>

---------------------------------------------------------------------------
(* The server. Its process, or a worker's, commits a change and publishes  *)
(* it: INSERT into system_events, then the listeners of the same process.  *)
(* Announcements are watched together with the view that shows them.       *)
NextChange == Cardinality(changes) + 1

Commits(by) ==
  /\ NextChange <= watch.changes
  /\ changes' = changes \cup {NextChange}
  /\ publishing' = IF "events" \in watch.views
                   THEN publishing \cup {[change |-> NextChange, by |-> by, step |-> "insert"]}
                   ELSE publishing

(* broadcastRealtimeEvent: a frame to each socket of the hub.              *)
Broadcast(c) ==
  [s \in Sessions |-> IF s \in hub THEN Append(wire[s], Frame(c)) ELSE wire[s]]

\* Mutant: publishEvent tells the listeners before the INSERT.
AnnounceFirst(e) ==
  /\ e \in publishing
  /\ publishing' = IF e.step = "insert" THEN (publishing \ {e}) \cup {[e EXCEPT !.step = "emit"]}
                   ELSE publishing \ {e}
  /\ recorded' = IF e.step = "emit" THEN recorded \cup {e.change} ELSE recorded
  /\ wire' = IF e.step = "insert" /\ e.by = "api" THEN Broadcast(e.change) ELSE wire
  /\ UNCHANGED <<watch, changes, made, hub, socket, ui, logins, shown, details, flights, bounds>>

PublishEvent(e) ==
  /\ e \in publishing
  /\ publishing' = IF e.step = "insert" THEN (publishing \ {e}) \cup {[e EXCEPT !.step = "emit"]}
                   ELSE publishing \ {e}
  /\ recorded' = IF e.step = "insert" THEN recorded \cup {e.change} ELSE recorded
  /\ wire' = IF e.step = "emit" /\ e.by = "api" THEN Broadcast(e.change) ELSE wire
  /\ UNCHANGED <<watch, changes, made, hub, socket, ui, logins, shown, details, flights, bounds>>

(* Jobs run, other users work: a change that this page did not ask for.    *)
ElsewhereChange(by) ==
  /\ Commits(by)
  /\ UNCHANGED <<watch, made, recorded, sockets, ui, logins, shown, details, flights, bounds>>

Snapshot(v) ==
  CASE v = "events"   -> recorded
    [] v = "projects" -> {0} \cup made
    [] OTHER          -> changes

Replaced(f, g) == flights' = (flights \ {f}) \cup {g}

(* A list endpoint answers. The statistics take one request per queue, one *)
(* after the other (App.tsx:220): what is shown is as old as the first.    *)
AnswerGet(f) ==
  /\ f \in flights /\ f.what \in Views \ {"details"} /\ f.state # "answered"
  /\ Replaced(f, [f EXCEPT
       !.state = IF f.what = "stats" /\ f.state = "sent" THEN "partly" ELSE "answered",
       !.rows = IF f.state = "sent" THEN Snapshot(f.what) ELSE f.rows])
  /\ UNCHANGED <<watch, server, sockets, ui, logins, shown, details, bounds>>

(* The four requests of fetchJobDetails; `parts' came with data, the others*)
(* with an error.                                                          *)
AnswerDetails(f, parts) ==
  /\ f \in flights /\ f.what = "details" /\ f.state = "sent"
  /\ failures + (IF parts = Parts THEN 0 ELSE 1) <= watch.failures
  /\ failures' = failures + (IF parts = Parts THEN 0 ELSE 1)
  /\ Replaced(f, [f EXCEPT !.state = "answered", !.rows = parts])
  /\ UNCHANGED <<watch, server, sockets, ui, logins, shown, details, clicks>>

(* A request that changes something is accepted or refused.                *)
Accept(f) ==
  /\ f \in flights /\ f.what \in Operations /\ f.state = "sent"
  /\ Commits("api")
  /\ made' = IF f.what = "create_project" THEN made \cup {NextChange} ELSE made
  /\ Replaced(f, [f EXCEPT !.state = "answered", !.rows = {NextChange}])
  /\ UNCHANGED <<watch, recorded, sockets, ui, logins, shown, details, bounds>>

Refuse(f) ==
  /\ f \in flights /\ f.what \in Operations /\ f.state = "sent"
  /\ Replaced(f, [f EXCEPT !.state = "answered"])
  /\ UNCHANGED <<watch, server, sockets, ui, logins, shown, details, bounds>>

(* The network loses a request or its answer, or a query throws: `fetch'   *)
(* rejects, or there is no data, and nothing of the page changes. Without  *)
(* data, the statistics of a queue are left out of the others', and the    *)
(* project that was created is selected though the list lacks it.          *)
Lost(f) ==
  /\ f \in flights /\ failures < watch.failures
  /\ failures' = failures + 1
  /\ flights' = flights \ {f}
  /\ UNCHANGED <<watch, server, sockets, ui, logins, shown, details, clicks>>

WithoutData(f) ==
  /\ f \in flights /\ failures < watch.failures
  /\ failures' = failures + 1
  /\ \/ /\ f.what = "stats" /\ f.state # "answered"
        /\ Replaced(f, [f EXCEPT !.state = "answered", !.rows = {}])
        /\ UNCHANGED <<ui, shown>>
     \/ /\ f.what = "projects" /\ f.key # {}
        /\ Page([ui EXCEPT !.project = f.key], shown, {"project"}, {f}, {})
  /\ UNCHANGED <<watch, server, sockets, logins, details, clicks>>

---------------------------------------------------------------------------
(* What the page does with a response, whatever it shows by then.          *)
ReceiveList(f) ==
  /\ f \in flights /\ f.what \in Views \ {"details", "projects"} /\ f.state = "answered"
  /\ Page(ui, [shown EXCEPT ![f.what] = [key |-> f.key, rows |-> f.rows]],
          IF f.what = "queues" THEN {"queues"} ELSE {}, {f}, {})
  /\ UNCHANGED <<watch, server, sockets, logins, details, bounds>>

(* fetchProjects keeps the active project; after createProject it becomes  *)
(* the new one, whose number the flight has as its key.                    *)
ReceiveProjects(f, p) ==
  /\ f \in flights /\ f.what = "projects" /\ f.state = "answered" /\ p \in f.rows
  /\ LET active == IF f.key # {} THEN f.key
                   ELSE IF ui.project # {} THEN ui.project ELSE {p}
     IN Page([ui EXCEPT !.project = active],
             [shown EXCEPT !["projects"] = [key |-> {}, rows |-> f.rows]],
             IF active = ui.project THEN {} ELSE {"project"}, {f}, {})
  /\ UNCHANGED <<watch, server, sockets, logins, details, bounds>>

\* Mutant: only the row and the logs are replaced.
ReceiveHalf(f) ==
  /\ f \in flights /\ f.what = "details" /\ f.state = "answered"
  /\ details' = [p \in Parts |-> IF p \in f.rows \cap {"job", "logs"} THEN f.key ELSE details[p]]
  /\ Page(ui, shown, {}, {f}, {})
  /\ UNCHANGED <<watch, server, sockets, logins, bounds>>

ReceiveDetails(f) ==
  /\ f \in flights /\ f.what = "details" /\ f.state = "answered"
  /\ details' = [p \in Parts |-> IF p \in f.rows THEN f.key ELSE details[p]]
  /\ Page(ui, shown, {}, {f}, {})
  /\ UNCHANGED <<watch, server, sockets, logins, bounds>>

(* retryJob, replayDlq, cancelBatch and updateQueue do not look at the     *)
(* status of the response; createQueue, createProject and a submission do. *)
ReceiveAck(f) ==
  /\ f \in flights /\ f.state = "answered"
  /\ f.what \in {"retry", "replay", "cancel", "update_queue"} \/
     (f.what = "create_queue" /\ f.rows # {})
  /\ Page(ui, shown, {}, {f}, f.follow)
  /\ UNCHANGED <<watch, server, sockets, logins, details, bounds>>

ReceiveProject(f) ==
  /\ f \in flights /\ f.what = "create_project" /\ f.state = "answered" /\ f.rows # {}
  /\ Page(ui, shown, {}, {f}, {Get("projects", f.rows)})
  /\ UNCHANGED <<watch, server, sockets, logins, details, bounds>>

ReceiveSubmitted(f) ==
  /\ f \in flights /\ f.what = "submit" /\ f.state = "answered" /\ f.rows # {}
  /\ LET t == CHOOSE t \in f.key : TRUE
     IN Page([ui EXCEPT !.tab = t], shown, IF t = ui.tab THEN {} ELSE {"tab"}, {f}, f.follow)
  /\ UNCHANGED <<watch, server, sockets, logins, details, bounds>>

(* An alert, or the error line of the form.                                *)
ReceiveRefusal(f) ==
  /\ f \in flights /\ f.state = "answered" /\ f.rows = {}
  /\ f.what \in {"create_queue", "create_project", "submit"}
  /\ Page(ui, shown, {}, {f}, {})
  /\ UNCHANGED <<watch, server, sockets, logins, details, bounds>>

(* The next POST of a scenario, unless it needs the id of a refused parent.*)
ReceiveScenario(f) ==
  /\ f \in flights /\ f.what \in {"parent", "burst", "last"} /\ f.state = "answered"
  /\ IF f.what = "last" THEN Page(ui, shown, {"refresh"}, {f}, {})
     ELSE Page(ui, shown, {}, {f}, IF f.what = "parent" /\ f.rows = {} THEN {} ELSE f.follow)
  /\ UNCHANGED <<watch, server, sockets, logins, details, bounds>>

---------------------------------------------------------------------------
(* The hub takes a socket, greets it, and forgets it when it closes.       *)
Upgrade(s) ==
  /\ socket[s] \in {"connecting", "closing"} /\ wire[s] = <<>>
  /\ hub' = hub \cup {s}
  /\ wire' = [wire EXCEPT ![s] = <<Open, Frame(Connected)>>]
  /\ UNCHANGED <<watch, server, socket, ui, logins, shown, details, flights, bounds>>

(* The connection breaks, and what was on its way may break with it.       *)
SocketLost(s, n) ==
  /\ s \in hub /\ n \in 0 .. Len(wire[s]) /\ failures < watch.failures
  /\ failures' = failures + 1
  /\ hub' = hub \ {s}
  /\ wire' = [wire EXCEPT ![s] = Append(SubSeq(@, 1, n), Close)]
  /\ UNCHANGED <<watch, server, socket, ui, logins, shown, details, flights, clicks>>

(* The publisher dies between two statements.                              *)
PublisherDies(e) ==
  /\ e \in publishing /\ failures < watch.failures
  /\ failures' = failures + 1
  /\ publishing' = publishing \ {e}
  /\ UNCHANGED <<watch, changes, made, recorded, sockets, ui, logins, shown, details,
                 flights, clicks>>

(* The handlers of a socket. One that is closing brings no more messages.  *)
Arrived(s) == [wire EXCEPT ![s] = Tail(@)]

OnOpen(s) ==
  /\ socket[s] = "connecting" /\ wire[s] # <<>> /\ Head(wire[s]) = Open
  /\ wire' = Arrived(s)
  /\ socket' = [socket EXCEPT ![s] = "open"]
  /\ ui' = [ui EXCEPT !.live = TRUE]
  /\ UNCHANGED <<watch, server, hub, logins, shown, details, flights, bounds>>

OnMessage(s) ==
  /\ socket[s] = "open" /\ wire[s] # <<>> /\ Head(wire[s])[1] = "event"
  /\ wire' = Arrived(s)
  /\ Page(ui, [shown EXCEPT !["events"].rows = @ \cup {Head(wire[s])[2]}], {"refresh"}, {}, {})
  /\ UNCHANGED <<watch, server, hub, socket, logins, details, bounds>>

OnClose(s) ==
  /\ \/ socket[s] = "closing"
     \/ socket[s] \in {"connecting", "open"} /\ wire[s] # <<>> /\ Head(wire[s]) = Close
  /\ socket' = [socket EXCEPT ![s] = "closed"]
  /\ hub' = hub \ {s}
  /\ wire' = [wire EXCEPT ![s] = <<Close>>]
  /\ ui' = [ui EXCEPT !.live = FALSE]
  /\ UNCHANGED <<watch, server, logins, shown, details, flights, bounds>>

---------------------------------------------------------------------------
Session == SignIn \/ SignOut \/ Tick

Use ==
  \/ \E t \in TabsHere : SelectTab(t)
  \/ \E f \in Filters : SelectFilter(f)
  \/ \E p \in {0} \cup made : SelectProject(p)
  \/ \E j \in Jobs : OpenDetails(j) \/ RetryJob(j)
  \/ CloseDetails \/ ReplayDlq \/ CancelBatch \/ CreateProject
  \/ \E op \in {"update_queue", "create_queue"} : ChangeQueue(op)
  \/ \E t \in {"jobs", "batches"} : SubmitJob(t)
  \/ \E first \in {"parent", "burst"} : RunScenario(first)

Answer(f) == AnswerGet(f) \/ AnswerDetails(f, Parts) \/ Accept(f) \/ Refuse(f)

Receive(f) ==
  \/ ReceiveList(f) \/ (\E p \in f.rows : ReceiveProjects(f, p)) \/ ReceiveDetails(f)
  \/ ReceiveAck(f) \/ ReceiveProject(f) \/ ReceiveSubmitted(f) \/ ReceiveRefusal(f)
  \/ ReceiveScenario(f)

OnSocket(s) == OnOpen(s) \/ OnMessage(s) \/ OnClose(s)

Faults ==
  \/ \E f \in flights : Lost(f) \/ WithoutData(f) \/ \E parts \in (SUBSET Parts) \ {Parts} : AnswerDetails(f, parts)
  \/ \E s \in Sessions : \E n \in 0 .. Len(wire[s]) : SocketLost(s, n)
  \/ \E e \in publishing : PublisherDies(e)

Next ==
  \/ Session \/ Use \/ Faults
  \/ \E by \in {"api", "worker"} : ElsewhereChange(by)
  \/ \E e \in publishing : PublishEvent(e)
  \/ \E f \in flights : Answer(f) \/ Receive(f)
  \/ \E s \in Sessions : Upgrade(s) \/ OnSocket(s)

Spec == Init /\ [][Next]_vars

(* The server answers what reaches it, the network brings what it does not *)
(* lose, also a response that is older than the page, and timers fire.     *)
Stale(f) ==
  f.what \in PolledViews /\ f.state = "answered" /\
  (f.rows # Snapshot(f.what) \/ f.key # KeyOf(f.what, ui, shown))

Some(v, stale) == {f \in flights : f.what = v /\ (Stale(f) <=> stale)}

Fairness ==
  /\ WF_vars(Tick)
  /\ WF_vars(\E f \in {g \in flights : g.state = "partly"} : Answer(f))
  /\ \A v \in Views \cup Operations :
       /\ WF_vars(\E f \in {g \in flights : g.what = v /\ g.state = "sent"} : Answer(f))
       /\ WF_vars(\E f \in Some(v, TRUE) : Receive(f))
       /\ WF_vars(\E f \in Some(v, FALSE) : Receive(f))
  /\ WF_vars(\E e \in publishing : PublishEvent(e))
  /\ \A s \in Sessions : WF_vars(Upgrade(s)) /\ WF_vars(OnSocket(s))

FairSpec == Spec /\ Fairness
---------------------------------------------------------------------------
(* The page never shows, and no socket brings, an event that has no row in *)
(* system_events (events.ts:40 before :47): a list fetched afterwards does *)
(* not lose it again. "Live" is shown only while a socket is open, or one  *)
(* has closed whose onclose is still to come (App.tsx:135-137).            *)
DashboardInv ==
  /\ TypeOK
  /\ "events" \in watch.views => shown["events"].rows \subseteq recorded \cup {Connected}
  /\ \A s \in Sessions : \A i \in DOMAIN wire[s] : wire[s][i][2] \in recorded \cup {Connected}
  /\ ui.live => \E s \in Sessions : socket[s] \in {"open", "closing"}

(* The panel of a job has the logs, the executions and the dependencies of *)
(* that job, whichever job's answer came last: they arrive together        *)
(* (App.tsx:283-299). An error for one of the four is enough to part them. *)
DetailsAgree ==
  details["job"] # {} /\ failures = 0 => \A p \in Parts : details[p] = details["job"]

(* Whatever responses overtake one another or get lost, and whether the    *)
(* socket is there or not, a page that is left alone comes to show, in the *)
(* tab that is open, what is in the database, for the project and filter   *)
(* that are selected (App.tsx:121, 150-166); and it says "Live" for ever   *)
(* only with an open socket.                                               *)
Current(v) ==
  /\ shown[v].rows = Snapshot(v)
  /\ shown[v].key = KeyOf(v, ui, shown)

ViewsSettle ==
  /\ <>[](\A v \in watch.views : Polled(v, ui, shown) => Current(v))
  /\ <>[](ui.live => \E s \in Sessions : socket[s] = "open")
=============================================================================
