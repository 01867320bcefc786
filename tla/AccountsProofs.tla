---------------------------- MODULE AccountsProofs ----------------------------
(***************************************************************************)
(* Users, organizations, memberships, projects and queues, for any number  *)
(* of concurrent requests and of statements that throw.                    *)
(***************************************************************************)
EXTENDS Accounts, SequenceTheorems, WellFoundedInduction, TLAPS

USE AccountsAssumption

---------------------------------------------------------------------------
(* The records of the requests.                                            *)
OrgPcs == {"insert_member", "check_name", "insert_project", "insert_queue"}
InnerPcs == {"insert_user", "insert_org", "rows", "upsert_member", "insert_own_queue"}
              \cup OrgPcs

OrgRequests == [pc : OrgPcs, op : {"list", "create"}, user : Users,
                name : Names \cup {DefaultProject}, org : Requests]

\* What a request carries, by where it is.
LEMMA Shapes ==
  ASSUME TypeOK, NEW r \in Requests
  PROVE  /\ req[r].pc \in {"idle", "done"} \cup InnerPcs
         /\ req[r].pc = "idle" <=> req[r] = Idle
         /\ req[r].pc \in InnerPcs =>
              /\ req[r].op \in {"register", "list", "create", "member", "queue"}
              /\ req[r].user \in Users
         /\ req[r].pc = "insert_user" => req[r].op = "register" /\ req[r].password \in Passwords
         /\ req[r].pc = "insert_org" => /\ req[r].op \in {"list", "create"}
                                        /\ req[r].name \in Names \cup {DefaultProject}
         /\ req[r].pc \in OrgPcs => req[r] \in OrgRequests
         /\ req[r].pc = "rows" => req[r].op = "list"
         /\ req[r].pc = "upsert_member" =>
              /\ req[r].op = "member" /\ req[r].project \in Requests
              /\ req[r].target \in Users /\ req[r].role \in Assignable
         /\ req[r].pc = "insert_own_queue" =>
              req[r].op = "queue" /\ req[r].project \in Requests /\ req[r].name \in Names
         /\ "org" \in DOMAIN req[r] => req[r].pc \in OrgPcs
<1>1. req[r] \in Requested
  BY DEF TypeOK
<1>2. CASE req[r] = Idle
  BY <1>2 DEF Idle, OrgPcs, InnerPcs
<1>3. CASE req[r] \in [pc : {"insert_user"}, op : {"register"}, user : Users,
                       password : Passwords]
  BY <1>3 DEF Idle, OrgPcs, InnerPcs
<1>4. CASE req[r] \in [pc : {"insert_org"}, op : {"list", "create"}, user : Users,
                       name : Names \cup {DefaultProject}]
  BY <1>4 DEF Idle, OrgPcs, InnerPcs
<1>5. CASE req[r] \in OrgRequests
  BY <1>5 DEF Idle, OrgPcs, InnerPcs, OrgRequests
<1>6. CASE req[r] \in [pc : {"rows"}, op : {"list"}, user : Users]
  BY <1>6 DEF Idle, OrgPcs, InnerPcs
<1>7. CASE req[r] \in [pc : {"upsert_member"}, op : {"member"}, user : Users,
                       project : Requests, target : Users, role : Assignable]
  BY <1>7 DEF Idle, OrgPcs, InnerPcs
<1>8. CASE req[r] \in [pc : {"insert_own_queue"}, op : {"queue"}, user : Users,
                       project : Requests, name : Names]
  BY <1>8 DEF Idle, OrgPcs, InnerPcs
<1>9. CASE req[r] \in [pc : {"done"}, code : {200, 201, 204, 401, 403, 404, 409, 500},
                       op : {"register", "login", "list", "create", "delete", "member",
                             "queue"}, user : Users]
  BY <1>9 DEF Idle, OrgPcs, InnerPcs
<1>10. QED
  BY <1>1, <1>2, <1>3, <1>4, <1>5, <1>6, <1>7, <1>8, <1>9 DEF Requested, OrgRequests, OrgPcs

LEMMA AnsweredTyped ==
  ASSUME NEW u \in Users,
         NEW op \in {"register", "login", "list", "create", "delete", "member", "queue"},
         NEW code \in {200, 201, 204, 401, 403, 404, 409, 500}
  PROVE  Answered(op, u, code) \in Requested
  BY DEF Answered, Requested

LEMMA AtTyped ==
  ASSUME TypeOK, NEW r \in Requests, req[r].pc \in OrgPcs, NEW there \in OrgPcs
  PROVE  /\ At(r, there) \in Requested
         /\ At(r, there).pc = there /\ At(r, there).op = req[r].op
         /\ At(r, there).user = req[r].user /\ At(r, there).org = req[r].org
         /\ At(r, there).name = req[r].name
<1>1. req[r] \in OrgRequests
  BY Shapes
<1>2. At(r, there) \in OrgRequests
  BY <1>1 DEF At, OrgRequests
<1>3. At(r, there) \in Requested
  BY <1>2 DEF OrgRequests, OrgPcs, Requested
<1>4. QED
  BY <1>1, <1>3 DEF At, OrgRequests

LEMMA GotoTyped ==
  ASSUME TypeOK, NEW r \in Requests, NEW state \in Requested, Goto(r, state)
  PROVE  /\ req' \in [Requests -> Requested]
         /\ req'[r] = state /\ \A s \in Requests \ {r} : req'[s] = req[s]
  BY DEF Goto, TypeOK

LEMMA OrgTyped ==
  ASSUME TypeOK, NEW i \in DOMAIN orgs
  PROVE  i \in Nat /\ orgs[i].id \in Requests /\ orgs[i].owner \in Users
<1> DEFINE Orgs == [id : Requests, owner : Users]
<1>1. orgs \in Seq(Orgs)
  BY DEF TypeOK
<1>2. i \in Nat /\ orgs[i] \in Orgs
  <2> HIDE DEF Orgs
  <2>1. DOMAIN orgs = 1 .. Len(orgs) /\ Len(orgs) \in Nat
    BY <1>1, LenProperties
  <2>2. QED
    BY <1>1, <2>1, ElementOfSeq
<1>3. QED
  BY <1>2

LEMMA InitTyped == Init => TypeOK
  BY DEF Init, TypeOK, Requested

---------------------------------------------------------------------------
(* The inductive invariant.                                                *)
HasOrg(o, u) == \E i \in DOMAIN orgs : orgs[i].id = o /\ orgs[i].owner = u

(* An organization is one request's, which has inserted it, and the owner  *)
(* is a member unless that request has not got there or has failed.        *)
OrgsInv ==
  /\ \A i, k \in DOMAIN orgs : orgs[i].id = orgs[k].id => i = k
  /\ \A i \in DOMAIN orgs :
       /\ orgs[i].owner \in DOMAIN accounts
       /\ req[orgs[i].id].pc \notin {"idle", "insert_org"}
       /\ \/ <<orgs[i].id, orgs[i].owner>> \in DOMAIN members
          \/ req[orgs[i].id].pc = "insert_member"
          \/ req[orgs[i].id].pc = "done" /\ req[orgs[i].id].code = 500

MembersInv ==
  \A m \in DOMAIN members :
    /\ m[2] \in DOMAIN accounts
    /\ \E i \in DOMAIN orgs : /\ orgs[i].id = m[1]
                              /\ members[m] = "owner" => orgs[i].owner = m[2]

(* A project has the id of the request that inserted it, into one of the   *)
(* user's organizations, whose member he is already if it is seeded.       *)
ProjectInv(p) ==
  /\ req[p].pc \in {"insert_queue", "rows", "done"} /\ req[p].op \in {"list", "create"}
  /\ HasOrg(projects[p].org, req[p].user)
  /\ req[p].op = "list" => <<projects[p].org, req[p].user>> \in DOMAIN members

QueuesInv == \A q \in queues : q[1] \in DOMAIN projects

(* What a request under way knows to be in the tables stays there.         *)
RequestInv(r) ==
  /\ req[r].pc \in {"insert_org"} \cup OrgPcs => req[r].user \in DOMAIN accounts
  /\ req[r].pc \in OrgPcs => HasOrg(req[r].org, req[r].user)
  /\ req[r].pc = "insert_member" => req[r].org = r
  /\ req[r].pc = "check_name" => req[r].op = "create"
  /\ req[r].pc \in {"insert_project", "insert_queue"} /\ req[r].op = "list"
       => <<req[r].org, req[r].user>> \in DOMAIN members
  /\ req[r].pc = "done" /\ req[r].op = "register" /\ req[r].code = 201
       => req[r].user \in DOMAIN accounts

(* A request that seeds has begun when its user saw no project: none that  *)
(* was seeded for him before it began is still there.                      *)
Seeding(s) ==
  req[s].op = "list" /\ (req[s].pc \in {"insert_org"} \cup OrgPcs \/ s \in DOMAIN projects)

SeedInv ==
  \A s \in Requests : req[s].pc # "idle" =>
    \A r \in before[s] :
      /\ req[r].pc = "done"
      /\ ~(/\ Seeding(s) /\ r \in DOMAIN projects
           /\ req[r].op = "list" /\ req[r].user = req[s].user)

RowsInv ==
  /\ TypeOK /\ OrgsInv /\ MembersInv /\ QueuesInv
  /\ \A p \in DOMAIN projects : ProjectInv(p)
  /\ \A r \in Requests : RequestInv(r)
  /\ NamesAreUnique /\ OneAccount /\ SeedInv

LEMMA InitInv == Init => RowsInv
<1> SUFFICES ASSUME Init PROVE RowsInv
  OBVIOUS
<1>1. TypeOK
  BY InitTyped
<1>2. DOMAIN orgs = {} /\ DOMAIN members = {} /\ DOMAIN projects = {} /\ queues = {}
  BY DEF Init
<1>3. \A r \in Requests : req[r].pc = "idle"
  BY DEF Init, Idle
<1>4. OrgsInv /\ MembersInv /\ QueuesInv /\ NamesAreUnique
  BY <1>2 DEF OrgsInv, MembersInv, QueuesInv, NamesAreUnique
<1>5. (\A r \in Requests : RequestInv(r)) /\ OneAccount /\ SeedInv
  BY <1>3 DEF RequestInv, OneAccount, SeedInv, OrgPcs
<1>6. QED
  BY <1>1, <1>2, <1>4, <1>5 DEF RowsInv

(* Accounts, organizations and memberships are only ever added.            *)
Grown ==
  /\ DOMAIN accounts \subseteq DOMAIN accounts'
  /\ DOMAIN members \subseteq DOMAIN members'
  /\ \A o, u : HasOrg(o, u) => HasOrg(o, u)'

\* A request goes on, and is the only one to.
Moves(r) ==
  /\ req[r].pc # "done" /\ req'[r].pc # "idle"
  /\ \A s \in Requests \ {r} : req'[s] = req[s]

(* What a statement of r leaves of the invariant when it is true of what   *)
(* the statement changes: its request, and the tables it writes to.        *)
LEMMA MoveInv ==
  ASSUME RowsInv, NEW r \in Requests, Moves(r), Grown, TypeOK',
         OrgsInv', MembersInv', QueuesInv', NamesAreUnique', RequestInv(r)',
         \A p \in DOMAIN projects' :
           \/ p = r /\ ProjectInv(r)'
           \/ p # r /\ p \in DOMAIN projects /\ projects'[p] = projects[p],
         req'[r].pc = "done" /\ req'[r].op = "register" /\ req'[r].code = 201
           => req'[r].user \notin DOMAIN accounts,
         \A s \in Requests \ {r} : before'[s] = before[s],
         \A b \in before'[r] :
           /\ b \in Requests /\ b # r /\ req[b].pc = "done"
           /\ ~(/\ Seeding(r)' /\ b \in DOMAIN projects
                /\ req[b].op = "list" /\ req[b].user = req'[r].user)
  PROVE  RowsInv'
<1> USE DEF RowsInv, Moves
<1>1. \A p \in DOMAIN projects' : ProjectInv(p)'
  <2> SUFFICES ASSUME NEW p \in DOMAIN projects', p # r PROVE ProjectInv(p)'
    OBVIOUS
  <2>1. p \in DOMAIN projects /\ projects'[p] = projects[p] /\ req'[p] = req[p]
    BY DEF TypeOK
  <2>2. QED
    BY <2>1 DEF ProjectInv, Grown
<1>2. \A s \in Requests : RequestInv(s)'
  <2> SUFFICES ASSUME NEW s \in Requests, s # r PROVE RequestInv(s)'
    OBVIOUS
  <2>1. req'[s] = req[s] /\ RequestInv(s)
    OBVIOUS
  <2>2. QED
    BY <2>1 DEF RequestInv, Grown
<1>3. OneAccount'
  <2>1. \A s \in Requests \ {r} :
          req[s].pc = "done" /\ req[s].op = "register" /\ req[s].code = 201
            => req[s].user \in DOMAIN accounts
    BY DEF RequestInv
  <2>2. QED
    BY <2>1 DEF OneAccount
<1>4. SeedInv'
  <2> SUFFICES ASSUME NEW s \in Requests, req'[s].pc # "idle", NEW b \in before'[s]
               PROVE  /\ req'[b].pc = "done"
                      /\ ~(/\ Seeding(s)' /\ b \in DOMAIN projects'
                           /\ req'[b].op = "list" /\ req'[b].user = req'[s].user)
    BY DEF SeedInv
  <2>1. CASE s = r
    BY <2>1
  <2>2. CASE s # r
    <3>1. /\ b \in before[s] /\ b \in Requests /\ req'[s] = req[s]
          /\ req[b].pc = "done"
          /\ ~(/\ Seeding(s) /\ b \in DOMAIN projects
               /\ req[b].op = "list" /\ req[b].user = req[s].user)
      BY <2>2 DEF SeedInv, TypeOK
    <3>2. b # r /\ req'[b] = req[b]
      BY <3>1
    <3>3. (s \in DOMAIN projects' => s \in DOMAIN projects)
          /\ (b \in DOMAIN projects' => b \in DOMAIN projects)
      BY <2>2, <3>2
    <3>4. Seeding(s)' => Seeding(s)
      BY <3>1, <3>3 DEF Seeding
    <3>5. QED
      BY <3>1, <3>2, <3>3, <3>4
  <2>3. QED
    BY <2>1, <2>2
<1>5. QED
  BY <1>1, <1>2, <1>3, <1>4

---------------------------------------------------------------------------
(* Requests that begin, and those that go on without writing.              *)
BeginPcs == {"insert_user", "insert_org", "check_name", "rows", "upsert_member",
             "insert_own_queue", "done"}

\* An organization stays as it is while the request that inserted it goes on
\* behind its membership.
LEMMA OrgsKept ==
  ASSUME RowsInv, NEW r \in Requests, Grown, UNCHANGED orgs,
         \A s \in Requests \ {r} : req'[s] = req[s],
         req'[r].pc # "idle",
         req[r].pc \notin {"idle", "insert_org"} => req'[r].pc # "insert_org",
         req[r].pc # "done",
         req[r].pc = "insert_member" =>
            \/ req'[r].pc = "done" /\ req'[r].code = 500
            \/ <<r, req[r].user>> \in DOMAIN members'
  PROVE  OrgsInv'
<1> USE DEF RowsInv
<1>1. \A i, k \in DOMAIN orgs : orgs[i].id = orgs[k].id => i = k
  BY DEF OrgsInv
<1>2. ASSUME NEW i \in DOMAIN orgs
      PROVE  /\ orgs[i].owner \in DOMAIN accounts'
             /\ req'[orgs[i].id].pc \notin {"idle", "insert_org"}
             /\ \/ <<orgs[i].id, orgs[i].owner>> \in DOMAIN members'
                \/ req'[orgs[i].id].pc = "insert_member"
                \/ req'[orgs[i].id].pc = "done" /\ req'[orgs[i].id].code = 500
  <2> DEFINE o == orgs[i].id
  <2>1. o \in Requests
    BY OrgTyped
  <2>2. /\ orgs[i].owner \in DOMAIN accounts /\ req[o].pc \notin {"idle", "insert_org"}
        /\ \/ <<o, orgs[i].owner>> \in DOMAIN members
           \/ req[o].pc = "insert_member"
           \/ req[o].pc = "done" /\ req[o].code = 500
    BY DEF OrgsInv
  <2>3. CASE o # r
    BY <2>1, <2>2, <2>3 DEF Grown
  <2>4. CASE o = r
    <3>1. req[r].pc = "insert_member" => orgs[i].owner = req[r].user
      BY <1>1, <2>4 DEF RequestInv, HasOrg, OrgPcs
    <3>2. QED
      BY <2>2, <2>4, <3>1 DEF Grown
  <2>5. QED
    BY <2>3, <2>4
<1>3. QED
  BY <1>1, <1>2 DEF OrgsInv

LEMMA BeginInv ==
  ASSUME RowsInv, NEW r \in Requests, NEW state \in Requested, Begin(r), Goto(r, state),
         state.pc \in BeginPcs,
         state.pc \in {"insert_org", "check_name"} => state.user \in DOMAIN accounts,
         state.pc = "check_name" => state.op = "create" /\ HasOrg(state.org, state.user),
         state.pc = "done" /\ state.op = "register" => state.code # 201,
         state.pc = "insert_org" /\ state.op = "list" => Visible(state.user) = {},
         UNCHANGED <<accounts, orgs, members, errors>>,
         \A p \in DOMAIN projects' : p \in DOMAIN projects /\ projects'[p] = projects[p],
         queues' \subseteq queues, QueuesInv'
  PROVE  RowsInv'
<1> USE DEF RowsInv
<1>1. /\ req' \in [Requests -> Requested]
      /\ req'[r] = state /\ \A s \in Requests \ {r} : req'[s] = req[s]
      /\ req[r].pc = "idle" /\ before' = [before EXCEPT ![r] = Ended]
  BY GotoTyped, Shapes DEF Begin
<1>2. Grown
  BY DEF Grown, HasOrg
<1>3. TypeOK'
  BY <1>1 DEF TypeOK, Ended
<1>4. Moves(r)
  BY <1>1 DEF Moves, BeginPcs
<1>5. OrgsInv'
  BY <1>1, <1>2, OrgsKept DEF BeginPcs
<1>6. MembersInv'
  BY DEF MembersInv
<1>7. NamesAreUnique'
  BY DEF NamesAreUnique
<1>8. RequestInv(r)'
  BY <1>1, <1>2 DEF RequestInv, Grown, OrgPcs, BeginPcs
<1>9. \A p \in DOMAIN projects' :
        p # r /\ p \in DOMAIN projects /\ projects'[p] = projects[p]
  BY <1>1 DEF ProjectInv
<1>10. ASSUME NEW b \in before'[r]
       PROVE  /\ b \in Requests /\ b # r /\ req[b].pc = "done"
              /\ ~(/\ Seeding(r)' /\ b \in DOMAIN projects
                   /\ req[b].op = "list" /\ req[b].user = req'[r].user)
  <2>1. b \in Requests /\ req[b].pc = "done"
    BY <1>1 DEF Ended, TypeOK
  <2>2. ASSUME Seeding(r)', b \in DOMAIN projects, req[b].op = "list",
               req[b].user = state.user
        PROVE  FALSE
    <3>1. state.pc = "insert_org" /\ state.op = "list"
      BY <1>1, <1>9, <2>2 DEF Seeding, BeginPcs, OrgPcs
    <3>2. b \in Visible(state.user)
      BY <2>2 DEF Visible, IsMember, ProjectInv
    <3>3. QED
      BY <3>1, <3>2
  <2>3. QED
    BY <1>1, <2>1, <2>2
<1>11. \A s \in Requests \ {r} : before'[s] = before[s]
  BY <1>1 DEF TypeOK
<1>12. QED
  BY <1>1, <1>2, <1>3, <1>4, <1>5, <1>6, <1>7, <1>8, <1>9, <1>10, <1>11, MoveInv

(* A statement that has an error, finds a name taken or free, or reads:    *)
(* the next state of its request is all it changes.                        *)
LEMMA AnswerInv ==
  ASSUME RowsInv, NEW r \in Requests, NEW state \in Requested, Goto(r, state),
         req[r].pc \in InnerPcs, state.op = req[r].op, state.user = req[r].user,
         \/ state.pc = "done" /\ state.code = 500
         \/ req[r].pc \in {"rows", "check_name", "upsert_member", "insert_own_queue"}
            /\ state.pc = "done" /\ state.op # "register"
         \/ /\ req[r].pc = "check_name" /\ state.pc = "insert_project"
            /\ state.org = req[r].org,
         UNCHANGED <<tables, before>>, errors' \in 0 .. MaxErrors
  PROVE  RowsInv'
<1> USE DEF RowsInv, tables
<1>1. /\ req' \in [Requests -> Requested]
      /\ req'[r] = state /\ \A s \in Requests \ {r} : req'[s] = req[s]
  BY GotoTyped
<1>2. Grown
  BY DEF Grown, HasOrg
<1>3. TypeOK'
  BY <1>1 DEF TypeOK
<1>4. Moves(r)
  BY <1>1 DEF Moves, InnerPcs, OrgPcs
<1>5. OrgsInv'
  BY <1>1, <1>2, OrgsKept DEF InnerPcs, OrgPcs
<1>6. MembersInv' /\ QueuesInv' /\ NamesAreUnique'
  BY DEF MembersInv, QueuesInv, NamesAreUnique
<1>7. RequestInv(r)'
  BY <1>1 DEF RequestInv, HasOrg, OrgPcs
<1>8. ASSUME NEW p \in DOMAIN projects PROVE p = r => ProjectInv(p)'
  BY <1>1, <1>2 DEF ProjectInv, Grown
<1>9. ASSUME NEW b \in before[r]
      PROVE  /\ b \in Requests /\ b # r /\ req[b].pc = "done"
             /\ ~(/\ Seeding(r)' /\ b \in DOMAIN projects
                  /\ req[b].op = "list" /\ req[b].user = req'[r].user)
  <2>1. /\ b \in Requests /\ req[b].pc = "done"
        /\ ~(/\ Seeding(r) /\ b \in DOMAIN projects
             /\ req[b].op = "list" /\ req[b].user = req[r].user)
    BY DEF SeedInv, TypeOK, InnerPcs, OrgPcs
  <2>2. Seeding(r)' => Seeding(r)
    BY <1>1 DEF Seeding, OrgPcs
  <2>3. QED
    BY <1>1, <2>1, <2>2 DEF InnerPcs, OrgPcs
<1>10. QED
  BY <1>1, <1>2, <1>3, <1>4, <1>5, <1>6, <1>7, <1>8, <1>9, MoveInv

LEMMA RegisterInv ==
  ASSUME RowsInv, NEW r \in Requests, NEW u \in Users, NEW w \in Passwords,
         Register(r, u, w) \/ Login(r, u, w)
  PROVE  RowsInv'
<1> DEFINE insert == [pc |-> "insert_user", op |-> "register", user |-> u, password |-> w]
<1>1. insert \in Requested
  BY DEF Requested
<1>2. PICK state \in Requested :
        /\ Goto(r, state) /\ Begin(r) /\ UNCHANGED <<tables, errors>>
        /\ \/ state = insert
           \/ \E code \in {409, 200, 401}, op \in {"register", "login"} :
                state = Answered(op, u, code)
  BY <1>1, AnsweredTyped DEF Register, Login
<1>3. /\ state.pc \in {"insert_user", "done"}
      /\ state.pc = "done" /\ state.op = "register" => state.code # 201
  BY <1>2 DEF Answered
<1>4. QED
  BY <1>2, <1>3, BeginInv DEF tables, BeginPcs, RowsInv, QueuesInv

LEMMA ListProjectsInv ==
  ASSUME RowsInv, NEW r \in Requests, NEW u \in Users, ListProjects(r, u)
  PROVE  RowsInv'
<1> DEFINE rows == [pc |-> "rows", op |-> "list", user |-> u]
           org == [pc |-> "insert_org", op |-> "list", user |-> u, name |-> DefaultProject]
<1>1. rows \in Requested /\ org \in Requested
  BY DEF Requested
<1>2. PICK state \in Requested :
        /\ Goto(r, state) /\ Begin(r) /\ UNCHANGED <<tables, errors>>
        /\ state = rows \/ (state = org /\ Visible(u) = {})
        /\ u \in DOMAIN accounts
  BY <1>1 DEF ListProjects
<1>3. /\ state.pc \in {"rows", "insert_org"} /\ state.user = u
      /\ state.pc = "insert_org" => Visible(u) = {}
  BY <1>2
<1>4. QED
  BY <1>2, <1>3, BeginInv DEF tables, BeginPcs, RowsInv, QueuesInv

LEMMA LeastNat ==
  ASSUME NEW S, S \subseteq Nat, S # {}
  PROVE  \E n \in S : \A k \in S : n <= k
<1> DEFINE Less == {ss \in Nat \X Nat : ss[1] < ss[2]}
<1>1. IsWellFoundedOn(Less, Nat)
  BY NatLessThanWellFounded DEF OpToRel
<1> HIDE DEF Less
<1>2. PICK n \in S : \A k \in S : <<k, n>> \notin Less
  BY <1>1, WFMin
<1>3. ASSUME NEW k \in S PROVE n <= k
  <2>1. <<k, n>> \in Nat \X Nat /\ ~(k < n)
    BY <1>2 DEF Less
  <2>2. QED
    BY <2>1
<1>4. QED
  BY <1>3

LEMMA OldestOwned ==
  ASSUME TypeOK, NEW u \in Users, Owned(u) # {}
  PROVE  Oldest(u) \in Requests /\ HasOrg(Oldest(u), u)
<1> DEFINE first == CHOOSE i \in Owned(u) : \A k \in Owned(u) : i <= k
<1>1. Owned(u) \subseteq Nat
  BY OrgTyped DEF Owned
<1>2. \E i \in Owned(u) : \A k \in Owned(u) : i <= k
  BY <1>1, LeastNat
<1>3. first \in Owned(u)
  BY <1>2
<1>4. Oldest(u) = orgs[first].id
  BY DEF Oldest
<1> HIDE DEF first
<1>5. QED
  BY <1>3, <1>4, OrgTyped DEF Owned, HasOrg

LEMMA CreateProjectInv ==
  ASSUME RowsInv, NEW r \in Requests, NEW u \in Users, NEW n \in Names,
         NEW named \in BOOLEAN, CreateProject(r, u, n, named)
  PROVE  RowsInv'
<1> DEFINE check == [pc |-> "check_name", op |-> "create", user |-> u, name |-> n,
                     org |-> Oldest(u)]
           org == [pc |-> "insert_org", op |-> "create", user |-> u, name |-> n]
<1>1. /\ org \in Requested
      /\ Owned(u) # {} => check \in Requested /\ HasOrg(Oldest(u), u)
  BY OldestOwned DEF Requested, RowsInv
<1>2. PICK state \in Requested :
        /\ Goto(r, state) /\ Begin(r) /\ UNCHANGED <<tables, errors>>
        /\ state = org \/ (state = check /\ HasOrg(Oldest(u), u))
        /\ u \in DOMAIN accounts
  BY <1>1 DEF CreateProject
<1>3. /\ state.pc \in {"check_name", "insert_org"} /\ state.user = u /\ state.op = "create"
      /\ state.pc = "check_name" => HasOrg(state.org, state.user)
  BY <1>2
<1>4. QED
  BY <1>2, <1>3, BeginInv DEF tables, BeginPcs, RowsInv, QueuesInv

LEMMA AddMemberInv ==
  ASSUME RowsInv, NEW r \in Requests, NEW u \in Users, NEW p \in DOMAIN projects,
         NEW v \in Users, NEW role \in Assignable, AddMember(r, u, p, v, role)
  PROVE  RowsInv'
<1> DEFINE upsert == [pc |-> "upsert_member", op |-> "member", user |-> u, project |-> p,
                      target |-> v, role |-> role]
<1>1. upsert \in Requested
  BY DEF Requested, RowsInv, TypeOK
<1>2. PICK state \in Requested :
        /\ Goto(r, state) /\ Begin(r) /\ UNCHANGED <<tables, errors>>
        /\ state = upsert \/ state = Answered("member", u, 403)
  BY <1>1, AnsweredTyped DEF AddMember
<1>3. state.pc \in {"upsert_member", "done"} /\ state.op = "member"
  BY <1>2 DEF Answered
<1>4. QED
  BY <1>2, <1>3, BeginInv DEF tables, BeginPcs, RowsInv, QueuesInv

LEMMA CreateQueueInv ==
  ASSUME RowsInv, NEW r \in Requests, NEW u \in Users, NEW p \in DOMAIN projects,
         NEW n \in Names, CreateQueue(r, u, p, n)
  PROVE  RowsInv'
<1> DEFINE insert == [pc |-> "insert_own_queue", op |-> "queue", user |-> u,
                      project |-> p, name |-> n]
<1>1. insert \in Requested
  BY DEF Requested, RowsInv, TypeOK
<1>2. PICK state \in Requested :
        /\ Goto(r, state) /\ Begin(r) /\ UNCHANGED <<tables, errors>>
        /\ state = insert \/ state = Answered("queue", u, 404)
  BY <1>1, AnsweredTyped DEF CreateQueue
<1>3. state.pc \in {"insert_own_queue", "done"} /\ state.op = "queue"
  BY <1>2 DEF Answered
<1>4. QED
  BY <1>2, <1>3, BeginInv DEF tables, BeginPcs, RowsInv, QueuesInv

LEMMA DeleteProjectInv ==
  ASSUME RowsInv, NEW r \in Requests, NEW u \in Users, NEW p \in DOMAIN projects,
         DeleteProject(r, u, p)
  PROVE  RowsInv'
<1>1. PICK state \in Requested :
        /\ Goto(r, state) /\ Begin(r) /\ UNCHANGED <<accounts, orgs, members, errors>>
        /\ \E code \in {204, 404} : state = Answered("delete", u, code)
        /\ \/ projects' = Without(projects, p) /\ queues' = {q \in queues : q[1] # p}
           \/ UNCHANGED <<projects, queues>>
  BY AnsweredTyped DEF DeleteProject
<1>2. state.pc = "done" /\ state.op = "delete"
  BY <1>1 DEF Answered
<1>3. /\ \A k \in DOMAIN projects' : k \in DOMAIN projects /\ projects'[k] = projects[k]
      /\ queues' \subseteq queues
  BY <1>1 DEF Without
<1>4. QueuesInv'
  BY <1>1 DEF QueuesInv, Without, RowsInv
<1>5. QED
  BY <1>1, <1>2, <1>3, <1>4, BeginInv DEF BeginPcs

LEMMA StatementFailsInv ==
  ASSUME RowsInv, NEW r \in Requests, StatementFails(r)
  PROVE  RowsInv'
<1> DEFINE state == Answered(req[r].op, req[r].user, 500)
<1>1. req[r].pc \in InnerPcs /\ req[r].user \in Users
      /\ req[r].op \in {"register", "list", "create", "member", "queue"}
  BY Shapes DEF StatementFails, RowsInv
<1>2. state \in Requested
  BY <1>1, AnsweredTyped
<1>3. /\ state.pc = "done" /\ state.code = 500
      /\ state.op = req[r].op /\ state.user = req[r].user
  BY DEF Answered
<1>4. Goto(r, state) /\ UNCHANGED <<tables, before>> /\ errors' \in 0 .. MaxErrors
  BY DEF StatementFails, RowsInv, TypeOK
<1> HIDE DEF state
<1>5. QED
  BY <1>1, <1>2, <1>3, <1>4, AnswerInv

LEMMA RowsReadInv ==
  ASSUME RowsInv, NEW r \in Requests, Rows(r)
  PROVE  RowsInv'
<1> DEFINE state == Answered("list", req[r].user, 200)
<1>1. req[r].pc \in InnerPcs /\ req[r].user \in Users /\ req[r].op = "list"
      /\ req[r].pc = "rows"
  BY Shapes DEF Rows, RowsInv, InnerPcs
<1>2. state \in Requested
  BY <1>1, AnsweredTyped
<1>3. state.pc = "done" /\ state.op = req[r].op /\ state.user = req[r].user
  BY <1>1 DEF Answered
<1>4. Goto(r, state) /\ UNCHANGED <<tables, before>> /\ errors' \in 0 .. MaxErrors
  BY DEF Rows, RowsInv, TypeOK
<1> HIDE DEF state
<1>5. QED
  BY <1>1, <1>2, <1>3, <1>4, AnswerInv

LEMMA CheckNameInv ==
  ASSUME RowsInv, NEW r \in Requests, CheckName(r)
  PROVE  RowsInv'
<1> DEFINE taken == Answered("create", req[r].user, 409)
           free == At(r, "insert_project")
<1>1. req[r].pc = "check_name" /\ req[r].user \in Users /\ req[r].op = "create"
      /\ req[r].pc \in InnerPcs /\ req[r].pc \in OrgPcs
  BY Shapes DEF CheckName, RowsInv, RequestInv, InnerPcs, OrgPcs
<1>2. taken \in Requested
  BY <1>1, AnsweredTyped
<1>3. taken.pc = "done" /\ taken.op = req[r].op /\ taken.user = req[r].user
  BY <1>1 DEF Answered
<1>4. /\ free \in Requested
      /\ free.pc = "insert_project" /\ free.op = req[r].op /\ free.user = req[r].user
      /\ free.org = req[r].org
  BY <1>1, AtTyped DEF RowsInv, OrgPcs
<1>5. /\ Goto(r, taken) \/ Goto(r, free)
      /\ UNCHANGED <<tables, before>> /\ errors' \in 0 .. MaxErrors
  BY DEF CheckName, RowsInv, TypeOK
<1> HIDE DEF taken, free
<1>6. QED
  BY <1>1, <1>2, <1>3, <1>4, <1>5, AnswerInv

---------------------------------------------------------------------------
(* The INSERTs.                                                            *)

\* before[r] is as it was, and r seeds no more than it did.
LEMMA StillSeeding ==
  ASSUME RowsInv, NEW r \in Requests, req[r].pc \in InnerPcs,
         req'[r].op = req[r].op, req'[r].user = req[r].user,
         Seeding(r)' => Seeding(r), NEW b \in before[r]
  PROVE  /\ b \in Requests /\ b # r /\ req[b].pc = "done"
         /\ ~(/\ Seeding(r)' /\ b \in DOMAIN projects
              /\ req[b].op = "list" /\ req[b].user = req'[r].user)
<1>1. /\ b \in Requests /\ req[b].pc = "done"
      /\ ~(/\ Seeding(r) /\ b \in DOMAIN projects
           /\ req[b].op = "list" /\ req[b].user = req[r].user)
  BY DEF RowsInv, SeedInv, TypeOK, InnerPcs, OrgPcs
<1>2. QED
  BY <1>1 DEF InnerPcs, OrgPcs

LEMMA InsertUserInv ==
  ASSUME RowsInv, NEW r \in Requests, InsertUser(r)
  PROVE  RowsInv'
<1> DEFINE u == req[r].user
<1>1. /\ req[r].pc = "insert_user" /\ req[r].pc \in InnerPcs /\ u \in Users
      /\ req[r].op = "register" /\ req[r].password \in Passwords
  BY Shapes DEF InsertUser, RowsInv, InnerPcs
<1>2. CASE u \in DOMAIN accounts
  <2> DEFINE state == Answered("register", u, 500)
  <2>1. state \in Requested
    BY <1>1, AnsweredTyped
  <2>2. state.pc = "done" /\ state.code = 500 /\ state.op = req[r].op /\ state.user = u
    BY <1>1 DEF Answered
  <2>3. Goto(r, state) /\ UNCHANGED <<tables, before>> /\ errors' \in 0 .. MaxErrors
    BY <1>2 DEF InsertUser, EmailTaken, RowsInv, TypeOK, tables
  <2> HIDE DEF state
  <2>4. QED
    BY <1>1, <2>1, <2>2, <2>3, AnswerInv
<1>3. CASE u \notin DOMAIN accounts
  <2> DEFINE state == Answered("register", u, 201)
  <2>1. state \in Requested
    BY <1>1, AnsweredTyped
  <2>2. state.pc = "done" /\ state.op = "register" /\ state.user = u
    BY DEF Answered
  <2>3. /\ Goto(r, state) /\ accounts' = Add(accounts, u, req[r].password)
        /\ UNCHANGED <<orgs, members, projects, queues, before, errors>>
    BY <1>3 DEF InsertUser, EmailTaken
  <2> HIDE DEF state
  <2>4. /\ req' \in [Requests -> Requested]
        /\ req'[r] = state /\ \A s \in Requests \ {r} : req'[s] = req[s]
    BY <2>1, <2>3, GotoTyped DEF RowsInv
  <2>5. DOMAIN accounts' = DOMAIN accounts \cup {u}
        /\ \A v \in DOMAIN accounts' : accounts'[v] \in Passwords
    BY <1>1, <2>3 DEF Add, RowsInv, TypeOK
  <2>6. Grown
    BY <2>3, <2>5 DEF Grown, HasOrg
  <2>7. TypeOK'
    BY <1>1, <2>3, <2>4, <2>5 DEF TypeOK, RowsInv
  <2>8. OrgsInv'
    BY <1>1, <2>2, <2>3, <2>4, <2>6, OrgsKept
  <2>9. MembersInv' /\ QueuesInv' /\ NamesAreUnique'
    BY <2>3, <2>5 DEF RowsInv, MembersInv, QueuesInv, NamesAreUnique
  <2>10. RequestInv(r)'
    BY <2>2, <2>4, <2>5 DEF RequestInv, OrgPcs
  <2>11. r \notin DOMAIN projects
    BY <1>1 DEF RowsInv, ProjectInv
  <2>12. Seeding(r)' => Seeding(r)
    BY <1>1, <2>2, <2>4 DEF Seeding
  <2>13. Moves(r)
    BY <1>1, <2>2, <2>4 DEF Moves
  <2>14. ASSUME NEW b \in before'[r]
         PROVE  /\ b \in Requests /\ b # r /\ req[b].pc = "done"
                /\ ~(/\ Seeding(r)' /\ b \in DOMAIN projects
                     /\ req[b].op = "list" /\ req[b].user = req'[r].user)
    BY <1>1, <2>2, <2>3, <2>4, <2>12, StillSeeding
  <2>15. QED
    BY <1>3, <2>2, <2>3, <2>4, <2>6, <2>7, <2>8, <2>9, <2>10, <2>11, <2>13, <2>14, MoveInv
<1>4. QED
  BY <1>2, <1>3

LEMMA InsertOrgInv ==
  ASSUME RowsInv, NEW r \in Requests, InsertOrg(r)
  PROVE  RowsInv'
<1> DEFINE u == req[r].user
           org == [id |-> r, owner |-> u]
           state == [pc |-> "insert_member", op |-> req[r].op, user |-> u,
                     name |-> req[r].name, org |-> r]
<1>1. /\ req[r].pc = "insert_org" /\ req[r].pc \in InnerPcs /\ u \in Users
      /\ req[r].op \in {"list", "create"} /\ req[r].name \in Names \cup {DefaultProject}
      /\ u \in DOMAIN accounts
  BY Shapes DEF InsertOrg, RowsInv, RequestInv, InnerPcs
<1>2. state \in Requested
  BY <1>1 DEF Requested
<1>3. state.pc = "insert_member" /\ state.op = req[r].op /\ state.user = u /\ state.org = r
  OBVIOUS
<1>4. /\ Goto(r, state) /\ orgs' = Append(orgs, org)
      /\ UNCHANGED <<accounts, members, projects, queues, before, errors>>
  BY DEF InsertOrg
<1> HIDE DEF state
<1>5. /\ req' \in [Requests -> Requested]
      /\ req'[r] = state /\ \A s \in Requests \ {r} : req'[s] = req[s]
  BY <1>2, <1>4, GotoTyped DEF RowsInv
<1>6. org \in [id : Requests, owner : Users] /\ org.id = r /\ org.owner = u
  BY <1>1
<1> HIDE DEF org
<1>7. PICK n : /\ n \notin DOMAIN orgs /\ DOMAIN orgs' = DOMAIN orgs \cup {n}
               /\ orgs'[n] = org /\ \A i \in DOMAIN orgs : orgs'[i] = orgs[i]
               /\ orgs' \in Seq([id : Requests, owner : Users])
  <2> DEFINE Orgs == [id : Requests, owner : Users]
  <2>1. orgs \in Seq(Orgs) /\ org \in Orgs
    BY <1>6 DEF RowsInv, TypeOK
  <2> HIDE DEF Orgs
  <2>2. /\ DOMAIN orgs = 1 .. Len(orgs) /\ Len(orgs) \in Nat
        /\ orgs' \in Seq(Orgs) /\ Len(orgs') = Len(orgs) + 1
        /\ DOMAIN orgs' = 1 .. Len(orgs')
        /\ \A i \in 1 .. Len(orgs) : orgs'[i] = orgs[i]
        /\ orgs'[Len(orgs) + 1] = org
    BY <1>4, <2>1, LenProperties, AppendProperties
  <2>3. DOMAIN orgs' = DOMAIN orgs \cup {Len(orgs) + 1} /\ Len(orgs) + 1 \notin DOMAIN orgs
    BY <2>2
  <2>4. QED
    BY <2>2, <2>3 DEF Orgs
<1>8. Grown /\ HasOrg(r, u)'
  <2>1. ASSUME NEW o, NEW v, HasOrg(o, v) PROVE HasOrg(o, v)'
    BY <1>7, <2>1 DEF HasOrg
  <2>2. HasOrg(r, u)'
    BY <1>3, <1>5, <1>6, <1>7 DEF HasOrg
  <2>3. QED
    BY <1>4, <2>1, <2>2 DEF Grown
<1>9. TypeOK'
  BY <1>4, <1>5, <1>7 DEF TypeOK, RowsInv
<1>10. OrgsInv'
  <2>1. \A i \in DOMAIN orgs : orgs[i].id # r /\ orgs[i].id \in Requests
    <3>1. \A i \in DOMAIN orgs : req[orgs[i].id].pc # "insert_org"
      BY DEF RowsInv, OrgsInv
    <3>2. \A i \in DOMAIN orgs : orgs[i].id \in Requests
      BY OrgTyped DEF RowsInv
    <3>3. QED
      BY <1>1, <3>1, <3>2
  <2>2. \A i, k \in DOMAIN orgs' : orgs'[i].id = orgs'[k].id => i = k
    BY <1>6, <1>7, <2>1 DEF RowsInv, OrgsInv
  <2>3. ASSUME NEW i \in DOMAIN orgs'
        PROVE  /\ orgs'[i].owner \in DOMAIN accounts'
               /\ req'[orgs'[i].id].pc \notin {"idle", "insert_org"}
               /\ \/ <<orgs'[i].id, orgs'[i].owner>> \in DOMAIN members'
                  \/ req'[orgs'[i].id].pc = "insert_member"
                  \/ req'[orgs'[i].id].pc = "done" /\ req'[orgs'[i].id].code = 500
    <3>1. CASE i = n
      BY <1>1, <1>3, <1>4, <1>5, <1>6, <1>7, <3>1
    <3>2. CASE i \in DOMAIN orgs
      BY <1>4, <1>5, <1>7, <2>1, <3>2 DEF RowsInv, OrgsInv
    <3>3. QED
      BY <1>7, <3>1, <3>2
  <2>4. QED
    BY <2>2, <2>3 DEF OrgsInv
<1>11. MembersInv' /\ QueuesInv' /\ NamesAreUnique'
  BY <1>4, <1>7 DEF RowsInv, MembersInv, QueuesInv, NamesAreUnique
<1>12. RequestInv(r)'
  BY <1>1, <1>3, <1>4, <1>5, <1>8 DEF RequestInv, OrgPcs
<1>13. r \notin DOMAIN projects
  BY <1>1 DEF RowsInv, ProjectInv
<1>14. Seeding(r)' => Seeding(r)
  BY <1>1, <1>3, <1>5 DEF Seeding
<1>15. Moves(r)
  BY <1>1, <1>3, <1>5 DEF Moves
<1>16. ASSUME NEW b \in before'[r]
       PROVE  /\ b \in Requests /\ b # r /\ req[b].pc = "done"
              /\ ~(/\ Seeding(r)' /\ b \in DOMAIN projects
                   /\ req[b].op = "list" /\ req[b].user = req'[r].user)
  BY <1>1, <1>3, <1>4, <1>5, <1>14, StillSeeding
<1>17. QED
  BY <1>3, <1>4, <1>5, <1>8, <1>9, <1>10, <1>11, <1>12, <1>13, <1>15, <1>16, MoveInv

LEMMA InsertMemberInv ==
  ASSUME RowsInv, NEW r \in Requests, InsertMember(r)
  PROVE  RowsInv'
<1> DEFINE u == req[r].user
           there == IF req[r].op = "list" THEN "insert_project" ELSE "check_name"
           state == At(r, there)
<1>1. /\ req[r].pc = "insert_member" /\ req[r].pc \in InnerPcs /\ req[r].pc \in OrgPcs
      /\ u \in Users /\ req[r].op \in {"list", "create"}
      /\ req[r].org = r /\ HasOrg(r, u) /\ u \in DOMAIN accounts
  BY Shapes DEF InsertMember, RowsInv, RequestInv, InnerPcs, OrgPcs, OrgRequests
<1>2. /\ state \in Requested /\ state.pc = there
      /\ state.op = req[r].op /\ state.user = u /\ state.org = r
  BY <1>1, AtTyped DEF RowsInv, OrgPcs
<1>3. /\ Goto(r, state) /\ members' = Add(members, <<r, u>>, "owner")
      /\ UNCHANGED <<accounts, orgs, projects, queues, before, errors>>
  BY <1>1 DEF InsertMember
<1> HIDE DEF state
<1>4. /\ req' \in [Requests -> Requested]
      /\ req'[r] = state /\ \A s \in Requests \ {r} : req'[s] = req[s]
  BY <1>2, <1>3, GotoTyped DEF RowsInv
<1>5. /\ DOMAIN members' = DOMAIN members \cup {<<r, u>>}
      /\ members'[<<r, u>>] = "owner"
      /\ \A m \in DOMAIN members \ {<<r, u>>} : members'[m] = members[m]
  BY <1>3 DEF Add
<1>6. Grown
  BY <1>3, <1>5 DEF Grown, HasOrg
<1>7. TypeOK'
  <2>1. DOMAIN members' \subseteq Requests \X Users /\ \A m \in DOMAIN members' : members'[m] \in Roles
    BY <1>1, <1>5 DEF TypeOK, RowsInv, Roles
  <2>2. QED
    BY <1>3, <1>4, <2>1 DEF TypeOK, RowsInv
<1>8. OrgsInv'
  BY <1>1, <1>2, <1>3, <1>4, <1>5, <1>6, OrgsKept
<1>9. MembersInv'
  <2> SUFFICES ASSUME NEW m \in DOMAIN members'
               PROVE  /\ m[2] \in DOMAIN accounts
                      /\ \E i \in DOMAIN orgs : /\ orgs[i].id = m[1]
                                                /\ members'[m] = "owner" => orgs[i].owner = m[2]
    BY <1>3 DEF MembersInv
  <2>1. CASE m = <<r, u>>
    BY <1>1, <2>1 DEF HasOrg
  <2>2. CASE m # <<r, u>>
    BY <1>5, <2>2 DEF RowsInv, MembersInv
  <2>3. QED
    BY <2>1, <2>2
<1>10. QueuesInv' /\ NamesAreUnique'
  BY <1>3 DEF RowsInv, QueuesInv, NamesAreUnique
<1>11. RequestInv(r)'
  BY <1>1, <1>2, <1>3, <1>4, <1>5 DEF RequestInv, OrgPcs, HasOrg
<1>12. r \notin DOMAIN projects
  BY <1>1 DEF RowsInv, ProjectInv
<1>13. Seeding(r)' => Seeding(r)
  BY <1>1, <1>2, <1>4 DEF Seeding
<1>14. Moves(r)
  BY <1>1, <1>2, <1>4 DEF Moves
<1>15. ASSUME NEW b \in before'[r]
       PROVE  /\ b \in Requests /\ b # r /\ req[b].pc = "done"
              /\ ~(/\ Seeding(r)' /\ b \in DOMAIN projects
                   /\ req[b].op = "list" /\ req[b].user = req'[r].user)
  BY <1>1, <1>2, <1>3, <1>4, <1>13, StillSeeding
<1>16. QED
  BY <1>2, <1>3, <1>4, <1>6, <1>7, <1>8, <1>9, <1>10, <1>11, <1>12, <1>14, <1>15, MoveInv

\* An INSERT or an upsert that throws, or that finds no row to work on.
LEMMA RefusedInv ==
  ASSUME RowsInv, NEW r \in Requests, req[r].pc \in InnerPcs,
         NEW code \in {404, 409, 500},
         code # 500 => req[r].pc \in {"upsert_member", "insert_own_queue"},
         Goto(r, Answered(req[r].op, req[r].user, code)),
         UNCHANGED <<tables, before, errors>>
  PROVE  RowsInv'
<1> DEFINE state == Answered(req[r].op, req[r].user, code)
<1>1. /\ req[r].user \in Users
      /\ req[r].op \in {"register", "list", "create", "member", "queue"}
      /\ req[r].pc \in {"upsert_member", "insert_own_queue"} => req[r].op # "register"
  BY Shapes DEF RowsInv
<1>2. state \in Requested
  BY <1>1, AnsweredTyped
<1>3. state.pc = "done" /\ state.code = code
      /\ state.op = req[r].op /\ state.user = req[r].user
  BY DEF Answered
<1> HIDE DEF state
<1>4. Goto(r, state) /\ errors' \in 0 .. MaxErrors
  BY DEF RowsInv, TypeOK, state
<1>5. QED
  BY <1>1, <1>2, <1>3, <1>4, AnswerInv

LEMMA InsertProjectInv ==
  ASSUME RowsInv, NEW r \in Requests, InsertProject(r)
  PROVE  RowsInv'
<1> DEFINE u == req[r].user
           o == req[r].org
           n == req[r].name
           state == At(r, "insert_queue")
<1>1. /\ req[r].pc = "insert_project" /\ req[r].pc \in InnerPcs /\ req[r].pc \in OrgPcs
      /\ u \in Users /\ req[r].op \in {"list", "create"}
      /\ o \in Requests /\ n \in Names \cup {DefaultProject}
      /\ HasOrg(o, u)
      /\ req[r].op = "list" => <<o, u>> \in DOMAIN members
  BY Shapes DEF InsertProject, RowsInv, RequestInv, InnerPcs, OrgPcs, OrgRequests
<1>2. u \in DOMAIN accounts
  BY <1>1 DEF RowsInv, RequestInv
<1>3. CASE NameTaken(o, n)
  BY <1>1, <1>3, RefusedInv DEF InsertProject, UniqueViolation, tables
<1>4. CASE ~NameTaken(o, n)
  <2>1. /\ state \in Requested /\ state.pc = "insert_queue"
        /\ state.op = req[r].op /\ state.user = u /\ state.org = o
    BY <1>1, AtTyped DEF RowsInv, OrgPcs
  <2>2. /\ Goto(r, state) /\ projects' = Add(projects, r, [org |-> o, name |-> n])
        /\ UNCHANGED <<accounts, orgs, members, queues, before, errors>>
    BY <1>4 DEF InsertProject, UniqueViolation
  <2> HIDE DEF state
  <2>3. /\ req' \in [Requests -> Requested]
        /\ req'[r] = state /\ \A s \in Requests \ {r} : req'[s] = req[s]
    BY <2>1, <2>2, GotoTyped DEF RowsInv
  <2>4. r \notin DOMAIN projects
    BY <1>1 DEF RowsInv, ProjectInv
  <2>5. /\ DOMAIN projects' = DOMAIN projects \cup {r}
        /\ projects'[r] = [org |-> o, name |-> n]
        /\ \A p \in DOMAIN projects : projects'[p] = projects[p]
    BY <2>2, <2>4 DEF Add
  <2>6. Grown
    BY <2>2 DEF Grown, HasOrg
  <2>7. TypeOK'
    BY <1>1, <2>2, <2>3, <2>5 DEF TypeOK, RowsInv
  <2>8. OrgsInv'
    BY <1>1, <2>1, <2>2, <2>3, <2>6, OrgsKept
  <2>9. MembersInv' /\ QueuesInv'
    BY <2>2, <2>5 DEF RowsInv, MembersInv, QueuesInv
  <2>10. NamesAreUnique'
    BY <1>4, <2>4, <2>5 DEF RowsInv, NamesAreUnique, NameTaken
  <2>11. RequestInv(r)'
    BY <1>1, <1>2, <2>1, <2>2, <2>3 DEF RequestInv, OrgPcs, HasOrg
  <2>12. ProjectInv(r)'
    BY <1>1, <2>1, <2>2, <2>3, <2>5 DEF ProjectInv, HasOrg
  <2>13. Seeding(r)' => Seeding(r)
    BY <1>1, <2>1, <2>3 DEF Seeding
  <2>14. Moves(r)
    BY <1>1, <2>1, <2>3 DEF Moves
  <2>15. ASSUME NEW b \in before'[r]
         PROVE  /\ b \in Requests /\ b # r /\ req[b].pc = "done"
                /\ ~(/\ Seeding(r)' /\ b \in DOMAIN projects
                     /\ req[b].op = "list" /\ req[b].user = req'[r].user)
    BY <1>1, <2>1, <2>2, <2>3, <2>13, StillSeeding
  <2>16. QED
    BY <2>1, <2>2, <2>3, <2>5, <2>6, <2>7, <2>8, <2>9, <2>10, <2>11, <2>12, <2>14, <2>15,
       MoveInv
<1>5. QED
  BY <1>3, <1>4

\* A statement that writes to queues or to members alone, and ends its request
\* or leaves the rows to be read.
LEMMA WrittenInv ==
  ASSUME RowsInv, NEW r \in Requests, NEW state \in Requested, Goto(r, state),
         req[r].pc \in InnerPcs \ {"insert_member"},
         state.pc \in {"rows", "done"}, state.op = req[r].op, state.op # "register",
         state.user = req[r].user, DOMAIN members \subseteq DOMAIN members',
         TypeOK', MembersInv', QueuesInv',
         UNCHANGED <<accounts, orgs, projects, before, errors>>
  PROVE  RowsInv'
<1>1. /\ req' \in [Requests -> Requested]
      /\ req'[r] = state /\ \A s \in Requests \ {r} : req'[s] = req[s]
  BY GotoTyped DEF RowsInv
<1>2. Grown
  BY DEF Grown, HasOrg
<1>3. OrgsInv'
  BY <1>1, <1>2, OrgsKept DEF InnerPcs, OrgPcs
<1>4. NamesAreUnique' /\ RequestInv(r)'
  BY <1>1 DEF RowsInv, NamesAreUnique, RequestInv, OrgPcs
<1>5. r \in DOMAIN projects => ProjectInv(r)'
  BY <1>1, <1>2 DEF RowsInv, ProjectInv, Grown
<1>6. Seeding(r)' => Seeding(r)
  BY <1>1 DEF Seeding, OrgPcs
<1>7. Moves(r)
  BY <1>1 DEF Moves, InnerPcs, OrgPcs
<1>8. ASSUME NEW b \in before'[r]
      PROVE  /\ b \in Requests /\ b # r /\ req[b].pc = "done"
             /\ ~(/\ Seeding(r)' /\ b \in DOMAIN projects
                  /\ req[b].op = "list" /\ req[b].user = req'[r].user)
  BY <1>1, <1>6, StillSeeding
<1>9. QED
  BY <1>1, <1>2, <1>3, <1>4, <1>5, <1>7, <1>8, MoveInv

LEMMA InsertQueueInv ==
  ASSUME RowsInv, NEW r \in Requests, InsertQueue(r)
  PROVE  RowsInv'
<1> DEFINE u == req[r].user
           rows == [pc |-> "rows", op |-> "list", user |-> u]
           created == Answered("create", u, 201)
           state == IF req[r].op = "list" THEN rows ELSE created
<1>1. /\ req[r].pc = "insert_queue" /\ req[r].pc \in InnerPcs \ {"insert_member"}
      /\ u \in Users /\ req[r].op \in {"list", "create"}
  BY Shapes DEF InsertQueue, RowsInv, InnerPcs, OrgPcs, OrgRequests
<1>2. CASE r \notin DOMAIN projects
  BY <1>1, <1>2, RefusedInv DEF InsertQueue, Referenced, tables
<1>3. CASE r \in DOMAIN projects
  <2>1. rows \in Requested /\ created \in Requested
    BY <1>1, AnsweredTyped DEF Requested
  <2>2. /\ rows.pc = "rows" /\ rows.op = "list" /\ rows.user = u
        /\ created.pc = "done" /\ created.op = "create" /\ created.user = u
    BY DEF Answered
  <2>3. /\ Goto(r, state) /\ queues' = queues \cup {<<r, DefaultQueue>>}
        /\ UNCHANGED <<accounts, orgs, members, projects, before, errors>>
    BY <1>3 DEF InsertQueue, Referenced
  <2> HIDE DEF rows, created
  <2>4. /\ state \in Requested /\ state.pc \in {"rows", "done"}
        /\ state.op = req[r].op /\ state.user = u
    BY <1>1, <2>1, <2>2
  <2> HIDE DEF state
  <2>5. req' \in [Requests -> Requested]
    BY <2>3, <2>4, GotoTyped DEF RowsInv
  <2>6. TypeOK'
    BY <2>3, <2>5 DEF TypeOK, RowsInv
  <2>7. MembersInv' /\ QueuesInv'
    BY <1>3, <2>3 DEF MembersInv, QueuesInv, RowsInv
  <2>8. QED
    BY <1>1, <2>3, <2>4, <2>6, <2>7, WrittenInv
<1>4. QED
  BY <1>2, <1>3

LEMMA UpsertMemberInv ==
  ASSUME RowsInv, NEW r \in Requests, UpsertMember(r)
  PROVE  RowsInv'
<1> DEFINE p == req[r].project
           v == req[r].target
           o == projects[p].org
           role == req[r].role
           state == Answered("member", req[r].user, 201)
<1>1. /\ req[r].pc = "upsert_member" /\ req[r].pc \in InnerPcs \ {"insert_member"}
      /\ req[r].user \in Users /\ req[r].op = "member"
      /\ v \in Users /\ role \in Assignable
  BY Shapes DEF UpsertMember, RowsInv, InnerPcs, OrgPcs
<1>2. CASE p \notin DOMAIN projects \/ v \notin DOMAIN accounts
  BY <1>1, <1>2, RefusedInv DEF UpsertMember, tables
<1>3. CASE p \in DOMAIN projects /\ v \in DOMAIN accounts
  <2>1. state \in Requested
    BY <1>1, AnsweredTyped
  <2>2. state.pc = "done" /\ state.op = "member" /\ state.user = req[r].user
    BY DEF Answered
  <2>3. /\ Goto(r, state) /\ members' = Add(members, <<o, v>>, role)
        /\ UNCHANGED <<accounts, orgs, projects, queues, before, errors>>
    BY <1>3 DEF UpsertMember
  <2> HIDE DEF state
  <2>4. req' \in [Requests -> Requested]
    BY <2>1, <2>3, GotoTyped DEF RowsInv
  <2>5. /\ DOMAIN members' = DOMAIN members \cup {<<o, v>>} /\ members'[<<o, v>>] = role
        /\ \A m \in DOMAIN members \ {<<o, v>>} : members'[m] = members[m]
    BY <2>3 DEF Add
  <2>6. /\ o \in Requests /\ role \in Roles /\ role # "owner"
        /\ \E i \in DOMAIN orgs : orgs[i].id = o
    BY <1>1, <1>3 DEF RowsInv, TypeOK, Roles, Assignable, ProjectInv, HasOrg
  <2>7. TypeOK'
    <3>1. DOMAIN members' \subseteq Requests \X Users /\ \A m \in DOMAIN members' : members'[m] \in Roles
      BY <1>1, <2>5, <2>6 DEF TypeOK, RowsInv
    <3>2. QED
      BY <2>3, <2>4, <3>1 DEF TypeOK, RowsInv
  <2>8. MembersInv'
    <3> SUFFICES ASSUME NEW m \in DOMAIN members'
                 PROVE  /\ m[2] \in DOMAIN accounts
                        /\ \E i \in DOMAIN orgs :
                             /\ orgs[i].id = m[1]
                             /\ members'[m] = "owner" => orgs[i].owner = m[2]
      BY <2>3 DEF MembersInv
    <3>1. CASE m = <<o, v>>
      BY <1>3, <2>5, <2>6, <3>1
    <3>2. CASE m # <<o, v>>
      BY <2>5, <3>2 DEF RowsInv, MembersInv
    <3>3. QED
      BY <3>1, <3>2
  <2>9. QueuesInv'
    BY <2>3 DEF RowsInv, QueuesInv
  <2>10. QED
    BY <1>1, <2>1, <2>2, <2>3, <2>5, <2>7, <2>8, <2>9, WrittenInv
<1>4. QED
  BY <1>2, <1>3

LEMMA InsertOwnQueueInv ==
  ASSUME RowsInv, NEW r \in Requests, InsertOwnQueue(r)
  PROVE  RowsInv'
<1> DEFINE q == <<req[r].project, req[r].name>>
           state == Answered("queue", req[r].user, 201)
<1>1. /\ req[r].pc = "insert_own_queue" /\ req[r].pc \in InnerPcs \ {"insert_member"}
      /\ req[r].user \in Users /\ req[r].op = "queue"
      /\ req[r].project \in Requests /\ req[r].name \in Names
  BY Shapes DEF InsertOwnQueue, RowsInv, InnerPcs, OrgPcs
<1>2. CASE q \in queues \/ q[1] \notin DOMAIN projects
  BY <1>1, <1>2, RefusedInv DEF InsertOwnQueue, Referenced, tables
<1>3. CASE q \notin queues /\ q[1] \in DOMAIN projects
  <2>1. state \in Requested
    BY <1>1, AnsweredTyped
  <2>2. state.pc = "done" /\ state.op = "queue" /\ state.user = req[r].user
    BY DEF Answered
  <2>3. /\ Goto(r, state) /\ queues' = queues \cup {q}
        /\ UNCHANGED <<accounts, orgs, members, projects, before, errors>>
    BY <1>3 DEF InsertOwnQueue, Referenced
  <2> HIDE DEF state
  <2>4. req' \in [Requests -> Requested]
    BY <2>1, <2>3, GotoTyped DEF RowsInv
  <2>5. TypeOK'
    BY <1>1, <2>3, <2>4 DEF TypeOK, RowsInv
  <2>6. MembersInv' /\ QueuesInv'
    BY <1>3, <2>3 DEF MembersInv, QueuesInv, RowsInv
  <2>7. QED
    BY <1>1, <2>1, <2>2, <2>3, <2>5, <2>6, WrittenInv
<1>4. QED
  BY <1>2, <1>3

---------------------------------------------------------------------------
LEMMA NextInv == RowsInv /\ [Next]_vars => RowsInv'
<1> SUFFICES ASSUME RowsInv, [Next]_vars PROVE RowsInv'
  OBVIOUS
<1>1. ASSUME NEW r \in Requests, NEW u \in Users, NEW w \in Passwords,
             Register(r, u, w) \/ Login(r, u, w)
      PROVE  RowsInv'
  BY <1>1, RegisterInv
<1>2. ASSUME NEW r \in Requests, NEW u \in DOMAIN accounts,
             \/ ListProjects(r, u)
             \/ \E n \in Names, named \in BOOLEAN : CreateProject(r, u, n, named)
             \/ \E p \in DOMAIN projects :
                  \/ DeleteProject(r, u, p)
                  \/ \E v \in Users, role \in Assignable : AddMember(r, u, p, v, role)
                  \/ \E n \in Names : CreateQueue(r, u, p, n)
      PROVE  RowsInv'
  <2>1. u \in Users
    BY DEF RowsInv, TypeOK
  <2>2. QED
    BY <1>2, <2>1, ListProjectsInv, CreateProjectInv, DeleteProjectInv, AddMemberInv,
       CreateQueueInv
<1>3. ASSUME NEW r \in Requests,
             \/ InsertUser(r) \/ Rows(r)
             \/ InsertOrg(r) \/ InsertMember(r) \/ CheckName(r)
             \/ InsertProject(r) \/ InsertQueue(r)
             \/ UpsertMember(r) \/ InsertOwnQueue(r)
             \/ StatementFails(r)
      PROVE  RowsInv'
  BY <1>3, InsertUserInv, RowsReadInv, InsertOrgInv, InsertMemberInv, CheckNameInv,
     InsertProjectInv, InsertQueueInv, UpsertMemberInv, InsertOwnQueueInv, StatementFailsInv
<1>4. CASE UNCHANGED vars
  <2> USE <1>4 DEF vars, RowsInv
  <2>1. TypeOK'
    BY DEF TypeOK
  <2>2. OrgsInv' /\ MembersInv' /\ QueuesInv'
    BY DEF OrgsInv, MembersInv, QueuesInv
  <2>3. (\A p \in DOMAIN projects' : ProjectInv(p)') /\ (\A r \in Requests : RequestInv(r)')
    BY DEF ProjectInv, RequestInv, HasOrg
  <2>4. NamesAreUnique' /\ OneAccount' /\ SeedInv'
    BY DEF NamesAreUnique, OneAccount, SeedInv, Seeding
  <2>5. QED
    BY <2>1, <2>2, <2>3, <2>4
<1>5. QED
  BY <1>1, <1>2, <1>3, <1>4 DEF Next

LEMMA InvHolds == Spec => []RowsInv
  BY InitInv, NextInv, PTL DEF Spec

(* No row refers to one that is not there, whatever requests interleave or *)
(* fail half-way, and the role of owner of an organization is its          *)
(* creator's alone (projects.routes.ts).                                   *)
THEOREM TablesAreConsistent == Spec => []AccountsInv
<1>1. RowsInv => AccountsInv
  <2> SUFFICES ASSUME RowsInv PROVE AccountsInv
    OBVIOUS
  <2> USE DEF RowsInv
  <2>1. \A i, k \in DOMAIN orgs : orgs[i].id = orgs[k].id => i = k
    BY DEF OrgsInv
  <2>2. \A i \in DOMAIN orgs : orgs[i].owner \in DOMAIN accounts
    BY DEF OrgsInv
  <2>3. \A m \in DOMAIN members : m[1] \in OrgIds /\ m[2] \in DOMAIN accounts
    BY DEF MembersInv, OrgIds
  <2>4. \A p \in DOMAIN projects : projects[p].org \in OrgIds
    BY DEF ProjectInv, HasOrg, OrgIds
  <2>5. \A r \in Requests : "org" \in DOMAIN req[r] => req[r].org \in OrgIds
    BY Shapes DEF RequestInv, HasOrg, OrgIds
  <2>6. ASSUME NEW m \in DOMAIN members, members[m] = "owner"
        PROVE  OwnerOf(m[1]) = m[2]
    <3>1. PICK i \in DOMAIN orgs : orgs[i].id = m[1] /\ orgs[i].owner = m[2]
      BY <2>6 DEF MembersInv
    <3>2. (CHOOSE k \in DOMAIN orgs : orgs[k].id = m[1]) = i
      BY <2>1, <3>1
    <3>3. QED
      BY <3>1, <3>2 DEF OwnerOf
  <2>7. QED
    BY <2>1, <2>2, <2>3, <2>4, <2>5, <2>6 DEF AccountsInv, QueuesInv
<1>2. QED
  BY <1>1, InvHolds, PTL

(* One registration of an address at most is answered 201, though the      *)
(* SELECT and the INSERT of auth.routes.ts are two statements.             *)
THEOREM OneRegistration == Spec => []OneAccount
<1>1. RowsInv => OneAccount
  BY DEF RowsInv
<1>2. QED
  BY <1>1, InvHolds, PTL

(* An organization has one project of a name, though CheckName and the     *)
(* INSERT are two statements.                                              *)
THEOREM ProjectNamesUnique == Spec => []NamesAreUnique
<1>1. RowsInv => NamesAreUnique
  BY DEF RowsInv
<1>2. QED
  BY <1>1, InvHolds, PTL

(* Who created a project sees it, but for the one exception the property   *)
(* names: POST /projects in an organization that another request has       *)
(* inserted and has not joined its user to.                                *)
THEOREM CreatorSees == Spec => []CreatedIsVisible
<1>1. RowsInv => CreatedIsVisible
  <2> SUFFICES ASSUME RowsInv, NEW r \in Requests \cap DOMAIN projects,
                      req[r].pc = "done", req[r].code = 201
               PROVE  LET o == projects[r].org IN
                      r \in Visible(req[r].user) \/
                      (o # r /\ (req[o].pc = "insert_member"
                                 \/ (req[o].pc = "done" /\ req[o].code = 500)))
    BY DEF CreatedIsVisible
  <2>1. PICK i \in DOMAIN orgs : /\ orgs[i].id = projects[r].org
                                 /\ orgs[i].owner = req[r].user
    BY DEF RowsInv, ProjectInv, HasOrg
  <2>2. \/ <<orgs[i].id, orgs[i].owner>> \in DOMAIN members
        \/ req[orgs[i].id].pc = "insert_member"
        \/ req[orgs[i].id].pc = "done" /\ req[orgs[i].id].code = 500
    BY DEF RowsInv, OrgsInv
  <2>3. QED
    BY <2>1, <2>2 DEF Visible, IsMember
<1>2. QED
  BY <1>1, InvHolds, PTL

(* The count and the INSERTs of GET /projects seed a user twice only when  *)
(* two such requests overlap.                                              *)
THEOREM SeedsTwiceOnlyConcurrently == Spec => []SeedsOnlyConcurrently
<1>1. RowsInv => SeedsOnlyConcurrently
  <2> SUFFICES ASSUME RowsInv, NEW r \in DOMAIN projects, NEW s \in DOMAIN projects,
                      req[r].op = "list", req[s].op = "list", req[r].user = req[s].user
               PROVE  r \notin before[s]
    BY DEF SeedsOnlyConcurrently
  <2>1. s \in Requests /\ req[s].pc # "idle" /\ Seeding(s)
    BY DEF RowsInv, TypeOK, ProjectInv, Seeding
  <2>2. QED
    BY <2>1 DEF RowsInv, SeedInv
<1>2. QED
  BY <1>1, InvHolds, PTL
=============================================================================
