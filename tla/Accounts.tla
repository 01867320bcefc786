------------------------------ MODULE Accounts ------------------------------
(***************************************************************************)
(* Users, organizations, memberships, projects and their queues: POST      *)
(* /auth/register and /auth/login, the routes of /projects, and POST       *)
(* /projects/:projectId/queues.  A request is a process with one action    *)
(* per statement; no handler opens a transaction, so the statements of     *)
(* concurrent requests interleave and an error leaves the earlier ones     *)
(* behind.  UNIQUE, FOREIGN KEY and CASCADE are those of the migrations.   *)
(*                                                                         *)
(* authMiddleware reads the user of the token before each handler; users   *)
(* are never deleted, so a request here begins with its first statement.   *)
(***************************************************************************)
EXTENDS Naturals, Sequences, FiniteSets

CONSTANTS
  Users,          \* e-mail addresses
  Passwords,
  Requests,       \* the requests of a behaviour; a row that one inserts has its id
  Names,          \* names of projects and queues in request bodies
  DefaultProject, \* 'Default Project'
  DefaultQueue,   \* 'default-queue' or 'main-queue', by the handler
  InitAccounts,   \* the tables of users a behaviour may start with
  MaxErrors       \* bound on statements that throw

ASSUME AccountsAssumption ==
  /\ DefaultProject \notin Requests
  /\ \A a \in InitAccounts :
       DOMAIN a \subseteq Users /\ \A u \in DOMAIN a : a[u] \in Passwords
  /\ MaxErrors \in Nat

Roles == {"viewer", "operator", "admin", "owner"}
Assignable == {"admin", "operator", "viewer"}

VARIABLES
  accounts,  \* users: the password of each address that is registered
  orgs,      \* organizations in the order of created_at: [id, owner]
  members,   \* organization_members: the role of each <<organization, user>>
  projects,  \* the [org, name] of each project
  queues,    \* pairs <<project, name>>
  req,       \* where each request is, and its answer
  before,    \* the requests that had ended when a request began
  errors

tables == <<accounts, orgs, members, projects, queues>>
vars == <<accounts, orgs, members, projects, queues, req, before, errors>>

Add(f, x, y) == [z \in DOMAIN f \cup {x} |-> IF z = x THEN y ELSE f[z]]
Without(f, x) == [z \in DOMAIN f \ {x} |-> f[z]]

Ended == {r \in Requests : req[r].pc = "done"}

Idle == [pc |-> "idle"]

Requested ==
  {Idle}
  \cup [pc : {"insert_user"}, op : {"register"}, user : Users, password : Passwords]
  \cup [pc : {"insert_org"}, op : {"list", "create"}, user : Users,
        name : Names \cup {DefaultProject}]
  \cup [pc : {"insert_member", "check_name", "insert_project", "insert_queue"},
        op : {"list", "create"}, user : Users, name : Names \cup {DefaultProject},
        org : Requests]
  \cup [pc : {"rows"}, op : {"list"}, user : Users]
  \cup [pc : {"upsert_member"}, op : {"member"}, user : Users, project : Requests,
        target : Users, role : Assignable]
  \cup [pc : {"insert_own_queue"}, op : {"queue"}, user : Users,
        project : Requests, name : Names]
  \cup [pc : {"done"}, code : {200, 201, 204, 401, 403, 404, 409, 500},
        op : {"register", "login", "list", "create", "delete", "member", "queue"},
        user : Users]

TypeOK ==
  /\ DOMAIN accounts \subseteq Users
  /\ \A u \in DOMAIN accounts : accounts[u] \in Passwords
  /\ orgs \in Seq([id : Requests, owner : Users])
  /\ DOMAIN members \subseteq Requests \X Users
  /\ \A m \in DOMAIN members : members[m] \in Roles
  /\ DOMAIN projects \subseteq Requests
  /\ \A p \in DOMAIN projects :
       projects[p] \in [org : Requests, name : Names \cup {DefaultProject}]
  /\ queues \subseteq Requests \X (Names \cup {DefaultQueue})
  /\ req \in [Requests -> Requested]
  /\ before \in [Requests -> SUBSET Requests]
  /\ errors \in 0 .. MaxErrors

Init ==
  /\ accounts \in InitAccounts
  /\ orgs = <<>>
  /\ members = <<>>
  /\ projects = <<>>
  /\ queues = {}
  /\ req = [r \in Requests |-> Idle]
  /\ before = [r \in Requests |-> {}]
  /\ errors = 0

---------------------------------------------------------------------------
(* How a request begins, goes on to its next statement, and is answered.   *)
Begin(r) ==
  /\ req[r] = Idle
  /\ before' = [before EXCEPT ![r] = Ended]

Answered(op, u, code) == [pc |-> "done", op |-> op, user |-> u, code |-> code]

Goto(r, state) == req' = [req EXCEPT ![r] = state]

(* middleware/access.ts.  Organization o and the projects a user sees.     *)
RoleRank == [viewer |-> 1, operator |-> 2, admin |-> 3, owner |-> 4]
HasRoleAtLeast(actual, required) == RoleRank[actual] >= RoleRank[required]

IsMember(o, u) == <<o, u>> \in DOMAIN members

Visible(u) == {p \in DOMAIN projects : IsMember(projects[p].org, u)}

MayAs(p, u, role) ==
  p \in Visible(u) /\ HasRoleAtLeast(members[<<projects[p].org, u>>], role)

---------------------------------------------------------------------------
(* POST /auth/register: SELECT, hash, INSERT.  users.email is UNIQUE.      *)
Register(r, u, w) ==
  /\ Begin(r)
  /\ Goto(r, IF u \in DOMAIN accounts THEN Answered("register", u, 409)
              ELSE [pc |-> "insert_user", op |-> "register", user |-> u, 
                    password |-> w])
  /\ UNCHANGED <<tables, errors>>

\* Mutant: users.email is not UNIQUE.
EmailFree(u) == FALSE

EmailTaken(u) == u \in DOMAIN accounts

InsertUser(r) ==
  /\ req[r].pc = "insert_user"
  /\ LET u == req[r].user IN
     IF EmailTaken(u)
     THEN /\ Goto(r, Answered("register", u, 500))
          /\ UNCHANGED accounts
     ELSE /\ accounts' = Add(accounts, u, req[r].password)
          /\ Goto(r, Answered("register", u, 201))
  /\ UNCHANGED <<orgs, members, projects, queues, before, errors>>

(* POST /auth/login: one SELECT, and the comparison of what it returned.   *)
Login(r, u, w) ==
  /\ Begin(r)
  /\ Goto(r, Answered("login", u,
       IF u \in DOMAIN accounts /\ accounts[u] = w THEN 200 ELSE 401))
  /\ UNCHANGED <<tables, errors>>

---------------------------------------------------------------------------
(* GET /projects: the count, for a user without projects an organization,  *)
(* a membership, a project and a queue, and then the rows.                 *)
ListProjects(r, u) ==
  /\ u \in DOMAIN accounts
  /\ Begin(r)
  /\ Goto(r, IF Visible(u) # {} THEN [pc |-> "rows", op |-> "list", user |-> u]
              ELSE [pc |-> "insert_org", op |-> "list", user |-> u,
                    name |-> DefaultProject])
  /\ UNCHANGED <<tables, errors>>

Rows(r) ==
  /\ req[r].pc = "rows"
  /\ Goto(r, Answered("list", req[r].user, 200))
  /\ UNCHANGED <<tables, before, errors>>

(* POST /projects: the oldest organization the user owns, or a new one.    *)
Owned(u) == {i \in DOMAIN orgs : orgs[i].owner = u}
Oldest(u) == orgs[CHOOSE i \in Owned(u) : \A k \in Owned(u) : i <= k].id

CreateProject(r, u, n, named) ==
  /\ u \in DOMAIN accounts
  /\ Begin(r)
  /\ Goto(r, IF Owned(u) # {} /\ ~named
              THEN [pc |-> "check_name", op |-> "create", user |-> u, name |-> n,
                    org |-> Oldest(u)]
              ELSE [pc |-> "insert_org", op |-> "create", user |-> u, name |-> n])
  /\ UNCHANGED <<tables, errors>>

(* The INSERTs, which the two handlers have in common.                     *)
At(r, pc) == [req[r] EXCEPT !.pc = pc]

\* Mutants: POST /projects, and GET /projects, without the membership.
CreateWithoutMember(r) ==
  /\ req[r].pc = "insert_org"
  /\ orgs' = Append(orgs, [id |-> r, owner |-> req[r].user])
  /\ Goto(r, [pc |-> IF req[r].op = "list" THEN "insert_member" ELSE "check_name",
              op |-> req[r].op, user |-> req[r].user, name |-> req[r].name, org |-> r])
  /\ UNCHANGED <<accounts, members, projects, queues, before, errors>>

SeedWithoutMember(r) ==
  /\ req[r].pc = "insert_org"
  /\ orgs' = Append(orgs, [id |-> r, owner |-> req[r].user])
  /\ Goto(r, [pc |-> IF req[r].op = "list" THEN "insert_project" ELSE "insert_member",
              op |-> req[r].op, user |-> req[r].user, name |-> req[r].name, org |-> r])
  /\ UNCHANGED <<accounts, members, projects, queues, before, errors>>

InsertOrg(r) ==
  /\ req[r].pc = "insert_org"
  /\ orgs' = Append(orgs, [id |-> r, owner |-> req[r].user])
  /\ Goto(r, [pc |-> "insert_member", op |-> req[r].op, user |-> req[r].user,
               name |-> req[r].name, org |-> r])
  /\ UNCHANGED <<accounts, members, projects, queues, before, errors>>

InsertMember(r) ==
  /\ req[r].pc = "insert_member"
  /\ members' = Add(members, <<req[r].org, req[r].user>>, "owner")
  /\ Goto(r, At(r, IF req[r].op = "list" THEN "insert_project" ELSE "check_name"))
  /\ UNCHANGED <<accounts, orgs, projects, queues, before, errors>>

NameTaken(o, n) == \E p \in DOMAIN projects : projects[p] = [org |-> o, name |-> n]

CheckName(r) ==
  /\ req[r].pc = "check_name"
  /\ Goto(r, IF NameTaken(req[r].org, req[r].name)
              THEN Answered("create", req[r].user, 409)
              ELSE At(r, "insert_project"))
  /\ UNCHANGED <<tables, before, errors>>

\* Mutant: without UNIQUE (org_id, name).
NoViolation(o, n) == FALSE

UniqueViolation(o, n) == NameTaken(o, n)

InsertProject(r) ==
  /\ req[r].pc = "insert_project"
  /\ IF UniqueViolation(req[r].org, req[r].name)
     THEN /\ Goto(r, Answered(req[r].op, req[r].user, 500))
          /\ UNCHANGED projects
     ELSE /\ projects' = Add(projects, r, [org |-> req[r].org, name |-> req[r].name])
          /\ Goto(r, At(r, "insert_queue"))
  /\ UNCHANGED <<accounts, orgs, members, queues, before, errors>>

(* queues.project_id REFERENCES projects: an INSERT for a project that has *)
(* been deleted throws.                                                    *)
\* Mutant: queues.project_id has no foreign key.
Unreferenced(p) == TRUE

Referenced(p) == p \in DOMAIN projects

InsertQueue(r) ==
  /\ req[r].pc = "insert_queue"
  /\ IF Referenced(r)
     THEN /\ queues' = queues \cup {<<r, DefaultQueue>>}
          /\ Goto(r, IF req[r].op = "list"
                      THEN [pc |-> "rows", op |-> "list", user |-> req[r].user]
                      ELSE Answered("create", req[r].user, 201))
     ELSE /\ Goto(r, Answered(req[r].op, req[r].user, 500))
          /\ UNCHANGED queues
  /\ UNCHANGED <<accounts, orgs, members, projects, before, errors>>

---------------------------------------------------------------------------
(* DELETE /projects/:id, one statement; the queues go with their project.  *)
DeleteProject(r, u, p) ==
  /\ Begin(r)
  /\ IF MayAs(p, u, "admin")
     THEN /\ projects' = Without(projects, p)
          /\ queues' = {q \in queues : q[1] # p}
          /\ Goto(r, Answered("delete", u, 204))
     ELSE /\ Goto(r, Answered("delete", u, 404))
          /\ UNCHANGED <<projects, queues>>
  /\ UNCHANGED <<accounts, orgs, members, errors>>

(* POST /projects/:id/members: the role of the caller, then an upsert that *)
(* finds neither a deleted project nor an unknown user.                    *)
AddMember(r, u, p, v, role) ==
  /\ Begin(r)
  /\ Goto(r, IF MayAs(p, u, "admin")
              THEN [pc |-> "upsert_member", op |-> "member", user |-> u, project |-> p,
                    target |-> v, role |-> role]
              ELSE Answered("member", u, 403))
  /\ UNCHANGED <<tables, errors>>

UpsertMember(r) ==
  /\ req[r].pc = "upsert_member"
  /\ LET p == req[r].project
         v == req[r].target
     IN IF p \in DOMAIN projects /\ v \in DOMAIN accounts
        THEN /\ members' = Add(members, <<projects[p].org, v>>, req[r].role)
             /\ Goto(r, Answered("member", req[r].user, 201))
        ELSE /\ Goto(r, Answered("member", req[r].user, 404))
             /\ UNCHANGED members
  /\ UNCHANGED <<accounts, orgs, projects, queues, before, errors>>

(* POST /projects/:projectId/queues: the role, then the INSERT.            *)
CreateQueue(r, u, p, n) ==
  /\ Begin(r)
  /\ Goto(r, IF MayAs(p, u, "operator")
              THEN [pc |-> "insert_own_queue", op |-> "queue", user |-> u, project |-> p,
                    name |-> n]
              ELSE Answered("queue", u, 404))
  /\ UNCHANGED <<tables, errors>>

InsertOwnQueue(r) ==
  /\ req[r].pc = "insert_own_queue"
  /\ LET q == <<req[r].project, req[r].name>> IN
     IF q \in queues \/ ~Referenced(q[1])
     THEN /\ Goto(r, Answered("queue", req[r].user, IF q \in queues THEN 409 ELSE 500))
          /\ UNCHANGED queues
     ELSE /\ queues' = queues \cup {q}
          /\ Goto(r, Answered("queue", req[r].user, 201))
  /\ UNCHANGED <<accounts, orgs, members, projects, before, errors>>

---------------------------------------------------------------------------
(* A statement throws, because the connection is lost or the server dies:  *)
(* next(err) answers 500, or nobody does.                                  *)
StatementFails(r) ==
  /\ req[r].pc \notin {"idle", "done"}
  /\ errors < MaxErrors
  /\ errors' = errors + 1
  /\ Goto(r, Answered(req[r].op, req[r].user, 500))
  /\ UNCHANGED <<tables, before>>

Next ==
  \E r \in Requests :
    \/ \E u \in Users, w \in Passwords : Register(r, u, w) \/ Login(r, u, w)
    \/ \E u \in DOMAIN accounts :
         \/ ListProjects(r, u)
         \/ \E n \in Names, named \in BOOLEAN : CreateProject(r, u, n, named)
         \/ \E p \in DOMAIN projects :
              \/ DeleteProject(r, u, p)
              \/ \E v \in Users, role \in Assignable : AddMember(r, u, p, v, role)
              \/ \E n \in Names : CreateQueue(r, u, p, n)
    \/ InsertUser(r) \/ Rows(r)
    \/ InsertOrg(r) \/ InsertMember(r) \/ CheckName(r)
    \/ InsertProject(r) \/ InsertQueue(r)
    \/ UpsertMember(r) \/ InsertOwnQueue(r)
    \/ StatementFails(r)

Spec == Init /\ [][Next]_vars
---------------------------------------------------------------------------
(* The tables refer to rows that exist, a request that is going to use an  *)
(* organization finds it there, and the role of owner is only ever that of *)
(* the user who created the organization (projects.routes.ts:225 accepts   *)
(* no other).                                                              *)
OrgIds == {orgs[i].id : i \in DOMAIN orgs}
OwnerOf(o) == orgs[CHOOSE i \in DOMAIN orgs : orgs[i].id = o].owner

AccountsInv ==
  /\ TypeOK
  /\ \A i, k \in DOMAIN orgs : orgs[i].id = orgs[k].id => i = k
  /\ \A i \in DOMAIN orgs : orgs[i].owner \in DOMAIN accounts
  /\ \A m \in DOMAIN members : m[1] \in OrgIds /\ m[2] \in DOMAIN accounts
  /\ \A p \in DOMAIN projects : projects[p].org \in OrgIds
  /\ \A q \in queues : q[1] \in DOMAIN projects
  /\ \A r \in Requests : "org" \in DOMAIN req[r] => req[r].org \in OrgIds
  /\ \A m \in DOMAIN members : members[m] = "owner" => OwnerOf(m[1]) = m[2]

(* Of the registrations of one address, however many pass the SELECT before*)
(* the first INSERT (auth.routes.ts:21), at most one is answered 201.      *)
OneAccount ==
  \A r, s \in Requests :
    /\ req[r].pc = "done" /\ req[r].op = "register" /\ req[r].code = 201
    /\ req[s].pc = "done" /\ req[s].op = "register" /\ req[s].code = 201
    /\ req[r].user = req[s].user
    => r = s

(* Two projects of an organization never have the same name, though the    *)
(* check (projects.routes.ts:114) and the INSERT are two statements.       *)
NamesAreUnique ==
  \A p, q \in DOMAIN projects : projects[p] = projects[q] => p = q

(* Who was answered 201 for a project finds it in GET /projects until it is*)
(* deleted. The one exception: POST /projects took an organization whose   *)
(* membership was still to be inserted (projects.routes.ts:91), by another *)
(* request that has not got there yet or has failed before it.             *)
CreatedIsVisible ==
  \A r \in Requests \cap DOMAIN projects :
    req[r].pc = "done" /\ req[r].code = 201 =>
      LET o == projects[r].org IN
      r \in Visible(req[r].user) \/
      (o # r /\ (req[o].pc = "insert_member" \/ (req[o].pc = "done" /\ req[o].code = 500)))

(* "Auto-seeds default project if none exist" (projects.routes.ts:17): a   *)
(* user gets a second default project, beside the first, only from a       *)
(* GET /projects that overlapped the one that seeded it.                   *)
SeedsOnlyConcurrently ==
  \A r, s \in DOMAIN projects :
    /\ r # s
    /\ req[r].op = "list" /\ req[s].op = "list" /\ req[r].user = req[s].user
    => r \notin before[s]
=============================================================================
