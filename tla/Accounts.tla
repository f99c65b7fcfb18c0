------------------------------ MODULE Accounts ------------------------------
(***************************************************************************)
(* Users, sessions and rights:                                             *)
(*   backend/src/controllers/auth.controller.ts     login, logout, password*)
(*   backend/src/middleware/auth.ts, permissions.ts the guards of a route  *)
(*   backend/src/controllers/users.controller.ts, departments.controller.ts*)
(*   backend/src/controllers/reports/access.controller.ts                  *)
(*   frontend: AuthContext.tsx, Login.tsx, ChangePassword.tsx, pages/admin *)
(*                                                                         *)
(* A request is one step for its guards and reads and one for its writes:  *)
(* bcrypt and the database are awaited in between and other requests run.  *)
(* A page decides what it offers from the user it loaded (me), which the   *)
(* server does not refresh.                                                *)
(*                                                                         *)
(* Left out: names and mail addresses, the password itself (whether the    *)
(* typed one is right is an input), audit rows, listings.                  *)
(***************************************************************************)
EXTENDS Naturals, FiniteSets

CONSTANTS
  Browsers,     \* each sends one request at a time
  Ops,          \* what is done at each browser
  People,       \* who logs in there
  Users, Depts, Keys, Rights,
  IT,           \* the department with isLocked
  SeededUsers,  \* the initial rows, Absent for a free user name
  SeededMatrix, \* the initial permission rows of the departments
  SeededGrants,
  Toggled,      \* bound: the rights that are changed
  MaxAttempts,  \* 5 in the code
  MaxLogins,    \* bound: sessions
  Absent

ASSUME SetsAssumption ==
  /\ IT \in Depts /\ MaxAttempts \in Nat \ {0} /\ MaxLogins \in Nat
  /\ Toggled \subseteq Rights
AdminOps == {"create", "clone", "suspend", "delete", "reset", "grant", "matrix",
             "department"}
ASSUME OpsAssumption ==
  /\ Ops \in [Browsers -> SUBSET (AdminOps \cup {"login", "self"})]
  /\ People \in [Browsers -> SUBSET Users]

Row == [dept : Depts, active : BOOLEAN, mustChange : BOOLEAN,
        attempts : 0..MaxAttempts, locked : BOOLEAN, session : Nat]

ASSUME SeedAssumption ==
  /\ Absent \notin Row
  /\ SeededUsers \in [Users -> Row \cup {Absent}]
  /\ \A u \in Users : SeededUsers[u] # Absent =>
       SeededUsers[u].locked \/ SeededUsers[u].attempts < MaxAttempts
  /\ SeededMatrix \in [Depts -> (SUBSET Rights) \cup {Absent}]
  /\ SeededGrants \in SUBSET (Users \X Keys)

VARIABLES
  user,    \* User rows
  matrix,  \* DeptModulePermission rows of each department, Absent without one
  grants,  \* UserReportAccess rows
  logins,  \* sessions so far; names them, as randomUUID does
  cookie,  \* the token of each browser: user and session
  me,      \* the user its pages go by (AuthContext)
  handler  \* the request of each browser between its two steps

tables == <<user, matrix, grants>>
vars == <<user, matrix, grants, logins, cookie, me, handler>>

Nobody == Absent
Page == [id : Users, isIT : BOOLEAN, rights : SUBSET Rights, keys : SUBSET Keys,
         mustChange : BOOLEAN]
Idle == [op |-> "idle"]
Request ==
  {Idle}
  \cup [op : {"compare"}, target : Users, row : Row, me : Page,
        right : BOOLEAN, force : BOOLEAN]
  \cup [op : {"logout", "rehash"}, actor : Users]
  \cup [op : {"reset", "delete"}, actor : Users, target : Users]
  \cup [op : {"suspend"}, actor : Users, target : Users, active : BOOLEAN]
  \cup [op : {"create"}, actor : Users, target : Users, dept : Depts, keys : SUBSET Keys]
  \cup [op : {"grants"}, actor : Users, target : Users, keys : SUBSET Keys]
  \cup [op : {"grant", "revoke"}, actor : Users, target : Users, key : Keys]
  \cup [op : {"sheet"}, dept : Depts, rights : SUBSET Rights]
  \cup [op : {"matrix"}, actor : Users, dept : Depts, rights : SUBSET Rights]
  \cup [op : {"newDept", "oldDept"}, actor : Users, dept : Depts]

TypeOK ==
  /\ user \in [Users -> Row \cup {Absent}]
  /\ matrix \in [Depts -> (SUBSET Rights) \cup {Absent}]
  /\ grants \in SUBSET (Users \X Keys)
  /\ logins \in Nat
  /\ cookie \in [Browsers -> (Users \X Nat) \cup {Nobody}]
  /\ me \in [Browsers -> Page \cup {Nobody}]
  /\ handler \in [Browsers -> Request]

Init ==
  /\ user = SeededUsers /\ matrix = SeededMatrix /\ grants = SeededGrants
  /\ logins = 0
  /\ cookie = [b \in Browsers |-> Nobody]
  /\ me = [b \in Browsers |-> Nobody]
  /\ handler = [b \in Browsers |-> Idle]

(***************************************************************************)
(* Guards of a route, and what a page offers.                              *)
(***************************************************************************)
Present(u) == user[u] # Absent
RightsOf(d) == IF matrix[d] = Absent THEN {} ELSE matrix[d]

requirePermission(u, module, action) ==
  user[u].dept = IT \/ <<module, action>> \in RightsOf(user[u].dept)
requireReportAccess(u, key) == user[u].dept = IT \/ <<u, key>> \in grants
requireIT(u) == user[u].dept = IT
requireResortsReferenceRead(u) ==
  \/ requireReportAccess(u, "RESORTS_SETUP_ACCESS")
  \/ requirePermission(u, "RESORT_BOOKING", "view")

(* authenticate: the row of the cookie's user still names its session.     *)
Authenticated(b) ==
  /\ cookie[b] # Nobody
  /\ LET u == cookie[b][1] IN
     /\ Present(u)
     /\ user[u].active /\ ~user[u].locked
     /\ user[u].session = cookie[b][2]
Actor(b) == cookie[b][1]

Loaded(u) == [id |-> u, isIT |-> user[u].dept = IT, rights |-> RightsOf(user[u].dept),
              keys |-> {k \in Keys : <<u, k>> \in grants},
              mustChange |-> user[u].mustChange]

(* Mutation: Resorts Setup is read from the matrix like other modules.     *)
MutPerm(page, module, action) == page.isIT \/ <<module, action>> \in page.rights

perm(page, module, action) ==
  \/ page.isIT
  \/ IF module = "RESORTS_SETUP" THEN "RESORTS_SETUP_ACCESS" \in page.keys
     ELSE <<module, action>> \in page.rights

(***************************************************************************)
(* Sessions.                                                               *)
(***************************************************************************)
Ready(b, op) == op \in Ops[b] /\ handler[b] = Idle

LoginAsk(b) ==
  /\ Ready(b, "login") /\ me[b] = Nobody
  /\ \E u \in People[b], right, force \in BOOLEAN :
       /\ Present(u) /\ ~user[u].locked /\ user[u].active
       /\ handler' = [handler EXCEPT ![b] =
            [op |-> "compare", target |-> u, row |-> user[u], me |-> Loaded(u),
             right |-> right, force |-> force]]
  /\ UNCHANGED <<tables, logins, cookie, me>>

(* Mutation: the account is locked one failure later.                      *)
MutFailed(row, attempts) ==
  [row EXCEPT !.attempts = attempts, !.locked = @ \/ attempts > MaxAttempts]

Failed(row, attempts) ==
  [row EXCEPT !.attempts = attempts, !.locked = @ \/ attempts >= MaxAttempts]

(* Counted from the row read before the comparison.  A row deleted since   *)
(* makes the statement fail.                                               *)
LoginFail(b) ==
  LET h == handler[b] IN
  /\ h.op = "compare" /\ ~h.right
  /\ IF Present(h.target)
     THEN user' = [user EXCEPT ![h.target] = Failed(@, h.row.attempts + 1)]
     ELSE UNCHANGED user
  /\ handler' = [handler EXCEPT ![b] = Idle]
  /\ UNCHANGED <<matrix, grants, logins, cookie, me>>

(* SESSION_ACTIVE: the login page then offers to log in with force.        *)
LoginConflict(b) ==
  LET h == handler[b] IN
  /\ h.op = "compare" /\ h.right
  /\ h.row.session # 0 /\ ~h.force
  /\ handler' = [handler EXCEPT ![b] = Idle]
  /\ UNCHANGED <<tables, logins, cookie, me>>

(* Mutation: a session that is taken over keeps its token.                 *)
MutNewSession(row) == IF row.session # 0 THEN row.session ELSE logins + 1

NewSession(row) == logins + 1

LoginCommit(b) ==
  LET h == handler[b] IN
  /\ h.op = "compare" /\ h.right
  /\ h.row.session = 0 \/ h.force
  /\ Present(h.target)
  /\ logins < MaxLogins
  /\ logins' = logins + 1
  /\ user' = [user EXCEPT ![h.target] =
       [@ EXCEPT !.attempts = 0, !.locked = FALSE, !.session = NewSession(h.row)]]
  /\ cookie' = [cookie EXCEPT ![b] = <<h.target, NewSession(h.row)>>]
  /\ me' = [me EXCEPT ![b] = h.me]
  /\ handler' = [handler EXCEPT ![b] = Idle]
  /\ UNCHANGED <<matrix, grants>>

(* The token and its cookie run out after JWT_EXPIRES_IN.                  *)
Expire(b) ==
  /\ cookie[b] # Nobody /\ cookie' = [cookie EXCEPT ![b] = Nobody]
  /\ UNCHANGED <<tables, logins, me, handler>>

(* A 401 sends the browser to the login page, which loads no user; a page  *)
(* opened anew loads the user again.                                       *)
Refused(b) ==
  /\ me[b] # Nobody /\ ~Authenticated(b)
  /\ me' = [me EXCEPT ![b] = Nobody]
  /\ UNCHANGED <<tables, logins, cookie, handler>>
Reload(b) ==
  /\ handler[b] = Idle /\ Authenticated(b)
  /\ me' = [me EXCEPT ![b] = Loaded(Actor(b))]
  /\ UNCHANGED <<tables, logins, cookie, handler>>

(* Logging out and changing the password need a session, and the second    *)
(* the current password unless a new one is due.                           *)
SelfAsk(b) ==
  /\ Ready(b, "self") /\ me[b] # Nobody /\ Authenticated(b)
  /\ \E op \in {"logout", "rehash"} :
       handler' = [handler EXCEPT ![b] = [op |-> op, actor |-> Actor(b)]]
  /\ UNCHANGED <<tables, logins, cookie, me>>

Logout(b) ==
  LET h == handler[b] IN
  /\ h.op = "logout" /\ Present(h.actor)
  /\ user' = [user EXCEPT ![h.actor] = [@ EXCEPT !.session = 0]]
  /\ cookie' = [cookie EXCEPT ![b] = Nobody]
  /\ me' = [me EXCEPT ![b] = Nobody]
  /\ handler' = [handler EXCEPT ![b] = Idle]
  /\ UNCHANGED <<matrix, grants, logins>>

ChangePassword(b) ==
  LET h == handler[b] IN
  /\ h.op = "rehash" /\ Present(h.actor)
  /\ user' = [user EXCEPT ![h.actor] = [@ EXCEPT !.mustChange = FALSE]]
  /\ handler' = [handler EXCEPT ![b] = Idle]
  /\ UNCHANGED <<matrix, grants, logins, cookie, me>>

(***************************************************************************)
(* User administration.  May: the page offers the operation and the guards *)
(* of its route let it through.                                            *)
(***************************************************************************)
May(b, op, module, action) ==
  /\ Ready(b, op)
  /\ me[b] # Nobody /\ ~me[b].mustChange /\ perm(me[b], module, action)
  /\ Authenticated(b) /\ ~user[Actor(b)].mustChange
  /\ requirePermission(Actor(b), module, action)
MayIT(b, op) == May(b, op, "ADMIN", "view") /\ me[b].isIT /\ requireIT(Actor(b))

Sends(b, request) ==
  /\ handler' = [handler EXCEPT ![b] = request]
  /\ UNCHANGED <<tables, logins, cookie, me>>

CreateAsk(b) ==
  /\ May(b, "create", "ADMIN", "create")
  /\ \E u \in Users, d \in Depts :
       Sends(b, [op |-> "create", actor |-> Actor(b), target |-> u, dept |-> d,
                 keys |-> {}])

CloneAsk(b) ==
  /\ MayIT(b, "clone")
  /\ \E u, source \in Users :
       /\ Present(source)
       /\ Sends(b, [op |-> "create", actor |-> Actor(b), target |-> u,
                    dept |-> user[source].dept,
                    keys |-> {k \in Keys : <<source, k>> \in grants}])

(* A taken user name is a conflict, an unknown department a failure.       *)
CreateCommit(b) ==
  LET h == handler[b] IN
  /\ h.op = "create"
  /\ IF ~Present(h.target) /\ matrix[h.dept] # Absent
     THEN /\ user' = [user EXCEPT ![h.target] =
               [dept |-> h.dept, active |-> TRUE, mustChange |-> TRUE,
                attempts |-> 0, locked |-> FALSE, session |-> 0]]
          /\ handler' = [handler EXCEPT ![b] =
               [op |-> "grants", actor |-> h.actor, target |-> h.target, keys |-> h.keys]]
     ELSE UNCHANGED user /\ handler' = [handler EXCEPT ![b] = Idle]
  /\ UNCHANGED <<matrix, grants, logins, cookie, me>>

(* The grants of a clone follow in a statement of their own.               *)
CloneGrants(b) ==
  LET h == handler[b] IN
  /\ h.op = "grants"
  /\ grants' = IF Present(h.target) THEN grants \cup ({h.target} \X h.keys) ELSE grants
  /\ handler' = [handler EXCEPT ![b] = Idle]
  /\ UNCHANGED <<user, matrix, logins, cookie, me>>

(* Mutation: one may suspend or delete oneself.                            *)
MutOther(b, u) == Present(u)

Other(b, u) == Present(u) /\ u # Actor(b)

SuspendAsk(b) ==
  /\ May(b, "suspend", "ADMIN", "edit")
  /\ \E u \in Users :
       /\ Other(b, u)
       /\ Sends(b, [op |-> "suspend", actor |-> Actor(b), target |-> u,
                    active |-> ~user[u].active])

SuspendCommit(b) ==
  LET h == handler[b] IN
  /\ h.op = "suspend"
  /\ user' = IF Present(h.target)
             THEN [user EXCEPT ![h.target] = [@ EXCEPT !.active = h.active]]
             ELSE user
  /\ handler' = [handler EXCEPT ![b] = Idle]
  /\ UNCHANGED <<matrix, grants, logins, cookie, me>>

(* An IT department must keep at least one active account.                 *)
LastActive(u) ==
  /\ user[u].dept = IT /\ user[u].active
  /\ \A w \in Users \ {u} : Present(w) /\ user[w].dept = IT => ~user[w].active

DeleteAsk(b) ==
  /\ May(b, "delete", "ADMIN", "delete")
  /\ \E u \in Users :
       /\ Other(b, u) /\ ~LastActive(u)
       /\ Sends(b, [op |-> "delete", actor |-> Actor(b), target |-> u])

DeleteCommit(b) ==
  LET h == handler[b] IN
  /\ h.op = "delete"
  /\ user' = [user EXCEPT ![h.target] = Absent]
  /\ grants' = {g \in grants : g[1] # h.target}
  /\ handler' = [handler EXCEPT ![b] = Idle]
  /\ UNCHANGED <<matrix, logins, cookie, me>>

ResetAsk(b) ==
  /\ MayIT(b, "reset")
  /\ \E u \in Users :
       Present(u) /\ Sends(b, [op |-> "reset", actor |-> Actor(b), target |-> u])

ResetCommit(b) ==
  LET h == handler[b] IN
  /\ h.op = "reset"
  /\ user' = IF ~Present(h.target) THEN user
             ELSE [user EXCEPT ![h.target] =
                     [@ EXCEPT !.mustChange = TRUE, !.attempts = 0, !.locked = FALSE]]
  /\ handler' = [handler EXCEPT ![b] = Idle]
  /\ UNCHANGED <<matrix, grants, logins, cookie, me>>

GrantAsk(b) ==
  /\ MayIT(b, "grant")
  /\ \E u \in Users, k \in Keys :
       /\ Present(u) /\ user[u].dept # IT
       /\ Sends(b, [op |-> IF <<u, k>> \in grants THEN "revoke" ELSE "grant",
                    actor |-> Actor(b), target |-> u, key |-> k])

GrantCommit(b) ==
  LET h == handler[b] IN
  /\ h.op \in {"grant", "revoke"}
  /\ grants' = IF h.op = "revoke" THEN grants \ {<<h.target, h.key>>}
               ELSE IF Present(h.target) THEN grants \cup {<<h.target, h.key>>}
               ELSE grants
  /\ handler' = [handler EXCEPT ![b] = Idle]
  /\ UNCHANGED <<user, matrix, logins, cookie, me>>

(***************************************************************************)
(* Departments.  The permission sheet is loaded, ticked and saved whole;   *)
(* the RESORTS_SETUP row is not shown and goes back as it came.            *)
(***************************************************************************)
SheetOpen(b) ==
  /\ MayIT(b, "matrix")
  /\ \E d \in Depts \ {IT} :
       /\ matrix[d] # Absent
       /\ Sends(b, [op |-> "sheet", dept |-> d, rights |-> matrix[d]])

SheetSave(b) ==
  LET h == handler[b] IN
  /\ h.op = "sheet"
  /\ IF Authenticated(b) /\ ~user[Actor(b)].mustChange /\ requireIT(Actor(b))
     THEN \E ticked \in SUBSET Toggled :
            handler' = [handler EXCEPT ![b] =
              [op |-> "matrix", actor |-> Actor(b), dept |-> h.dept,
               rights |-> (h.rights \ Toggled) \cup ticked]]
     ELSE handler' = [handler EXCEPT ![b] = Idle]
  /\ UNCHANGED <<tables, logins, cookie, me>>

MatrixCommit(b) ==
  LET h == handler[b] IN
  /\ h.op = "matrix"
  /\ matrix' = IF matrix[h.dept] = Absent THEN matrix
               ELSE [matrix EXCEPT ![h.dept] = h.rights]
  /\ handler' = [handler EXCEPT ![b] = Idle]
  /\ UNCHANGED <<user, grants, logins, cookie, me>>

DepartmentAsk(b) ==
  /\ May(b, "department", "ADMIN", "create") /\ perm(me[b], "ADMIN", "delete")
  /\ \E d \in Depts \ {IT} :
       /\ matrix[d] # Absent => \A u \in Users : Present(u) => user[u].dept # d
       /\ Sends(b, [op |-> IF matrix[d] = Absent THEN "newDept" ELSE "oldDept",
                    actor |-> Actor(b), dept |-> d])

(* A new department may do nothing; one that has been given users since    *)
(* the check is kept by the foreign key.                                   *)
DepartmentCommit(b) ==
  LET h == handler[b] IN
  /\ h.op \in {"newDept", "oldDept"}
  /\ matrix' = [matrix EXCEPT ![h.dept] =
       IF h.op = "newDept" THEN IF @ = Absent THEN {} ELSE @
       ELSE IF \E u \in Users : Present(u) /\ user[u].dept = h.dept THEN @ ELSE Absent]
  /\ handler' = [handler EXCEPT ![b] = Idle]
  /\ UNCHANGED <<user, grants, logins, cookie, me>>

(* A lost connection, a failed statement, the end of the process.          *)
Abandon(b) ==
  /\ handler[b] # Idle
  /\ handler' = [handler EXCEPT ![b] = Idle]
  /\ UNCHANGED <<tables, logins, cookie, me>>

Next == \E b \in Browsers :
  \/ LoginAsk(b) \/ LoginFail(b) \/ LoginConflict(b) \/ LoginCommit(b)
  \/ Expire(b) \/ Refused(b) \/ Reload(b)
  \/ SelfAsk(b) \/ Logout(b) \/ ChangePassword(b)
  \/ CreateAsk(b) \/ CloneAsk(b) \/ CreateCommit(b) \/ CloneGrants(b)
  \/ SuspendAsk(b) \/ SuspendCommit(b) \/ DeleteAsk(b) \/ DeleteCommit(b)
  \/ ResetAsk(b) \/ ResetCommit(b) \/ GrantAsk(b) \/ GrantCommit(b)
  \/ SheetOpen(b) \/ SheetSave(b) \/ MatrixCommit(b)
  \/ DepartmentAsk(b) \/ DepartmentCommit(b)
  \/ Abandon(b)

Spec == Init /\ [][Next]_vars

-----------------------------------------------------------------------------
(* "Session ended. Please log in again.": of the browsers where a user has *)
(* logged in, at most one is still let through, whatever logins, forced    *)
(* logins and logouts overlap.                                             *)
OneSession ==
  \A b, c \in Browsers :
    Authenticated(b) /\ Authenticated(c) /\ Actor(b) = Actor(c) => b = c

(* "an IT (isLocked) department must keep at least one active account,     *)
(* otherwise nobody can administer the system afterwards".                 *)
AdminRemains == \E u \in Users : Present(u) /\ user[u].dept = IT /\ user[u].active

(* "Mirrors requireResortsSetupAccess on the backend -- change both        *)
(* together": a page that has just loaded its user offers what the routes  *)
(* allow, and whoever sees RCI or Resorts Setup can read the resorts.      *)
PagesMatchGuards ==
  \A u \in Users : Present(u) =>
    /\ \A right \in Rights :
         perm(Loaded(u), right[1], right[2]) =
           IF right[1] = "RESORTS_SETUP" THEN requireReportAccess(u, "RESORTS_SETUP_ACCESS")
           ELSE requirePermission(u, right[1], right[2])
    /\ (perm(Loaded(u), "RESORTS_SETUP", "view") \/ perm(Loaded(u), "RESORT_BOOKING", "view"))
         => requireResortsReferenceRead(u)
=============================================================================
