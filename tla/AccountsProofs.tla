---------------------------- MODULE AccountsProofs ----------------------------
(***************************************************************************)
(* For any users, departments and browsers: the types of Accounts, that a  *)
(* user has one session that works, and that IT keeps an active account    *)
(* when one browser suspends and deletes and IT alone may edit users.      *)
(***************************************************************************)
EXTENDS Accounts, TLAPS

(***************************************************************************)
(* Types.  The count of failures stays below the limit until the lock.     *)
(***************************************************************************)
Below(row) == row.locked \/ row.attempts < MaxAttempts
Counted ==
  /\ \A u \in Users : Present(u) => Below(user[u])
  /\ \A b \in Browsers : handler[b].op = "compare" => handler[b].row.attempts < MaxAttempts

Typed == TypeOK /\ Counted

LEMMA RowTyped ==
  ASSUME TypeOK, NEW u \in Users, Present(u)
  PROVE  user[u] \in Row
  BY DEF TypeOK, Present

LEMMA ActorTyped ==
  ASSUME TypeOK, NEW b \in Browsers, Authenticated(b)
  PROVE  Actor(b) \in Users /\ Present(Actor(b))
  BY DEF TypeOK, Authenticated, Actor

LEMMA RightsTyped ==
  ASSUME TypeOK, NEW d \in Depts
  PROVE  RightsOf(d) \in SUBSET Rights
  BY DEF TypeOK, RightsOf

LEMMA LoadedTyped ==
  ASSUME TypeOK, NEW u \in Users, Present(u)
  PROVE  Loaded(u) \in Page
  <1>1. user[u] \in Row
    BY RowTyped
  <1>2. RightsOf(user[u].dept) \in SUBSET Rights
    BY <1>1, RightsTyped DEF Row
  <1>3. {k \in Keys : <<u, k>> \in grants} \in SUBSET Keys
    OBVIOUS
  <1> QED BY <1>1, <1>2, <1>3 DEF Loaded, Page, Row

(* What each request carries.                                              *)
LEMMA RequestTyped ==
  ASSUME NEW h \in Request
  PROVE  /\ h.op = "compare" => /\ h.target \in Users /\ h.row \in Row /\ h.me \in Page
                                /\ h.right \in BOOLEAN /\ h.force \in BOOLEAN
         /\ h.op \in {"logout", "rehash"} => h.actor \in Users
         /\ h.op \in {"reset", "delete", "suspend", "create", "grants", "grant", "revoke"}
              => h.target \in Users /\ h.actor \in Users
         /\ h.op = "suspend" => h.active \in BOOLEAN
         /\ h.op = "create" => h.dept \in Depts
         /\ h.op \in {"create", "grants"} => h.keys \in SUBSET Keys
         /\ h.op \in {"grant", "revoke"} => h.key \in Keys
         /\ h.op \in {"sheet", "matrix"} => h.dept \in Depts /\ h.rights \in SUBSET Rights
         /\ h.op \in {"newDept", "oldDept"} => h.dept \in Depts
  BY DEF Request, Idle

(* A cleared row and a row with one more failure.                          *)
LEMMA Zero == 0 \in 0..MaxAttempts /\ 0 < MaxAttempts
  BY SetsAssumption

LEMMA ClearedTyped ==
  ASSUME NEW row \in Row, NEW n \in Nat
  PROVE  LET cleared == [row EXCEPT !.attempts = 0, !.locked = FALSE, !.session = n]
             reset == [row EXCEPT !.mustChange = TRUE, !.attempts = 0, !.locked = FALSE]
         IN  /\ cleared \in Row /\ Below(cleared)
             /\ reset \in Row /\ Below(reset)
  <1> DEFINE cleared == [row EXCEPT !.attempts = 0, !.locked = FALSE, !.session = n]
             reset == [row EXCEPT !.mustChange = TRUE, !.attempts = 0, !.locked = FALSE]
  <1>1. cleared \in Row /\ reset \in Row
    BY Zero DEF Row
  <1>2. cleared.attempts = 0 /\ reset.attempts = 0
    BY DEF Row
  <1>3. Below(cleared) /\ Below(reset)
    <2> HIDE DEF cleared, reset
    <2> QED BY <1>2, Zero DEF Below
  <1> QED BY <1>1, <1>3

LEMMA FailedTyped ==
  ASSUME NEW row \in Row, NEW n \in 0..MaxAttempts
  PROVE  Failed(row, n) \in Row /\ Below(Failed(row, n))
  <1> DEFINE lock == row.locked \/ n >= MaxAttempts
  <1>1. lock \in BOOLEAN
    BY DEF Row
  <1>2. Failed(row, n) = [row EXCEPT !.attempts = n, !.locked = lock]
    BY DEF Failed, Row
  <1>3. [row EXCEPT !.attempts = n, !.locked = lock] \in Row
    <2> HIDE DEF lock
    <2> QED BY <1>1 DEF Row
  <1>4. Failed(row, n).attempts = n /\ Failed(row, n).locked = lock
    <2> HIDE DEF lock
    <2> QED BY <1>2 DEF Row
  <1>5. Below(Failed(row, n))
    <2>1. n \in Nat /\ MaxAttempts \in Nat
      BY SetsAssumption
    <2>2. n < MaxAttempts \/ n >= MaxAttempts
      BY <2>1
    <2> QED BY <1>4, <2>2 DEF Below
  <1> QED BY <1>2, <1>3, <1>5

LEMMA IdleTyped == Idle \in Request /\ Idle.op = "idle"
  BY DEF Request, Idle

(* A step that only hands the request of b on.                             *)
LEMMA Handed ==
  ASSUME Typed, NEW b \in Browsers, NEW r \in Request, r.op # "compare",
         handler' = [handler EXCEPT ![b] = r],
         UNCHANGED <<tables, logins, cookie, me>>
  PROVE  Typed'
  <1>1. handler' \in [Browsers -> Request]
    BY DEF Typed, TypeOK
  <1>2. TypeOK'
    BY <1>1 DEF Typed, TypeOK, tables
  <1>3. \A c \in Browsers : handler'[c].op = "compare" => handler'[c] = handler[c]
    BY DEF Typed, TypeOK
  <1>4. Counted'
    BY <1>3 DEF Typed, Counted, tables, Present, Below
  <1> QED BY <1>2, <1>4 DEF Typed

(* A step that finishes the request of b and leaves well-formed tables.    *)
LEMMA Finished ==
  ASSUME Typed, NEW b \in Browsers, NEW r \in Request, r.op # "compare",
         handler' = [handler EXCEPT ![b] = r],
         user' \in [Users -> Row \cup {Absent}],
         \A u \in Users : user'[u] # Absent => user'[u] = user[u] \/ Below(user'[u]),
         matrix' \in [Depts -> (SUBSET Rights) \cup {Absent}],
         grants' \in SUBSET (Users \X Keys),
         logins' \in Nat,
         cookie' \in [Browsers -> (Users \X Nat) \cup {Nobody}],
         me' \in [Browsers -> Page \cup {Nobody}]
  PROVE  Typed'
  <1>1. handler' \in [Browsers -> Request]
    BY DEF Typed, TypeOK
  <1>2. TypeOK'
    BY <1>1 DEF TypeOK
  <1>3. \A c \in Browsers : handler'[c].op = "compare" => handler'[c] = handler[c]
    BY DEF Typed, TypeOK
  <1>4. \A u \in Users : user'[u] # Absent => Below(user'[u])
    BY DEF Typed, Counted, Present, Below
  <1>5. Counted'
    BY <1>3, <1>4 DEF Typed, Counted, Present, Below
  <1> QED BY <1>2, <1>5 DEF Typed

(* A step that rewrites one user row.                                      *)
LEMMA RowWritten ==
  ASSUME Typed, NEW b \in Browsers, NEW r \in Request, r.op # "compare",
         handler' = [handler EXCEPT ![b] = r],
         NEW u \in Users, NEW row \in Row, Below(row),
         user' = [user EXCEPT ![u] = row],
         UNCHANGED <<matrix, grants>>,
         logins' \in Nat,
         cookie' \in [Browsers -> (Users \X Nat) \cup {Nobody}],
         me' \in [Browsers -> Page \cup {Nobody}]
  PROVE  Typed'
  <1>1. user' \in [Users -> Row \cup {Absent}]
    BY DEF Typed, TypeOK
  <1>2. \A w \in Users : user'[w] = user[w] \/ user'[w] = row
    BY DEF Typed, TypeOK
  <1>3. matrix' \in [Depts -> (SUBSET Rights) \cup {Absent}] /\ grants' \in SUBSET (Users \X Keys)
    BY DEF Typed, TypeOK
  <1>4. \A w \in Users : user'[w] # Absent => user'[w] = user[w] \/ Below(user'[w])
    BY <1>2
  <1> QED BY <1>1, <1>3, <1>4, Finished

LEMMA TypedInit == Init => Typed
  <1> SUFFICES ASSUME Init PROVE Typed
    OBVIOUS
  <1>1. TypeOK
    BY SeedAssumption, IdleTyped DEF Init, TypeOK
  <1>2. Counted
    BY SeedAssumption, IdleTyped DEF Init, Counted, Present, Below
  <1> QED BY <1>1, <1>2 DEF Typed

(***************************************************************************)
(* Actions that end a login or write one user row.                         *)
(***************************************************************************)
LEMMA LoginTyped ==
  ASSUME Typed, NEW b \in Browsers,
         LoginAsk(b) \/ LoginFail(b) \/ LoginConflict(b) \/ LoginCommit(b)
  PROVE  Typed'
  <1> DEFINE h == handler[b]
  <1>0. h \in Request
    BY DEF Typed, TypeOK
  <1>1. CASE LoginAsk(b)
    <2>1. PICK u \in People[b], right, force \in BOOLEAN :
            /\ Present(u) /\ ~user[u].locked
            /\ handler' = [handler EXCEPT ![b] =
                 [op |-> "compare", target |-> u, row |-> user[u], me |-> Loaded(u),
                  right |-> right, force |-> force]]
      BY <1>1 DEF LoginAsk
    <2>2. u \in Users
      BY OpsAssumption
    <2>3. user[u] \in Row /\ Loaded(u) \in Page
      BY <2>1, <2>2, RowTyped, LoadedTyped DEF Typed
    <2> DEFINE r == [op |-> "compare", target |-> u, row |-> user[u], me |-> Loaded(u),
                     right |-> right, force |-> force]
    <2>4. r \in Request
      BY <2>2, <2>3 DEF Request
    <2>5. r.row.attempts < MaxAttempts
      BY <2>1, <2>2 DEF Typed, Counted, Below
    <2>6. handler' = [handler EXCEPT ![b] = r]
      BY <2>1
    <2>7. UNCHANGED <<tables, logins, cookie, me>>
      BY <1>1 DEF LoginAsk
    <2> HIDE DEF r
    <2>8. handler' \in [Browsers -> Request]
      BY <2>4, <2>6 DEF Typed, TypeOK
    <2>9. TypeOK'
      BY <2>7, <2>8 DEF Typed, TypeOK, tables
    <2>10. \A c \in Browsers : handler'[c] = handler[c] \/ handler'[c] = r
      BY <2>6 DEF Typed, TypeOK
    <2>11. Counted'
      BY <2>5, <2>7, <2>10 DEF Typed, Counted, tables, Present, Below
    <2> QED BY <2>9, <2>11 DEF Typed
  <1>2. CASE LoginFail(b)
    <2>1. h.target \in Users /\ h.row \in Row /\ h.row.attempts < MaxAttempts
      BY <1>0, <1>2, RequestTyped DEF LoginFail, Typed, Counted
    <2>2. h.row.attempts + 1 \in 0..MaxAttempts
      BY <2>1, SetsAssumption DEF Row
    <2>3. CASE Present(h.target)
      <3> DEFINE row == Failed(user[h.target], h.row.attempts + 1)
      <3>1. user[h.target] \in Row
        BY <2>1, <2>3, RowTyped DEF Typed
      <3>2. row \in Row /\ Below(row)
        BY <2>2, <3>1, FailedTyped
      <3>3. /\ user' = [user EXCEPT ![h.target] = row]
            /\ handler' = [handler EXCEPT ![b] = Idle]
            /\ UNCHANGED <<matrix, grants, logins, cookie, me>>
        BY <1>2, <2>3 DEF LoginFail
      <3>4. /\ logins' \in Nat
            /\ cookie' \in [Browsers -> (Users \X Nat) \cup {Nobody}]
            /\ me' \in [Browsers -> Page \cup {Nobody}]
        BY <3>3 DEF Typed, TypeOK
      <3> HIDE DEF row
      <3> QED BY <2>1, <3>2, <3>3, <3>4, IdleTyped, RowWritten
    <2>4. CASE ~Present(h.target)
      BY <1>2, <2>4, IdleTyped, Handed DEF LoginFail, tables
    <2> QED BY <2>3, <2>4
  <1>3. CASE LoginConflict(b)
    BY <1>3, IdleTyped, Handed DEF LoginConflict
  <1>4. CASE LoginCommit(b)
    <2>1. h.target \in Users /\ h.me \in Page /\ Present(h.target)
      BY <1>0, <1>4, RequestTyped DEF LoginCommit
    <2> DEFINE row == [user[h.target] EXCEPT !.attempts = 0, !.locked = FALSE,
                                             !.session = NewSession(h.row)]
    <2>2. user[h.target] \in Row /\ logins + 1 \in Nat
      BY <2>1, RowTyped DEF Typed, TypeOK
    <2>3. row \in Row /\ Below(row)
      BY <2>2, ClearedTyped DEF NewSession
    <2>4. /\ user' = [user EXCEPT ![h.target] = row]
          /\ handler' = [handler EXCEPT ![b] = Idle]
          /\ UNCHANGED <<matrix, grants>>
      BY <1>4 DEF LoginCommit
    <2>5. logins' \in Nat /\ <<h.target, NewSession(h.row)>> \in Users \X Nat
      BY <1>4, <2>1, <2>2 DEF LoginCommit, NewSession
    <2>6. /\ cookie' \in [Browsers -> (Users \X Nat) \cup {Nobody}]
          /\ me' \in [Browsers -> Page \cup {Nobody}]
      BY <1>4, <2>1, <2>5 DEF LoginCommit, Typed, TypeOK
    <2> HIDE DEF row
    <2> QED BY <2>1, <2>3, <2>4, <2>5, <2>6, IdleTyped, RowWritten
  <1> QED BY <1>1, <1>2, <1>3, <1>4

LEMMA SelfTyped ==
  ASSUME Typed, NEW b \in Browsers,
         \/ Expire(b) \/ Refused(b) \/ Reload(b)
         \/ SelfAsk(b) \/ Logout(b) \/ ChangePassword(b)
  PROVE  Typed'
  <1> DEFINE h == handler[b]
  <1>0. h \in Request
    BY DEF Typed, TypeOK
  <1>1. CASE Expire(b)
    BY <1>1 DEF Expire, Typed, TypeOK, Counted, Below, Present, tables
  <1>2. CASE Refused(b)
    BY <1>2 DEF Refused, Typed, TypeOK, Counted, Below, Present, tables
  <1>3. CASE Reload(b)
    <2>1. Loaded(Actor(b)) \in Page
      BY <1>3, ActorTyped, LoadedTyped DEF Reload, Typed
    <2>2. me' \in [Browsers -> Page \cup {Nobody}]
      BY <1>3, <2>1 DEF Reload, Typed, TypeOK
    <2> QED BY <1>3, <2>2 DEF Reload, Typed, TypeOK, Counted, Below, Present, tables
  <1>4. CASE SelfAsk(b)
    <2>1. PICK op \in {"logout", "rehash"} :
            handler' = [handler EXCEPT ![b] = [op |-> op, actor |-> Actor(b)]]
      BY <1>4 DEF SelfAsk
    <2>2. Actor(b) \in Users
      BY <1>4, ActorTyped DEF SelfAsk, Typed
    <2>3. [op |-> op, actor |-> Actor(b)] \in Request
      BY <2>2 DEF Request
    <2> QED BY <1>4, <2>1, <2>3, Handed DEF SelfAsk
  <1>5. CASE Logout(b)
    <2>1. h.actor \in Users /\ Present(h.actor)
      BY <1>0, <1>5, RequestTyped DEF Logout
    <2> DEFINE row == [user[h.actor] EXCEPT !.session = 0]
    <2>2. user[h.actor] \in Row /\ Below(user[h.actor])
      BY <2>1, RowTyped DEF Typed, Counted
    <2>3. row \in Row /\ Below(row)
      BY <2>2 DEF Row, Below
    <2>4. /\ user' = [user EXCEPT ![h.actor] = row]
          /\ handler' = [handler EXCEPT ![b] = Idle]
          /\ UNCHANGED <<matrix, grants>>
      BY <1>5 DEF Logout
    <2>5. /\ logins' \in Nat
          /\ cookie' \in [Browsers -> (Users \X Nat) \cup {Nobody}]
          /\ me' \in [Browsers -> Page \cup {Nobody}]
      BY <1>5 DEF Logout, Typed, TypeOK
    <2> HIDE DEF row
    <2> QED BY <2>1, <2>3, <2>4, <2>5, IdleTyped, RowWritten
  <1>6. CASE ChangePassword(b)
    <2>1. h.actor \in Users /\ Present(h.actor)
      BY <1>0, <1>6, RequestTyped DEF ChangePassword
    <2> DEFINE row == [user[h.actor] EXCEPT !.mustChange = FALSE]
    <2>2. user[h.actor] \in Row /\ Below(user[h.actor])
      BY <2>1, RowTyped DEF Typed, Counted
    <2>3. row \in Row /\ Below(row)
      BY <2>2 DEF Row, Below
    <2>4. /\ user' = [user EXCEPT ![h.actor] = row]
          /\ handler' = [handler EXCEPT ![b] = Idle]
          /\ UNCHANGED <<matrix, grants>>
      BY <1>6 DEF ChangePassword
    <2>5. /\ logins' \in Nat
          /\ cookie' \in [Browsers -> (Users \X Nat) \cup {Nobody}]
          /\ me' \in [Browsers -> Page \cup {Nobody}]
      BY <1>6 DEF ChangePassword, Typed, TypeOK
    <2> HIDE DEF row
    <2> QED BY <2>1, <2>3, <2>4, <2>5, IdleTyped, RowWritten
  <1> QED BY <1>1, <1>2, <1>3, <1>4, <1>5, <1>6

(***************************************************************************)
(* Administration: the guards hand a request on, the writes keep the rows. *)
(***************************************************************************)
LEMMA MayTyped ==
  ASSUME Typed, NEW b \in Browsers, NEW op, NEW module, NEW action,
         May(b, op, module, action) \/ MayIT(b, op)
  PROVE  Actor(b) \in Users /\ Present(Actor(b))
  BY ActorTyped DEF May, MayIT, Typed

LEMMA AskTyped ==
  ASSUME Typed, NEW b \in Browsers,
         \/ CreateAsk(b) \/ CloneAsk(b) \/ SuspendAsk(b) \/ DeleteAsk(b)
         \/ ResetAsk(b) \/ GrantAsk(b) \/ SheetOpen(b) \/ DepartmentAsk(b)
  PROVE  Typed'
  <1>0. Actor(b) \in Users
    BY MayTyped DEF CreateAsk, CloneAsk, SuspendAsk, DeleteAsk, ResetAsk, GrantAsk,
                    SheetOpen, DepartmentAsk, MayIT, May, ActorTyped, Authenticated,
                    Actor, Typed, TypeOK
  <1> SUFFICES \E r \in Request : r.op # "compare" /\ Sends(b, r)
    BY Handed DEF Sends
  <1>1. CASE CreateAsk(b)
    <2>1. PICK u \in Users, d \in Depts :
            Sends(b, [op |-> "create", actor |-> Actor(b), target |-> u, dept |-> d,
                      keys |-> {}])
      BY <1>1 DEF CreateAsk
    <2>2. [op |-> "create", actor |-> Actor(b), target |-> u, dept |-> d, keys |-> {}]
            \in Request
      BY <1>0 DEF Request
    <2> QED BY <2>1, <2>2
  <1>2. CASE CloneAsk(b)
    <2>1. PICK u \in Users, source \in Users :
            /\ Present(source)
            /\ Sends(b, [op |-> "create", actor |-> Actor(b), target |-> u,
                         dept |-> user[source].dept,
                         keys |-> {k \in Keys : <<source, k>> \in grants}])
      BY <1>2 DEF CloneAsk
    <2>2. user[source].dept \in Depts
      BY <2>1, RowTyped DEF Row, Typed
    <2>3. [op |-> "create", actor |-> Actor(b), target |-> u, dept |-> user[source].dept,
           keys |-> {k \in Keys : <<source, k>> \in grants}] \in Request
      BY <1>0, <2>2 DEF Request
    <2> QED BY <2>1, <2>3
  <1>3. CASE SuspendAsk(b)
    <2>1. PICK u \in Users :
            /\ Present(u)
            /\ Sends(b, [op |-> "suspend", actor |-> Actor(b), target |-> u,
                         active |-> ~user[u].active])
      BY <1>3 DEF SuspendAsk, Other
    <2>2. (~user[u].active) \in BOOLEAN
      OBVIOUS
    <2>3. [op |-> "suspend", actor |-> Actor(b), target |-> u, active |-> ~user[u].active]
            \in Request
      BY <1>0, <2>2 DEF Request
    <2> QED BY <2>1, <2>3
  <1>4. CASE DeleteAsk(b)
    <2>1. PICK u \in Users :
            Sends(b, [op |-> "delete", actor |-> Actor(b), target |-> u])
      BY <1>4 DEF DeleteAsk
    <2>2. [op |-> "delete", actor |-> Actor(b), target |-> u] \in Request
      BY <1>0 DEF Request
    <2> QED BY <2>1, <2>2
  <1>5. CASE ResetAsk(b)
    <2>1. PICK u \in Users :
            Sends(b, [op |-> "reset", actor |-> Actor(b), target |-> u])
      BY <1>5 DEF ResetAsk
    <2>2. [op |-> "reset", actor |-> Actor(b), target |-> u] \in Request
      BY <1>0 DEF Request
    <2> QED BY <2>1, <2>2
  <1>6. CASE GrantAsk(b)
    <2>1. PICK u \in Users, k \in Keys, op \in {"grant", "revoke"} :
            Sends(b, [op |-> op, actor |-> Actor(b), target |-> u, key |-> k])
      BY <1>6 DEF GrantAsk
    <2>2. [op |-> op, actor |-> Actor(b), target |-> u, key |-> k] \in Request
      BY <1>0 DEF Request
    <2> QED BY <2>1, <2>2
  <1>7. CASE SheetOpen(b)
    <2>1. PICK d \in Depts \ {IT} :
            /\ matrix[d] # Absent
            /\ Sends(b, [op |-> "sheet", dept |-> d, rights |-> matrix[d]])
      BY <1>7 DEF SheetOpen
    <2>2. matrix[d] \in SUBSET Rights
      BY <2>1 DEF Typed, TypeOK
    <2>3. [op |-> "sheet", dept |-> d, rights |-> matrix[d]] \in Request
      BY <2>2 DEF Request
    <2> QED BY <2>1, <2>3
  <1>8. CASE DepartmentAsk(b)
    <2>1. PICK d \in Depts \ {IT}, op \in {"newDept", "oldDept"} :
            Sends(b, [op |-> op, actor |-> Actor(b), dept |-> d])
      BY <1>8 DEF DepartmentAsk
    <2>2. [op |-> op, actor |-> Actor(b), dept |-> d] \in Request
      BY <1>0 DEF Request
    <2> QED BY <2>1, <2>2
  <1> QED BY <1>1, <1>2, <1>3, <1>4, <1>5, <1>6, <1>7, <1>8

LEMMA CommitTyped ==
  ASSUME Typed, NEW b \in Browsers,
         \/ CreateCommit(b) \/ CloneGrants(b) \/ SuspendCommit(b) \/ DeleteCommit(b)
         \/ ResetCommit(b) \/ GrantCommit(b) \/ SheetSave(b) \/ MatrixCommit(b)
         \/ DepartmentCommit(b) \/ Abandon(b)
  PROVE  Typed'
  <1> DEFINE h == handler[b]
  <1>0. h \in Request
    BY DEF Typed, TypeOK
  <1>1. CASE CreateCommit(b)
    <2>1. h.target \in Users /\ h.actor \in Users /\ h.dept \in Depts /\ h.keys \in SUBSET Keys
      BY <1>0, <1>1, RequestTyped DEF CreateCommit
    <2>2. CASE ~Present(h.target) /\ matrix[h.dept] # Absent
      <3> DEFINE row == [dept |-> h.dept, active |-> TRUE, mustChange |-> TRUE,
                         attempts |-> 0, locked |-> FALSE, session |-> 0]
                 r == [op |-> "grants", actor |-> h.actor, target |-> h.target,
                       keys |-> h.keys]
      <3>1. row \in Row /\ Below(row)
        BY <2>1, SetsAssumption DEF Row, Below
      <3>2. r \in Request /\ r.op # "compare"
        BY <2>1 DEF Request
      <3>3. /\ user' = [user EXCEPT ![h.target] = row]
            /\ handler' = [handler EXCEPT ![b] = r]
            /\ UNCHANGED <<matrix, grants, logins, cookie, me>>
        BY <1>1, <2>2 DEF CreateCommit
      <3>4. /\ logins' \in Nat
            /\ cookie' \in [Browsers -> (Users \X Nat) \cup {Nobody}]
            /\ me' \in [Browsers -> Page \cup {Nobody}]
        BY <3>3 DEF Typed, TypeOK
      <3> HIDE DEF row, r
      <3> QED BY <2>1, <3>1, <3>2, <3>3, <3>4, RowWritten
    <2>3. CASE ~(~Present(h.target) /\ matrix[h.dept] # Absent)
      BY <1>1, <2>3, IdleTyped, Handed DEF CreateCommit, tables
    <2> QED BY <2>2, <2>3
  <1>2. CASE CloneGrants(b)
    <2>1. h.target \in Users /\ h.keys \in SUBSET Keys
      BY <1>0, <1>2, RequestTyped DEF CloneGrants
    <2>2. grants' \in SUBSET (Users \X Keys)
      BY <1>2, <2>1 DEF CloneGrants, Typed, TypeOK
    <2> QED BY <1>2, <2>2, IdleTyped, Finished DEF CloneGrants, Typed, TypeOK
  <1>3. CASE SuspendCommit(b)
    <2>1. h.target \in Users /\ h.active \in BOOLEAN
      BY <1>0, <1>3, RequestTyped DEF SuspendCommit
    <2>2. CASE Present(h.target)
      <3> DEFINE row == [user[h.target] EXCEPT !.active = h.active]
      <3>1. user[h.target] \in Row /\ Below(user[h.target])
        BY <2>1, <2>2, RowTyped DEF Typed, Counted
      <3>2. row \in Row /\ Below(row)
        BY <2>1, <3>1 DEF Row, Below
      <3>3. /\ user' = [user EXCEPT ![h.target] = row]
            /\ handler' = [handler EXCEPT ![b] = Idle]
            /\ UNCHANGED <<matrix, grants, logins, cookie, me>>
        BY <1>3, <2>2 DEF SuspendCommit
      <3>4. /\ logins' \in Nat
            /\ cookie' \in [Browsers -> (Users \X Nat) \cup {Nobody}]
            /\ me' \in [Browsers -> Page \cup {Nobody}]
        BY <3>3 DEF Typed, TypeOK
      <3> HIDE DEF row
      <3> QED BY <2>1, <3>2, <3>3, <3>4, IdleTyped, RowWritten
    <2>3. CASE ~Present(h.target)
      BY <1>3, <2>3, IdleTyped, Handed DEF SuspendCommit, tables
    <2> QED BY <2>2, <2>3
  <1>4. CASE DeleteCommit(b)
    <2>1. h.target \in Users
      BY <1>0, <1>4, RequestTyped DEF DeleteCommit
    <2>2. user' \in [Users -> Row \cup {Absent}] /\ grants' \in SUBSET (Users \X Keys)
      BY <1>4, <2>1 DEF DeleteCommit, Typed, TypeOK
    <2>3. \A u \in Users : user'[u] # Absent => user'[u] = user[u]
      BY <1>4, <2>1 DEF DeleteCommit, Typed, TypeOK
    <2> QED BY <1>4, <2>2, <2>3, IdleTyped, Finished DEF DeleteCommit, Typed, TypeOK
  <1>5. CASE ResetCommit(b)
    <2>1. h.target \in Users
      BY <1>0, <1>5, RequestTyped DEF ResetCommit
    <2>2. CASE Present(h.target)
      <3> DEFINE row == [user[h.target] EXCEPT !.mustChange = TRUE, !.attempts = 0,
                                               !.locked = FALSE]
      <3>1. user[h.target] \in Row
        BY <2>1, <2>2, RowTyped DEF Typed
      <3>2. row \in Row /\ Below(row)
        BY <3>1, ClearedTyped
      <3>3. /\ user' = [user EXCEPT ![h.target] = row]
            /\ handler' = [handler EXCEPT ![b] = Idle]
            /\ UNCHANGED <<matrix, grants, logins, cookie, me>>
        BY <1>5, <2>2 DEF ResetCommit
      <3>4. /\ logins' \in Nat
            /\ cookie' \in [Browsers -> (Users \X Nat) \cup {Nobody}]
            /\ me' \in [Browsers -> Page \cup {Nobody}]
        BY <3>3 DEF Typed, TypeOK
      <3> HIDE DEF row
      <3> QED BY <2>1, <3>2, <3>3, <3>4, IdleTyped, RowWritten
    <2>3. CASE ~Present(h.target)
      BY <1>5, <2>3, IdleTyped, Handed DEF ResetCommit, tables
    <2> QED BY <2>2, <2>3
  <1>6. CASE GrantCommit(b)
    <2>1. h.target \in Users /\ h.key \in Keys
      BY <1>0, <1>6, RequestTyped DEF GrantCommit
    <2>2. grants' \in SUBSET (Users \X Keys)
      BY <1>6, <2>1 DEF GrantCommit, Typed, TypeOK
    <2> QED BY <1>6, <2>2, IdleTyped, Finished DEF GrantCommit, Typed, TypeOK
  <1>7. CASE SheetSave(b)
    <2>1. h.dept \in Depts /\ h.rights \in SUBSET Rights
      BY <1>0, <1>7, RequestTyped DEF SheetSave
    <2>2. CASE Authenticated(b) /\ ~user[Actor(b)].mustChange /\ requireIT(Actor(b))
      <3>1. PICK ticked \in SUBSET Toggled :
              handler' = [handler EXCEPT ![b] =
                [op |-> "matrix", actor |-> Actor(b), dept |-> h.dept,
                 rights |-> (h.rights \ Toggled) \cup ticked]]
        BY <1>7, <2>2 DEF SheetSave
      <3>2. Actor(b) \in Users
        BY <2>2, ActorTyped DEF Typed
      <3>3. (h.rights \ Toggled) \cup ticked \in SUBSET Rights
        BY <2>1, SetsAssumption
      <3>4. [op |-> "matrix", actor |-> Actor(b), dept |-> h.dept,
             rights |-> (h.rights \ Toggled) \cup ticked] \in Request
        BY <2>1, <3>2, <3>3 DEF Request
      <3> QED BY <1>7, <3>1, <3>4, Handed DEF SheetSave
    <2>3. CASE ~(Authenticated(b) /\ ~user[Actor(b)].mustChange /\ requireIT(Actor(b)))
      BY <1>7, <2>3, IdleTyped, Handed DEF SheetSave
    <2> QED BY <2>2, <2>3
  <1>8. CASE MatrixCommit(b)
    <2>1. h.dept \in Depts /\ h.rights \in SUBSET Rights
      BY <1>0, <1>8, RequestTyped DEF MatrixCommit
    <2>2. matrix' \in [Depts -> (SUBSET Rights) \cup {Absent}]
      BY <1>8, <2>1 DEF MatrixCommit, Typed, TypeOK
    <2> QED BY <1>8, <2>2, IdleTyped, Finished DEF MatrixCommit, Typed, TypeOK
  <1>9. CASE DepartmentCommit(b)
    <2>1. h.dept \in Depts
      BY <1>0, <1>9, RequestTyped DEF DepartmentCommit
    <2>2. PICK rows \in {{}, matrix[h.dept], Absent} : matrix' = [matrix EXCEPT ![h.dept] = rows]
      BY <1>9, <2>1 DEF DepartmentCommit, Typed, TypeOK
    <2>3. rows \in (SUBSET Rights) \cup {Absent}
      BY <2>1, <2>2 DEF Typed, TypeOK
    <2>4. matrix' \in [Depts -> (SUBSET Rights) \cup {Absent}]
      BY <2>2, <2>3 DEF Typed, TypeOK
    <2> QED BY <1>9, <2>4, IdleTyped, Finished DEF DepartmentCommit, Typed, TypeOK
  <1>10. CASE Abandon(b)
    BY <1>10, IdleTyped, Handed DEF Abandon
  <1> QED BY <1>1, <1>2, <1>3, <1>4, <1>5, <1>6, <1>7, <1>8, <1>9, <1>10

LEMMA TypedStep == Typed /\ [Next]_vars => Typed'
  <1> SUFFICES ASSUME Typed, [Next]_vars PROVE Typed'
    OBVIOUS
  <1>1. CASE UNCHANGED vars
    BY <1>1 DEF vars, Typed, TypeOK, Counted, Present, Below, tables
  <1>2. CASE Next
    BY <1>2, LoginTyped, SelfTyped, AskTyped, CommitTyped DEF Next
  <1> QED BY <1>1, <1>2

LEMMA TypedAlways == Spec => []Typed
  BY TypedInit, TypedStep, PTL DEF Spec

(* Rows, cookies, pages and requests keep their types, for any users and   *)
(* browsers: no user is ever short of the lock at MaxAttempts failures.    *)
THEOREM AccountsTypeCorrect == Spec => []TypeOK
  BY TypedAlways, PTL DEF Typed

(***************************************************************************)
(* Sessions.  A cookie names a session handed out once, to its browser;    *)
(* so two browsers let through for one user would share a number.          *)
(***************************************************************************)
CookiesDistinct ==
  /\ \A b \in Browsers : cookie[b] # Nobody => cookie[b][2] <= logins
  /\ \A b, c \in Browsers :
       cookie[b] # Nobody /\ cookie[c] # Nobody /\ cookie[b][2] = cookie[c][2] => b = c

LEMMA CookieStep == Typed /\ CookiesDistinct /\ [Next]_vars => CookiesDistinct'
  <1> SUFFICES ASSUME Typed, CookiesDistinct, [Next]_vars PROVE CookiesDistinct'
    OBVIOUS
  <1>1. ASSUME UNCHANGED <<cookie, logins>> PROVE CookiesDistinct'
    BY <1>1 DEF CookiesDistinct
  <1>2. ASSUME NEW b \in Browsers, cookie' = [cookie EXCEPT ![b] = Nobody], logins' = logins
        PROVE  CookiesDistinct'
    BY <1>2 DEF CookiesDistinct, Typed, TypeOK
  <1>3. ASSUME NEW b \in Browsers, LoginCommit(b) PROVE CookiesDistinct'
    <2> DEFINE ck == <<handler[b].target, logins + 1>>
    <2>1. cookie' = [cookie EXCEPT ![b] = ck] /\ logins' = logins + 1
      BY <1>3 DEF LoginCommit, NewSession
    <2>2. logins \in Nat /\ ck[2] = logins + 1
      BY DEF Typed, TypeOK
    <2> HIDE DEF ck
    <2>3. \A c \in Browsers : cookie'[c] = IF c = b THEN ck ELSE cookie[c]
      BY <2>1 DEF Typed, TypeOK
    <2>4. \A c \in Browsers : c # b /\ cookie[c] # Nobody =>
            cookie[c][2] \in Nat /\ cookie[c][2] < logins + 1
      BY <2>2 DEF CookiesDistinct, Typed, TypeOK
    <2> QED BY <2>1, <2>2, <2>3, <2>4 DEF CookiesDistinct
  <1>4. CASE UNCHANGED vars
    BY <1>1, <1>4 DEF vars
  <1>5. CASE Next
    <2> PICK b \in Browsers :
          \/ LoginAsk(b) \/ LoginFail(b) \/ LoginConflict(b) \/ LoginCommit(b)
          \/ Expire(b) \/ Refused(b) \/ Reload(b)
          \/ SelfAsk(b) \/ Logout(b) \/ ChangePassword(b)
          \/ CreateAsk(b) \/ CloneAsk(b) \/ CreateCommit(b) \/ CloneGrants(b)
          \/ SuspendAsk(b) \/ SuspendCommit(b) \/ DeleteAsk(b) \/ DeleteCommit(b)
          \/ ResetAsk(b) \/ ResetCommit(b) \/ GrantAsk(b) \/ GrantCommit(b)
          \/ SheetOpen(b) \/ SheetSave(b) \/ MatrixCommit(b)
          \/ DepartmentAsk(b) \/ DepartmentCommit(b)
          \/ Abandon(b)
      BY <1>5 DEF Next
    <2>1. CASE LoginAsk(b) \/ LoginFail(b) \/ LoginConflict(b)
      BY <1>1, <2>1 DEF LoginAsk, LoginFail, LoginConflict
    <2>2. CASE LoginCommit(b)
      BY <1>3, <2>2
    <2>3. CASE Expire(b) \/ Logout(b)
      BY <1>2, <2>3 DEF Expire, Logout
    <2>4. CASE Refused(b) \/ Reload(b) \/ SelfAsk(b) \/ ChangePassword(b)
      BY <1>1, <2>4 DEF Refused, Reload, SelfAsk, ChangePassword
    <2>5. CASE \/ CreateAsk(b) \/ CloneAsk(b) \/ SuspendAsk(b) \/ DeleteAsk(b)
               \/ ResetAsk(b) \/ GrantAsk(b) \/ SheetOpen(b) \/ DepartmentAsk(b)
      BY <1>1, <2>5 DEF CreateAsk, CloneAsk, SuspendAsk, DeleteAsk, ResetAsk, GrantAsk,
                        SheetOpen, DepartmentAsk, Sends
    <2>6. CASE \/ CreateCommit(b) \/ CloneGrants(b) \/ SuspendCommit(b) \/ DeleteCommit(b)
               \/ ResetCommit(b) \/ GrantCommit(b)
      BY <1>1, <2>6 DEF CreateCommit, CloneGrants, SuspendCommit, DeleteCommit, ResetCommit,
                        GrantCommit
    <2>7. CASE SheetSave(b) \/ MatrixCommit(b) \/ DepartmentCommit(b) \/ Abandon(b)
      BY <1>1, <2>7 DEF SheetSave, MatrixCommit, DepartmentCommit, Abandon
    <2> QED BY <2>1, <2>2, <2>3, <2>4, <2>5, <2>6, <2>7
  <1> QED BY <1>4, <1>5

(* However logins, forced logins, logouts and deletions overlap, a user is *)
(* let through from one browser at most.                                   *)
THEOREM SessionsExclusive == Spec => []OneSession
  <1>1. Init => CookiesDistinct
    BY DEF Init, CookiesDistinct
  <1>2. CookiesDistinct => OneSession
    BY DEF CookiesDistinct, OneSession, Authenticated, Actor
  <1> QED BY <1>1, <1>2, CookieStep, TypedAlways, PTL DEF Spec

(***************************************************************************)
(* Administrators.  One browser suspends and deletes, and IT alone edits   *)
(* users: then whoever is about to be removed leaves another active        *)
(* account of IT behind.                                                   *)
(***************************************************************************)
SingleRemover ==
  \A b, c \in Browsers :
    Ops[b] \cap {"suspend", "delete"} # {} /\ Ops[c] \cap {"suspend", "delete"} # {} => b = c
Edit == <<"ADMIN", "edit">>
OnlyITEdits ==
  /\ Edit \notin Toggled
  /\ \A d \in Depts \ {IT} : SeededMatrix[d] # Absent => Edit \notin SeededMatrix[d]
SeededAdmin ==
  \E u \in Users : SeededUsers[u] # Absent /\ SeededUsers[u].dept = IT /\ SeededUsers[u].active

Admin(u) == Present(u) /\ user[u].dept = IT /\ user[u].active
OtherAdmin(u) == \E w \in Users \ {u} : Admin(w)
NoEdit == \A d \in Depts \ {IT} : Edit \notin RightsOf(d)
Removal(r) == r.op = "delete" \/ (r.op = "suspend" /\ ~r.active)
Safe(b, r) ==
  /\ r.op \in {"sheet", "matrix"} => Edit \notin r.rights
  /\ r.op \in {"suspend", "delete"} => r.op \in Ops[b]
  /\ Removal(r) => OtherAdmin(r.target)

AdminInv == AdminRemains /\ NoEdit /\ \A b \in Browsers : Safe(b, handler[b])

(* Nobody of IT is removed, and the new request is a safe one.             *)
LEMMA AdminsKept ==
  ASSUME Typed, AdminInv, NEW b \in Browsers, NEW r,
         handler' = [handler EXCEPT ![b] = r],
         \A w \in Users : Admin(w) => Admin(w)',
         NoEdit', Safe(b, r)'
  PROVE  AdminInv'
  <1>1. AdminRemains'
    <2>1. PICK w \in Users : Admin(w)
      BY DEF AdminInv, AdminRemains, Admin
    <2>2. Admin(w)'
      BY <2>1
    <2> QED BY <2>2 DEF AdminRemains, Admin
  <1>2. \A u : OtherAdmin(u) => OtherAdmin(u)'
    BY DEF OtherAdmin
  <1>3. ASSUME NEW c \in Browsers PROVE Safe(c, handler[c])'
    <2>1. CASE c = b
      BY <2>1 DEF Typed, TypeOK
    <2>2. CASE c # b
      <3>1. handler'[c] = handler[c] /\ Safe(c, handler[c])
        BY <2>2 DEF AdminInv, Typed, TypeOK
      <3> QED BY <1>2, <3>1 DEF Safe, Removal
    <2> QED BY <2>1, <2>2
  <1> QED BY <1>1, <1>3 DEF AdminInv

(* A request that removes nobody and carries no permission sheet.          *)
LEMMA AdminsUntouched ==
  ASSUME Typed, AdminInv, NEW b \in Browsers, NEW r,
         r.op \notin {"sheet", "matrix", "suspend", "delete"},
         handler' = [handler EXCEPT ![b] = r],
         \A w \in Users : Admin(w) => Admin(w)',
         NoEdit'
  PROVE  AdminInv'
  <1>1. Safe(b, r)'
    BY DEF Safe, Removal
  <1> QED BY <1>1, AdminsKept

(* A removal leaves another account, and nobody else is removing.          *)
LEMMA AdminRemoved ==
  ASSUME Typed, AdminInv, SingleRemover, NEW b \in Browsers,
         handler[b].op \in {"suspend", "delete"},
         handler' = [handler EXCEPT ![b] = Idle],
         \A w \in Users \ {handler[b].target} : Admin(w) => Admin(w)',
         UNCHANGED matrix,
         Removal(handler[b])
  PROVE  AdminInv'
  <1>1. PICK w \in Users \ {handler[b].target} : Admin(w)
    BY DEF AdminInv, Safe, OtherAdmin
  <1>2. Admin(w)'
    BY <1>1
  <1>3. AdminRemains'
    BY <1>2 DEF AdminRemains, Admin
  <1>4. NoEdit'
    BY DEF AdminInv, NoEdit, RightsOf
  <1>5. ASSUME NEW c \in Browsers PROVE Safe(c, handler[c])'
    <2>1. CASE c = b
      <3>1. handler'[c] = Idle
        BY <2>1 DEF Typed, TypeOK
      <3> QED BY <3>1 DEF Safe, Removal, Idle
    <2>2. CASE c # b
      <3>1. handler'[c] = handler[c] /\ Safe(c, handler[c]) /\ Safe(b, handler[b])
        BY <2>2 DEF AdminInv, Typed, TypeOK
      <3>2. handler[c].op \notin {"suspend", "delete"}
        BY <2>2, <3>1 DEF SingleRemover, Safe
      <3> QED BY <3>1, <3>2 DEF Safe, Removal
    <2> QED BY <2>1, <2>2
  <1> QED BY <1>3, <1>4, <1>5 DEF AdminInv

(* One written row that stays in its department and active, or was absent. *)
LEMMA RowKeepsAdmins ==
  ASSUME Typed, NEW u \in Users, NEW row \in Row,
         user' = [user EXCEPT ![u] = row],
         Admin(u) => row.dept = IT /\ row.active
  PROVE  \A w \in Users : Admin(w) => Admin(w)'
  BY SeedAssumption DEF Admin, Present, Typed, TypeOK

LEMMA SuspendAskSafe ==
  ASSUME Typed, AdminInv, NEW b \in Browsers, SuspendAsk(b)
  PROVE  AdminInv'
  <1>1. PICK u \in Users :
          /\ Present(u) /\ u # Actor(b)
          /\ Sends(b, [op |-> "suspend", actor |-> Actor(b), target |-> u,
                       active |-> ~user[u].active])
    BY DEF SuspendAsk, Other
  <1>a. PICK active : active = ~user[u].active
    OBVIOUS
  <1>r. PICK r : r = [op |-> "suspend", actor |-> Actor(b), target |-> u, active |-> active]
    OBVIOUS
  <1>2. Authenticated(b) /\ requirePermission(Actor(b), "ADMIN", "edit") /\ "suspend" \in Ops[b]
    BY DEF SuspendAsk, May, Ready
  <1>3. Actor(b) \in Users /\ Present(Actor(b)) /\ user[Actor(b)].active
    BY <1>2, ActorTyped DEF Authenticated, Actor, Typed
  <1>4. user[Actor(b)].dept \in Depts
    BY <1>3, RowTyped DEF Row, Typed
  <1>5. user[Actor(b)].dept = IT
    BY <1>2, <1>4 DEF requirePermission, AdminInv, NoEdit, Edit
  <1>6. OtherAdmin(u)
    BY <1>1, <1>3, <1>5 DEF OtherAdmin, Admin
  <1>7. handler' = [handler EXCEPT ![b] = r] /\ UNCHANGED tables
    BY <1>1, <1>a, <1>r DEF Sends
  <1>8. /\ \A w \in Users : Admin(w) => Admin(w)'
        /\ NoEdit'
        /\ OtherAdmin(u)'
    BY <1>6, <1>7 DEF tables, Admin, Present, NoEdit, RightsOf, AdminInv, OtherAdmin
  <1>9. Safe(b, r)'
    <2>1. r.op = "suspend" /\ r.target = u
      BY <1>r
    <2> QED BY <1>2, <1>8, <2>1 DEF Safe
  <1> QED BY <1>7, <1>8, <1>9, AdminsKept

LEMMA DeleteAskSafe ==
  ASSUME Typed, AdminInv, NEW b \in Browsers, DeleteAsk(b)
  PROVE  AdminInv'
  <1>1. PICK u \in Users :
          /\ Present(u) /\ ~LastActive(u)
          /\ Sends(b, [op |-> "delete", actor |-> Actor(b), target |-> u])
    BY DEF DeleteAsk, Other
  <1>r. PICK r : r = [op |-> "delete", actor |-> Actor(b), target |-> u]
    OBVIOUS
  <1>2. "delete" \in Ops[b]
    BY DEF DeleteAsk, May, Ready
  <1>3. OtherAdmin(u)
    <2>1. PICK w \in Users : Admin(w)
      BY DEF AdminInv, AdminRemains, Admin
    <2>2. CASE w # u
      BY <2>1, <2>2 DEF OtherAdmin
    <2>3. CASE w = u
      BY <1>1, <2>1, <2>3 DEF LastActive, Admin, OtherAdmin
    <2> QED BY <2>2, <2>3
  <1>4. handler' = [handler EXCEPT ![b] = r] /\ UNCHANGED tables
    BY <1>1, <1>r DEF Sends
  <1>5. /\ \A w \in Users : Admin(w) => Admin(w)'
        /\ NoEdit'
        /\ OtherAdmin(u)'
    BY <1>3, <1>4 DEF tables, Admin, Present, NoEdit, RightsOf, AdminInv, OtherAdmin
  <1>6. Safe(b, r)'
    <2>1. r.op = "delete" /\ r.target = u
      BY <1>r
    <2> QED BY <1>2, <1>5, <2>1 DEF Safe
  <1> QED BY <1>4, <1>5, <1>6, AdminsKept

LEMMA AdminStep == SingleRemover /\ OnlyITEdits /\ Typed /\ AdminInv /\ [Next]_vars => AdminInv'
  <1> SUFFICES ASSUME SingleRemover, OnlyITEdits, Typed, AdminInv, [Next]_vars PROVE AdminInv'
    OBVIOUS
  <1>k. ASSUME UNCHANGED <<user, matrix>>
        PROVE  (\A w \in Users : Admin(w) => Admin(w)') /\ NoEdit'
    BY <1>k DEF Admin, Present, NoEdit, RightsOf, AdminInv
  <1>i. Idle.op = "idle"
    BY DEF Idle
  <1>u. ASSUME UNCHANGED <<user, matrix, handler>> PROVE AdminInv'
    BY <1>u DEF AdminInv, AdminRemains, Present, NoEdit, RightsOf, Safe, Removal,
                OtherAdmin, Admin
  <1>1. CASE UNCHANGED vars
    BY <1>1, <1>u DEF vars, tables
  <1>2. CASE Next
    <2> PICK b \in Browsers :
          \/ LoginAsk(b) \/ LoginFail(b) \/ LoginConflict(b) \/ LoginCommit(b)
          \/ Expire(b) \/ Refused(b) \/ Reload(b)
          \/ SelfAsk(b) \/ Logout(b) \/ ChangePassword(b)
          \/ CreateAsk(b) \/ CloneAsk(b) \/ CreateCommit(b) \/ CloneGrants(b)
          \/ SuspendAsk(b) \/ SuspendCommit(b) \/ DeleteAsk(b) \/ DeleteCommit(b)
          \/ ResetAsk(b) \/ ResetCommit(b) \/ GrantAsk(b) \/ GrantCommit(b)
          \/ SheetOpen(b) \/ SheetSave(b) \/ MatrixCommit(b)
          \/ DepartmentAsk(b) \/ DepartmentCommit(b)
          \/ Abandon(b)
      BY <1>2 DEF Next
    <2> DEFINE h == handler[b]
    <2>h. h \in Request /\ Safe(b, h)
      BY DEF Typed, TypeOK, AdminInv
    <2>1. CASE LoginAsk(b)
      <3>1. PICK u \in Users, right, force \in BOOLEAN :
              handler' = [handler EXCEPT ![b] =
                [op |-> "compare", target |-> u, row |-> user[u], me |-> Loaded(u),
                 right |-> right, force |-> force]]
        BY <2>1, OpsAssumption DEF LoginAsk
      <3> QED BY <1>k, <2>1, <3>1, AdminsUntouched DEF LoginAsk, tables
    <2>2. CASE LoginFail(b)
      <3>1. h.target \in Users /\ h.row \in Row /\ h.row.attempts + 1 \in 0..MaxAttempts
        <4>1. h.target \in Users /\ h.row \in Row /\ h.row.attempts < MaxAttempts
          BY <2>h, <2>2, RequestTyped DEF LoginFail, Typed, Counted
        <4> QED BY <4>1, SetsAssumption DEF Row
      <3>2. CASE Present(h.target)
        <4> DEFINE row == Failed(user[h.target], h.row.attempts + 1)
        <4>1. user[h.target] \in Row
          BY <3>1, <3>2, RowTyped DEF Typed
        <4>2. row \in Row
          BY <3>1, <4>1, FailedTyped
        <4>3. row.dept = user[h.target].dept /\ row.active = user[h.target].active
          BY <4>1 DEF Failed, Row
        <4>4. user' = [user EXCEPT ![h.target] = row]
          BY <2>2, <3>2 DEF LoginFail
        <4> HIDE DEF row
        <4>5. \A w \in Users : Admin(w) => Admin(w)'
          BY <3>1, <4>2, <4>3, <4>4, RowKeepsAdmins DEF Admin
        <4>6. NoEdit' /\ handler' = [handler EXCEPT ![b] = Idle]
          BY <2>2 DEF LoginFail, NoEdit, RightsOf, AdminInv
        <4> QED BY <1>i, <4>5, <4>6, AdminsUntouched
      <3>3. CASE ~Present(h.target)
        BY <1>i, <1>k, <2>2, <3>3, AdminsUntouched DEF LoginFail
      <3> QED BY <3>2, <3>3
    <2>3. CASE LoginConflict(b) \/ Abandon(b)
      BY <1>i, <1>k, <2>3, AdminsUntouched DEF LoginConflict, Abandon, tables
    <2>4. CASE LoginCommit(b)
      <3>1. h.target \in Users /\ user[h.target] \in Row /\ logins + 1 \in Nat
        BY <2>h, <2>4, RequestTyped, RowTyped DEF LoginCommit, Typed, TypeOK
      <3> DEFINE row == [user[h.target] EXCEPT !.attempts = 0, !.locked = FALSE,
                                               !.session = NewSession(h.row)]
      <3>2. row \in Row
        BY <3>1, ClearedTyped DEF NewSession
      <3>3. row.dept = user[h.target].dept /\ row.active = user[h.target].active
        BY <3>1 DEF Row
      <3>4. user' = [user EXCEPT ![h.target] = row]
        BY <2>4 DEF LoginCommit
      <3> HIDE DEF row
      <3>5. \A w \in Users : Admin(w) => Admin(w)'
        BY <3>1, <3>2, <3>3, <3>4, RowKeepsAdmins DEF Admin
      <3>6. NoEdit' /\ handler' = [handler EXCEPT ![b] = Idle]
        BY <2>4 DEF LoginCommit, NoEdit, RightsOf, AdminInv
      <3> QED BY <1>i, <3>5, <3>6, AdminsUntouched
    <2>5. CASE Expire(b) \/ Refused(b) \/ Reload(b)
      BY <1>u, <2>5 DEF Expire, Refused, Reload, tables
    <2>6. CASE SelfAsk(b)
      <3>1. PICK op \in {"logout", "rehash"} :
              handler' = [handler EXCEPT ![b] = [op |-> op, actor |-> Actor(b)]]
        BY <2>6 DEF SelfAsk
      <3> QED BY <1>k, <2>6, <3>1, AdminsUntouched DEF SelfAsk, tables
    <2>7. CASE Logout(b) \/ ChangePassword(b)
      <3>1. h.actor \in Users /\ user[h.actor] \in Row
        BY <2>h, <2>7, RequestTyped, RowTyped DEF Logout, ChangePassword, Typed
      <3>2. PICK row \in {[user[h.actor] EXCEPT !.session = 0],
                          [user[h.actor] EXCEPT !.mustChange = FALSE]} :
              user' = [user EXCEPT ![h.actor] = row]
        BY <2>7 DEF Logout, ChangePassword
      <3>3. row \in Row /\ row.dept = user[h.actor].dept /\ row.active = user[h.actor].active
        <4>1. CASE row = [user[h.actor] EXCEPT !.session = 0]
          BY <3>1, <4>1 DEF Row
        <4>2. CASE row = [user[h.actor] EXCEPT !.mustChange = FALSE]
          BY <3>1, <4>2 DEF Row
        <4> QED BY <3>2, <4>1, <4>2
      <3>5. \A w \in Users : Admin(w) => Admin(w)'
        BY <3>1, <3>2, <3>3, RowKeepsAdmins DEF Admin
      <3>6. NoEdit' /\ handler' = [handler EXCEPT ![b] = Idle]
        BY <2>7 DEF Logout, ChangePassword, NoEdit, RightsOf, AdminInv
      <3> QED BY <1>i, <3>5, <3>6, AdminsUntouched
    <2>8. CASE CreateAsk(b) \/ CloneAsk(b) \/ ResetAsk(b) \/ GrantAsk(b) \/ DepartmentAsk(b)
      <3>1. \E r : /\ r.op \in {"create", "reset", "grant", "revoke", "newDept", "oldDept"}
                   /\ Sends(b, r)
        <4>1. CASE CreateAsk(b)
          BY <4>1 DEF CreateAsk
        <4>2. CASE CloneAsk(b)
          BY <4>2 DEF CloneAsk
        <4>3. CASE ResetAsk(b)
          BY <4>3 DEF ResetAsk
        <4>4. CASE GrantAsk(b)
          <5>1. PICK u \in Users, k \in Keys, op \in {"grant", "revoke"} :
                  Sends(b, [op |-> op, actor |-> Actor(b), target |-> u, key |-> k])
            BY <4>4 DEF GrantAsk
          <5> QED BY <5>1
        <4>5. CASE DepartmentAsk(b)
          <5>1. PICK d \in Depts, op \in {"newDept", "oldDept"} :
                  Sends(b, [op |-> op, actor |-> Actor(b), dept |-> d])
            BY <4>5 DEF DepartmentAsk
          <5> QED BY <5>1
        <4> QED BY <2>8, <4>1, <4>2, <4>3, <4>4, <4>5
      <3>2. PICK r : /\ r.op \in {"create", "reset", "grant", "revoke", "newDept", "oldDept"}
                     /\ Sends(b, r)
        BY <3>1
      <3> QED BY <1>k, <3>2, AdminsUntouched DEF Sends, tables
    <2>9. CASE CreateCommit(b)
      <3>1. h.target \in Users /\ h.dept \in Depts
        BY <2>h, <2>9, RequestTyped DEF CreateCommit
      <3>2. CASE ~Present(h.target) /\ matrix[h.dept] # Absent
        <4> DEFINE row == [dept |-> h.dept, active |-> TRUE, mustChange |-> TRUE,
                           attempts |-> 0, locked |-> FALSE, session |-> 0]
                   r == [op |-> "grants", actor |-> h.actor, target |-> h.target,
                         keys |-> h.keys]
        <4>1. row \in Row /\ r.op = "grants"
          BY <3>1, Zero DEF Row
        <4>2. user' = [user EXCEPT ![h.target] = row] /\ handler' = [handler EXCEPT ![b] = r]
          BY <2>9, <3>2 DEF CreateCommit
        <4>3. NoEdit'
          BY <2>9 DEF CreateCommit, NoEdit, RightsOf, AdminInv
        <4> HIDE DEF row, r
        <4>4. \A w \in Users : Admin(w) => Admin(w)'
          BY <3>1, <3>2, <4>1, <4>2, RowKeepsAdmins DEF Admin
        <4> QED BY <4>1, <4>2, <4>3, <4>4, AdminsUntouched
      <3>3. CASE ~(~Present(h.target) /\ matrix[h.dept] # Absent)
        BY <1>i, <1>k, <2>9, <3>3, AdminsUntouched DEF CreateCommit
      <3> QED BY <3>2, <3>3
    <2>10. CASE CloneGrants(b) \/ GrantCommit(b)
      BY <1>i, <1>k, <2>10, AdminsUntouched DEF CloneGrants, GrantCommit
    <2>11. CASE SuspendAsk(b)
      BY <2>11, SuspendAskSafe
    <2>12. CASE SuspendCommit(b)
      <3>1. h.target \in Users /\ h.active \in BOOLEAN /\ h.op = "suspend"
        BY <2>h, <2>12, RequestTyped DEF SuspendCommit
      <3> DEFINE row == [user[h.target] EXCEPT !.active = h.active]
      <3>2. handler' = [handler EXCEPT ![b] = Idle] /\ UNCHANGED matrix
        BY <2>12 DEF SuspendCommit
      <3>3. CASE ~Present(h.target)
        BY <1>i, <1>k, <2>12, <3>3, AdminsUntouched DEF SuspendCommit
      <3>4. CASE Present(h.target)
        <4>1. user[h.target] \in Row
          BY <3>1, <3>4, RowTyped DEF Typed
        <4>2. row \in Row /\ row.dept = user[h.target].dept /\ row.active = h.active
          BY <3>1, <4>1 DEF Row
        <4>3. user' = [user EXCEPT ![h.target] = row]
          BY <2>12, <3>4 DEF SuspendCommit
        <4> HIDE DEF row
        <4>4. CASE h.active
          <5>1. \A w \in Users : Admin(w) => Admin(w)'
            BY <3>1, <4>2, <4>3, <4>4, RowKeepsAdmins DEF Admin
          <5>2. NoEdit'
            BY <3>2 DEF NoEdit, RightsOf, AdminInv
          <5> QED BY <1>i, <3>2, <5>1, <5>2, AdminsUntouched
        <4>5. CASE ~h.active
          <5>1. \A w \in Users \ {h.target} : Admin(w) => Admin(w)'
            BY <4>3 DEF Admin, Present, Typed, TypeOK
          <5>2. Removal(h)
            BY <3>1, <4>5 DEF Removal
          <5> QED BY <3>1, <3>2, <5>1, <5>2, AdminRemoved
        <4> QED BY <4>4, <4>5
      <3> QED BY <3>3, <3>4
    <2>13. CASE DeleteAsk(b)
      BY <2>13, DeleteAskSafe
    <2>14. CASE DeleteCommit(b)
      <3>1. \A w \in Users \ {h.target} : Admin(w) => Admin(w)'
        BY <2>14 DEF DeleteCommit, Admin, Present, Typed, TypeOK
      <3>2. Removal(h) /\ h.op \in {"suspend", "delete"}
        BY <2>14 DEF DeleteCommit, Removal
      <3> QED BY <2>14, <3>1, <3>2, AdminRemoved DEF DeleteCommit
    <2>15. CASE ResetCommit(b)
      <3>1. h.target \in Users
        BY <2>h, <2>15, RequestTyped DEF ResetCommit
      <3>2. CASE ~Present(h.target)
        BY <1>i, <1>k, <2>15, <3>2, AdminsUntouched DEF ResetCommit
      <3>3. CASE Present(h.target)
        <4> DEFINE row == [user[h.target] EXCEPT !.mustChange = TRUE, !.attempts = 0,
                                                 !.locked = FALSE]
        <4>1. user[h.target] \in Row
          BY <3>1, <3>3, RowTyped DEF Typed
        <4>2. row \in Row
          BY <4>1, ClearedTyped
        <4>3. row.dept = user[h.target].dept /\ row.active = user[h.target].active
          BY <4>1 DEF Row
        <4>4. user' = [user EXCEPT ![h.target] = row]
          BY <2>15, <3>3 DEF ResetCommit
        <4> HIDE DEF row
        <4>5. \A w \in Users : Admin(w) => Admin(w)'
          BY <3>1, <4>2, <4>3, <4>4, RowKeepsAdmins DEF Admin
        <4>6. NoEdit' /\ handler' = [handler EXCEPT ![b] = Idle]
          BY <2>15 DEF ResetCommit, NoEdit, RightsOf, AdminInv
        <4> QED BY <1>i, <4>5, <4>6, AdminsUntouched
      <3> QED BY <3>2, <3>3
    <2>16. CASE SheetOpen(b)
      <3>1. PICK d \in Depts \ {IT} :
              /\ matrix[d] # Absent
              /\ Sends(b, [op |-> "sheet", dept |-> d, rights |-> matrix[d]])
        BY <2>16 DEF SheetOpen
      <3>r. PICK r : r = [op |-> "sheet", dept |-> d, rights |-> matrix[d]]
        OBVIOUS
      <3>2. Edit \notin matrix[d]
        BY <3>1 DEF AdminInv, NoEdit, RightsOf
      <3>3. r.op = "sheet" /\ r.rights = matrix[d]
        BY <3>r
      <3>4. handler' = [handler EXCEPT ![b] = r] /\ UNCHANGED tables
        BY <3>1, <3>r DEF Sends
      <3>5. Safe(b, r)'
        BY <3>2, <3>3 DEF Safe, Removal
      <3> QED BY <1>k, <3>4, <3>5, AdminsKept DEF tables
    <2>17. CASE SheetSave(b)
      <3>1. Edit \notin h.rights /\ Edit \notin Toggled
        BY <2>h, <2>17 DEF SheetSave, Safe, OnlyITEdits
      <3>2. CASE handler' = [handler EXCEPT ![b] = Idle]
        BY <1>i, <1>k, <2>17, <3>2, AdminsUntouched DEF SheetSave, tables
      <3>3. CASE \E ticked \in SUBSET Toggled :
              handler' = [handler EXCEPT ![b] =
                [op |-> "matrix", actor |-> Actor(b), dept |-> h.dept,
                 rights |-> (h.rights \ Toggled) \cup ticked]]
        <4>1. PICK ticked \in SUBSET Toggled :
                handler' = [handler EXCEPT ![b] =
                  [op |-> "matrix", actor |-> Actor(b), dept |-> h.dept,
                   rights |-> (h.rights \ Toggled) \cup ticked]]
          BY <3>3
        <4>r. PICK r : r = [op |-> "matrix", actor |-> Actor(b), dept |-> h.dept,
                            rights |-> (h.rights \ Toggled) \cup ticked]
          OBVIOUS
        <4>2. r.op = "matrix" /\ Edit \notin r.rights
          BY <3>1, <4>r
        <4>3. handler' = [handler EXCEPT ![b] = r]
          BY <4>1, <4>r
        <4>4. Safe(b, r)'
          BY <4>2 DEF Safe, Removal
        <4> QED BY <1>k, <2>17, <4>3, <4>4, AdminsKept DEF SheetSave, tables
      <3> QED BY <2>17, <3>2, <3>3 DEF SheetSave
    <2>18. CASE MatrixCommit(b)
      <3>1. Edit \notin h.rights /\ h.dept \in Depts
        BY <2>h, <2>18, RequestTyped DEF MatrixCommit, Safe
      <3>2. NoEdit'
        BY <2>18, <3>1 DEF MatrixCommit, NoEdit, RightsOf, AdminInv, Typed, TypeOK
      <3>3. \A w \in Users : Admin(w) => Admin(w)'
        BY <2>18 DEF MatrixCommit, Admin, Present
      <3> QED BY <1>i, <2>18, <3>2, <3>3, AdminsUntouched DEF MatrixCommit
    <2>19. CASE DepartmentCommit(b)
      <3>1. h.dept \in Depts
        BY <2>h, <2>19, RequestTyped DEF DepartmentCommit
      <3>2. PICK rows \in {{}, matrix[h.dept], Absent} :
              matrix' = [matrix EXCEPT ![h.dept] = rows]
        BY <2>19, <3>1 DEF DepartmentCommit, Typed, TypeOK
      <3>3. NoEdit'
        BY <3>1, <3>2 DEF NoEdit, RightsOf, AdminInv, Typed, TypeOK
      <3>4. \A w \in Users : Admin(w) => Admin(w)'
        BY <2>19 DEF DepartmentCommit, Admin, Present
      <3> QED BY <1>i, <2>19, <3>3, <3>4, AdminsUntouched DEF DepartmentCommit
    <2> QED BY <2>1, <2>2, <2>3, <2>4, <2>5, <2>6, <2>7, <2>8, <2>9, <2>10, <2>11, <2>12,
               <2>13, <2>14, <2>15, <2>16, <2>17, <2>18, <2>19
  <1> QED BY <1>1, <1>2

(* IT always keeps an account that is active, if one browser suspends and  *)
(* deletes and no other department may edit users.                         *)
THEOREM AdministratorRemains ==
  ASSUME SingleRemover, OnlyITEdits, SeededAdmin
  PROVE  Spec => []AdminRemains
  <1>1. Init => AdminInv
    BY IdleTyped DEF Init, SeededAdmin, OnlyITEdits, AdminInv, AdminRemains, Present, NoEdit,
                     RightsOf, Safe, Removal, Idle
  <1>2. AdminInv => AdminRemains
    BY DEF AdminInv
  <1>3. Typed /\ AdminInv /\ [Next]_vars => AdminInv'
    BY AdminStep
  <1> QED BY <1>1, <1>2, <1>3, TypedAlways, PTL DEF Spec

(* What a freshly loaded page offers is what the routes allow, whatever    *)
(* rights and grants were changed before it was loaded.                    *)
THEOREM PagesAgree == Spec => []PagesMatchGuards
  <1>1. ASSUME Typed PROVE PagesMatchGuards
    <2> SUFFICES ASSUME NEW u \in Users, Present(u)
        PROVE  /\ \A right \in Rights :
                    perm(Loaded(u), right[1], right[2]) =
                      IF right[1] = "RESORTS_SETUP"
                      THEN requireReportAccess(u, "RESORTS_SETUP_ACCESS")
                      ELSE requirePermission(u, right[1], right[2])
               /\ (\/ perm(Loaded(u), "RESORTS_SETUP", "view")
                   \/ perm(Loaded(u), "RESORT_BOOKING", "view"))
                    => requireResortsReferenceRead(u)
      BY DEF PagesMatchGuards
    <2>1. \A k : k \in Loaded(u).keys <=> <<u, k>> \in grants
      BY <1>1 DEF Loaded, Typed, TypeOK
    <2>2. Loaded(u).rights = RightsOf(user[u].dept)
      BY DEF Loaded
    <2>3. Loaded(u).isIT <=> user[u].dept = IT
      BY DEF Loaded
    <2>4. ASSUME NEW m, NEW a
          PROVE  /\ m = "RESORTS_SETUP" =>
                      (perm(Loaded(u), m, a) <=> requireReportAccess(u, "RESORTS_SETUP_ACCESS"))
                 /\ m # "RESORTS_SETUP" =>
                      (perm(Loaded(u), m, a) <=> requirePermission(u, m, a))
      BY <2>1, <2>2, <2>3 DEF perm, requireReportAccess, requirePermission
    <2>5. ASSUME NEW right \in Rights
          PROVE  perm(Loaded(u), right[1], right[2]) =
                   IF right[1] = "RESORTS_SETUP"
                   THEN requireReportAccess(u, "RESORTS_SETUP_ACCESS")
                   ELSE requirePermission(u, right[1], right[2])
      BY <2>4 DEF perm, requireReportAccess, requirePermission
    <2>6. perm(Loaded(u), "RESORTS_SETUP", "view") \/ perm(Loaded(u), "RESORT_BOOKING", "view")
            => requireResortsReferenceRead(u)
      BY <2>4 DEF requireResortsReferenceRead
    <2> QED BY <2>5, <2>6
  <1> QED BY <1>1, TypedAlways, PTL
===============================================================================
