---------------------------- MODULE RciEnrolment ----------------------------
(***************************************************************************)
(* The register of members enrolled with RCI, and the screen that keeps    *)
(* it:                                                                     *)
(*   backend/src/controllers/rci-enrolment.controller.ts                   *)
(*   frontend/src/pages/rci/RciEnrolment.tsx                               *)
(* An agreement is enrolled once and a number belongs to one membership,   *)
(* but neither is a constraint: the rows loaded from Informix break both.  *)
(* A handler looks before it writes, one step for each await between.      *)
(*                                                                         *)
(* A clerk works on the list of the last fetch, which is refreshed after   *)
(* the clerk's own save (the answer is taken to be there before the next   *)
(* click) and otherwise at any time or never; the agreement picker keeps   *)
(* its own copy, which no save refreshes.                                  *)
(*                                                                         *)
(* Left out: the columns no rule reads, so that an edit that leaves the    *)
(* number alone writes the row as it was, the filters and pages of the     *)
(* list, the detail window, audit rows.                                    *)
(***************************************************************************)
EXTENDS Integers

CONSTANTS
  Clerks,      \* requests in flight at the same time
  Ops,         \* what each clerk uses
  Agreements,  \* agreement keys: product, membership and agreement number
  Membership,  \* the membership of each
  Migrated,    \* the rows loaded from Informix
  RciNos,      \* numbers RCI has issued
  Typed,       \* bound: the numbers each clerk types
  MaxCreates,  \* bound: enrolments added by the screen
  Informix     \* who created the migrated rows

OpNames == {"create", "edit", "delete"}
RCI_NO_EXEMPT == {"PENDING"}
Numbers == RciNos \cup RCI_NO_EXEMPT \cup {"none"}
Ids == (Clerks \cup {Informix}) \X Nat  \* randomUUID: whose create, and which

Row == [id : Ids, serialNo : Nat \ {0}, agreement : Agreements, rciNo : Numbers]

ASSUME OpsAssumption == Ops \in [Clerks -> SUBSET OpNames]
ASSUME AgreementsAssumption == DOMAIN Membership = Agreements
ASSUME NumbersAssumption ==
  /\ "none" \notin RciNos /\ "PENDING" \notin RciNos
  /\ Typed \in [Clerks -> SUBSET (RciNos \cup RCI_NO_EXEMPT)]
  /\ MaxCreates \in Nat
ASSUME MigratedAssumption ==
  /\ Informix \notin Clerks
  /\ Migrated \subseteq Row
  /\ \A r \in Migrated : r.id[1] = Informix
  /\ \A r, s \in Migrated : r # s => r.id # s.id /\ r.serialNo # s.serialNo

VARIABLES
  enrolments,  \* RciEnrolment rows
  created,     \* rows created so far, those since deleted too
  handler,     \* what each clerk's request holds
  list,        \* the cached ['rci-enrolments', ...] rows of each clerk
  picker,      \* the agreements the last search left enabled
  answer       \* the error each clerk's last request ended in, and whether
               \* it left the number of the form alone

vars == <<enrolments, created, handler, list, picker, answer>>

(* A request: the row or agreement it is for, the form, the number the form *)
(* was opened with, and the serial number once it is allocated.             *)
Request == [op : {"clash", "count", "insert", "load", "compare", "write"},
            id : Ids, agreement : Agreements, rciNo : Numbers, shown : Numbers,
            serialNo : Nat]
Idle == [op |-> "idle"]
Errors == {"none", "enrolled", "clash", "serial", "missing"}
Answer == [error : Errors, kept : BOOLEAN]
NoAnswer == [error |-> "none", kept |-> FALSE]

TypeOK ==
  /\ enrolments \subseteq Row
  /\ created \in Nat
  /\ handler \in [Clerks -> Request \cup {Idle}]
  /\ list \in [Clerks -> SUBSET Row]
  /\ picker \in [Clerks -> SUBSET Agreements]
  /\ answer \in [Clerks -> Answer]

Init ==
  /\ enrolments = Migrated
  /\ created = 0
  /\ handler = [c \in Clerks |-> Idle]
  /\ list = [c \in Clerks |-> {}]
  /\ picker = [c \in Clerks |-> {}]
  /\ answer = [c \in Clerks |-> NoAnswer]

(***************************************************************************)
(* What the handlers look up.                                              *)
(***************************************************************************)
(* Mutation: an enrolment without a number does not count.                 *)
MutEnrolled(a) ==
  \E r \in enrolments : r.agreement = a /\ r.rciNo \notin RCI_NO_EXEMPT

Enrolled(a) == \E r \in enrolments : r.agreement = a

(* Mutation: the number is looked for under the membership itself.         *)
MutOwnedByAnother(n, a) ==
  /\ n \notin RCI_NO_EXEMPT \cup {"none"}
  /\ \E r \in enrolments : /\ r.rciNo = n
                           /\ Membership[r.agreement] = Membership[a]

(* rciNoOwnedByAnotherMembership: the row being edited is one of the       *)
(* membership's own, so that excluding it changes nothing.                 *)
OwnedByAnother(n, a) ==
  /\ n \notin RCI_NO_EXEMPT \cup {"none"}
  /\ \E r \in enrolments : /\ r.rciNo = n
                           /\ Membership[r.agreement] # Membership[a]

(* _max.serialNo ?? 0                                                      *)
Serials == {0} \cup {r.serialNo : r \in enrolments}
Highest(n) == n \in Serials /\ \A m \in Serials : m <= n

(* Mutation: the highest number itself.                                    *)
MutAllocated(n) == n

Allocated(n) == n + 1

(***************************************************************************)
(* How a request ends.                                                     *)
(***************************************************************************)
Free(c, op) == op \in Ops[c] /\ handler[c] = Idle

Refused(c, error) ==
  /\ handler' = [handler EXCEPT ![c] = Idle]
  /\ answer' = [answer EXCEPT ![c] =
       [error |-> error, kept |-> handler[c].rciNo = handler[c].shown]]
  /\ UNCHANGED <<enrolments, created, list, picker>>

(* onSuccess: ['rci-enrolments'] is invalidated and the form closes.       *)
Saved(c) ==
  /\ list' = [list EXCEPT ![c] = enrolments']
  /\ answer' = [answer EXCEPT ![c] = NoAnswer]
  /\ handler' = [handler EXCEPT ![c] = Idle]
  /\ UNCHANGED picker

GoesOn(c, op) ==
  /\ handler' = [handler EXCEPT ![c].op = op]
  /\ UNCHANGED <<enrolments, created, list, picker, answer>>

FetchList(c) ==
  /\ list' = [list EXCEPT ![c] = enrolments]
  /\ UNCHANGED <<enrolments, created, handler, picker, answer>>

(***************************************************************************)
(* Adding: find the agreement, fill in the form, save.                     *)
(***************************************************************************)
SearchAgreements(c) ==
  /\ "create" \in Ops[c]
  /\ picker' = [picker EXCEPT ![c] = {a \in Agreements : ~Enrolled(a)}]
  /\ UNCHANGED <<enrolments, created, handler, list, answer>>

(* The picked agreement and the form; the first look-up of the handler.    *)
CreateAsk(c) ==
  /\ Free(c, "create")
  /\ \E a \in picker[c], n \in Typed[c] :
       IF Enrolled(a)
       THEN /\ answer' = [answer EXCEPT ![c] = [error |-> "enrolled", kept |-> FALSE]]
            /\ UNCHANGED handler
       ELSE /\ handler' = [handler EXCEPT ![c] =
                 [op |-> "clash", id |-> <<c, 0>>, agreement |-> a, rciNo |-> n,
                  shown |-> "none", serialNo |-> 0]]
            /\ answer' = [answer EXCEPT ![c] = NoAnswer]
  /\ UNCHANGED <<enrolments, created, list, picker>>

CreateCheck(c) ==
  LET h == handler[c] IN
  /\ h.op = "clash"
  /\ IF OwnedByAnother(h.rciNo, h.agreement)
     THEN Refused(c, "clash")
     ELSE GoesOn(c, "count")

(* The transaction: the highest serial number, then the row.               *)
CreateCount(c) ==
  /\ handler[c].op = "count"
  /\ \E n \in Serials :
       /\ Highest(n)
       /\ handler' = [handler EXCEPT ![c].op = "insert",
                                     ![c].serialNo = Allocated(n)]
  /\ UNCHANGED <<enrolments, created, list, picker, answer>>

(* Mutation: the unique index on serialNo is missing.                      *)
MutSerialTaken(n) == FALSE

SerialTaken(n) == \E r \in enrolments : r.serialNo = n

CreateRow(c) ==
  LET h == handler[c]
      row == [id |-> <<c, created>>, serialNo |-> h.serialNo,
              agreement |-> h.agreement, rciNo |-> h.rciNo] IN
  /\ h.op = "insert"
  /\ IF SerialTaken(h.serialNo)
     THEN Refused(c, "serial")  \* P2002
     ELSE /\ created < MaxCreates
          /\ enrolments' = enrolments \cup {row}
          /\ created' = created + 1
          /\ Saved(c)

(***************************************************************************)
(* Editing: the form is filled from the row on screen and sent whole.      *)
(***************************************************************************)
UpdateAsk(c) ==
  /\ Free(c, "edit")
  /\ \E r \in list[c] :
       \E n \in Typed[c] \cup {r.rciNo, "none"} :
         handler' = [handler EXCEPT ![c] =
           [op |-> "load", id |-> r.id, agreement |-> r.agreement, rciNo |-> n,
            shown |-> r.rciNo, serialNo |-> 0]]
  /\ answer' = [answer EXCEPT ![c] = NoAnswer]
  /\ UNCHANGED <<enrolments, created, list, picker>>

Stored(id) == {r \in enrolments : r.id = id}

(* Mutation: the number is checked whether or not it changes.              *)
MutRenumbers(r, n) == TRUE

Renumbers(r, n) == n # r.rciNo

(* The number is checked only when it differs from the stored one.         *)
UpdateLoad(c) ==
  LET h == handler[c] IN
  /\ h.op = "load"
  /\ \/ Stored(h.id) = {} /\ Refused(c, "missing")
     \/ \E r \in Stored(h.id) :
          GoesOn(c, IF Renumbers(r, h.rciNo) THEN "compare" ELSE "write")

UpdateCheck(c) ==
  LET h == handler[c] IN
  /\ h.op = "compare"
  /\ IF OwnedByAnother(h.rciNo, h.agreement)
     THEN Refused(c, "clash")
     ELSE GoesOn(c, "write")

UpdateWrite(c) ==
  LET h == handler[c] IN
  /\ h.op = "write"
  /\ \/ Stored(h.id) = {} /\ Refused(c, "missing")  \* P2025
     \/ \E r \in Stored(h.id) :
          /\ enrolments' = (enrolments \ {r}) \cup {[r EXCEPT !.rciNo = h.rciNo]}
          /\ UNCHANGED created
          /\ Saved(c)

(***************************************************************************)
(* Deleting, and requests that never end.                                  *)
(***************************************************************************)
Delete(c) ==
  /\ Free(c, "delete")
  /\ \E r \in list[c] :
       /\ Stored(r.id) # {}
       /\ enrolments' = enrolments \ Stored(r.id)
  /\ UNCHANGED created
  /\ Saved(c)

(* A lost connection, a failed statement, the end of the process: nothing  *)
(* is written before the last statement of a handler.                      *)
Abandon(c) ==
  /\ handler[c] # Idle
  /\ handler' = [handler EXCEPT ![c] = Idle]
  /\ UNCHANGED <<enrolments, created, list, picker, answer>>

Next == \E c \in Clerks :
  \/ FetchList(c) \/ SearchAgreements(c)
  \/ CreateAsk(c) \/ CreateCheck(c) \/ CreateCount(c) \/ CreateRow(c)
  \/ UpdateAsk(c) \/ UpdateLoad(c) \/ UpdateCheck(c) \/ UpdateWrite(c)
  \/ Delete(c) \/ Abandon(c)

Spec == Init /\ [][Next]_vars

-----------------------------------------------------------------------------
(* Serial numbers continue the Informix sequence: two creates may allocate *)
(* one, and a deleted one is given again, but no two rows ever share it.   *)
SerialsUnique ==
  \A r, s \in enrolments : r.serialNo = s.serialNo => r = s

(* "One enrolment per agreement": of the rows of an agreement, one beside  *)
(* another was migrated with it, or added by another clerk's request.  A   *)
(* clerk never enrols an agreement twice, nor one that was migrated as     *)
(* enrolled, however old the picker's answer is.                           *)
EnrolledOnce ==
  \A r, s \in enrolments :
    r # s /\ r.agreement = s.agreement =>
      \/ r.id[1] = Informix /\ s.id[1] = Informix
      \/ r.id[1] # s.id[1] /\ Informix \notin {r.id[1], s.id[1]}

(* "An RCI number belongs to ONE membership", save for the numbers that    *)
(* were migrated under several: one clerk's saves spread no other number,  *)
(* whatever is deleted or added beside them.                               *)
RciNoOneMembership ==
  \A r, s \in enrolments :
    /\ r.rciNo = s.rciNo /\ r.rciNo \in RciNos
    /\ Membership[r.agreement] # Membership[s.agreement]
    => \E p, q \in Migrated : /\ p.rciNo = r.rciNo /\ q.rciNo = r.rciNo
                              /\ Membership[p.agreement] # Membership[q.agreement]

(* "An edit that leaves rciNo alone is never blocked": when a save is      *)
(* refused for its number, the number is not the one the form was opened   *)
(* with.                                                                   *)
EditNeverBlocked ==
  \A c \in Clerks : answer[c].error = "clash" => ~answer[c].kept
=============================================================================
