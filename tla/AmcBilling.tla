----------------------------- MODULE AmcBilling -----------------------------
(***************************************************************************)
(* The annual-maintenance-charge (AMC) billing engine:                     *)
(*   backend/src/controllers/amc/invoices.controller.ts   generate, cancel *)
(*   backend/src/controllers/amc/dayend.controller.ts     SQL Account file *)
(*   backend/src/controllers/agreements.controller.ts     status change    *)
(*                                                                         *)
(* Each HTTP request is an async function on one Node process: it reads    *)
(* rows, awaits, and writes what it computed from the rows it read.  A     *)
(* request is therefore a handler with a local record; the actions are its *)
(* stretches between two awaits on the database, and a Prisma              *)
(* $transaction is one action (every billing transaction of a company      *)
(* code takes the counter row or the schedule row for update, so two of    *)
(* them run one after the other or one of them is rolled back).            *)
(*                                                                         *)
(* Abstractions.  An invoice SET (the A, K, S and, for CP, Y rows that are *)
(* created, marked and deleted together) is one record.  A date is the     *)
(* number of its month: invoices are dated the first of a month, and due   *)
(* dates are compared with the first of the next month.  Amounts, audit    *)
(* rows, member data and the listing endpoints are left out.               *)
(***************************************************************************)
EXTENDS Integers, FiniteSets

CONSTANTS
  Clerks,       \* requests in flight at the same time
  Cancelers,    \* the clerks who cancel invoices
  Schedules,    \* AmcSchedule rows, one per agreement
  CoCode,       \* company code of a schedule: "02" is CP, "03" and "15" LHC
  Total,        \* totalInvoices of a schedule
  FirstDue,     \* the due month a new schedule starts from
  Periods,      \* the billing months clerks ask for
  NewStatuses,  \* bound: the statuses clerks set
  Legacy,       \* schedules with an unprocessed invoice older than the snapshot
  Overrun,      \* schedules that arrive fully billed yet open, with a due date
  LegacyNo,     \* the number of that older invoice
  SeedNo,       \* ctrl_billtab.last_amcinv
  Seeded,       \* company codes whose counter row exists
  MaxMint,      \* bound: invoice sets generated in a behaviour
  NoDate, NoRow \* SQL NULL, and a counter row that does not exist

CoCodes == {"02", "03", "15"}
Statuses == {"NA", "SU", "PT", "TM"}
Depts == {"IT", "Finance", "Credit", "Member Services"}
Dates == Int \cup {NoDate}

ASSUME CancelersAssumption == Cancelers \subseteq Clerks
ASSUME StatusAssumption == NewStatuses \subseteq Statuses
ASSUME NullAssumption == NoDate \notin Int /\ NoRow \notin Int
ASSUME ScheduleAssumption ==
  /\ CoCode \in [Schedules -> CoCodes]
  /\ Total \in [Schedules -> Nat \ {0}]
  /\ FirstDue \in [Schedules -> Int]
  /\ Periods \subseteq Int
ASSUME LegacyAssumption ==
  /\ Legacy \subseteq Schedules
  /\ Overrun \subseteq Schedules
  /\ LegacyNo \in [Legacy -> Nat \ {0}]
  /\ SeedNo \in Nat
  /\ \A s \in Legacy : LegacyNo[s] <= SeedNo
  /\ \A s, t \in Legacy : s # t => LegacyNo[s] # LegacyNo[t]
  /\ Seeded \subseteq CoCodes

VARIABLES
  classify,   \* Agreement.acctClassify of the schedule's agreement
  schedule,   \* the AmcSchedule rows
  invoices,   \* the AmcInvoice sets in the table
  counter,    \* AmcInvoiceCounter.lastInvNo per company code
  slFile,     \* the SL_IV file of a day: the sets its lines come from
  handler,    \* what each clerk's request holds between two awaits
  minted,     \* bound, and source of row ids: sets created so far
  exported    \* history: the sets some SL_IV file ever held

rows == <<classify, schedule, invoices, counter>>
vars == <<classify, schedule, invoices, counter, slFile, handler, minted, exported>>

ScheduleRow ==
  [invoicesIssued : Nat, nextDueDate : Dates, lastInvoiceDate : Dates,
   billingStatus : {"N", "C"}]

InvoiceRow ==
  [id : Nat, sched : Schedules, invoiceYearSeq : Nat \ {0}, invNo : Nat \ {0},
   invDate : Int, prevNextDueDate : Dates, prevLastInvoiceDate : Dates,
   isProcessed : BOOLEAN]

DueRow == [sched : Schedules, row : {r \in ScheduleRow : r.nextDueDate # NoDate}]

Idle == [op |-> "idle"]

GenerateRequest == [op : {"generate"}, period : Periods, todo : SUBSET DueRow]
CancelRequest == [op : {"cancel"}, checked : BOOLEAN, invoice : InvoiceRow, due : Dates]
StatusRequest == [op : {"status"}, sched : Schedules, dept : Depts, new : Statuses]
DayEndRequest ==
  [op : {"dayend"}, written : BOOLEAN, period : Periods, found : SUBSET InvoiceRow]

Handlers ==
  {Idle} \cup GenerateRequest \cup CancelRequest \cup StatusRequest \cup DayEndRequest

TypeOK ==
  /\ classify \in [Schedules -> Statuses]
  /\ schedule \in [Schedules -> ScheduleRow]
  /\ invoices \subseteq InvoiceRow
  /\ counter \in [CoCodes -> Nat \cup {NoRow}]
  /\ slFile \in [Periods -> SUBSET Nat]
  /\ handler \in [Clerks -> Handlers]
  /\ minted \in Nat
  /\ exported \subseteq Nat

isLhc(s) == CoCode[s] # "02"

(***************************************************************************)
(* Date helpers.  Month m is in January when m % 12 = 0.                   *)
(***************************************************************************)
addOneYear(d) == d + 12
subOneYear(d) == d - 12
nextLhcDueDate(after) == 6 * ((after \div 6) + 1)
prevLhcDueDate(before) == 6 * ((before - 1) \div 6)

(***************************************************************************)
(* The database as migrated from Informix: a schedule is new, or has one   *)
(* unprocessed invoice generated before the roll-back snapshot existed, or *)
(* arrives fully billed yet open.                                          *)
(***************************************************************************)
MigratedInvoice(s) ==
  [id |-> LegacyNo[s], sched |-> s, invoiceYearSeq |-> 1,
   invNo |-> LegacyNo[s], invDate |-> FirstDue[s], prevNextDueDate |-> NoDate,
   prevLastInvoiceDate |-> NoDate, isProcessed |-> FALSE]

MigratedSchedule(s) ==
  [invoicesIssued  |-> IF s \in Overrun THEN Total[s]
                       ELSE IF s \in Legacy THEN 1 ELSE 0,
   nextDueDate     |-> IF s \in Legacy
                       THEN IF isLhc(s) THEN nextLhcDueDate(FirstDue[s])
                                        ELSE addOneYear(FirstDue[s])
                       ELSE FirstDue[s],
   lastInvoiceDate |-> IF s \in Legacy THEN FirstDue[s] ELSE NoDate,
   billingStatus   |-> "N"]

Init ==
  /\ classify = [s \in Schedules |-> "NA"]
  /\ schedule = [s \in Schedules |-> MigratedSchedule(s)]
  /\ invoices = {MigratedInvoice(s) : s \in Legacy}
  /\ counter = [cc \in CoCodes |-> IF cc \in Seeded THEN SeedNo ELSE NoRow]
  /\ slFile = [p \in Periods |-> {}]
  /\ handler = [c \in Clerks |-> Idle]
  /\ minted = SeedNo
  /\ exported = {}

(***************************************************************************)
(* allocateInvSeq: the number a transaction takes for company code cc.  An *)
(* unseeded counter starts from the highest number in the table.           *)
(***************************************************************************)
OfCoCode(cc) == {i \in invoices : CoCode[i.sched] = cc}

(* Mutation: an unseeded counter starts from zero. *)
MutStartAtZero(cc, n) == n = 0

HighestInTable(cc, n) ==
  /\ n = 0 \/ \E i \in OfCoCode(cc) : i.invNo = n
  /\ \A i \in OfCoCode(cc) : i.invNo <= n

LastInvNo(cc, last) ==
  \/ counter[cc] # NoRow /\ last = counter[cc]
  \/ counter[cc] = NoRow /\ HighestInTable(cc, last)

NumbersInUse == {0} \cup {i.invNo : i \in invoices}
                    \cup ({counter[cc] : cc \in CoCodes} \ {NoRow})

(***************************************************************************)
(* POST /api/amc/invoices/generate.  The due schedules are read once, and  *)
(* each is billed in a transaction of its own from the row read.           *)
(***************************************************************************)
Scopes == {Schedules, {s \in Schedules : isLhc(s)}, {s \in Schedules : ~isLhc(s)}}
            \cup {{s} : s \in Schedules}

DueSchedules(p, scope) ==
  {[sched |-> s, row |-> schedule[s]] :
     s \in {t \in scope : /\ schedule[t].billingStatus = "N"
                          /\ schedule[t].nextDueDate # NoDate
                          /\ schedule[t].nextDueDate <= p
                          /\ classify[t] = "NA"}}

GenerateRead(c) ==
  /\ handler[c] = Idle
  /\ \E p \in Periods, scope \in Scopes :
       /\ DueSchedules(p, scope) # {}
       /\ handler' = [handler EXCEPT ![c] =
            [op |-> "generate", period |-> p, todo |-> DueSchedules(p, scope)]]
  /\ UNCHANGED <<rows, slFile, minted, exported>>

Tried(c, d) ==
  IF handler[c].todo = {d} THEN Idle
  ELSE [handler[c] EXCEPT !.todo = @ \ {d}]

(* Mutation: off by one. *)
MutFullyBilledLate(d) == d.row.invoicesIssued > Total[d.sched]

FullyBilled(d) == d.row.invoicesIssued >= Total[d.sched]

(* "Never bill beyond the agreement's term": skipped and reported. *)
GenerateSkip(c) ==
  /\ handler[c].op = "generate"
  /\ \E d \in handler[c].todo :
       /\ FullyBilled(d)
       /\ handler' = [handler EXCEPT ![c] = Tried(c, d)]
  /\ UNCHANGED <<rows, slFile, minted, exported>>

NewSet(d, n, p) ==
  [id |-> minted + 1, sched |-> d.sched,
   invoiceYearSeq |-> d.row.invoicesIssued + 1, invNo |-> n, invDate |-> p,
   prevNextDueDate |-> d.row.nextDueDate,
   prevLastInvoiceDate |-> d.row.lastInvoiceDate, isProcessed |-> FALSE]

(* Mutation: the year before the last is taken for the final one. *)
MutFinalTooEarly(d, p) ==
  [invoicesIssued  |-> d.row.invoicesIssued + 1,
   nextDueDate     |-> NoDate,
   lastInvoiceDate |-> p,
   billingStatus   |-> "C"]

BilledSchedule(d, p) ==
  LET final == d.row.invoicesIssued + 1 >= Total[d.sched] IN
  [invoicesIssued  |-> d.row.invoicesIssued + 1,
   nextDueDate     |-> IF final THEN NoDate
                       ELSE IF isLhc(d.sched) THEN nextLhcDueDate(p)
                       ELSE addOneYear(d.row.nextDueDate),
   lastInvoiceDate |-> p,
   billingStatus   |-> IF final THEN "C" ELSE "N"]

GenerateBill(c) ==
  /\ handler[c].op = "generate"
  /\ minted < SeedNo + MaxMint
  /\ \E d \in handler[c].todo, last \in NumbersInUse :
       LET cc == CoCode[d.sched]
           p  == handler[c].period IN
       /\ ~FullyBilled(d)
       /\ LastInvNo(cc, last)
       /\ counter' = [counter EXCEPT ![cc] = last + 1]
       /\ invoices' = invoices \cup {NewSet(d, last + 1, p)}
       /\ schedule' = [schedule EXCEPT ![d.sched] = BilledSchedule(d, p)]
       /\ handler' = [handler EXCEPT ![c] = Tried(c, d)]
  /\ minted' = minted + 1
  /\ UNCHANGED <<classify, slFile, exported>>

(* Mutation: a failing schedule is tried again for ever. *)
MutRetryForEver(c) == handler[c].op = "generate" /\ UNCHANGED vars

(* No AMC rate or points tier, or the transaction is rolled back by the    *)
(* database: caught, reported as skipped, and the loop goes on.            *)
GenerateRollback(c) ==
  /\ handler[c].op = "generate"
  /\ \E d \in handler[c].todo :
       /\ ~FullyBilled(d)
       /\ handler' = [handler EXCEPT ![c] = Tried(c, d)]
  /\ UNCHANGED <<rows, slFile, minted, exported>>

(***************************************************************************)
(* POST /api/amc/invoices/:id/cancel.  The invoice and its schedule are    *)
(* read, then its siblings, then one transaction rolls the schedule back,  *)
(* deletes the year's rows and takes the number back if it is the last.    *)
(***************************************************************************)
SetsOfYear(s, k) == {i \in invoices : i.sched = s /\ i.invoiceYearSeq = k}

CancelRead(c) ==
  /\ handler[c] = Idle
  /\ c \in Cancelers
  /\ \E i \in invoices :
       /\ ~i.isProcessed
       /\ handler' = [handler EXCEPT ![c] =
            [op |-> "cancel", checked |-> FALSE, invoice |-> i,
             due |-> schedule[i.sched].nextDueDate]]
  /\ UNCHANGED <<rows, slFile, minted, exported>>

RestoredNextDue(i, cur) ==
  IF i.prevNextDueDate # NoDate THEN i.prevNextDueDate
  ELSE IF cur = NoDate THEN NoDate
  ELSE IF isLhc(i.sched) THEN prevLhcDueDate(cur) ELSE subOneYear(cur)

CancelCheck(c) ==
  /\ handler[c].op = "cancel"
  /\ ~handler[c].checked
  /\ LET i == handler[c].invoice
         allowed ==
           /\ \A j \in SetsOfYear(i.sched, i.invoiceYearSeq) : ~j.isProcessed
           /\ RestoredNextDue(i, handler[c].due) # NoDate
     IN handler' = [handler EXCEPT ![c] =
          IF allowed THEN [@ EXCEPT !.checked = TRUE] ELSE Idle]
  /\ UNCHANGED <<rows, slFile, minted, exported>>

(* Mutation: the count is rolled back one year too far. *)
MutRolledBackTwice(i, cur) ==
  [invoicesIssued  |-> i.invoiceYearSeq - 2,
   billingStatus   |-> "N",
   nextDueDate     |-> RestoredNextDue(i, cur),
   lastInvoiceDate |-> i.prevLastInvoiceDate]

RolledBack(i, cur) ==
  [invoicesIssued  |-> IF i.invoiceYearSeq = 0 THEN 0 ELSE i.invoiceYearSeq - 1,
   billingStatus   |-> "N",
   nextDueDate     |-> RestoredNextDue(i, cur),
   lastInvoiceDate |-> i.prevLastInvoiceDate]

Reclaimed(i) ==
  LET cc == CoCode[i.sched] IN
  IF counter[cc] = i.invNo THEN [counter EXCEPT ![cc] = i.invNo - 1] ELSE counter

CancelCommit(c) ==
  /\ handler[c].op = "cancel"
  /\ handler[c].checked
  /\ LET i == handler[c].invoice IN
       /\ schedule' = [schedule EXCEPT ![i.sched] = RolledBack(i, handler[c].due)]
       /\ invoices' = invoices \ SetsOfYear(i.sched, i.invoiceYearSeq)
       /\ counter' = Reclaimed(i)
  /\ handler' = [handler EXCEPT ![c] = Idle]
  /\ UNCHANGED <<classify, slFile, minted, exported>>

(***************************************************************************)
(* PATCH /api/agreements/:id/status.  The authority check uses the status  *)
(* read before the transaction.                                            *)
(***************************************************************************)
statusChangeAllowed(dept, current, new) ==
  \/ dept \in {"IT", "Finance"}
  \/ dept = "Credit" /\ new # "TM" /\ current # "TM"

StatusRead(c) ==
  /\ handler[c] = Idle
  /\ \E s \in Schedules, dept \in Depts, new \in NewStatuses :
       /\ statusChangeAllowed(dept, classify[s], new)
       /\ handler' = [handler EXCEPT ![c] =
            [op |-> "status", sched |-> s, dept |-> dept, new |-> new]]
  /\ UNCHANGED <<rows, slFile, minted, exported>>

StatusCommit(c) ==
  /\ handler[c].op = "status"
  /\ LET s == handler[c].sched IN
       /\ classify' = [classify EXCEPT ![s] = handler[c].new]
       /\ schedule' = [schedule EXCEPT ![s].billingStatus =
                         IF handler[c].new = "NA" THEN "N" ELSE "C"]
  /\ handler' = [handler EXCEPT ![c] = Idle]
  /\ UNCHANGED <<invoices, counter, slFile, minted, exported>>

(***************************************************************************)
(* POST /api/amc/dayend/generate.  The unprocessed invoices of the day are *)
(* read, the day's SL_IV file is (over)written from them, and then every   *)
(* unprocessed invoice of the day is marked.                               *)
(***************************************************************************)
Unprocessed(p) == {i \in invoices : i.invDate = p /\ ~i.isProcessed}

DayEndRead(c) ==
  /\ handler[c] = Idle
  /\ \E p \in Periods :
       /\ Unprocessed(p) # {}
       /\ handler' = [handler EXCEPT ![c] =
            [op |-> "dayend", written |-> FALSE, period |-> p,
             found |-> Unprocessed(p)]]
  /\ UNCHANGED <<rows, slFile, minted, exported>>

DayEndWrite(c) ==
  /\ handler[c].op = "dayend"
  /\ ~handler[c].written
  /\ LET ids == {i.id : i \in handler[c].found} IN
       /\ slFile' = [slFile EXCEPT ![handler[c].period] = ids]
       /\ exported' = exported \cup ids
  /\ handler' = [handler EXCEPT ![c].written = TRUE]
  /\ UNCHANGED <<rows, minted>>

(* Mutation: every unprocessed invoice is marked, not only the day's. *)
MutMarkEveryDay(p) == {[i EXCEPT !.isProcessed = TRUE] : i \in invoices}

MarkProcessed(p) ==
  {IF i.invDate = p THEN [i EXCEPT !.isProcessed = TRUE] ELSE i : i \in invoices}

DayEndMark(c) ==
  /\ handler[c].op = "dayend"
  /\ handler[c].written
  /\ invoices' = MarkProcessed(handler[c].period)
  /\ handler' = [handler EXCEPT ![c] = Idle]
  /\ UNCHANGED <<classify, schedule, counter, slFile, minted, exported>>

(***************************************************************************)
(* A request whose statement or transaction the database refuses ends in a *)
(* 500 with nothing of that step done; a crash of the process ends every   *)
(* request in flight.                                                      *)
(***************************************************************************)
RequestFails(c) ==
  /\ handler[c].op \in {"cancel", "status", "dayend"}
  /\ handler' = [handler EXCEPT ![c] = Idle]
  /\ UNCHANGED <<rows, slFile, minted, exported>>

Crash ==
  /\ \E c \in Clerks : handler[c] # Idle
  /\ handler' = [c \in Clerks |-> Idle]
  /\ UNCHANGED <<rows, slFile, minted, exported>>

Request(c) == GenerateRead(c) \/ CancelRead(c) \/ StatusRead(c) \/ DayEndRead(c)

Continue(c) ==
  \/ GenerateSkip(c) \/ GenerateBill(c) \/ GenerateRollback(c)
  \/ CancelCheck(c) \/ CancelCommit(c)
  \/ StatusCommit(c)
  \/ DayEndWrite(c) \/ DayEndMark(c)
  \/ RequestFails(c)

Next == (\E c \in Clerks : Request(c) \/ Continue(c)) \/ Crash

Spec == Init /\ [][Next]_vars

(* The event loop resumes every handler whose await is settled. *)
FairSpec == Spec /\ \A c \in Clerks : WF_vars(Continue(c))

-----------------------------------------------------------------------------
(* No two live sets of a company code carry the same running number: the   *)
(* number is what SQL Account and the member know an invoice by.  The      *)
(* counter is taken for update by generate and handed back by cancel.      *)
NumbersUnique ==
  \A i, j \in invoices :
    CoCode[i.sched] = CoCode[j.sched] /\ i.invNo = j.invNo => i = j

(* A counter row is never behind the numbers in the table, so the next     *)
(* number it gives out is free.                                            *)
CounterCoversLive ==
  \A i \in invoices :
    counter[CoCode[i.sched]] # NoRow => i.invNo <= counter[CoCode[i.sched]]

(* The set a clerk is about to cancel is still in the table, under the     *)
(* number the clerk read: the roll-back and the reclaimed number are its.  *)
PendingCancelIsLive ==
  \A c \in Clerks : handler[c].op = "cancel" =>
    LET i == handler[c].invoice IN
    \E j \in SetsOfYear(i.sched, i.invoiceYearSeq) : j.invNo = i.invNo

(* A schedule with years left to bill keeps a due date, whatever mix of    *)
(* generate, cancel and status change ran on it: without one, no billing   *)
(* run would ever select it again.                                         *)
NeverStranded ==
  \A s \in Schedules :
    schedule[s].nextDueDate = NoDate => schedule[s].invoicesIssued >= Total[s]

(* "Never bill beyond the agreement's term", year by year: no set is for a *)
(* year past totalInvoices, even from stale rows or an overrun migration.  *)
BilledWithinTerm ==
  /\ \A i \in invoices : i.invoiceYearSeq <= Total[i.sched]
  /\ \A s \in Schedules : schedule[s].invoicesIssued <= Total[s]

(* An invoice marked as processed went into some SL_IV file.               *)
ProcessedWasExported ==
  \A i \in invoices : i.isProcessed => i.id \in exported

(* One schedule that cannot be billed does not stop the run: every         *)
(* generate request works through its whole list and answers.              *)
GenerateEnds ==
  \A c \in Clerks : handler[c].op = "generate" ~> handler[c].op # "generate"
=============================================================================
