-------------------------- MODULE AmcBillingProofs --------------------------
(***************************************************************************)
(* What holds of the billing engine for every set of schedules, clerks and *)
(* periods: its type invariant, and that running numbers stay unique as    *)
(* long as one clerk at most cancels invoices.                             *)
(***************************************************************************)
EXTENDS AmcBilling, TLAPS

USE DEF CoCodes, Statuses, Dates

(* A request of a known kind has the fields of that kind.                  *)
LEMMA RequestKind ==
  ASSUME NEW h \in Handlers
  PROVE  /\ h.op = "generate" => h \in GenerateRequest
         /\ h.op = "cancel" => h \in CancelRequest
         /\ h.op = "status" => h \in StatusRequest
         /\ h.op = "dayend" => h \in DayEndRequest
         /\ Idle \in Handlers
  BY DEF Handlers, GenerateRequest, CancelRequest, StatusRequest, DayEndRequest, Idle

(* The date helpers stay on dates.                                         *)
LEMMA DatesClosed ==
  ASSUME NEW d \in Int
  PROVE  /\ addOneYear(d) \in Int
         /\ subOneYear(d) \in Int
         /\ nextLhcDueDate(d) \in Int
         /\ prevLhcDueDate(d) \in Int
  BY DEF addOneYear, subOneYear, nextLhcDueDate, prevLhcDueDate

(* The schedule row a billing transaction writes.                          *)
LEMMA BilledScheduleType ==
  ASSUME NEW d \in DueRow, NEW p \in Int
  PROVE  BilledSchedule(d, p) \in ScheduleRow
  <1>1. /\ d.row \in ScheduleRow
        /\ d.row.invoicesIssued + 1 \in Nat
        /\ d.row.nextDueDate \in Int
    BY DEF DueRow, ScheduleRow
  <1>2. nextLhcDueDate(p) \in Int /\ addOneYear(d.row.nextDueDate) \in Int
    BY <1>1, DatesClosed
  <1> QED BY <1>1, <1>2 DEF BilledSchedule, ScheduleRow

(* The due date a cancellation restores.                                   *)
LEMMA RestoredNextDueType ==
  ASSUME NEW i \in InvoiceRow, NEW cur \in Dates
  PROVE  RestoredNextDue(i, cur) \in Dates
  <1>1. i.prevNextDueDate \in Dates
    BY DEF InvoiceRow
  <1>2. CASE cur \in Int
    <2>1. prevLhcDueDate(cur) \in Int /\ subOneYear(cur) \in Int
      BY <1>2, DatesClosed
    <2> QED BY <1>1, <2>1 DEF RestoredNextDue
  <1>3. CASE cur = NoDate
    BY <1>1, <1>3 DEF RestoredNextDue
  <1> QED BY <1>2, <1>3

(* The invoice set a billing transaction creates.                          *)
LEMMA NewSetType ==
  ASSUME TypeOK, NEW d \in DueRow, NEW n \in Nat \ {0}, NEW p \in Int
  PROVE  NewSet(d, n, p) \in InvoiceRow
  <1>1. /\ d.sched \in Schedules /\ d.row \in ScheduleRow
        /\ d.row.invoicesIssued + 1 \in Nat \ {0}
        /\ minted + 1 \in Nat
    BY DEF DueRow, ScheduleRow, TypeOK
  <1> QED BY <1>1 DEF NewSet, InvoiceRow, ScheduleRow

(* A number in use, and the next one.                                      *)
LEMMA NumbersAreNat ==
  ASSUME TypeOK, NEW n \in NumbersInUse
  PROVE  n \in Nat
  BY DEF TypeOK, NumbersInUse, InvoiceRow

(* Working a due schedule off the list keeps the request well formed.      *)
LEMMA TriedType ==
  ASSUME TypeOK, NEW c \in Clerks, handler[c].op = "generate", NEW d
  PROVE  Tried(c, d) \in Handlers
  <1>1. handler[c] \in GenerateRequest
    BY RequestKind DEF TypeOK
  <1> QED BY <1>1 DEF Tried, GenerateRequest, Handlers

-----------------------------------------------------------------------------
(* Every row, counter, file and request keeps its form.                    *)
LEMMA TypeInit == Init => TypeOK
  <1> SUFFICES ASSUME Init PROVE TypeOK
    OBVIOUS
  <1>1. schedule \in [Schedules -> ScheduleRow]
    <2> SUFFICES ASSUME NEW s \in Schedules PROVE MigratedSchedule(s) \in ScheduleRow
      BY DEF Init
    <2>1. FirstDue[s] \in Int /\ Total[s] \in Nat
      BY ScheduleAssumption
    <2> QED BY <2>1, DatesClosed DEF MigratedSchedule, ScheduleRow
  <1>2. invoices \subseteq InvoiceRow
    <2> SUFFICES ASSUME NEW s \in Legacy PROVE MigratedInvoice(s) \in InvoiceRow
      BY DEF Init
    <2> QED BY LegacyAssumption, ScheduleAssumption DEF MigratedInvoice, InvoiceRow
  <1>3. counter \in [CoCodes -> Nat \cup {NoRow}]
    BY LegacyAssumption DEF Init
  <1>4. handler \in [Clerks -> Handlers]
    BY DEF Init, Handlers
  <1> QED BY <1>1, <1>2, <1>3, <1>4, LegacyAssumption DEF Init, TypeOK

LEMMA TypeStep == TypeOK /\ [Next]_vars => TypeOK'
  <1> SUFFICES ASSUME TypeOK, [Next]_vars PROVE TypeOK'
    OBVIOUS
  <1> USE DEF rows
  <1>1. ASSUME NEW c \in Clerks, GenerateRead(c) PROVE TypeOK'
    <2>1. PICK p \in Periods, scope \in Scopes :
            handler' = [handler EXCEPT ![c] =
              [op |-> "generate", period |-> p, todo |-> DueSchedules(p, scope)]]
      BY <1>1 DEF GenerateRead
    <2>2. DueSchedules(p, scope) \subseteq DueRow
      <3>1. scope \subseteq Schedules
        BY DEF Scopes
      <3> QED BY <3>1 DEF DueSchedules, DueRow, TypeOK
    <2>3. [op |-> "generate", period |-> p, todo |-> DueSchedules(p, scope)]
            \in Handlers
      BY <2>2 DEF Handlers, GenerateRequest
    <2> QED BY <1>1, <2>1, <2>3 DEF GenerateRead, TypeOK
  <1>2. ASSUME NEW c \in Clerks, GenerateSkip(c) PROVE TypeOK'
    BY <1>2, TriedType DEF GenerateSkip, TypeOK
  <1>3. ASSUME NEW c \in Clerks, GenerateRollback(c) PROVE TypeOK'
    BY <1>3, TriedType DEF GenerateRollback, TypeOK
  <1>4. ASSUME NEW c \in Clerks, GenerateBill(c) PROVE TypeOK'
    <2>1. handler[c] \in GenerateRequest
      BY <1>4, RequestKind DEF GenerateBill, TypeOK
    <2> DEFINE p == handler[c].period
    <2>2. PICK d \in handler[c].todo, last \in NumbersInUse :
            /\ counter' = [counter EXCEPT ![CoCode[d.sched]] = last + 1]
            /\ invoices' = invoices \cup {NewSet(d, last + 1, p)}
            /\ schedule' = [schedule EXCEPT ![d.sched] = BilledSchedule(d, p)]
            /\ handler' = [handler EXCEPT ![c] = Tried(c, d)]
      BY <1>4 DEF GenerateBill
    <2>3. d \in DueRow /\ p \in Int /\ last + 1 \in Nat \ {0}
      <3>1. d \in DueRow /\ p \in Int
        BY <2>1, ScheduleAssumption DEF GenerateRequest
      <3>2. last \in Nat
        BY NumbersAreNat
      <3> QED BY <3>1, <3>2
    <2>4. NewSet(d, last + 1, p) \in InvoiceRow
      BY <2>3, NewSetType
    <2>5. BilledSchedule(d, p) \in ScheduleRow
      BY <2>3, BilledScheduleType
    <2>6. Tried(c, d) \in Handlers
      BY <1>4, TriedType DEF GenerateBill
    <2>7. minted' \in Nat /\ UNCHANGED <<classify, slFile, exported>>
      BY <1>4 DEF GenerateBill, TypeOK
    <2> QED BY <2>2, <2>3, <2>4, <2>5, <2>6, <2>7 DEF TypeOK
  <1>5. ASSUME NEW c \in Clerks, CancelRead(c) PROVE TypeOK'
    <2>1. PICK i \in invoices :
            handler' = [handler EXCEPT ![c] =
              [op |-> "cancel", checked |-> FALSE, invoice |-> i,
               due |-> schedule[i.sched].nextDueDate]]
      BY <1>5 DEF CancelRead
    <2>2. i \in InvoiceRow /\ schedule[i.sched].nextDueDate \in Dates
      BY DEF TypeOK, InvoiceRow, ScheduleRow
    <2>3. [op |-> "cancel", checked |-> FALSE, invoice |-> i,
           due |-> schedule[i.sched].nextDueDate] \in Handlers
      BY <2>2 DEF Handlers, CancelRequest
    <2> QED BY <1>5, <2>1, <2>3 DEF CancelRead, TypeOK
  <1>6. ASSUME NEW c \in Clerks, CancelCheck(c) PROVE TypeOK'
    <2>1. handler[c] \in CancelRequest
      BY <1>6, RequestKind DEF CancelCheck, TypeOK
    <2>2. [handler[c] EXCEPT !.checked = TRUE] \in Handlers
      BY <2>1 DEF Handlers, CancelRequest
    <2>3. handler' \in [Clerks -> Handlers]
      BY <1>6, <2>2 DEF CancelCheck, TypeOK, Handlers
    <2> QED BY <1>6, <2>3 DEF CancelCheck, TypeOK
  <1>7. ASSUME NEW c \in Clerks, CancelCommit(c) PROVE TypeOK'
    <2> DEFINE i == handler[c].invoice
    <2>1. handler[c] \in CancelRequest
      BY <1>7, RequestKind DEF CancelCommit, TypeOK
    <2>2. i \in InvoiceRow /\ handler[c].due \in Dates
      BY <2>1 DEF CancelRequest
    <2>3. RestoredNextDue(i, handler[c].due) \in Dates
      BY <2>2, RestoredNextDueType
    <2>4. RolledBack(i, handler[c].due) \in ScheduleRow
      BY <2>2, <2>3 DEF RolledBack, ScheduleRow, InvoiceRow
    <2>5. schedule' \in [Schedules -> ScheduleRow]
      BY <1>7, <2>4 DEF CancelCommit, TypeOK
    <2>6. counter' \in [CoCodes -> Nat \cup {NoRow}]
      <3>1. i.invNo - 1 \in Nat
        BY <2>2 DEF InvoiceRow
      <3>2. Reclaimed(i) \in [CoCodes -> Nat \cup {NoRow}]
        BY <3>1 DEF Reclaimed, TypeOK
      <3> QED BY <1>7, <3>2 DEF CancelCommit
    <2>7. invoices' \subseteq InvoiceRow /\ handler' \in [Clerks -> Handlers]
      BY <1>7 DEF CancelCommit, TypeOK, Handlers
    <2> QED BY <1>7, <2>5, <2>6, <2>7 DEF CancelCommit, TypeOK
  <1>8. ASSUME NEW c \in Clerks, StatusRead(c) PROVE TypeOK'
    <2>1. PICK s \in Schedules, dept \in Depts, new \in NewStatuses :
            handler' = [handler EXCEPT ![c] =
              [op |-> "status", sched |-> s, dept |-> dept, new |-> new]]
      BY <1>8 DEF StatusRead
    <2>2. [op |-> "status", sched |-> s, dept |-> dept, new |-> new] \in Handlers
      BY StatusAssumption DEF Handlers, StatusRequest
    <2> QED BY <1>8, <2>1, <2>2 DEF StatusRead, TypeOK
  <1>9. ASSUME NEW c \in Clerks, StatusCommit(c) PROVE TypeOK'
    <2>1. handler[c] \in StatusRequest
      BY <1>9, RequestKind DEF StatusCommit, TypeOK
    <2>2. handler[c].sched \in Schedules /\ handler[c].new \in Statuses
      BY <2>1 DEF StatusRequest
    <2>3. schedule' \in [Schedules -> ScheduleRow]
      <3>1. PICK status \in {"N", "C"} :
              schedule' = [schedule EXCEPT ![handler[c].sched].billingStatus = status]
        BY <1>9 DEF StatusCommit
      <3>2. schedule \in [Schedules -> ScheduleRow]
        BY DEF TypeOK
      <3>3. [schedule[handler[c].sched] EXCEPT !.billingStatus = status] \in ScheduleRow
        BY <2>2, <3>2 DEF ScheduleRow
      <3> QED BY <3>1, <3>2, <3>3
    <2>4. classify' \in [Schedules -> Statuses]
      BY <1>9, <2>2 DEF StatusCommit, TypeOK
    <2>5. handler' \in [Clerks -> Handlers]
      BY <1>9 DEF StatusCommit, TypeOK, Handlers
    <2> QED BY <1>9, <2>3, <2>4, <2>5 DEF StatusCommit, TypeOK
  <1>10. ASSUME NEW c \in Clerks, DayEndRead(c) PROVE TypeOK'
    <2>1. PICK p \in Periods :
            handler' = [handler EXCEPT ![c] =
              [op |-> "dayend", written |-> FALSE, period |-> p,
               found |-> Unprocessed(p)]]
      BY <1>10 DEF DayEndRead
    <2>2. [op |-> "dayend", written |-> FALSE, period |-> p,
           found |-> Unprocessed(p)] \in Handlers
      BY DEF Handlers, DayEndRequest, Unprocessed, TypeOK
    <2> QED BY <1>10, <2>1, <2>2 DEF DayEndRead, TypeOK
  <1>11. ASSUME NEW c \in Clerks, DayEndWrite(c) PROVE TypeOK'
    <2> DEFINE ids == {i.id : i \in handler[c].found}
    <2>1. handler[c] \in DayEndRequest
      BY <1>11, RequestKind DEF DayEndWrite, TypeOK
    <2>2. ids \subseteq Nat
      BY <2>1 DEF DayEndRequest, InvoiceRow
    <2>3. [handler[c] EXCEPT !.written = TRUE] \in Handlers
      BY <2>1 DEF DayEndRequest, Handlers
    <2>4. handler' \in [Clerks -> Handlers]
      BY <1>11, <2>3 DEF DayEndWrite, TypeOK
    <2>5. slFile' \in [Periods -> SUBSET Nat] /\ exported' \subseteq Nat
      BY <1>11, <2>2 DEF DayEndWrite, TypeOK
    <2> QED BY <1>11, <2>4, <2>5 DEF DayEndWrite, TypeOK
  <1>12. ASSUME NEW c \in Clerks, DayEndMark(c) PROVE TypeOK'
    <2>1. \A i \in InvoiceRow : [i EXCEPT !.isProcessed = TRUE] \in InvoiceRow
      BY DEF InvoiceRow
    <2>2. invoices' \subseteq InvoiceRow
      BY <1>12, <2>1 DEF DayEndMark, MarkProcessed, TypeOK
    <2>3. handler' \in [Clerks -> Handlers]
      BY <1>12 DEF DayEndMark, TypeOK, Handlers
    <2> QED BY <1>12, <2>2, <2>3 DEF DayEndMark, TypeOK
  <1>13. ASSUME NEW c \in Clerks, RequestFails(c) PROVE TypeOK'
    BY <1>13 DEF RequestFails, TypeOK, Handlers
  <1>14. CASE Crash
    BY <1>14 DEF Crash, TypeOK, Handlers
  <1>15. CASE UNCHANGED vars
    BY <1>15 DEF vars, TypeOK
  <1> QED BY <1>1, <1>2, <1>3, <1>4, <1>5, <1>6, <1>7, <1>8, <1>9, <1>10, <1>11,
             <1>12, <1>13, <1>14, <1>15 DEF Next, Request, Continue

(* Type correctness: the tables, the files and what requests carry between *)
(* two awaits keep their form in every instance.                           *)
THEOREM TypeCorrect == Spec => []TypeOK
  BY TypeInit, TypeStep, PTL DEF Spec
-----------------------------------------------------------------------------
(* Running numbers.  The counter is handed back on cancellation from a     *)
(* number read before the transaction, so uniqueness needs that the set    *)
(* being cancelled is still the one that holds it.  That is so when a      *)
(* single clerk cancels, whatever the other clerks do meanwhile.           *)
SingleCanceler == \A a, b \in Cancelers : a = b

OnlyCancelersCancel == \A c \in Clerks : handler[c].op = "cancel" => c \in Cancelers

NumberInv ==
  /\ TypeOK
  /\ NumbersUnique
  /\ CounterCoversLive
  /\ OnlyCancelersCancel
  /\ PendingCancelIsLive

(* Steps that touch neither the table nor the counter, and start no        *)
(* cancellation, keep the invariant.                                       *)
LEMMA NumberFrame ==
  ASSUME NumberInv, TypeOK', UNCHANGED <<invoices, counter>>,
         NEW c \in Clerks, handler'[c].op # "cancel",
         \A d \in Clerks \ {c} : handler'[d] = handler[d]
  PROVE  NumberInv'
  <1>1. NumbersUnique' /\ CounterCoversLive'
    BY DEF NumberInv, NumbersUnique, CounterCoversLive
  <1>2. OnlyCancelersCancel' /\ PendingCancelIsLive'
    BY DEF NumberInv, OnlyCancelersCancel, PendingCancelIsLive, SetsOfYear
  <1> QED BY <1>1, <1>2 DEF NumberInv

(* The number a transaction takes is above every number of its code.       *)
LEMMA NextNumberIsFree ==
  ASSUME NumberInv, NEW cc \in CoCodes, NEW last \in NumbersInUse, LastInvNo(cc, last)
  PROVE  \A i \in invoices : CoCode[i.sched] = cc => i.invNo <= last
  BY DEF NumberInv, CounterCoversLive, LastInvNo, HighestInTable, OfCoCode

LEMMA NumberInit == Init => NumberInv
  <1> SUFFICES ASSUME Init PROVE NumberInv
    OBVIOUS
  <1>1. TypeOK
    BY TypeInit
  <1>2. \A i \in invoices : \E s \in Legacy : i = MigratedInvoice(s)
    BY DEF Init
  <1>3. NumbersUnique
    <2> SUFFICES ASSUME NEW s \in Legacy, NEW t \in Legacy,
                        MigratedInvoice(s).invNo = MigratedInvoice(t).invNo
                 PROVE  s = t
      BY <1>2 DEF NumbersUnique
    <2>1. LegacyNo[s] = LegacyNo[t]
      BY DEF MigratedInvoice
    <2> QED BY <2>1, LegacyAssumption
  <1>4. CounterCoversLive
    BY <1>2, LegacyAssumption, ScheduleAssumption DEF CounterCoversLive, MigratedInvoice, Init
  <1>5. OnlyCancelersCancel /\ PendingCancelIsLive
    BY DEF Init, Idle, OnlyCancelersCancel, PendingCancelIsLive
  <1> QED BY <1>1, <1>3, <1>4, <1>5 DEF NumberInv

(* Billing takes a fresh number and keeps every set in the table.          *)
LEMMA NumberBill ==
  ASSUME NumberInv, TypeOK', NEW c \in Clerks, GenerateBill(c)
  PROVE  NumberInv'
  <1>1. PICK d \in handler[c].todo, last \in NumbersInUse :
          /\ LastInvNo(CoCode[d.sched], last)
          /\ counter' = [counter EXCEPT ![CoCode[d.sched]] = last + 1]
          /\ invoices' = invoices \cup {NewSet(d, last + 1, handler[c].period)}
          /\ handler' = [handler EXCEPT ![c] = Tried(c, d)]
    BY DEF GenerateBill
  <1> DEFINE cc == CoCode[d.sched]
             new == NewSet(d, last + 1, handler[c].period)
  <1>2. handler[c] \in GenerateRequest
    BY RequestKind DEF NumberInv, TypeOK, GenerateBill
  <1>3. d \in DueRow /\ cc \in CoCodes /\ last \in Nat
    <2>1. d \in DueRow
      BY <1>2 DEF GenerateRequest
    <2>2. cc \in CoCodes
      BY <2>1, ScheduleAssumption DEF DueRow
    <2>3. last \in Nat
      BY NumbersAreNat DEF NumberInv
    <2> QED BY <2>1, <2>2, <2>3
  <1>4. \A i \in invoices : CoCode[i.sched] = cc => i.invNo <= last
    BY <1>1, <1>3, NextNumberIsFree
  <1>5. new.sched = d.sched /\ new.invNo = last + 1
    BY DEF NewSet
  <1>6. \A i \in invoices : i.invNo \in Nat /\ i.sched \in Schedules
    BY DEF NumberInv, TypeOK, InvoiceRow
  <1>7. NumbersUnique'
    <2> SUFFICES ASSUME NEW i \in invoices', NEW j \in invoices',
                        CoCode[i.sched] = CoCode[j.sched], i.invNo = j.invNo
                 PROVE  i = j
      BY DEF NumbersUnique
    <2>1. CASE i \in invoices /\ j \in invoices
      BY <2>1 DEF NumberInv, NumbersUnique
    <2>2. ASSUME NEW k \in invoices, CoCode[k.sched] = cc PROVE k.invNo # last + 1
      BY <2>2, <1>3, <1>4, <1>6
    <2> QED BY <2>1, <2>2, <1>1, <1>5
  <1>8. CounterCoversLive'
    <2> SUFFICES ASSUME NEW i \in invoices', counter'[CoCode[i.sched]] # NoRow
                 PROVE  i.invNo <= counter'[CoCode[i.sched]]
      BY DEF CounterCoversLive
    <2>1. counter'[cc] = last + 1
      BY <1>1, <1>3 DEF NumberInv, TypeOK
    <2>2. CASE i = new
      BY <2>1, <2>2, <1>3, <1>5
    <2>3. CASE i \in invoices /\ CoCode[i.sched] = cc
      BY <2>1, <2>3, <1>3, <1>4, <1>6
    <2>4. CASE i \in invoices /\ CoCode[i.sched] # cc
      <3>1. CoCode[i.sched] \in CoCodes
        BY <2>4, <1>6, ScheduleAssumption
      <3>2. counter'[CoCode[i.sched]] = counter[CoCode[i.sched]]
        BY <2>4, <3>1, <1>1 DEF NumberInv, TypeOK
      <3> QED BY <2>4, <3>2 DEF NumberInv, CounterCoversLive
    <2> QED BY <1>1, <2>2, <2>3, <2>4
  <1>9. Tried(c, d).op # "cancel"
    BY <1>2 DEF Tried, GenerateRequest, Idle
  <1>10. OnlyCancelersCancel' /\ PendingCancelIsLive'
    BY <1>1, <1>9 DEF NumberInv, TypeOK, OnlyCancelersCancel, PendingCancelIsLive, SetsOfYear
  <1> QED BY <1>7, <1>8, <1>10 DEF NumberInv

(* Cancelling takes back the last number only together with its set.       *)
LEMMA NumberCancel ==
  ASSUME SingleCanceler, NumberInv, TypeOK', NEW c \in Clerks, CancelCommit(c)
  PROVE  NumberInv'
  <1> DEFINE i == handler[c].invoice
             cc == CoCode[i.sched]
  <1>1. i \in InvoiceRow
    BY RequestKind DEF NumberInv, TypeOK, CancelCommit, CancelRequest
  <1>2. invoices' = invoices \ SetsOfYear(i.sched, i.invoiceYearSeq)
    BY DEF CancelCommit
  <1>3. PICK h \in SetsOfYear(i.sched, i.invoiceYearSeq) : h.invNo = i.invNo
    BY DEF NumberInv, PendingCancelIsLive, CancelCommit
  <1>4. h \in invoices /\ CoCode[h.sched] = cc
    BY <1>3 DEF SetsOfYear
  <1>5. \A j \in invoices : j.invNo \in Nat /\ CoCode[j.sched] \in CoCodes
    BY ScheduleAssumption DEF NumberInv, TypeOK, InvoiceRow
  <1>6. cc \in CoCodes /\ i.invNo \in Nat \ {0}
    BY <1>1, ScheduleAssumption DEF InvoiceRow
  <1>7. NumbersUnique'
    BY <1>2 DEF NumberInv, NumbersUnique
  <1>8. \A j \in invoices' : CoCode[j.sched] = cc => j.invNo # i.invNo
    BY <1>2, <1>3, <1>4 DEF NumberInv, NumbersUnique
  <1>9. CounterCoversLive'
    <2> SUFFICES ASSUME NEW j \in invoices', counter'[CoCode[j.sched]] # NoRow
                 PROVE  j.invNo <= counter'[CoCode[j.sched]]
      BY DEF CounterCoversLive
    <2>1. counter' = Reclaimed(i)
      BY DEF CancelCommit
    <2>2. CASE CoCode[j.sched] = cc /\ counter[cc] = i.invNo
      <3>1. counter'[cc] = i.invNo - 1
        BY <2>1, <2>2, <1>6 DEF Reclaimed, NumberInv, TypeOK
      <3>2. counter[cc] # NoRow
        BY <2>2, <1>6, NullAssumption
      <3>3. j.invNo <= i.invNo
        BY <1>2, <2>2, <3>2 DEF NumberInv, CounterCoversLive
      <3> QED BY <3>1, <3>3, <2>2, <1>2, <1>5, <1>6, <1>8
    <2>3. CASE ~(CoCode[j.sched] = cc /\ counter[cc] = i.invNo)
      <3>1. counter'[CoCode[j.sched]] = counter[CoCode[j.sched]]
        BY <2>1, <2>3, <1>2, <1>5 DEF Reclaimed, NumberInv, TypeOK
      <3> QED BY <1>2, <3>1 DEF NumberInv, CounterCoversLive
    <2> QED BY <2>2, <2>3
  <1>10. \A d \in Clerks : handler'[d].op = "cancel" => d # c /\ handler'[d] = handler[d]
    BY DEF CancelCommit, NumberInv, TypeOK, Idle
  <1>11. \A d \in Clerks : handler[d].op = "cancel" => d = c
    BY DEF SingleCanceler, NumberInv, OnlyCancelersCancel, CancelCommit
  <1>12. OnlyCancelersCancel' /\ PendingCancelIsLive'
    BY <1>10, <1>11 DEF OnlyCancelersCancel, PendingCancelIsLive
  <1> QED BY <1>7, <1>9, <1>12 DEF NumberInv

(* Marking a day as processed renames nothing.                             *)
LEMMA NumberMark ==
  ASSUME NumberInv, TypeOK', NEW c \in Clerks, DayEndMark(c)
  PROVE  NumberInv'
  <1> DEFINE p == handler[c].period
             marked(i) == IF i.invDate = p THEN [i EXCEPT !.isProcessed = TRUE] ELSE i
  <1>1. invoices' = {marked(i) : i \in invoices}
    BY DEF DayEndMark, MarkProcessed
  <1>2. \A i \in invoices : /\ marked(i).sched = i.sched
                            /\ marked(i).invNo = i.invNo
                            /\ marked(i).invoiceYearSeq = i.invoiceYearSeq
    BY DEF NumberInv, TypeOK, InvoiceRow
  <1> HIDE DEF marked
  <1>3. NumbersUnique'
    <2> SUFFICES ASSUME NEW i \in invoices, NEW j \in invoices,
                        CoCode[i.sched] = CoCode[j.sched], i.invNo = j.invNo
                 PROVE  marked(i) = marked(j)
      BY <1>1, <1>2 DEF NumbersUnique
    <2> QED BY DEF NumberInv, NumbersUnique
  <1>4. CounterCoversLive'
    BY <1>1, <1>2 DEF NumberInv, CounterCoversLive, DayEndMark
  <1>5. \A d \in Clerks : handler'[d].op = "cancel" => handler'[d] = handler[d]
    BY DEF DayEndMark, NumberInv, TypeOK, Idle
  <1>6. OnlyCancelersCancel'
    BY <1>5 DEF NumberInv, OnlyCancelersCancel
  <1>7. PendingCancelIsLive'
    <2> SUFFICES ASSUME NEW d \in Clerks, handler'[d].op = "cancel"
                 PROVE  LET i == handler[d].invoice IN
                        \E j \in invoices' : /\ j.sched = i.sched
                                             /\ j.invoiceYearSeq = i.invoiceYearSeq
                                             /\ j.invNo = i.invNo
      BY <1>5 DEF PendingCancelIsLive, SetsOfYear
    <2>1. PICK j \in invoices : /\ j.sched = handler[d].invoice.sched
                                /\ j.invoiceYearSeq = handler[d].invoice.invoiceYearSeq
                                /\ j.invNo = handler[d].invoice.invNo
      BY <1>5 DEF NumberInv, PendingCancelIsLive, SetsOfYear
    <2>2. marked(j) \in invoices'
      BY <1>1
    <2> QED BY <2>1, <2>2, <1>2
  <1> QED BY <1>3, <1>4, <1>6, <1>7 DEF NumberInv

LEMMA NumberStep ==
  ASSUME SingleCanceler, NumberInv, [Next]_vars
  PROVE  NumberInv'
  <1>1. TypeOK'
    BY TypeStep DEF NumberInv
  <1> USE DEF rows
  <1>2. handler \in [Clerks -> Handlers]
    BY DEF NumberInv, TypeOK
  <1>3. ASSUME NEW c \in Clerks,
               GenerateRead(c) \/ StatusRead(c) \/ DayEndRead(c)
        PROVE  NumberInv'
    BY <1>1, <1>2, <1>3, NumberFrame DEF GenerateRead, StatusRead, DayEndRead
  <1>4. ASSUME NEW c \in Clerks, GenerateSkip(c) \/ GenerateRollback(c)
        PROVE  NumberInv'
    <2>1. handler[c] \in GenerateRequest
      BY <1>2, <1>4, RequestKind DEF GenerateSkip, GenerateRollback
    <2>2. \A d : Tried(c, d).op # "cancel"
      BY <2>1 DEF Tried, GenerateRequest, Idle
    <2> QED BY <1>1, <1>2, <1>4, <2>2, NumberFrame DEF GenerateSkip, GenerateRollback
  <1>5. ASSUME NEW c \in Clerks, GenerateBill(c) PROVE NumberInv'
    BY <1>1, <1>5, NumberBill
  <1>6. ASSUME NEW c \in Clerks, CancelRead(c) PROVE NumberInv'
    <2>1. PICK i \in invoices :
            handler' = [handler EXCEPT ![c] =
              [op |-> "cancel", checked |-> FALSE, invoice |-> i,
               due |-> schedule[i.sched].nextDueDate]]
      BY <1>6 DEF CancelRead
    <2>2. OnlyCancelersCancel'
      BY <1>2, <1>6, <2>1 DEF CancelRead, NumberInv, OnlyCancelersCancel
    <2>3. PendingCancelIsLive'
      BY <1>2, <1>6, <2>1 DEF CancelRead, NumberInv, PendingCancelIsLive, SetsOfYear
    <2> QED BY <1>1, <1>6, <2>2, <2>3
            DEF CancelRead, NumberInv, NumbersUnique, CounterCoversLive
  <1>7. ASSUME NEW c \in Clerks, CancelCheck(c) PROVE NumberInv'
    <2>1. handler[c] \in CancelRequest
      BY <1>2, <1>7, RequestKind DEF CancelCheck
    <2>2. \/ handler'[c] = Idle
          \/ /\ handler'[c].op = handler[c].op
             /\ handler'[c].invoice = handler[c].invoice
      BY <1>2, <1>7, <2>1 DEF CancelCheck, CancelRequest
    <2>3. \A d \in Clerks \ {c} : handler'[d] = handler[d]
      BY <1>2, <1>7 DEF CancelCheck
    <2>4. OnlyCancelersCancel' /\ PendingCancelIsLive'
      BY <1>7, <2>2, <2>3 DEF CancelCheck, NumberInv, OnlyCancelersCancel,
                              PendingCancelIsLive, SetsOfYear, Idle
    <2> QED BY <1>1, <1>7, <2>4
            DEF CancelCheck, NumberInv, NumbersUnique, CounterCoversLive
  <1>8. ASSUME NEW c \in Clerks, CancelCommit(c) PROVE NumberInv'
    BY <1>1, <1>8, NumberCancel
  <1>9. ASSUME NEW c \in Clerks, StatusCommit(c) \/ RequestFails(c) PROVE NumberInv'
    BY <1>1, <1>2, <1>9, NumberFrame DEF StatusCommit, RequestFails, Idle
  <1>10. ASSUME NEW c \in Clerks, DayEndWrite(c) PROVE NumberInv'
    <2>1. handler[c] \in DayEndRequest
      BY <1>2, <1>10, RequestKind DEF DayEndWrite
    <2>2. handler'[c].op # "cancel"
      BY <1>2, <1>10, <2>1 DEF DayEndWrite, DayEndRequest
    <2> QED BY <1>1, <1>2, <1>10, <2>2, NumberFrame DEF DayEndWrite
  <1>11. ASSUME NEW c \in Clerks, DayEndMark(c) PROVE NumberInv'
    BY <1>1, <1>11, NumberMark
  <1>12. CASE Crash
    BY <1>1, <1>12 DEF Crash, Idle, NumberInv, NumbersUnique, CounterCoversLive,
                       OnlyCancelersCancel, PendingCancelIsLive
  <1>13. CASE UNCHANGED vars
    BY <1>1, <1>13 DEF vars, NumberInv, NumbersUnique, CounterCoversLive,
                       OnlyCancelersCancel, PendingCancelIsLive, SetsOfYear
  <1> QED BY <1>3, <1>4, <1>5, <1>6, <1>7, <1>8, <1>9, <1>10, <1>11, <1>12, <1>13
          DEF Next, Request, Continue

(* While a single clerk cancels, no two invoice sets of a company code     *)
(* ever share a running number, however many clerks generate, change       *)
(* statuses and run the day-end meanwhile, and across crashes.             *)
THEOREM NumbersStayUnique ==
  ASSUME SingleCanceler
  PROVE  Spec => []NumbersUnique
  <1>1. NumberInv /\ [Next]_vars => NumberInv'
    BY NumberStep
  <1>2. NumberInv => NumbersUnique
    BY DEF NumberInv
  <1> QED BY <1>1, <1>2, NumberInit, PTL DEF Spec

(* Under the same discipline the counter is never behind the table, so the *)
(* next number it gives out is free.                                       *)
THEOREM CounterStaysAhead ==
  ASSUME SingleCanceler
  PROVE  Spec => []CounterCoversLive
  <1>1. NumberInv /\ [Next]_vars => NumberInv'
    BY NumberStep
  <1>2. NumberInv => CounterCoversLive
    BY DEF NumberInv
  <1> QED BY <1>1, <1>2, NumberInit, PTL DEF Spec
-----------------------------------------------------------------------------
(* The term of an agreement.  A cancellation that passed its checks has a  *)
(* due date to restore, and is for a year within the term.                 *)
CancelRestores ==
  \A c \in Clerks : handler[c].op = "cancel" =>
    LET i == handler[c].invoice IN
    /\ i.invoiceYearSeq <= Total[i.sched]
    /\ handler[c].checked => RestoredNextDue(i, handler[c].due) # NoDate

TermInv == TypeOK /\ NeverStranded /\ BilledWithinTerm /\ CancelRestores

LEMMA TermInit == Init => TermInv
  <1> SUFFICES ASSUME Init PROVE TermInv
    OBVIOUS
  <1>1. TypeOK
    BY TypeInit
  <1>2. \A s \in Schedules : /\ MigratedSchedule(s).nextDueDate # NoDate
                             /\ MigratedSchedule(s).invoicesIssued <= Total[s]
    <2> SUFFICES ASSUME NEW s \in Schedules
                 PROVE  /\ MigratedSchedule(s).nextDueDate # NoDate
                        /\ MigratedSchedule(s).invoicesIssued <= Total[s]
      OBVIOUS
    <2>1. FirstDue[s] \in Int /\ Total[s] \in Nat \ {0}
      BY ScheduleAssumption
    <2>2. nextLhcDueDate(FirstDue[s]) \in Int /\ addOneYear(FirstDue[s]) \in Int
      BY <2>1, DatesClosed
    <2> QED BY <2>1, <2>2, NullAssumption DEF MigratedSchedule
  <1>3. NeverStranded
    BY <1>2 DEF Init, NeverStranded
  <1>4. BilledWithinTerm
    <2>1. \A s \in Legacy : 1 <= Total[s]
      BY ScheduleAssumption, LegacyAssumption
    <2> QED BY <1>2, <2>1 DEF Init, BilledWithinTerm, MigratedInvoice
  <1>5. CancelRestores
    BY DEF Init, Idle, CancelRestores
  <1> QED BY <1>1, <1>3, <1>4, <1>5 DEF TermInv

LEMMA TermFrame ==
  ASSUME TermInv, TypeOK', UNCHANGED <<invoices, schedule>>,
         \A d \in Clerks : handler'[d].op = "cancel" => handler'[d] = handler[d]
  PROVE  TermInv'
  <1>1. NeverStranded' /\ BilledWithinTerm'
    BY DEF TermInv, NeverStranded, BilledWithinTerm
  <1>2. CancelRestores'
    BY DEF TermInv, CancelRestores, RestoredNextDue
  <1> QED BY <1>1, <1>2 DEF TermInv

LEMMA TermBill ==
  ASSUME TermInv, TypeOK', NEW c \in Clerks, GenerateBill(c)
  PROVE  TermInv'
  <1>1. PICK d \in handler[c].todo, last \in NumbersInUse :
          /\ ~FullyBilled(d)
          /\ invoices' = invoices \cup {NewSet(d, last + 1, handler[c].period)}
          /\ schedule' = [schedule EXCEPT ![d.sched] = BilledSchedule(d, handler[c].period)]
          /\ handler' = [handler EXCEPT ![c] = Tried(c, d)]
    BY DEF GenerateBill
  <1> DEFINE p == handler[c].period
  <1>2. handler[c] \in GenerateRequest
    BY RequestKind DEF TermInv, TypeOK, GenerateBill
  <1>3. /\ d.sched \in Schedules /\ Total[d.sched] \in Nat
        /\ d.row.invoicesIssued \in Nat /\ d.row.nextDueDate \in Int /\ p \in Int
    BY <1>2, ScheduleAssumption DEF GenerateRequest, DueRow, ScheduleRow
  <1>4. d.row.invoicesIssued + 1 <= Total[d.sched]
    BY <1>1, <1>3 DEF FullyBilled
  <1>5. /\ BilledSchedule(d, p).invoicesIssued = d.row.invoicesIssued + 1
        /\ BilledSchedule(d, p).nextDueDate = NoDate
             => d.row.invoicesIssued + 1 >= Total[d.sched]
    <2>1. nextLhcDueDate(p) # NoDate /\ addOneYear(d.row.nextDueDate) # NoDate
      BY <1>3, DatesClosed, NullAssumption
    <2> QED BY <2>1 DEF BilledSchedule
  <1>6. /\ schedule'[d.sched] = BilledSchedule(d, p)
        /\ \A s \in Schedules \ {d.sched} : schedule'[s] = schedule[s]
    BY <1>1, <1>3 DEF TermInv, TypeOK
  <1>7. NeverStranded'
    BY <1>5, <1>6 DEF TermInv, NeverStranded
  <1>8. BilledWithinTerm'
    <2>1. \A s \in Schedules : schedule'[s].invoicesIssued <= Total[s]
      BY <1>4, <1>5, <1>6 DEF TermInv, BilledWithinTerm
    <2>2. NewSet(d, last + 1, p).invoiceYearSeq <= Total[NewSet(d, last + 1, p).sched]
      BY <1>4 DEF NewSet
    <2> QED BY <1>1, <2>1, <2>2 DEF TermInv, BilledWithinTerm
  <1>9. Tried(c, d).op # "cancel"
    BY <1>2 DEF Tried, GenerateRequest, Idle
  <1>10. CancelRestores'
    BY <1>1, <1>9 DEF TermInv, TypeOK, CancelRestores, RestoredNextDue
  <1> QED BY <1>7, <1>8, <1>10 DEF TermInv

LEMMA TermCancel ==
  ASSUME TermInv, TypeOK', NEW c \in Clerks, CancelCommit(c)
  PROVE  TermInv'
  <1> DEFINE i == handler[c].invoice
             back == RolledBack(i, handler[c].due)
  <1>1. i \in InvoiceRow
    BY RequestKind DEF TermInv, TypeOK, CancelCommit, CancelRequest
  <1>2. /\ i.sched \in Schedules /\ Total[i.sched] \in Nat
        /\ i.invoiceYearSeq \in Nat /\ i.invoiceYearSeq <= Total[i.sched]
        /\ RestoredNextDue(i, handler[c].due) # NoDate
    BY <1>1, ScheduleAssumption DEF InvoiceRow, TermInv, CancelRestores, CancelCommit
  <1>3. /\ schedule'[i.sched] = back
        /\ \A s \in Schedules \ {i.sched} : schedule'[s] = schedule[s]
    BY <1>2 DEF TermInv, TypeOK, CancelCommit
  <1>4. back.nextDueDate # NoDate /\ back.invoicesIssued <= Total[i.sched]
    BY <1>2 DEF RolledBack
  <1>5. NeverStranded'
    BY <1>3, <1>4 DEF TermInv, NeverStranded
  <1>6. BilledWithinTerm'
    <2>1. invoices' \subseteq invoices
      BY DEF CancelCommit
    <2> QED BY <1>3, <1>4, <2>1 DEF TermInv, BilledWithinTerm
  <1>7. CancelRestores'
    BY DEF CancelCommit, TermInv, TypeOK, CancelRestores, RestoredNextDue, Idle
  <1> QED BY <1>5, <1>6, <1>7 DEF TermInv

LEMMA TermStep == TermInv /\ [Next]_vars => TermInv'
  <1> SUFFICES ASSUME TermInv, [Next]_vars PROVE TermInv'
    OBVIOUS
  <1>1. TypeOK'
    BY TypeStep DEF TermInv
  <1> USE DEF rows
  <1>2. handler \in [Clerks -> Handlers]
    BY DEF TermInv, TypeOK
  <1>3. ASSUME NEW c \in Clerks,
               GenerateRead(c) \/ StatusRead(c) \/ DayEndRead(c) \/ RequestFails(c)
        PROVE  TermInv'
    <2>1. UNCHANGED <<invoices, schedule>>
      BY <1>3 DEF GenerateRead, StatusRead, DayEndRead, RequestFails
    <2>2. \A d \in Clerks : handler'[d].op = "cancel" => handler'[d] = handler[d]
      BY <1>2, <1>3 DEF GenerateRead, StatusRead, DayEndRead, RequestFails, Idle
    <2> QED BY <1>1, <2>1, <2>2, TermFrame
  <1>4. ASSUME NEW c \in Clerks, GenerateSkip(c) \/ GenerateRollback(c)
        PROVE  TermInv'
    <2>1. handler[c] \in GenerateRequest
      BY <1>2, <1>4, RequestKind DEF GenerateSkip, GenerateRollback
    <2>2. \A d : Tried(c, d).op # "cancel"
      BY <2>1 DEF Tried, GenerateRequest, Idle
    <2> QED BY <1>1, <1>2, <1>4, <2>2, TermFrame DEF GenerateSkip, GenerateRollback
  <1>5. ASSUME NEW c \in Clerks, GenerateBill(c) PROVE TermInv'
    BY <1>1, <1>5, TermBill
  <1>6. ASSUME NEW c \in Clerks, CancelRead(c) PROVE TermInv'
    <2>1. PICK i \in invoices :
            handler' = [handler EXCEPT ![c] =
              [op |-> "cancel", checked |-> FALSE, invoice |-> i,
               due |-> schedule[i.sched].nextDueDate]]
      BY <1>6 DEF CancelRead
    <2>2. CancelRestores'
      BY <1>2, <2>1 DEF TermInv, BilledWithinTerm, CancelRestores, RestoredNextDue
    <2> QED BY <1>1, <1>6, <2>2 DEF CancelRead, TermInv, NeverStranded, BilledWithinTerm
  <1>7. ASSUME NEW c \in Clerks, CancelCheck(c) PROVE TermInv'
    <2>1. handler[c] \in CancelRequest
      BY <1>2, <1>7, RequestKind DEF CancelCheck
    <2>2. \/ handler'[c] = Idle
          \/ /\ handler'[c].op = handler[c].op
             /\ handler'[c].invoice = handler[c].invoice
             /\ handler'[c].due = handler[c].due
             /\ RestoredNextDue(handler[c].invoice, handler[c].due) # NoDate
      BY <1>2, <1>7, <2>1 DEF CancelCheck, CancelRequest
    <2>3. \A d \in Clerks \ {c} : handler'[d] = handler[d]
      BY <1>2, <1>7 DEF CancelCheck
    <2>4. CancelRestores'
      <3> DEFINE Restores(h) ==
            h.op = "cancel" =>
              /\ h.invoice.invoiceYearSeq <= Total[h.invoice.sched]
              /\ h.checked => RestoredNextDue(h.invoice, h.due) # NoDate
      <3>1. \A d \in Clerks : Restores(handler[d])
        BY DEF TermInv, CancelRestores
      <3>2. Restores(handler'[c])
        BY <2>2, <3>1 DEF Idle
      <3>3. \A d \in Clerks : Restores(handler'[d])
        BY <2>3, <3>1, <3>2
      <3> QED BY <3>3 DEF CancelRestores, RestoredNextDue
    <2> QED BY <1>1, <1>7, <2>4 DEF CancelCheck, TermInv, NeverStranded, BilledWithinTerm
  <1>8. ASSUME NEW c \in Clerks, CancelCommit(c) PROVE TermInv'
    BY <1>1, <1>8, TermCancel
  <1>9. ASSUME NEW c \in Clerks, StatusCommit(c) PROVE TermInv'
    <2>1. \A s \in Schedules :
            /\ schedule'[s].nextDueDate = schedule[s].nextDueDate
            /\ schedule'[s].invoicesIssued = schedule[s].invoicesIssued
      BY <1>9 DEF StatusCommit, TermInv, TypeOK, ScheduleRow
    <2>2. CancelRestores'
      BY <1>2, <1>9 DEF StatusCommit, TermInv, CancelRestores, RestoredNextDue, Idle
    <2> QED BY <1>1, <1>9, <2>1, <2>2
            DEF StatusCommit, TermInv, NeverStranded, BilledWithinTerm
  <1>10. ASSUME NEW c \in Clerks, DayEndWrite(c) PROVE TermInv'
    <2>1. handler[c] \in DayEndRequest
      BY <1>2, <1>10, RequestKind DEF DayEndWrite
    <2>2. handler'[c].op # "cancel"
      BY <1>2, <1>10, <2>1 DEF DayEndWrite, DayEndRequest
    <2> QED BY <1>1, <1>2, <1>10, <2>2, TermFrame DEF DayEndWrite
  <1>11. ASSUME NEW c \in Clerks, DayEndMark(c) PROVE TermInv'
    <2>1. \A j \in invoices' : \E i \in invoices : /\ j.sched = i.sched
                                                   /\ j.invoiceYearSeq = i.invoiceYearSeq
      BY <1>11 DEF DayEndMark, MarkProcessed, TermInv, TypeOK, InvoiceRow
    <2>2. BilledWithinTerm' /\ NeverStranded'
      BY <1>11, <2>1 DEF DayEndMark, TermInv, BilledWithinTerm, NeverStranded
    <2>3. CancelRestores'
      BY <1>2, <1>11 DEF DayEndMark, TermInv, CancelRestores, RestoredNextDue, Idle
    <2> QED BY <1>1, <2>2, <2>3 DEF TermInv
  <1>12. CASE Crash
    BY <1>1, <1>12 DEF Crash, Idle, TermInv, NeverStranded, BilledWithinTerm, CancelRestores
  <1>13. CASE UNCHANGED vars
    BY <1>1, <1>13, TermFrame DEF vars
  <1> QED BY <1>3, <1>4, <1>5, <1>6, <1>7, <1>8, <1>9, <1>10, <1>11, <1>12, <1>13
          DEF Next, Request, Continue

(* No mix of stale generates, cancellations, status changes and crashes    *)
(* leaves a schedule with years to bill and no due date to bill them on.   *)
THEOREM NoScheduleStranded == Spec => []NeverStranded
  <1>1. TermInv => NeverStranded
    BY DEF TermInv
  <1> QED BY <1>1, TermInit, TermStep, PTL DEF Spec

(* "Never bill beyond the agreement's term": no invoice set is for a year  *)
(* past totalInvoices, whatever the interleaving.                          *)
THEOREM NoYearPastTerm == Spec => []BilledWithinTerm
  <1>1. TermInv => BilledWithinTerm
    BY DEF TermInv
  <1> QED BY <1>1, TermInit, TermStep, PTL DEF Spec
-----------------------------------------------------------------------------
(***************************************************************************)
(* Day end.  It reads the invoices of a day, writes the file from them and *)
(* then marks whatever is unprocessed on that day.  Cancellations between  *)
(* only take some away; an invoice billed between would be marked without  *)
(* having been in the file, so the argument needs that none is.            *)
(***************************************************************************)
NoneBilledMeanwhile ==
  \A c \in Clerks, i \in invoices' \ invoices :
    handler[c].op = "dayend" => i.isProcessed \/ i.invDate # handler[c].period

(* The unprocessed invoices of the day are among those the request found,  *)
(* and those were in a file once the request has written it.               *)
FoundCovers ==
  \A c \in Clerks : handler[c].op = "dayend" =>
    /\ Unprocessed(handler[c].period) \subseteq handler[c].found
    /\ handler[c].written => \A i \in handler[c].found : i.id \in exported

ExportInv == TypeOK /\ ProcessedWasExported /\ FoundCovers

LEMMA ExportInit == Init => ExportInv
  BY TypeInit DEF Init, ExportInv, ProcessedWasExported, FoundCovers, MigratedInvoice, Idle

(* Steps that bill nothing for a day that is being ended, mark nothing and *)
(* start or advance no day end.                                            *)
LEMMA ExportFrame ==
  ASSUME ExportInv, TypeOK', exported' = exported,
         \A i \in invoices' \ invoices : ~i.isProcessed,
         NoneBilledMeanwhile,
         \A d \in Clerks : handler'[d].op = "dayend" => handler'[d] = handler[d]
  PROVE  ExportInv'
  <1>1. ProcessedWasExported'
    BY DEF ExportInv, ProcessedWasExported
  <1>2. FoundCovers'
    BY DEF ExportInv, FoundCovers, Unprocessed, NoneBilledMeanwhile
  <1> QED BY <1>1, <1>2 DEF ExportInv

LEMMA ExportMark ==
  ASSUME ExportInv, TypeOK', NEW c \in Clerks, DayEndMark(c)
  PROVE  ExportInv'
  <1> DEFINE p == handler[c].period
  <1>1. /\ invoices' = MarkProcessed(p) /\ exported' = exported
        /\ handler[c].op = "dayend" /\ handler[c].written
    BY DEF DayEndMark
  <1>2. \A j \in invoices' : \/ j \in invoices /\ j.invDate # p
                             \/ /\ j.isProcessed
                                /\ \E i \in invoices : i.invDate = p /\ i.id = j.id
    <2> SUFFICES ASSUME NEW i \in invoices
                 PROVE  /\ [i EXCEPT !.isProcessed = TRUE].isProcessed
                        /\ [i EXCEPT !.isProcessed = TRUE].id = i.id
      BY <1>1 DEF MarkProcessed
    <2> QED BY DEF ExportInv, TypeOK, InvoiceRow
  <1>3. \A i \in invoices : i.invDate = p => i.id \in exported
    BY <1>1 DEF ExportInv, ProcessedWasExported, FoundCovers, Unprocessed
  <1>4. ProcessedWasExported'
    BY <1>1, <1>2, <1>3 DEF ExportInv, ProcessedWasExported
  <1>5. \A d \in Clerks : handler'[d].op = "dayend" => handler'[d] = handler[d]
    BY DEF DayEndMark, ExportInv, TypeOK, Idle
  <1>6. FoundCovers'
    BY <1>1, <1>2, <1>5 DEF ExportInv, FoundCovers, Unprocessed
  <1> QED BY <1>4, <1>6 DEF ExportInv

LEMMA ExportStep ==
  ASSUME ExportInv, [Next]_vars, [NoneBilledMeanwhile]_vars
  PROVE  ExportInv'
  <1>1. TypeOK'
    BY TypeStep DEF ExportInv
  <1> USE DEF rows
  <1>2. handler \in [Clerks -> Handlers]
    BY DEF ExportInv, TypeOK
  <1>3. CASE UNCHANGED vars
    BY <1>1, <1>3 DEF vars, ExportInv, ProcessedWasExported, FoundCovers, Unprocessed
  <1>4. CASE Next /\ NoneBilledMeanwhile
    <2>1. ASSUME NEW c \in Clerks,
                 \/ GenerateRead(c) \/ CancelRead(c) \/ StatusRead(c)
                 \/ StatusCommit(c) \/ RequestFails(c) \/ CancelCommit(c)
          PROVE  ExportInv'
      <3>1. invoices' \subseteq invoices /\ exported' = exported
        BY <2>1 DEF GenerateRead, CancelRead, StatusRead, StatusCommit, RequestFails, CancelCommit
      <3>2. \A d \in Clerks : handler'[d].op = "dayend" => handler'[d] = handler[d]
        BY <1>2, <2>1 DEF GenerateRead, CancelRead, StatusRead, StatusCommit, RequestFails,
                          CancelCommit, Idle
      <3> QED BY <1>1, <1>4, <3>1, <3>2, ExportFrame
    <2>2. ASSUME NEW c \in Clerks, GenerateSkip(c) \/ GenerateRollback(c) \/ CancelCheck(c)
          PROVE  ExportInv'
      <3>1. UNCHANGED <<invoices, exported>>
        BY <2>2 DEF GenerateSkip, GenerateRollback, CancelCheck
      <3>2. handler[c] \in GenerateRequest \/ handler[c] \in CancelRequest
        BY <1>2, <2>2, RequestKind DEF GenerateSkip, GenerateRollback, CancelCheck
      <3>3. handler'[c].op # "dayend"
        <4>1. handler[c] \in GenerateRequest => \A d : Tried(c, d).op # "dayend"
          BY DEF Tried, GenerateRequest, Idle
        <4>2. CASE CancelCheck(c)
          BY <1>2, <3>2, <4>2 DEF CancelCheck, CancelRequest, GenerateRequest, Idle
        <4>3. CASE GenerateSkip(c) \/ GenerateRollback(c)
          BY <1>2, <3>2, <4>1, <4>3 DEF GenerateSkip, GenerateRollback, CancelRequest
        <4> QED BY <2>2, <4>2, <4>3
      <3>4. \A d \in Clerks \ {c} : handler'[d] = handler[d]
        BY <1>2, <2>2 DEF GenerateSkip, GenerateRollback, CancelCheck
      <3> QED BY <1>1, <1>4, <3>1, <3>3, <3>4, ExportFrame
    <2>3. ASSUME NEW c \in Clerks, GenerateBill(c) PROVE ExportInv'
      <3>1. PICK d, n : /\ invoices' = invoices \cup {NewSet(d, n, handler[c].period)}
                        /\ handler' = [handler EXCEPT ![c] = Tried(c, d)]
        BY <2>3 DEF GenerateBill
      <3>2. handler[c] \in GenerateRequest /\ exported' = exported
        BY <1>2, <2>3, RequestKind DEF GenerateBill
      <3>3. Tried(c, d).op # "dayend"
        BY <3>2 DEF Tried, GenerateRequest, Idle
      <3>4. ~NewSet(d, n, handler[c].period).isProcessed
        BY DEF NewSet
      <3>5. \A e \in Clerks : handler'[e].op = "dayend" => handler'[e] = handler[e]
        BY <1>2, <3>1, <3>3
      <3> QED BY <1>1, <1>4, <3>1, <3>2, <3>4, <3>5, ExportFrame
    <2>4. ASSUME NEW c \in Clerks, DayEndRead(c) PROVE ExportInv'
      <3>1. PICK p \in Periods :
              handler' = [handler EXCEPT ![c] =
                [op |-> "dayend", written |-> FALSE, period |-> p, found |-> Unprocessed(p)]]
        BY <2>4 DEF DayEndRead
      <3>2. FoundCovers'
        BY <1>2, <2>4, <3>1 DEF DayEndRead, ExportInv, FoundCovers, Unprocessed
      <3> QED BY <1>1, <2>4, <3>2 DEF DayEndRead, ExportInv, ProcessedWasExported
    <2>5. ASSUME NEW c \in Clerks, DayEndWrite(c) PROVE ExportInv'
      <3>1. handler[c] \in DayEndRequest
        BY <1>2, <2>5, RequestKind DEF DayEndWrite
      <3>2. /\ handler'[c].found = handler[c].found /\ handler'[c].period = handler[c].period
            /\ \A d \in Clerks \ {c} : handler'[d] = handler[d]
        BY <1>2, <2>5, <3>1 DEF DayEndWrite, DayEndRequest
      <3>3. /\ exported' = exported \cup {i.id : i \in handler[c].found}
            /\ invoices' = invoices /\ handler[c].op = "dayend"
        BY <2>5 DEF DayEndWrite
      <3>4. FoundCovers'
        BY <3>2, <3>3 DEF ExportInv, FoundCovers, Unprocessed
      <3> QED BY <1>1, <3>3, <3>4 DEF ExportInv, ProcessedWasExported
    <2>6. ASSUME NEW c \in Clerks, DayEndMark(c) PROVE ExportInv'
      BY <1>1, <2>6, ExportMark
    <2>7. CASE Crash
      <3>1. /\ invoices' = invoices /\ exported' = exported
            /\ \A d \in Clerks : handler'[d].op # "dayend"
        BY <2>7 DEF Crash, Idle
      <3> QED BY <1>1, <1>4, <3>1, ExportFrame
    <2> QED BY <1>4, <2>1, <2>2, <2>3, <2>4, <2>5, <2>6, <2>7 DEF Next, Request, Continue
  <1> QED BY <1>3, <1>4

(* An invoice marked as processed went into some SL_IV file, whatever else *)
(* the clerks do and through every crash, if none is billed for a day      *)
(* while that day is being ended.                                          *)
THEOREM MarkedWasInFile ==
  Spec /\ [][NoneBilledMeanwhile]_vars => []ProcessedWasExported
  <1>1. ExportInv /\ [Next]_vars /\ [NoneBilledMeanwhile]_vars => ExportInv'
    BY ExportStep
  <1>2. ExportInv => ProcessedWasExported
    BY DEF ExportInv
  <1> QED BY <1>1, <1>2, ExportInit, PTL DEF Spec

(* Clerks who take turns never bill during a day end.                      *)
OneAtATime == \A c, d \in Clerks : c = d

(* So with one request at a time an invoice marked as processed is always  *)
(* in a file, whichever request crashes after which step.                  *)
THEOREM ProcessedInTurn ==
  ASSUME OneAtATime
  PROVE  Spec => []ProcessedWasExported
  <1>1. TypeOK /\ [Next]_vars => [NoneBilledMeanwhile]_vars
    <2> SUFFICES ASSUME TypeOK, Next, NEW c \in Clerks, NEW i \in invoices' \ invoices,
                        handler[c].op = "dayend"
                 PROVE  i.isProcessed \/ i.invDate # handler[c].period
      BY DEF NoneBilledMeanwhile
    <2>1. ASSUME NEW d \in Clerks, Request(d) \/ Continue(d)
          PROVE  i.isProcessed
      <3>1. d = c
        BY DEF OneAtATime
      <3>2. CASE DayEndMark(d)
        <4>1. i \in MarkProcessed(handler[c].period)
          BY <3>1, <3>2 DEF DayEndMark
        <4>2. PICK j \in invoices : i = [j EXCEPT !.isProcessed = TRUE]
          BY <4>1 DEF MarkProcessed
        <4> QED BY <4>2 DEF TypeOK, InvoiceRow
      <3>3. CASE ~DayEndMark(d)
        BY <2>1, <3>1, <3>3
           DEF Request, Continue, GenerateRead, CancelRead, StatusRead, DayEndRead, GenerateSkip,
               GenerateBill, GenerateRollback, CancelCheck, CancelCommit, StatusCommit,
               DayEndWrite, RequestFails, Idle, rows
      <3> QED BY <3>2, <3>3
    <2>2. CASE Crash
      BY <2>2 DEF Crash, rows
    <2> QED BY <2>1, <2>2 DEF Next
  <1> QED BY <1>1, TypeCorrect, MarkedWasInFile, PTL DEF Spec
=============================================================================
