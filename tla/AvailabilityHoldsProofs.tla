----------------------- MODULE AvailabilityHoldsProofs -----------------------
(***************************************************************************)
(* What holds of maintenance, the RCI bank and the availability numbers of *)
(* a resort for every set of units, types, days and clerks.  Every guard   *)
(* of these requests is tested before the write it guards; each theorem    *)
(* says between which requests nobody else may come for its guard to be    *)
(* still true, and lets everyone else work at the same time.               *)
(***************************************************************************)
EXTENDS AvailabilityGridProofs

(* Requests.  What a request is made of from the moment it is accepted.    *)
WellFormed(h) ==
  /\ h.op \in {"deleteBlock", "updateMaint", "deleteMaint", "deleteBank"} => h.units = {}
  /\ h.op \in {"addBlock", "addMaint"} => h.rows = {}
  /\ h.op \in {"deleteBlock", "deleteMaint", "deleteBank"} => h.ranges = {}
  /\ h.op \in {"addBlock", "updateMaint"} => \E days \in Ranges : h.ranges = {days}
  /\ h.op \in {"addMaint", "saveBank"} =>
       /\ (\E u \in Units : h.units = {u}) /\ h.fresh = {}
       /\ \A days, more \in h.ranges : days # more => days \cap more = {}
  /\ h.op \in {"deleteBlock", "updateMaint", "deleteMaint"} =>
       \E r \in Row : h.rows = {r} /\ r.type = h.type

WorkInv ==
  /\ GridInv
  /\ \A c \in Clerks : handler[c].op # "idle" =>
       handler[c].op \in Ops[c] /\ WellFormed(handler[c])

(* One request of clerk c is accepted, read the grid, or was answered.     *)
Others(c) == \A d \in Clerks \ {c} : handler'[d] = handler[d]

Accepted(c, h) ==
  /\ unitType' = unitType /\ blocks' = blocks /\ maint' = maint /\ bank' = bank
  /\ act' = act /\ bal' = bal /\ retyped' = retyped /\ renamed' = renamed
  /\ handler[c].op = "idle" /\ h.op \in Ops[c] /\ WellFormed(h) /\ h.snap = NoSnap
  /\ handler'[c] = h /\ Others(c)

LEMMA AskAccepts ==
  ASSUME GridInv, NEW c \in Clerks, NEW h, Ask(c, h), WellFormed(h), h.snap = NoSnap
  PROVE  Accepted(c, h)
  BY IdleTyped DEF GridInv, TypeOK, Ask, tables, Accepted, Others

LEMMA Answered ==
  ASSUME GridInv, NEW c \in Clerks, Answer(c)
  PROVE  handler'[c].op = "idle" /\ Others(c)
  BY IdleTyped DEF GridInv, TypeOK, Answer, Others

LEMMA GridWasRead ==
  ASSUME GridInv, NEW c \in Clerks, GridRead(c)
  PROVE  /\ unitType' = unitType /\ blocks' = blocks /\ maint' = maint /\ bank' = bank
         /\ act' = act /\ bal' = bal /\ retyped' = retyped /\ renamed' = renamed
         /\ handler'[c].op = handler[c].op /\ handler'[c].type = handler[c].type
         /\ handler'[c].units = handler[c].units /\ handler'[c].fresh = handler[c].fresh
         /\ handler'[c].ranges = handler[c].ranges /\ handler'[c].rows = handler[c].rows
         /\ \A d \in Days : /\ handler'[c].snap.act[d] = act[handler[c].type, d]
                            /\ handler'[c].snap.bal[d] = bal[handler[c].type, d]
         /\ Others(c)
  <1> DEFINE h == handler[c]
             snap == [act |-> [d \in Days |-> act[h.type, d]],
                      bal |-> [d \in Days |-> bal[h.type, d]]]
             g == [h EXCEPT !.snap = snap]
  <1>1. h \in Requests
    BY RequestAtWork DEF GridRead, GridInv
  <1>2. handler' = [handler EXCEPT ![c] = g]
    BY DEF GridRead, GridInv, TypeOK
  <1>3. /\ g.op = h.op /\ g.type = h.type /\ g.units = h.units /\ g.fresh = h.fresh
        /\ g.ranges = h.ranges /\ g.rows = h.rows /\ g.snap = snap
    BY <1>1 DEF Requests
  <1>4. \A d \in Days : snap.act[d] = act[h.type, d] /\ snap.bal[d] = bal[h.type, d]
    OBVIOUS
  <1> HIDE DEF g, snap
  <1>5. handler'[c] = g /\ Others(c)
    BY <1>2 DEF GridInv, TypeOK, Others
  <1> QED BY <1>3, <1>4, <1>5 DEF GridRead, tables

(* The eight requests that pass their guards.                              *)
LEMMA UnitDeleteAsked ==
  ASSUME GridInv, NEW c \in Clerks, UnitDeleteAsk(c)
  PROVE  \E u \in Units : \E h :
           /\ Accepted(c, h) /\ h.op = "deleteUnit" /\ h.units = {u}
           /\ unitType[u] # NoType /\ \A r \in Rows : r.unit # u
  <1>1. PICK u \in Units : /\ unitType[u] # NoType /\ \A r \in Rows : r.unit # u
                           /\ Ask(c, [Idle EXCEPT !.op = "deleteUnit", !.units = {u}])
    BY DEF UnitDeleteAsk
  <1> DEFINE h == [Idle EXCEPT !.op = "deleteUnit", !.units = {u}]
  <1>2. h.op = "deleteUnit" /\ h.units = {u} /\ h.snap = NoSnap
    BY DEF Idle
  <1>3. Ask(c, h)
    BY <1>1
  <1> HIDE DEF h
  <1>4. Accepted(c, h)
    BY <1>2, <1>3, AskAccepts DEF WellFormed
  <1> QED BY <1>1, <1>2, <1>4

LEMMA BlockAsked ==
  ASSUME GridInv, NEW c \in Clerks, BlockCreateAsk(c) \/ BlockBatchAsk(c)
  PROVE  \E days \in Ranges : \E h :
           /\ Accepted(c, h) /\ h.op = "addBlock" /\ h.ranges = {days}
           /\ h.units \subseteq Units
           /\ \A u \in h.units : unitType[u] = NoType <=> u \in h.fresh
           /\ \A u \in h.units \ h.fresh : unitType[u] = h.type
  <1>1. CASE BlockCreateAsk(c)
    <2>1. PICK u \in Units, days \in Ranges :
            /\ unitType[u] # NoType
            /\ Ask(c, [Idle EXCEPT !.op = "addBlock", !.units = {u},
                                   !.type = unitType[u], !.ranges = {days}])
      BY <1>1 DEF BlockCreateAsk
    <2> DEFINE h == [Idle EXCEPT !.op = "addBlock", !.units = {u},
                                 !.type = unitType[u], !.ranges = {days}]
    <2>2. /\ h.op = "addBlock" /\ h.units = {u} /\ h.type = unitType[u]
          /\ h.ranges = {days} /\ h.rows = {} /\ h.fresh = {} /\ h.snap = NoSnap
      BY DEF Idle
    <2>3. Ask(c, h)
      BY <2>1
    <2> HIDE DEF h
    <2>4. Accepted(c, h)
      BY <2>2, <2>3, AskAccepts DEF WellFormed
    <2> QED BY <2>1, <2>2, <2>4
  <1>2. CASE BlockBatchAsk(c)
    <2>1. PICK units \in Batches, t \in Types, days \in Ranges :
            /\ \A u \in units : unitType[u] \in {t, NoType}
            /\ Ask(c, [Idle EXCEPT !.op = "addBlock", !.units = units,
                                   !.fresh = {u \in units : unitType[u] = NoType},
                                   !.type = t, !.ranges = {days}])
      BY <1>2 DEF BlockBatchAsk
    <2> DEFINE h == [Idle EXCEPT !.op = "addBlock", !.units = units,
                                 !.fresh = {u \in units : unitType[u] = NoType},
                                 !.type = t, !.ranges = {days}]
    <2>2. /\ h.op = "addBlock" /\ h.units = units /\ h.type = t
          /\ h.ranges = {days} /\ h.rows = {} /\ h.snap = NoSnap
          /\ h.fresh = {u \in units : unitType[u] = NoType}
      BY DEF Idle
    <2>3. Ask(c, h)
      BY <2>1
    <2> HIDE DEF h
    <2>4. Accepted(c, h)
      BY <2>2, <2>3, AskAccepts DEF WellFormed
    <2>5. units \subseteq Units
      BY UnitsAssumption
    <2> QED BY <2>1, <2>2, <2>4, <2>5
  <1> QED BY <1>1, <1>2

LEMMA BlockDeleteAsked ==
  ASSUME GridInv, NEW c \in Clerks, BlockDeleteAsk(c)
  PROVE  \E b \in blocks : \E h :
           /\ Accepted(c, h) /\ h.op = "deleteBlock" /\ h.rows = {b} /\ h.type = b.type
           /\ At(maint, b.unit, b.days) = {} /\ At(bank, b.unit, b.days) = {}
  <1>1. PICK b \in blocks :
          /\ ~maintenanceWithin(b.unit, b.days)
          /\ ~bulkBankWithin(b.unit, b.days)
          /\ Ask(c, [Idle EXCEPT !.op = "deleteBlock", !.type = b.type, !.rows = {b}])
    BY DEF BlockDeleteAsk
  <1> DEFINE h == [Idle EXCEPT !.op = "deleteBlock", !.type = b.type, !.rows = {b}]
  <1>2. /\ h.op = "deleteBlock" /\ h.units = {} /\ h.type = b.type
        /\ h.ranges = {} /\ h.rows = {b} /\ h.snap = NoSnap
    BY DEF Idle
  <1>3. Ask(c, h) /\ b \in Row
    BY <1>1 DEF GridInv, TypeOK
  <1> HIDE DEF h
  <1>4. Accepted(c, h)
    BY <1>2, <1>3, AskAccepts DEF WellFormed
  <1> QED BY <1>1, <1>2, <1>4 DEF maintenanceWithin, bulkBankWithin

LEMMA MaintCreateAsked ==
  ASSUME GridInv, NEW c \in Clerks, MaintCreateAsk(c)
  PROVE  \E u \in Units : \E h :
           /\ Accepted(c, h) /\ h.op = "addMaint" /\ h.units = {u}
           /\ h.type = unitType[u] /\ unitType[u] # NoType
           /\ checkAvailability(u, h.ranges)
  <1>1. PICK u \in Units, ranges \in SUBSET Ranges :
          /\ \A r1, r2 \in ranges : r1 # r2 => r1 \cap r2 = {}
          /\ unitType[u] # NoType
          /\ checkAvailability(u, ranges)
          /\ Ask(c, [Idle EXCEPT !.op = "addMaint", !.units = {u},
                                 !.type = unitType[u], !.ranges = ranges])
    BY DEF MaintCreateAsk
  <1> DEFINE h == [Idle EXCEPT !.op = "addMaint", !.units = {u},
                               !.type = unitType[u], !.ranges = ranges]
  <1>2. /\ h.op = "addMaint" /\ h.units = {u} /\ h.type = unitType[u]
        /\ h.ranges = ranges /\ h.rows = {} /\ h.fresh = {} /\ h.snap = NoSnap
    BY DEF Idle
  <1>3. Ask(c, h)
    BY <1>1
  <1> HIDE DEF h
  <1>4. Accepted(c, h)
    BY <1>1, <1>2, <1>3, AskAccepts DEF WellFormed
  <1> QED BY <1>1, <1>2, <1>4

LEMMA MaintUpdateAsked ==
  ASSUME GridInv, NEW c \in Clerks, MaintUpdateAsk(c)
  PROVE  \E m \in maint, days \in Ranges : \E h :
           /\ Accepted(c, h) /\ h.op = "updateMaint" /\ h.rows = {m}
           /\ h.type = m.type /\ h.ranges = {days}
           /\ checkAvailability(m.unit, {days})
           /\ At(maint \ {m}, m.unit, days) = {} /\ At(bank, m.unit, days) = {}
  <1>1. PICK m \in maint, days \in Ranges :
          /\ checkAvailability(m.unit, {days})
          /\ At(maint \ {m}, m.unit, days) = {}
          /\ ~bulkBankOverlap(m.unit, days)
          /\ Ask(c, [Idle EXCEPT !.op = "updateMaint", !.type = m.type,
                                 !.ranges = {days}, !.rows = {m}])
    BY DEF MaintUpdateAsk
  <1> DEFINE h == [Idle EXCEPT !.op = "updateMaint", !.type = m.type,
                               !.ranges = {days}, !.rows = {m}]
  <1>2. /\ h.op = "updateMaint" /\ h.units = {} /\ h.type = m.type
        /\ h.ranges = {days} /\ h.rows = {m} /\ h.snap = NoSnap
    BY DEF Idle
  <1>3. Ask(c, h) /\ m \in Row
    BY <1>1 DEF GridInv, TypeOK
  <1> HIDE DEF h
  <1>4. Accepted(c, h)
    BY <1>2, <1>3, AskAccepts DEF WellFormed
  <1> QED BY <1>1, <1>2, <1>4 DEF bulkBankOverlap

LEMMA MaintDeleteAsked ==
  ASSUME GridInv, NEW c \in Clerks, MaintDeleteAsk(c)
  PROVE  \E m \in maint : \E h :
           Accepted(c, h) /\ h.op = "deleteMaint" /\ h.rows = {m} /\ h.type = m.type
  <1>1. PICK m \in maint :
          Ask(c, [Idle EXCEPT !.op = "deleteMaint", !.type = m.type, !.rows = {m}])
    BY DEF MaintDeleteAsk
  <1> DEFINE h == [Idle EXCEPT !.op = "deleteMaint", !.type = m.type, !.rows = {m}]
  <1>2. /\ h.op = "deleteMaint" /\ h.units = {} /\ h.type = m.type
        /\ h.ranges = {} /\ h.rows = {m} /\ h.snap = NoSnap
    BY DEF Idle
  <1>3. Ask(c, h) /\ m \in Row
    BY <1>1 DEF GridInv, TypeOK
  <1> HIDE DEF h
  <1>4. Accepted(c, h)
    BY <1>2, <1>3, AskAccepts DEF WellFormed
  <1> QED BY <1>1, <1>2, <1>4

LEMMA BankSaveAsked ==
  ASSUME GridInv, NEW c \in Clerks, BankSaveAsk(c)
  PROVE  \E u \in Units : \E h :
           /\ Accepted(c, h) /\ h.op = "saveBank" /\ h.units = {u}
           /\ h.type = unitType[u] /\ unitType[u] # NoType
           /\ h.rows \subseteq bank /\ \A r \in h.rows : r.unit = u
           /\ h.ranges \subseteq Weeks /\ \A week \in h.ranges : CanBank(u, week, h.rows)
  <1>1. PICK u \in Units, creates \in SUBSET Weeks, deletes \in SUBSET bank :
          /\ unitType[u] # NoType
          /\ \A r \in deletes : r.unit = u
          /\ \A week \in creates : CanBank(u, week, deletes)
          /\ Ask(c, [Idle EXCEPT !.op = "saveBank", !.units = {u}, !.type = unitType[u],
                                 !.ranges = creates, !.rows = deletes])
    BY DEF BankSaveAsk
  <1> DEFINE h == [Idle EXCEPT !.op = "saveBank", !.units = {u}, !.type = unitType[u],
                               !.ranges = creates, !.rows = deletes]
  <1>2. /\ h.op = "saveBank" /\ h.units = {u} /\ h.type = unitType[u]
        /\ h.ranges = creates /\ h.rows = deletes /\ h.fresh = {} /\ h.snap = NoSnap
    BY DEF Idle
  <1>3. Ask(c, h)
    BY <1>1
  <1> HIDE DEF h
  <1>4. \A days, more \in creates : days # more => days \cap more = {}
    BY WeeksAssumption
  <1>5. Accepted(c, h)
    BY <1>2, <1>3, <1>4, AskAccepts DEF WellFormed
  <1> QED BY <1>1, <1>2, <1>5

LEMMA BankYearDeleteAsked ==
  ASSUME GridInv, NEW c \in Clerks, BankYearDeleteAsk(c)
  PROVE  \E u \in Units, first \in bank : \E h :
           /\ Accepted(c, h) /\ h.op = "deleteBank"
           /\ h.rows = {r \in bank : r.unit = u}
           /\ first \in h.rows /\ h.type = first.type
  <1>1. PICK u \in Units, first \in bank :
          /\ first.unit = u
          /\ Ask(c, [Idle EXCEPT !.op = "deleteBank", !.type = first.type,
                                 !.rows = {r \in bank : r.unit = u}])
    BY DEF BankYearDeleteAsk
  <1> DEFINE rows == {r \in bank : r.unit = u}
             h == [Idle EXCEPT !.op = "deleteBank", !.type = first.type, !.rows = rows]
  <1>2. first \in rows /\ Ask(c, h)
    BY <1>1
  <1>3. /\ h.op = "deleteBank" /\ h.units = {} /\ h.type = first.type
        /\ h.ranges = {} /\ h.rows = rows /\ h.snap = NoSnap
    <2> HIDE DEF rows
    <2> QED BY DEF Idle
  <1> HIDE DEF h
  <1>4. Accepted(c, h)
    BY <1>2, <1>3, AskAccepts DEF WellFormed
  <1> QED BY <1>2, <1>3, <1>4

(* Whoever passed the guards of a request may make it, and it stays what   *)
(* it was when it was accepted.                                            *)
LEMMA WorkFrame ==
  ASSUME WorkInv, GridInv', NEW c \in Clerks, Others(c),
         handler'[c].op # "idle" => handler'[c].op \in Ops[c] /\ WellFormed(handler'[c])
  PROVE  WorkInv'
  <1> SUFFICES ASSUME NEW d \in Clerks, handler'[d].op # "idle"
               PROVE  handler'[d].op \in Ops[d] /\ WellFormed(handler'[d])
    BY DEF WorkInv, WellFormed
  <1>1. CASE d = c
    BY <1>1
  <1>2. CASE d # c
    BY <1>2 DEF WorkInv, Others
  <1> QED BY <1>1, <1>2

LEMMA Asked ==
  ASSUME GridInv, NEW c \in Clerks,
         \/ UnitDeleteAsk(c) \/ BlockCreateAsk(c) \/ BlockBatchAsk(c) \/ BlockDeleteAsk(c)
         \/ MaintCreateAsk(c) \/ MaintUpdateAsk(c) \/ MaintDeleteAsk(c)
         \/ BankSaveAsk(c) \/ BankYearDeleteAsk(c)
  PROVE  \E h : Accepted(c, h)
  BY UnitDeleteAsked, BlockAsked, BlockDeleteAsked, MaintCreateAsked, MaintUpdateAsked,
     MaintDeleteAsked, BankSaveAsked, BankYearDeleteAsked

LEMMA Committed ==
  ASSUME GridInv, NEW c \in Clerks,
         \/ BlockCreateCommit(c) \/ BlockDeleteCommit(c)
         \/ MaintCreateCommit(c) \/ MaintUpdateCommit(c) \/ MaintDeleteCommit(c)
         \/ BankCommit(c) \/ Abandon(c)
  PROVE  handler'[c].op = "idle" /\ Others(c)
  <1>1. Answer(c)
    BY DEF BlockCreateCommit, BlockDeleteCommit, MaintCreateCommit, MaintUpdateCommit,
           MaintDeleteCommit, BankCommit, Abandon
  <1> QED BY <1>1, Answered

(* A unit request changes no other request but those to delete the unit.   *)
LEMMA RequestsStay ==
  ASSUME GridInv, NEW c \in Clerks, UnitMove(c), NEW d \in Clerks
  PROVE  handler'[d] = handler[d] \/ handler'[d].op \in {"idle", "deleteUnit"}
  BY UnitsMove, IdleTyped

LEMMA WorkInit == Init => WorkInv
  BY TypeInit, IdleTyped DEF Init, WorkInv

LEMMA WorkStep ==
  ASSUME WorkInv, [Next]_vars
  PROVE  WorkInv'
  <1>1. GridInv /\ GridInv'
    BY TypeStep DEF WorkInv
  <1>2. CASE UNCHANGED vars
    BY <1>1, <1>2 DEF vars, WorkInv, WellFormed
  <1>3. ASSUME NEW c \in Clerks, UnitMove(c) PROVE WorkInv'
    <2> SUFFICES ASSUME NEW d \in Clerks, handler'[d].op # "idle"
                 PROVE  handler'[d].op \in Ops[d] /\ WellFormed(handler'[d])
      BY <1>1 DEF WorkInv, WellFormed
    <2>1. \/ handler'[d] = handler[d]
          \/ handler[d].op = "deleteUnit" /\ handler'[d].op = "deleteUnit"
      BY <1>1, <1>3, UnitsMove, IdleTyped
    <2> QED BY <2>1 DEF WorkInv, WellFormed
  <1>4. ASSUME NEW c \in Clerks,
               \/ UnitDeleteAsk(c) \/ BlockCreateAsk(c) \/ BlockBatchAsk(c) \/ BlockDeleteAsk(c)
               \/ MaintCreateAsk(c) \/ MaintUpdateAsk(c) \/ MaintDeleteAsk(c)
               \/ BankSaveAsk(c) \/ BankYearDeleteAsk(c)
        PROVE  WorkInv'
    <2>1. PICK h : Accepted(c, h)
      BY <1>1, <1>4, Asked
    <2> QED BY <1>1, <2>1, WorkFrame DEF Accepted
  <1>5. ASSUME NEW c \in Clerks, GridRead(c) PROVE WorkInv'
    <2>1. handler[c].op # "idle"
      BY <1>5 DEF GridRead
    <2>2. handler[c].op \in Ops[c] /\ WellFormed(handler[c])
      BY <2>1 DEF WorkInv
    <2>3. handler'[c].op \in Ops[c] /\ WellFormed(handler'[c])
      BY <1>1, <1>5, <2>2, GridWasRead DEF WellFormed
    <2> QED BY <1>1, <1>5, <2>3, GridWasRead, WorkFrame
  <1>6. ASSUME NEW c \in Clerks,
               \/ BlockCreateCommit(c) \/ BlockDeleteCommit(c)
               \/ MaintCreateCommit(c) \/ MaintUpdateCommit(c) \/ MaintDeleteCommit(c)
               \/ BankCommit(c) \/ Abandon(c)
        PROVE  WorkInv'
    BY <1>1, <1>6, Committed, WorkFrame
  <1> QED BY <1>2, <1>3, <1>4, <1>5, <1>6 DEF Next, UnitMove
-----------------------------------------------------------------------------
(* Held once.  A maintenance record is withdrawn, or a week banked, after  *)
(* a search of both tables for the nights in question; what was found must *)
(* still be true when the row is written.  It is as long as one clerk at   *)
(* most withdraws and banks: the others may offer, edit, delete and clear.  *)
Withdrawals == {"addMaint", "updateMaint", "saveBank"}

SingleKeeper ==
  \A c, d \in Clerks :
    Ops[c] \cap Withdrawals # {} /\ Ops[d] \cap Withdrawals # {} => c = d

NightsApart ==
  /\ \A r, s \in maint : r # s /\ r.unit = s.unit => r.days \cap s.days = {}
  /\ \A r, s \in bank : r # s /\ r.unit = s.unit => r.days \cap s.days = {}
  /\ \A r \in maint, s \in bank : r.unit = s.unit => r.days \cap s.days = {}

OneRecordPerId == \A r, s \in maint : r.id = s.id => r = s

(* What request h has found out about the tables ms and bs.                *)
FoundFree(h, ms, bs) ==
  /\ h.op = "addMaint" /\ h.snap # NoSnap =>
       \A u \in h.units, days \in h.ranges : At(ms, u, days) = {} /\ At(bs, u, days) = {}
  /\ h.op = "updateMaint" =>
       \A old \in h.rows, days \in h.ranges :
         /\ \A r \in ms : r.id = old.id => r = old
         /\ At(ms \ {old}, old.unit, days) = {} /\ At(bs, old.unit, days) = {}
  /\ h.op = "saveBank" =>
       \A u \in h.units, week \in h.ranges :
         At(ms, u, week) = {} /\ At(bs \ h.rows, u, week) = {}

HoldInv ==
  /\ WorkInv /\ NightsApart /\ OneRecordPerId
  /\ \A c \in Clerks : FoundFree(handler[c], maint, bank)

LEMMA FoundFreeKeeps ==
  ASSUME NEW h, NEW ms, NEW bs, FoundFree(h, ms, bs),
         NEW less \in SUBSET ms, NEW fewer \in SUBSET bs
  PROVE  FoundFree(h, less, fewer)
  BY DEF FoundFree, At

(* Steps that withdraw and bank nothing.                                   *)
LEMMA HoldFrame ==
  ASSUME HoldInv, WorkInv', maint' \subseteq maint, bank' \subseteq bank,
         NEW c \in Clerks, Others(c), FoundFree(handler'[c], maint', bank')
  PROVE  HoldInv'
  <1>1. NightsApart' /\ OneRecordPerId'
    BY DEF HoldInv, NightsApart, OneRecordPerId
  <1>2. \A d \in Clerks \ {c} : FoundFree(handler'[d], maint', bank')
    BY FoundFreeKeeps DEF HoldInv, Others
  <1> QED BY <1>1, <1>2 DEF HoldInv

(* The rows one save inserts for a unit.                                   *)
LEMMA NewRowsOfUnit ==
  ASSUME FiniteRows, NEW table, IsFiniteSet(table),
         NEW u \in Units, NEW t \in Types, NEW ranges \in SUBSET Ranges
  PROVE  /\ \A r \in NewRows(table, {u}, t, ranges) :
              /\ r.unit = u /\ r.type = t /\ r.days \in ranges /\ r.id[2] = r.unit
              /\ \A s \in table : s.id # r.id
         /\ \A days \in ranges : \E r \in NewRows(table, {u}, t, ranges) : r.days = days
         /\ \A r, s \in NewRows(table, {u}, t, ranges) :
              r.days = s.days \/ r.id = s.id => r = s
  <1>1. \A days \in ranges : /\ NewRow(table, u, t, days).unit = u
                             /\ NewRow(table, u, t, days).type = t
                             /\ NewRow(table, u, t, days).days = days
                             /\ \A s \in table : s.id # NewRow(table, u, t, days).id
    BY NewRowType
  <1>2. \A days \in ranges : \E n : NewRow(table, u, t, days).id = <<n, u, days>>
    BY DEF NewRow
  <1>3. NewRows(table, {u}, t, ranges) = {NewRow(table, u, t, days) : days \in ranges}
    BY DEF NewRows
  <1>4. \A days, more \in ranges :
          NewRow(table, u, t, days).id = NewRow(table, u, t, more).id => days = more
    BY <1>2
  <1>5. ASSUME NEW r \in NewRows(table, {u}, t, ranges)
        PROVE  /\ r.unit = u /\ r.type = t /\ r.days \in ranges /\ r.id[2] = r.unit
               /\ \A s \in table : s.id # r.id
    <2>1. PICK days \in ranges : r = NewRow(table, u, t, days)
      BY <1>3
    <2>2. r.id[2] = u
      BY <1>2, <2>1
    <2> QED BY <1>1, <2>1, <2>2
  <1>6. ASSUME NEW days \in ranges
        PROVE  \E r \in NewRows(table, {u}, t, ranges) : r.days = days
    BY <1>1, <1>3
  <1>7. ASSUME NEW r \in NewRows(table, {u}, t, ranges),
               NEW s \in NewRows(table, {u}, t, ranges),
               r.days = s.days \/ r.id = s.id
        PROVE  r = s
    <2>1. PICK days \in ranges : r = NewRow(table, u, t, days)
      BY <1>3
    <2>2. PICK more \in ranges : s = NewRow(table, u, t, more)
      BY <1>3
    <2>3. days = more
      BY <1>1, <1>4, <1>7, <2>1, <2>2
    <2> QED BY <2>1, <2>2, <2>3
  <1> QED BY <1>5, <1>6, <1>7

(* What makes a save of maintenance or of the bank leave the nights apart. *)
LEMMA OnlyKeeper ==
  ASSUME SingleKeeper, WorkInv, NEW c \in Clerks, handler[c].op \in Withdrawals
  PROVE  \A d \in Clerks \ {c} : handler[d].op \notin Withdrawals
  BY DEF SingleKeeper, WorkInv, Withdrawals

LEMMA HoldCommitted ==
  ASSUME SingleKeeper, HoldInv, WorkInv', NEW c \in Clerks,
         handler[c].op \in Withdrawals, handler'[c].op = "idle", Others(c),
         NightsApart', OneRecordPerId'
  PROVE  HoldInv'
  <1>1. \A d \in Clerks : handler'[d].op \notin Withdrawals
    BY OnlyKeeper DEF HoldInv, Others, Withdrawals
  <1> QED BY <1>1 DEF HoldInv, FoundFree, Withdrawals

LEMMA MaintCreateHeld ==
  ASSUME SingleKeeper, HoldInv, WorkInv', NEW c \in Clerks, MaintCreateCommit(c)
  PROVE  HoldInv'
  <1> DEFINE h == handler[c]
  <1>1. h.op = "addMaint" /\ h.snap # NoSnap /\ Answer(c) /\ bank' = bank
    BY DEF MaintCreateCommit, HasRead
  <1>2. h \in Requests /\ h.type \in Types /\ WellFormed(h)
    BY <1>1, RequestAtWork DEF HoldInv, WorkInv, GridInv, TypedRequests
  <1>3. PICK u \in Units : h.units = {u}
    BY <1>1, <1>2 DEF WellFormed
  <1> DEFINE new == NewRows(maint, {u}, h.type, h.ranges)
  <1>4. maint' = maint \cup new
    BY <1>3 DEF MaintCreateCommit
  <1>5. /\ \A r \in new : r.unit = u /\ r.days \in h.ranges /\ \A s \in maint : s.id # r.id
        /\ \A r, s \in new : r.days = s.days \/ r.id = s.id => r = s
    <2>1. FiniteRows /\ IsFiniteSet(maint) /\ h.ranges \in SUBSET Ranges
      BY <1>2 DEF HoldInv, WorkInv, GridInv, FiniteRows, Requests
    <2> HIDE DEF h
    <2>2. \A r \in new : r.unit = u /\ r.days \in h.ranges /\ \A s \in maint : s.id # r.id
      BY <1>2, <2>1, NewRowsOfUnit
    <2>3. \A r, s \in new : r.days = s.days \/ r.id = s.id => r = s
      BY <1>2, <2>1, NewRowsOfUnit
    <2> QED BY <2>2, <2>3
  <1>6. \A days \in h.ranges : At(maint, u, days) = {} /\ At(bank, u, days) = {}
    BY <1>1, <1>3 DEF HoldInv, FoundFree
  <1>7. \A r \in new, s \in maint \cup bank : r.unit = s.unit => r.days \cap s.days = {}
    BY <1>5, <1>6 DEF At
  <1>8. \A r, s \in new : r # s => r.days \cap s.days = {}
    BY <1>1, <1>2, <1>5 DEF WellFormed
  <1> HIDE DEF new, h
  <1>9. NightsApart'
    <2>1. \A r, s \in maint' : r # s /\ r.unit = s.unit => r.days \cap s.days = {}
      BY <1>4, <1>7, <1>8 DEF HoldInv, NightsApart
    <2>2. \A r \in maint', s \in bank' : r.unit = s.unit => r.days \cap s.days = {}
      BY <1>1, <1>4, <1>7 DEF HoldInv, NightsApart
    <2> QED BY <1>1, <2>1, <2>2 DEF HoldInv, NightsApart
  <1>10. OneRecordPerId'
    BY <1>4, <1>5 DEF HoldInv, OneRecordPerId
  <1> QED BY <1>1, <1>9, <1>10, Answered, HoldCommitted
          DEF h, Withdrawals, HoldInv, WorkInv

LEMMA MaintUpdateHeld ==
  ASSUME SingleKeeper, HoldInv, WorkInv', NEW c \in Clerks, MaintUpdateCommit(c)
  PROVE  HoldInv'
  <1> DEFINE h == handler[c]
  <1>1. h.op = "updateMaint" /\ Answer(c) /\ bank' = bank
    BY DEF MaintUpdateCommit, HasRead
  <1>2. PICK m \in maint, old \in h.rows, days \in h.ranges :
          /\ m.id = old.id
          /\ maint' = (maint \ {m}) \cup {[m EXCEPT !.days = days, !.type = h.type]}
    BY DEF MaintUpdateCommit
  <1> DEFINE new == [m EXCEPT !.days = days, !.type = h.type]
  <1>3. m = old /\ At(maint \ {m}, m.unit, days) = {} /\ At(bank, m.unit, days) = {}
    BY <1>1, <1>2 DEF HoldInv, FoundFree
  <1>4. new.unit = m.unit /\ new.days = days /\ new.id = m.id
    BY DEF HoldInv, WorkInv, GridInv, TypeOK, Row
  <1>5. maint' = (maint \ {m}) \cup {new}
    BY <1>2
  <1> HIDE DEF new, h
  <1>6. \A s \in (maint \ {m}) \cup bank : new.unit = s.unit => new.days \cap s.days = {}
    BY <1>3, <1>4 DEF At
  <1>7. NightsApart'
    BY <1>1, <1>5, <1>6 DEF HoldInv, NightsApart
  <1>8. OneRecordPerId'
    BY <1>4, <1>5 DEF HoldInv, OneRecordPerId
  <1> QED BY <1>1, <1>7, <1>8, Answered, HoldCommitted
          DEF h, Withdrawals, HoldInv, WorkInv

LEMMA BankHeld ==
  ASSUME SingleKeeper, HoldInv, WorkInv', NEW c \in Clerks, BankCommit(c)
  PROVE  HoldInv'
  <1> DEFINE h == handler[c]
  <1>1. /\ h.op \in {"saveBank", "deleteBank"} /\ Answer(c) /\ maint' = maint
        /\ bank' = (bank \ h.rows) \cup NewRows(bank, h.units, h.type, h.ranges)
    BY DEF BankCommit, HasRead
  <1>2. h \in Requests /\ h.type \in Types /\ WellFormed(h)
    BY <1>1, RequestAtWork DEF HoldInv, WorkInv, GridInv, TypedRequests
  <1>3. handler'[c].op = "idle" /\ Others(c)
    BY <1>1, Answered DEF HoldInv, WorkInv
  <1>4. CASE h.op = "deleteBank"
    <2>1. h.units = {}
      BY <1>2, <1>4 DEF WellFormed
    <2>2. bank' \subseteq bank
      BY <1>1, <2>1 DEF NewRows
    <2>3. FoundFree(handler'[c], maint', bank')
      BY <1>3 DEF FoundFree
    <2> QED BY <1>1, <1>3, <2>2, <2>3, HoldFrame
  <1>5. CASE h.op = "saveBank"
    <2>1. PICK u \in Units : h.units = {u}
      BY <1>2, <1>5 DEF WellFormed
    <2> DEFINE new == NewRows(bank, {u}, h.type, h.ranges)
    <2>2. bank' = (bank \ h.rows) \cup new
      BY <1>1, <2>1
    <2>3. /\ \A r \in new : r.unit = u /\ r.days \in h.ranges
          /\ \A r, s \in new : r.days = s.days \/ r.id = s.id => r = s
      BY <1>2, NewRowsOfUnit DEF HoldInv, WorkInv, GridInv, FiniteRows, Requests
    <2>4. \A week \in h.ranges : At(maint, u, week) = {} /\ At(bank \ h.rows, u, week) = {}
      BY <1>5, <2>1 DEF HoldInv, FoundFree
    <2>5. \A r \in new, s \in maint \cup (bank \ h.rows) :
            r.unit = s.unit => r.days \cap s.days = {}
      BY <2>3, <2>4 DEF At
    <2>6. \A r, s \in new : r # s => r.days \cap s.days = {}
      BY <1>2, <1>5, <2>3 DEF WellFormed
    <2>7. NightsApart'
      <3> HIDE DEF new, h
      <3>1. \A r, s \in bank' : r # s /\ r.unit = s.unit => r.days \cap s.days = {}
        BY <2>2, <2>5, <2>6 DEF HoldInv, NightsApart
      <3>2. \A r \in maint', s \in bank' : r.unit = s.unit => r.days \cap s.days = {}
        BY <1>1, <2>2, <2>5 DEF HoldInv, NightsApart
      <3> QED BY <1>1, <3>1, <3>2 DEF HoldInv, NightsApart
    <2>8. OneRecordPerId'
      BY <1>1 DEF HoldInv, OneRecordPerId
    <2> QED BY <1>3, <1>5, <2>7, <2>8, HoldCommitted DEF Withdrawals
  <1> QED BY <1>1, <1>4, <1>5

(* A request that has just been accepted, or has just read the grid.       *)
LEMMA HoldAsked ==
  ASSUME HoldInv, WorkInv', NEW c \in Clerks,
         \/ UnitDeleteAsk(c) \/ BlockCreateAsk(c) \/ BlockBatchAsk(c) \/ BlockDeleteAsk(c)
         \/ MaintCreateAsk(c) \/ MaintUpdateAsk(c) \/ MaintDeleteAsk(c)
         \/ BankSaveAsk(c) \/ BankYearDeleteAsk(c)
  PROVE  HoldInv'
  <1> SUFFICES \E h : Accepted(c, h) /\ FoundFree(h, maint, bank)
    BY HoldFrame DEF Accepted
  <1>1. GridInv
    BY DEF HoldInv, WorkInv
  <1>2. CASE UnitDeleteAsk(c)
    BY <1>1, <1>2, UnitDeleteAsked DEF FoundFree
  <1>3. CASE BlockCreateAsk(c) \/ BlockBatchAsk(c)
    BY <1>1, <1>3, BlockAsked DEF FoundFree
  <1>4. CASE BlockDeleteAsk(c)
    BY <1>1, <1>4, BlockDeleteAsked DEF FoundFree
  <1>5. CASE MaintCreateAsk(c)
    BY <1>1, <1>5, MaintCreateAsked DEF FoundFree, Accepted
  <1>6. CASE MaintUpdateAsk(c)
    <2>1. PICK m, days, h :
            /\ m \in maint /\ days \in Ranges
            /\ Accepted(c, h) /\ h.op = "updateMaint" /\ h.rows = {m} /\ h.ranges = {days}
            /\ At(maint \ {m}, m.unit, days) = {} /\ At(bank, m.unit, days) = {}
      BY <1>1, <1>6, MaintUpdateAsked
    <2>2. FoundFree(h, maint, bank)
      BY <2>1 DEF FoundFree, HoldInv, OneRecordPerId
    <2> QED BY <2>1, <2>2
  <1>7. CASE MaintDeleteAsk(c)
    BY <1>1, <1>7, MaintDeleteAsked DEF FoundFree
  <1>8. CASE BankSaveAsk(c)
    <2>1. PICK u, h :
            /\ u \in Units
            /\ Accepted(c, h) /\ h.op = "saveBank" /\ h.units = {u}
            /\ \A week \in h.ranges : CanBank(u, week, h.rows)
      BY <1>1, <1>8, BankSaveAsked
    <2>2. FoundFree(h, maint, bank)
      BY <2>1 DEF FoundFree, CanBank
    <2> QED BY <2>1, <2>2
  <1>9. CASE BankYearDeleteAsk(c)
    BY <1>1, <1>9, BankYearDeleteAsked DEF FoundFree
  <1> QED BY <1>2, <1>3, <1>4, <1>5, <1>6, <1>7, <1>8, <1>9

LEMMA HoldRead ==
  ASSUME HoldInv, WorkInv', NEW c \in Clerks, GridRead(c)
  PROVE  HoldInv'
  <1> DEFINE h == handler[c]
             g == handler'[c]
  <1>1. /\ maint' = maint /\ bank' = bank /\ Others(c)
        /\ g.op = h.op /\ g.units = h.units /\ g.ranges = h.ranges /\ g.rows = h.rows
    BY GridWasRead DEF HoldInv, WorkInv
  <1>2. h.op = "addMaint" => \A u \in h.units, days \in h.ranges :
          At(maint, u, days) = {} /\ At(bank, u, days) = {}
    BY DEF GridRead, MaintOverlap, bulkBankOverlap
  <1>3. FoundFree(g, maint, bank)
    BY <1>1, <1>2 DEF HoldInv, FoundFree
  <1> QED BY <1>1, <1>3, HoldFrame

LEMMA HoldInit == Init => HoldInv
  BY WorkInit, IdleTyped DEF Init, HoldInv, NightsApart, OneRecordPerId, FoundFree

LEMMA HoldStep ==
  ASSUME SingleKeeper, HoldInv, [Next]_vars
  PROVE  HoldInv'
  <1>1. WorkInv'
    BY WorkStep DEF HoldInv
  <1>2. CASE UNCHANGED vars
    BY <1>1, <1>2 DEF vars, HoldInv, NightsApart, OneRecordPerId
  <1>3. ASSUME NEW c \in Clerks, UnitMove(c) PROVE HoldInv'
    <2>1. maint' = maint /\ bank' = bank
      BY <1>3, UnitsMove DEF HoldInv, WorkInv
    <2>2. \A d \in Clerks :
            handler'[d] = handler[d] \/ handler'[d].op \in {"idle", "deleteUnit"}
      BY <1>3, RequestsStay DEF HoldInv, WorkInv
    <2>3. \A d \in Clerks : FoundFree(handler'[d], maint', bank')
      BY <2>1, <2>2 DEF HoldInv, FoundFree
    <2> QED BY <1>1, <2>1, <2>3 DEF HoldInv, NightsApart, OneRecordPerId
  <1>4. ASSUME NEW c \in Clerks,
               \/ UnitDeleteAsk(c) \/ BlockCreateAsk(c) \/ BlockBatchAsk(c) \/ BlockDeleteAsk(c)
               \/ MaintCreateAsk(c) \/ MaintUpdateAsk(c) \/ MaintDeleteAsk(c)
               \/ BankSaveAsk(c) \/ BankYearDeleteAsk(c)
        PROVE  HoldInv'
    BY <1>1, <1>4, HoldAsked
  <1>5. ASSUME NEW c \in Clerks, GridRead(c) PROVE HoldInv'
    BY <1>1, <1>5, HoldRead
  <1>6. ASSUME NEW c \in Clerks,
               \/ BlockCreateCommit(c) \/ BlockDeleteCommit(c)
               \/ MaintDeleteCommit(c) \/ Abandon(c)
        PROVE  HoldInv'
    <2>1. handler'[c].op = "idle" /\ Others(c)
      BY <1>6, Committed DEF HoldInv, WorkInv
    <2>2. maint' \subseteq maint /\ bank' \subseteq bank
      BY <1>6 DEF BlockCreateCommit, BlockDeleteCommit, MaintDeleteCommit, Abandon, tables
    <2>3. FoundFree(handler'[c], maint', bank')
      BY <2>1 DEF FoundFree
    <2> QED BY <1>1, <2>1, <2>2, <2>3, HoldFrame
  <1>7. ASSUME NEW c \in Clerks, MaintCreateCommit(c) PROVE HoldInv'
    BY <1>1, <1>7, MaintCreateHeld
  <1>8. ASSUME NEW c \in Clerks, MaintUpdateCommit(c) PROVE HoldInv'
    BY <1>1, <1>8, MaintUpdateHeld
  <1>9. ASSUME NEW c \in Clerks, BankCommit(c) PROVE HoldInv'
    BY <1>1, <1>9, BankHeld
  <1> QED BY <1>2, <1>3, <1>4, <1>5, <1>6, <1>7, <1>8, <1>9 DEF Next, UnitMove

(* Counting: a set without two members has one at most.                    *)
LEMMA OneAtMost ==
  ASSUME NEW S, \A x, y \in S : x = y
  PROVE  Cardinality(S) \in 0..1 /\ (S = {} => Cardinality(S) = 0)
  <1>1. CASE S = {}
    BY <1>1, FS_EmptySet
  <1>2. CASE S # {}
    <2>1. PICK x \in S : TRUE
      BY <1>2
    <2>2. S = {x}
      BY <2>1
    <2>3. Cardinality(S) = 1
      BY <2>2, FS_Singleton
    <2> QED BY <1>2, <2>3
  <1> QED BY <1>1, <1>2

LEMMA ApartHeldOnce ==
  ASSUME NightsApart
  PROVE  HeldOnce
  <1> SUFFICES ASSUME NEW u \in Units, NEW d \in Days
               PROVE  Cardinality(At(maint, u, {d})) + Cardinality(At(bank, u, {d})) <= 1
    BY DEF HeldOnce
  <1>1. (\A r, s \in At(maint, u, {d}) : r = s) /\ (\A r, s \in At(bank, u, {d}) : r = s)
    BY DEF NightsApart, At
  <1>2. At(maint, u, {d}) = {} \/ At(bank, u, {d}) = {}
    BY DEF NightsApart, At
  <1>3. /\ Cardinality(At(maint, u, {d})) \in 0..1
        /\ At(maint, u, {d}) = {} => Cardinality(At(maint, u, {d})) = 0
    BY <1>1, OneAtMost
  <1>4. /\ Cardinality(At(bank, u, {d})) \in 0..1
        /\ At(bank, u, {d}) = {} => Cardinality(At(bank, u, {d})) = 0
    BY <1>1, OneAtMost
  <1> QED BY <1>2, <1>3, <1>4

(* A unit-night is withdrawn or banked once, although the search for what  *)
(* else holds it precedes the write, as long as one clerk at most adds and *)
(* edits maintenance and saves the bank.                                   *)
THEOREM NightsHeldOnce ==
  ASSUME SingleKeeper
  PROVE  Spec => []HeldOnce
  <1>1. HoldInv /\ [Next]_vars => HoldInv'
    BY HoldStep
  <1>2. HoldInv => HeldOnce
    BY ApartHeldOnce DEF HoldInv
  <1> QED BY <1>1, <1>2, HoldInit, PTL DEF Spec
-----------------------------------------------------------------------------
(* Held nights are offered nights.  A block is deleted after a search for  *)
(* what is held on it, and nights are held after a search for their block. *)
(* Neither undoes the other as long as nobody withdraws or banks beside a  *)
(* clerk who deletes blocks; any number may do the one or the other.       *)
RemoverHoldsAlone ==
  \A c, d \in Clerks :
    "deleteBlock" \in Ops[c] /\ Ops[d] \cap Withdrawals # {} => c = d

OpenOn(bs, u, days) == days \subseteq DaysOf(At(bs, u, days))

(* A row's id names its unit: an edit finds a row of the unit it looked at.*)
NamesUnit(rows) == \A r \in rows : r.id[2] = r.unit

(* What request h has found out about the blocks bs and the held rows.     *)
FoundOpen(h, bs, held) ==
  /\ h.op \in {"addMaint", "saveBank"} =>
       \A u \in h.units, days \in h.ranges : OpenOn(bs, u, days)
  /\ h.op = "updateMaint" =>
       \A old \in h.rows, days \in h.ranges : OpenOn(bs, old.unit, days)
  /\ h.op = "updateMaint" => NamesUnit(h.rows)
  /\ h.op = "deleteBlock" => \A b \in h.rows : At(held, b.unit, b.days) = {}

CoverInv ==
  /\ WorkInv /\ HeldIsOffered /\ NamesUnit(maint)
  /\ \A c \in Clerks : FoundOpen(handler[c], blocks, maint \cup bank)

LEMMA OpenKeeps ==
  ASSUME NEW bs, NEW more, bs \subseteq more, NEW u, NEW days, OpenOn(bs, u, days)
  PROVE  OpenOn(more, u, days)
  BY DEF OpenOn, DaysOf, At

LEMMA FoundOpenKeeps ==
  ASSUME NEW h, NEW bs, NEW held, FoundOpen(h, bs, held),
         NEW more, bs \subseteq more, NEW less \in SUBSET held
  PROVE  FoundOpen(h, more, less)
  <1>1. h.op = "deleteBlock" => \A b \in h.rows : At(less, b.unit, b.days) = {}
    BY DEF FoundOpen, At
  <1> QED BY <1>1, OpenKeeps DEF FoundOpen

(* The ranges of one block are open.                                       *)
LEMMA AvailableIsOpen ==
  ASSUME NEW u, NEW ranges, checkAvailability(u, ranges), NEW days \in ranges
  PROVE  OpenOn(blocks, u, days)
  BY DEF checkAvailability, OpenOn, DaysOf, At

(* Steps that hold nothing and close nothing.                              *)
LEMMA CoverFrame ==
  ASSUME CoverInv, WorkInv', blocks \subseteq blocks',
         maint' \subseteq maint, bank' \subseteq bank,
         NEW c \in Clerks, Others(c), FoundOpen(handler'[c], blocks', maint' \cup bank')
  PROVE  CoverInv'
  <1>1. HeldIsOffered'
    BY OpenKeeps DEF CoverInv, HeldIsOffered, OpenOn
  <1>2. NamesUnit(maint')
    BY DEF CoverInv, NamesUnit
  <1>3. maint' \cup bank' \subseteq maint \cup bank
    OBVIOUS
  <1>4. \A d \in Clerks \ {c} : FoundOpen(handler'[d], blocks', maint' \cup bank')
    BY <1>3, FoundOpenKeeps DEF CoverInv, Others
  <1> QED BY <1>1, <1>2, <1>4 DEF CoverInv

(* A save that holds nights of open blocks.                                *)
LEMMA CoverHeld ==
  ASSUME RemoverHoldsAlone, CoverInv, WorkInv', blocks' = blocks, NamesUnit(maint'),
         \A r \in maint' \cup bank' : r \in maint \cup bank \/ OpenOn(blocks, r.unit, r.days),
         NEW c \in Clerks, handler[c].op \in Withdrawals, handler'[c].op = "idle", Others(c)
  PROVE  CoverInv'
  <1>1. HeldIsOffered'
    BY DEF CoverInv, HeldIsOffered, OpenOn
  <1>2. \A d \in Clerks : handler'[d].op # "deleteBlock"
    BY DEF RemoverHoldsAlone, CoverInv, WorkInv, Others, Withdrawals
  <1>3. \A d \in Clerks : FoundOpen(handler'[d], blocks', maint' \cup bank')
    <2> SUFFICES ASSUME NEW d \in Clerks, d # c
                 PROVE  FoundOpen(handler'[d], blocks', maint' \cup bank')
      BY DEF FoundOpen
    <2>1. FoundOpen(handler[d], blocks, maint \cup bank) /\ handler'[d] = handler[d]
      BY DEF CoverInv, Others
    <2> QED BY <1>2, <2>1 DEF FoundOpen
  <1> QED BY <1>1, <1>2, <1>3 DEF CoverInv

LEMMA MaintCreateCovered ==
  ASSUME RemoverHoldsAlone, CoverInv, WorkInv', NEW c \in Clerks, MaintCreateCommit(c)
  PROVE  CoverInv'
  <1> DEFINE h == handler[c]
  <1>1. h.op = "addMaint" /\ Answer(c) /\ blocks' = blocks /\ bank' = bank
    BY DEF MaintCreateCommit, HasRead
  <1>2. h \in Requests /\ h.type \in Types /\ WellFormed(h)
    BY <1>1, RequestAtWork DEF CoverInv, WorkInv, GridInv, TypedRequests
  <1>3. PICK u \in Units : h.units = {u}
    BY <1>1, <1>2 DEF WellFormed
  <1> DEFINE new == NewRows(maint, {u}, h.type, h.ranges)
  <1>4. maint' = maint \cup new
    BY <1>3 DEF MaintCreateCommit
  <1>5. \A r \in new : r.unit = u /\ r.days \in h.ranges /\ r.id[2] = r.unit
    BY <1>2, NewRowsOfUnit DEF CoverInv, WorkInv, GridInv, FiniteRows, Requests
  <1>6. \A r \in new : OpenOn(blocks, r.unit, r.days)
    BY <1>1, <1>3, <1>5 DEF CoverInv, FoundOpen
  <1>7. NamesUnit(new)
    BY <1>5 DEF NamesUnit
  <1> HIDE DEF new, h
  <1>8. NamesUnit(maint')
    BY <1>4, <1>7 DEF CoverInv, NamesUnit
  <1> QED BY <1>1, <1>4, <1>6, <1>8, Answered, CoverHeld
          DEF h, Withdrawals, CoverInv, WorkInv

LEMMA MaintUpdateCovered ==
  ASSUME RemoverHoldsAlone, CoverInv, WorkInv', NEW c \in Clerks, MaintUpdateCommit(c)
  PROVE  CoverInv'
  <1> DEFINE h == handler[c]
  <1>1. h.op = "updateMaint" /\ Answer(c) /\ blocks' = blocks /\ bank' = bank
    BY DEF MaintUpdateCommit, HasRead
  <1>2. PICK m \in maint, old \in h.rows, days \in h.ranges :
          /\ m.id = old.id
          /\ maint' = (maint \ {m}) \cup {[m EXCEPT !.days = days, !.type = h.type]}
    BY DEF MaintUpdateCommit
  <1> DEFINE new == [m EXCEPT !.days = days, !.type = h.type]
  <1>3. new.unit = m.unit /\ new.days = days /\ new.id = m.id
    BY DEF CoverInv, WorkInv, GridInv, TypeOK, Row
  <1>4. m.unit = old.unit /\ new.id[2] = new.unit
    BY <1>1, <1>2, <1>3 DEF CoverInv, FoundOpen, NamesUnit
  <1>5. maint' = (maint \ {m}) \cup {new}
    BY <1>2
  <1> HIDE DEF new
  <1>6. OpenOn(blocks, new.unit, new.days)
    BY <1>1, <1>3, <1>4 DEF CoverInv, FoundOpen
  <1>7. NamesUnit(maint')
    BY <1>4, <1>5 DEF CoverInv, NamesUnit
  <1> HIDE DEF h
  <1> QED BY <1>1, <1>5, <1>6, <1>7, Answered, CoverHeld
          DEF h, Withdrawals, CoverInv, WorkInv

LEMMA BankCovered ==
  ASSUME RemoverHoldsAlone, CoverInv, WorkInv', NEW c \in Clerks, BankCommit(c)
  PROVE  CoverInv'
  <1> DEFINE h == handler[c]
  <1>1. /\ h.op \in {"saveBank", "deleteBank"} /\ Answer(c)
        /\ blocks' = blocks /\ maint' = maint
        /\ bank' = (bank \ h.rows) \cup NewRows(bank, h.units, h.type, h.ranges)
    BY DEF BankCommit, HasRead
  <1>2. h \in Requests /\ h.type \in Types /\ WellFormed(h)
    BY <1>1, RequestAtWork DEF CoverInv, WorkInv, GridInv, TypedRequests
  <1>3. handler'[c].op = "idle" /\ Others(c)
    BY <1>1, Answered DEF CoverInv, WorkInv
  <1>4. CASE h.op = "deleteBank"
    <2>1. bank' \subseteq bank
      BY <1>1, <1>2, <1>4 DEF WellFormed, NewRows
    <2>2. FoundOpen(handler'[c], blocks', maint' \cup bank')
      BY <1>3 DEF FoundOpen
    <2> QED BY <1>1, <1>3, <2>1, <2>2, CoverFrame
  <1>5. CASE h.op = "saveBank"
    <2>1. PICK u \in Units : h.units = {u}
      BY <1>2, <1>5 DEF WellFormed
    <2> DEFINE new == NewRows(bank, {u}, h.type, h.ranges)
    <2>2. bank' = (bank \ h.rows) \cup new
      BY <1>1, <2>1
    <2>3. \A r \in new : r.unit = u /\ r.days \in h.ranges
      BY <1>2, NewRowsOfUnit DEF CoverInv, WorkInv, GridInv, FiniteRows, Requests
    <2>4. \A r \in new : OpenOn(blocks, r.unit, r.days)
      BY <1>5, <2>1, <2>3 DEF CoverInv, FoundOpen
    <2>5. NamesUnit(maint')
      BY <1>1 DEF CoverInv
    <2> HIDE DEF new
    <2>6. \A r \in maint' \cup bank' :
            r \in maint \cup bank \/ OpenOn(blocks, r.unit, r.days)
      BY <1>1, <2>2, <2>4
    <2> QED BY <1>1, <1>3, <1>5, <2>5, <2>6, CoverHeld DEF Withdrawals
  <1> QED BY <1>1, <1>4, <1>5

(* The one place where blocks are deleted.                                 *)
LEMMA BlockDeleteCovered ==
  ASSUME RemoverHoldsAlone, CoverInv, WorkInv', NEW c \in Clerks, BlockDeleteCommit(c)
  PROVE  CoverInv'
  <1> DEFINE h == handler[c]
  <1>1. /\ h.op = "deleteBlock" /\ Answer(c) /\ maint' = maint /\ bank' = bank
        /\ blocks' = blocks \ h.rows
    BY DEF BlockDeleteCommit, HasRead
  <1>2. handler'[c].op = "idle" /\ Others(c)
    BY <1>1, Answered DEF CoverInv, WorkInv
  <1>3. \A b \in h.rows : At(maint \cup bank, b.unit, b.days) = {}
    BY <1>1 DEF CoverInv, FoundOpen
  <1>4. HeldIsOffered'
    <2> SUFFICES ASSUME NEW r \in maint \cup bank, NEW d \in r.days
                 PROVE  d \in DaysOf(At(blocks', r.unit, r.days))
      BY <1>1 DEF HeldIsOffered
    <2>1. PICK b \in blocks : b.unit = r.unit /\ d \in b.days
      BY DEF CoverInv, HeldIsOffered, DaysOf, At
    <2>2. b \notin h.rows
      BY <1>3, <2>1 DEF At
    <2> QED BY <1>1, <2>1, <2>2 DEF DaysOf, At
  <1>5. \A d \in Clerks : handler'[d].op \notin Withdrawals
    BY <1>1, <1>2 DEF RemoverHoldsAlone, CoverInv, WorkInv, Others, Withdrawals
  <1>6. \A d \in Clerks : FoundOpen(handler'[d], blocks', maint' \cup bank')
    <2> SUFFICES ASSUME NEW d \in Clerks, d # c
                 PROVE  FoundOpen(handler'[d], blocks', maint' \cup bank')
      BY <1>2 DEF FoundOpen
    <2>1. FoundOpen(handler[d], blocks, maint \cup bank) /\ handler'[d] = handler[d]
      BY <1>2 DEF CoverInv, Others
    <2> QED BY <1>1, <1>5, <2>1 DEF FoundOpen, Withdrawals
  <1> QED BY <1>1, <1>4, <1>6 DEF CoverInv

LEMMA CoverAsked ==
  ASSUME CoverInv, WorkInv', NEW c \in Clerks,
         \/ UnitDeleteAsk(c) \/ BlockCreateAsk(c) \/ BlockBatchAsk(c) \/ BlockDeleteAsk(c)
         \/ MaintCreateAsk(c) \/ MaintUpdateAsk(c) \/ MaintDeleteAsk(c)
         \/ BankSaveAsk(c) \/ BankYearDeleteAsk(c)
  PROVE  CoverInv'
  <1> SUFFICES \E h : Accepted(c, h) /\ FoundOpen(h, blocks, maint \cup bank)
    BY CoverFrame DEF Accepted
  <1>1. GridInv
    BY DEF CoverInv, WorkInv
  <1>2. CASE UnitDeleteAsk(c)
    BY <1>1, <1>2, UnitDeleteAsked DEF FoundOpen
  <1>3. CASE BlockCreateAsk(c) \/ BlockBatchAsk(c)
    BY <1>1, <1>3, BlockAsked DEF FoundOpen
  <1>4. CASE BlockDeleteAsk(c)
    <2>1. PICK b, h :
            /\ b \in blocks
            /\ Accepted(c, h) /\ h.op = "deleteBlock" /\ h.rows = {b}
            /\ At(maint, b.unit, b.days) = {} /\ At(bank, b.unit, b.days) = {}
      BY <1>1, <1>4, BlockDeleteAsked
    <2>2. FoundOpen(h, blocks, maint \cup bank)
      BY <2>1 DEF FoundOpen, At
    <2> QED BY <2>1, <2>2
  <1>5. CASE MaintCreateAsk(c)
    <2>1. PICK u, h :
            /\ u \in Units
            /\ Accepted(c, h) /\ h.op = "addMaint" /\ h.units = {u}
            /\ checkAvailability(u, h.ranges)
      BY <1>1, <1>5, MaintCreateAsked
    <2>2. FoundOpen(h, blocks, maint \cup bank)
      BY <2>1, AvailableIsOpen DEF FoundOpen
    <2> QED BY <2>1, <2>2
  <1>6. CASE MaintUpdateAsk(c)
    <2>1. PICK m, days, h :
            /\ m \in maint /\ days \in Ranges
            /\ Accepted(c, h) /\ h.op = "updateMaint" /\ h.rows = {m} /\ h.ranges = {days}
            /\ checkAvailability(m.unit, {days})
      BY <1>1, <1>6, MaintUpdateAsked
    <2>2. FoundOpen(h, blocks, maint \cup bank)
      BY <2>1, AvailableIsOpen DEF FoundOpen, CoverInv, NamesUnit
    <2> QED BY <2>1, <2>2
  <1>7. CASE MaintDeleteAsk(c)
    BY <1>1, <1>7, MaintDeleteAsked DEF FoundOpen
  <1>8. CASE BankSaveAsk(c)
    <2>1. PICK u, h :
            /\ u \in Units
            /\ Accepted(c, h) /\ h.op = "saveBank" /\ h.units = {u}
            /\ \A week \in h.ranges : CanBank(u, week, h.rows)
      BY <1>1, <1>8, BankSaveAsked
    <2>2. FoundOpen(h, blocks, maint \cup bank)
      BY <2>1 DEF FoundOpen, CanBank, OpenOn
    <2> QED BY <2>1, <2>2
  <1>9. CASE BankYearDeleteAsk(c)
    BY <1>1, <1>9, BankYearDeleteAsked DEF FoundOpen
  <1> QED BY <1>2, <1>3, <1>4, <1>5, <1>6, <1>7, <1>8, <1>9

LEMMA CoverInit == Init => CoverInv
  BY WorkInit, IdleTyped DEF Init, CoverInv, HeldIsOffered, NamesUnit, FoundOpen

LEMMA CoverStep ==
  ASSUME RemoverHoldsAlone, CoverInv, [Next]_vars
  PROVE  CoverInv'
  <1>1. WorkInv'
    BY WorkStep DEF CoverInv
  <1>2. CASE UNCHANGED vars
    BY <1>1, <1>2 DEF vars, CoverInv, HeldIsOffered
  <1>3. ASSUME NEW c \in Clerks, UnitMove(c) PROVE CoverInv'
    <2>1. blocks' = blocks /\ maint' = maint /\ bank' = bank
      BY <1>3, UnitsMove DEF CoverInv, WorkInv
    <2>2. \A d \in Clerks :
            handler'[d] = handler[d] \/ handler'[d].op \in {"idle", "deleteUnit"}
      BY <1>3, RequestsStay DEF CoverInv, WorkInv
    <2>3. \A d \in Clerks : FoundOpen(handler'[d], blocks', maint' \cup bank')
      BY <2>1, <2>2 DEF CoverInv, FoundOpen
    <2> QED BY <1>1, <2>1, <2>3 DEF CoverInv, HeldIsOffered
  <1>4. ASSUME NEW c \in Clerks,
               \/ UnitDeleteAsk(c) \/ BlockCreateAsk(c) \/ BlockBatchAsk(c) \/ BlockDeleteAsk(c)
               \/ MaintCreateAsk(c) \/ MaintUpdateAsk(c) \/ MaintDeleteAsk(c)
               \/ BankSaveAsk(c) \/ BankYearDeleteAsk(c)
        PROVE  CoverInv'
    BY <1>1, <1>4, CoverAsked
  <1>5. ASSUME NEW c \in Clerks, GridRead(c) PROVE CoverInv'
    <2>1. /\ blocks' = blocks /\ maint' = maint /\ bank' = bank /\ Others(c)
          /\ handler'[c].op = handler[c].op /\ handler'[c].units = handler[c].units
          /\ handler'[c].ranges = handler[c].ranges /\ handler'[c].rows = handler[c].rows
      BY <1>5, GridWasRead DEF CoverInv, WorkInv
    <2>2. FoundOpen(handler'[c], blocks', maint' \cup bank')
      BY <2>1 DEF CoverInv, FoundOpen
    <2> QED BY <1>1, <2>1, <2>2, CoverFrame
  <1>6. ASSUME NEW c \in Clerks,
               BlockCreateCommit(c) \/ MaintDeleteCommit(c) \/ Abandon(c)
        PROVE  CoverInv'
    <2>1. handler'[c].op = "idle" /\ Others(c)
      BY <1>6, Committed DEF CoverInv, WorkInv
    <2>2. blocks \subseteq blocks' /\ maint' \subseteq maint /\ bank' \subseteq bank
      BY <1>6 DEF BlockCreateCommit, MaintDeleteCommit, Abandon, tables
    <2>3. FoundOpen(handler'[c], blocks', maint' \cup bank')
      BY <2>1 DEF FoundOpen
    <2> QED BY <1>1, <2>1, <2>2, <2>3, CoverFrame
  <1>7. ASSUME NEW c \in Clerks, BlockDeleteCommit(c) PROVE CoverInv'
    BY <1>1, <1>7, BlockDeleteCovered
  <1>8. ASSUME NEW c \in Clerks, MaintCreateCommit(c) PROVE CoverInv'
    BY <1>1, <1>8, MaintCreateCovered
  <1>9. ASSUME NEW c \in Clerks, MaintUpdateCommit(c) PROVE CoverInv'
    BY <1>1, <1>9, MaintUpdateCovered
  <1>10. ASSUME NEW c \in Clerks, BankCommit(c) PROVE CoverInv'
    BY <1>1, <1>10, BankCovered
  <1> QED BY <1>2, <1>3, <1>4, <1>5, <1>6, <1>7, <1>8, <1>9, <1>10 DEF Next, UnitMove

(* No block goes out from under a maintenance record or a banked week, and *)
(* none of these is saved where there is no block, as long as nobody holds *)
(* nights beside a clerk who deletes blocks.                               *)
THEOREM HeldNightsOffered ==
  ASSUME RemoverHoldsAlone
  PROVE  Spec => []HeldIsOffered
  <1>1. CoverInv /\ [Next]_vars => CoverInv'
    BY CoverStep
  <1>2. CoverInv => HeldIsOffered
    BY DEF CoverInv
  <1> QED BY <1>1, <1>2, CoverInit, PTL DEF Spec
-----------------------------------------------------------------------------
(* The abstract pool of unit-nights.  On a night that is held, nothing     *)
(* else holds it and a block offers it; a step that changes one table then *)
(* moves each night along one arrow of the abstract specification.         *)
Held(rows, n) == At(rows, n[1], {n[2]}) # {}

HeldWell(bs, ms, ks) ==
  \A n \in Units \X Days :
    /\ Held(ms, n) => ~Held(ks, n)
    /\ Held(ms, n) \/ Held(ks, n) => Held(bs, n)

LEMMA ApartHeldWell ==
  ASSUME NightsApart, HeldIsOffered
  PROVE  HeldWell(blocks, maint, bank)
  <1> SUFFICES ASSUME NEW u \in Units, NEW d \in Days
               PROVE  /\ Held(maint, <<u, d>>) => ~Held(bank, <<u, d>>)
                      /\ Held(maint, <<u, d>>) \/ Held(bank, <<u, d>>) => Held(blocks, <<u, d>>)
    BY DEF HeldWell
  <1>1. Held(maint, <<u, d>>) => ~Held(bank, <<u, d>>)
    BY DEF NightsApart, Held, At
  <1>2. ASSUME NEW r \in maint \cup bank, r.unit = u, d \in r.days
        PROVE  Held(blocks, <<u, d>>)
    BY <1>2 DEF HeldIsOffered, DaysOf, At, Held
  <1>3. Held(maint, <<u, d>>) \/ Held(bank, <<u, d>>) =>
          \E r \in maint \cup bank : r.unit = u /\ d \in r.days
    BY DEF Held, At
  <1> QED BY <1>1, <1>2, <1>3

(* The state of a night, before and after a step.                          *)
StateOf(bs, ms, ks, n) ==
  IF Held(ms, n) THEN "maintained" ELSE IF Held(ks, n) THEN "banked"
  ELSE IF Held(bs, n) THEN "open" ELSE "closed"

LEMMA NightIs ==
  /\ nightOf = [n \in Units \X Days |-> StateOf(blocks, maint, bank, n)]
  /\ nightOf' = [n \in Units \X Days |-> StateOf(blocks', maint', bank', n)]
  BY DEF nightOf, StateOf, Held

LEMMA SaveMoves ==
  ASSUME NEW moves,
         \A n \in Units \X Days :
           LET s == StateOf(blocks, maint, bank, n)
               t == StateOf(blocks', maint', bank', n) IN
           t = s \/ <<s, t>> \in moves
  PROVE  Pool!Save(moves)
  <1>1. nightOf' \in [Units \X Days -> Pool!States]
    BY NightIs DEF StateOf, Pool!States
  <1>2. \A n \in Units \X Days :
          nightOf'[n] = nightOf[n] \/ <<nightOf[n], nightOf'[n]>> \in moves
    BY NightIs
  <1> QED BY <1>1, <1>2 DEF Pool!Save, Pool!Nights

LEMMA MoreHeld ==
  ASSUME NEW S, NEW T, S \subseteq T, NEW n, Held(S, n)
  PROVE  Held(T, n)
  BY DEF Held, At

(* A step writes one of the three tables, and never replaces a block.      *)
LEMMA OneTable ==
  ASSUME [Next]_vars
  PROVE  \/ blocks' = blocks /\ maint' = maint
         \/ blocks' = blocks /\ bank' = bank
         \/ /\ maint' = maint /\ bank' = bank
            /\ blocks \subseteq blocks' \/ blocks' \subseteq blocks
  <1>1. CASE UNCHANGED vars
    BY <1>1 DEF vars
  <1>2. ASSUME NEW c \in Clerks,
               \/ UnitMove(c)
               \/ MaintCreateCommit(c) \/ MaintUpdateCommit(c) \/ MaintDeleteCommit(c)
        PROVE  blocks' = blocks /\ bank' = bank
    BY <1>2 DEF UnitMove, UnitCreate, UnitUpdate, UnitDeleteCommit,
                MaintCreateCommit, MaintUpdateCommit, MaintDeleteCommit
  <1>3. ASSUME NEW c \in Clerks,
               \/ UnitDeleteAsk(c) \/ BlockCreateAsk(c) \/ BlockBatchAsk(c) \/ BlockDeleteAsk(c)
               \/ MaintCreateAsk(c) \/ MaintUpdateAsk(c) \/ MaintDeleteAsk(c)
               \/ BankSaveAsk(c) \/ BankYearDeleteAsk(c)
               \/ GridRead(c) \/ Abandon(c) \/ BankCommit(c)
        PROVE  blocks' = blocks /\ maint' = maint
    BY <1>3 DEF UnitDeleteAsk, BlockCreateAsk, BlockBatchAsk, BlockDeleteAsk,
                MaintCreateAsk, MaintUpdateAsk, MaintDeleteAsk, BankSaveAsk,
                BankYearDeleteAsk, Ask, GridRead, Abandon, tables, BankCommit
  <1>4. ASSUME NEW c \in Clerks, BlockCreateCommit(c) \/ BlockDeleteCommit(c)
        PROVE  /\ maint' = maint /\ bank' = bank
               /\ blocks \subseteq blocks' \/ blocks' \subseteq blocks
    BY <1>4 DEF BlockCreateCommit, BlockDeleteCommit
  <1> QED BY <1>1, <1>2, <1>3, <1>4 DEF Next, UnitMove

LEMMA PoolStep ==
  ASSUME HeldWell(blocks, maint, bank), HeldWell(blocks', maint', bank'), [Next]_vars
  PROVE  [Pool!Next]_nightOf
  <1>1. CASE blocks' = blocks /\ maint' = maint
    <2>1. Pool!Save(Pool!Holding("banked"))
      BY <1>1, SaveMoves DEF HeldWell, StateOf, Pool!Holding
    <2> QED BY <2>1 DEF Pool!Next
  <1>2. CASE blocks' = blocks /\ bank' = bank
    <2>1. Pool!Save(Pool!Holding("maintained"))
      BY <1>2, SaveMoves DEF HeldWell, StateOf, Pool!Holding
    <2> QED BY <2>1 DEF Pool!Next
  <1>3. CASE maint' = maint /\ bank' = bank /\ blocks \subseteq blocks'
    <2>1. Pool!Save(Pool!Opening)
      BY <1>3, SaveMoves, MoreHeld DEF StateOf, Pool!Opening
    <2> QED BY <2>1 DEF Pool!Next
  <1>4. CASE maint' = maint /\ bank' = bank /\ blocks' \subseteq blocks
    <2>1. Pool!Save(Pool!Closing)
      BY <1>4, SaveMoves, MoreHeld DEF StateOf, Pool!Closing
    <2> QED BY <2>1 DEF Pool!Next
  <1> QED BY <1>1, <1>2, <1>3, <1>4, OneTable

LEMMA PoolInit == Init => Pool!Init
  BY NightIs DEF Init, Pool!Init, Pool!Nights, StateOf, Held, At

(* The four screens of a resort, seen from its unit-nights: whatever is    *)
(* offered, withdrawn, banked, edited and deleted, each save moves every   *)
(* night along one arrow of UnitNights, as long as one clerk at most holds *)
(* nights and no other deletes blocks meanwhile.                           *)
THEOREM GridImplementsPool ==
  ASSUME SingleKeeper, RemoverHoldsAlone
  PROVE  Spec => PoolSpec
  <1> DEFINE Inv == HoldInv /\ CoverInv
  <1>1. Init => Inv /\ Pool!Init
    BY HoldInit, CoverInit, PoolInit
  <1>2. Inv /\ [Next]_vars => Inv'
    BY HoldStep, CoverStep
  <1>3. Inv => HeldWell(blocks, maint, bank)
    BY ApartHeldWell DEF HoldInv, CoverInv
  <1>4. Inv' => HeldWell(blocks', maint', bank')
    <2>1. Inv' => (HeldWell(blocks, maint, bank))'
      BY <1>3, PTL
    <2> QED BY <2>1
  <1>5. Inv /\ Inv' /\ [Next]_vars => [Pool!Next]_nightOf
    BY <1>3, <1>4, PoolStep
  <1> HIDE DEF Inv
  <1> QED BY <1>1, <1>2, <1>5, PTL DEF Spec, PoolSpec, Pool!Spec
-----------------------------------------------------------------------------
(* Registered units.  A unit is deleted after a search for rows that carry *)
(* its number, and a row is saved after a look at its unit; an edit moves  *)
(* a unit to another number without either.                                *)
DeleterAddsAlone ==
  \A c, d \in Clerks :
    "deleteUnit" \in Ops[c] /\ Ops[d] \cap Additions # {} => c = d

InUse == {r.unit : r \in Rows}
Adders == {c \in Clerks : handler[c].op \in Additions}
Adding(c) == handler[c].units \ handler[c].fresh
Wanted == InUse \cup UNION {Adding(c) : c \in Adders}

(* What request h to delete a unit knows of it, when unsafe are the numbers*)
(* that rows need and no edit has parted from their unit.                  *)
Deletable(h, types, unsafe) ==
  h.op = "deleteUnit" =>
    /\ \E u : h.units \subseteq {u}
    /\ h.units \cap unsafe = {}
    /\ \A u \in h.units : types[u] # NoType

OrphanInv ==
  /\ WorkInv
  /\ \A u \in Wanted : unitType[u] # NoType \/ u \in renamed
  /\ \A c \in Clerks : Deletable(handler[c], unitType, Wanted \ renamed)

LEMMA WantedFiled ==
  ASSUME NEW u
  PROVE  u \in Wanted <=> Filed(u) # {}
  <1>1. u \in InUse <=> {r.type : r \in {s \in Rows : s.unit = u}} # {}
    BY DEF InUse
  <1>2. (\E c \in Adders : u \in Adding(c)) <=>
        {handler[c].type : c \in {d \in Clerks : /\ handler[d].op \in Additions
                                               /\ u \in handler[d].units \ handler[d].fresh}} # {}
    BY DEF Adders, Adding
  <1> QED BY <1>1, <1>2 DEF Wanted, Filed

LEMMA UnitsOfRequest ==
  ASSUME WorkInv, NEW c \in Clerks, handler[c].op # "idle"
  PROVE  handler[c].units \subseteq Units
  BY RequestAtWork DEF WorkInv, GridInv, Requests

LEMMA WantedUnits ==
  ASSUME WorkInv
  PROVE  Wanted \subseteq Units
  <1>1. InUse \subseteq Units
    BY DEF InUse, Rows, WorkInv, GridInv, TypeOK, Row
  <1>2. \A c \in Adders : Adding(c) \subseteq Units
    BY UnitsOfRequest DEF Adders, Adding, Additions
  <1> QED BY <1>1, <1>2 DEF Wanted

(* Beside a request that adds rows there is none to delete a unit.         *)
LEMMA AdderAlone ==
  ASSUME DeleterAddsAlone, WorkInv, NEW c \in Clerks, handler[c].op \in Additions
  PROVE  \A d \in Clerks : handler[d].op # "deleteUnit"
  BY DEF DeleterAddsAlone, WorkInv, Additions

(* Which numbers are wanted after a step of one request.                   *)
LEMMA WantedAfter ==
  ASSUME NEW c \in Clerks, Others(c), NEW more,
         InUse' \subseteq InUse \cup more,
         handler'[c].op \in Additions => handler'[c].units \ handler'[c].fresh \subseteq more
  PROVE  Wanted' \subseteq Wanted \cup more
  <1>1. ASSUME NEW d \in Clerks, handler'[d].op \in Additions
        PROVE  handler'[d].units \ handler'[d].fresh \subseteq Wanted \cup more
    <2>1. CASE d = c
      BY <1>1, <2>1
    <2>2. CASE d # c
      <3>1. handler'[d] = handler[d]
        BY <2>2 DEF Others
      <3> QED BY <1>1, <3>1 DEF Wanted, Adders, Adding
    <2> QED BY <2>1, <2>2
  <1>2. InUse' \subseteq Wanted \cup more
    BY DEF Wanted
  <1> QED BY <1>1, <1>2 DEF Wanted, Adders, Adding

(* Steps of a request that register and unregister no unit.                *)
LEMMA OrphanFrame ==
  ASSUME DeleterAddsAlone, OrphanInv, WorkInv', NEW c \in Clerks, Others(c),
         unitType' = unitType, renamed' = renamed, NEW more,
         Wanted' \subseteq Wanted \cup more,
         \A u \in more : u \in Wanted \/ unitType[u] # NoType,
         \/ more = {}
         \/ handler[c].op \in Additions \/ handler'[c].op \in Additions,
         Deletable(handler'[c], unitType, Wanted' \ renamed)
  PROVE  OrphanInv'
  <1>1. \A u \in Wanted' : unitType'[u] # NoType \/ u \in renamed'
    BY DEF OrphanInv
  <1>2. \A d \in Clerks : Deletable(handler'[d], unitType, Wanted' \ renamed)
    <2> SUFFICES ASSUME NEW d \in Clerks, d # c, handler'[d].op = "deleteUnit"
                 PROVE  Deletable(handler'[d], unitType, Wanted' \ renamed)
      BY DEF Deletable
    <2>1. handler'[d] = handler[d]
      BY DEF Others
    <2>2. handler[c].op \notin Additions
      BY <2>1, AdderAlone DEF OrphanInv
    <2>3. handler'[c].op \notin Additions
      BY <2>1 DEF DeleterAddsAlone, OrphanInv, WorkInv, Additions
    <2>4. Wanted' \subseteq Wanted
      BY <2>2, <2>3
    <2> QED BY <2>1, <2>4 DEF OrphanInv, Deletable
  <1> QED BY <1>1, <1>2 DEF OrphanInv

LEMMA OrphanStays ==
  ASSUME DeleterAddsAlone, OrphanInv, WorkInv', NEW c \in Clerks, Others(c),
         unitType' = unitType, renamed' = renamed, Wanted' \subseteq Wanted,
         Deletable(handler'[c], unitType, Wanted' \ renamed)
  PROVE  OrphanInv'
  <1>1. PICK more : more = {}
    OBVIOUS
  <1>2. Wanted' \subseteq Wanted \cup more
    BY <1>1
  <1> QED BY <1>1, <1>2, OrphanFrame

(* The rows a save inserts are rows of its units.                          *)
LEMMA NewRowsUnits ==
  ASSUME NEW table, NEW units, NEW t, NEW ranges
  PROVE  \A r \in NewRows(table, units, t, ranges) : r.unit \in units
  <1>1. \A u, days : NewRow(table, u, t, days).unit = u
    BY DEF NewRow
  <1> QED BY <1>1 DEF NewRows

LEMMA AddedInUse ==
  ASSUME NEW c \in Clerks, BlockCreateCommit(c) \/ MaintCreateCommit(c) \/ BankCommit(c)
  PROVE  InUse' \subseteq InUse \cup handler[c].units
  <1> DEFINE h == handler[c]
             new(table) == NewRows(table, h.units, h.type, h.ranges)
  <1>1. \E table : Rows' \subseteq Rows \cup new(table)
    <2>1. CASE BlockCreateCommit(c)
      BY <2>1 DEF BlockCreateCommit, Rows
    <2>2. CASE MaintCreateCommit(c)
      BY <2>2 DEF MaintCreateCommit, Rows
    <2>3. CASE BankCommit(c)
      BY <2>3 DEF BankCommit, Rows
    <2> QED BY <2>1, <2>2, <2>3
  <1>2. \A table : \A r \in new(table) : r.unit \in h.units
    BY NewRowsUnits
  <1> HIDE DEF new
  <1> QED BY <1>1, <1>2 DEF InUse

LEMMA OrphanAsked ==
  ASSUME DeleterAddsAlone, OrphanInv, WorkInv', NEW c \in Clerks,
         \/ UnitDeleteAsk(c) \/ BlockCreateAsk(c) \/ BlockBatchAsk(c) \/ BlockDeleteAsk(c)
         \/ MaintCreateAsk(c) \/ MaintUpdateAsk(c) \/ MaintDeleteAsk(c)
         \/ BankSaveAsk(c) \/ BankYearDeleteAsk(c)
  PROVE  OrphanInv'
  <1>1. GridInv
    BY DEF OrphanInv, WorkInv
  <1>2. CASE UnitDeleteAsk(c)
    <2>0. PICK u \in Units :
            \E h : /\ Accepted(c, h) /\ h.op = "deleteUnit" /\ h.units = {u}
                   /\ unitType[u] # NoType /\ \A r \in Rows : r.unit # u
      BY <1>1, <1>2, UnitDeleteAsked
    <2>1. PICK h : /\ Accepted(c, h) /\ h.op = "deleteUnit" /\ h.units = {u}
                   /\ unitType[u] # NoType /\ \A r \in Rows : r.unit # u
      BY <2>0
    <2>2. /\ handler'[c] = h /\ Others(c) /\ InUse' = InUse
          /\ unitType' = unitType /\ renamed' = renamed
      BY <2>1 DEF Accepted, InUse, Rows
    <2>3. Wanted' \subseteq Wanted
      <3>1. Wanted' \subseteq Wanted \cup {}
        BY <2>1, <2>2, WantedAfter DEF Additions
      <3> QED BY <3>1
    <2>4. \A d \in Clerks : handler'[d].op \notin Additions
      BY <2>1, <2>2 DEF DeleterAddsAlone, WorkInv, Additions
    <2>5. u \notin Wanted'
      BY <2>1, <2>2, <2>4 DEF Wanted, Adders, Adding, InUse
    <2>6. Deletable(h, unitType, Wanted' \ renamed)
      BY <2>1, <2>5 DEF Deletable
    <2> QED BY <2>2, <2>3, <2>6, OrphanStays
  <1>3. CASE BlockCreateAsk(c) \/ BlockBatchAsk(c) \/ MaintCreateAsk(c) \/ BankSaveAsk(c)
    <2>1. PICK h : /\ Accepted(c, h) /\ h.op \in Additions
                   /\ \A u \in h.units \ h.fresh : unitType[u] # NoType
      <3>1. CASE BlockCreateAsk(c) \/ BlockBatchAsk(c)
        BY <1>1, <3>1, BlockAsked DEF Additions
      <3>2. CASE MaintCreateAsk(c)
        BY <1>1, <3>2, MaintCreateAsked DEF Additions
      <3>3. CASE BankSaveAsk(c)
        BY <1>1, <3>3, BankSaveAsked DEF Additions
      <3> QED BY <1>3, <3>1, <3>2, <3>3
    <2>2. /\ handler'[c] = h /\ Others(c) /\ InUse' = InUse
          /\ unitType' = unitType /\ renamed' = renamed
      BY <2>1 DEF Accepted, InUse, Rows
    <2>3. Wanted' \subseteq Wanted \cup (h.units \ h.fresh)
      BY <2>2, WantedAfter
    <2>4. Deletable(h, unitType, Wanted' \ renamed)
      BY <2>1 DEF Deletable, Additions
    <2> QED BY <2>1, <2>2, <2>3, <2>4, OrphanFrame
  <1>4. CASE BlockDeleteAsk(c) \/ MaintUpdateAsk(c) \/ MaintDeleteAsk(c) \/ BankYearDeleteAsk(c)
    <2>1. PICK h : Accepted(c, h) /\ h.op \notin Additions /\ h.op # "deleteUnit"
      BY <1>1, <1>4, BlockDeleteAsked, MaintUpdateAsked, MaintDeleteAsked,
         BankYearDeleteAsked DEF Additions
    <2>2. /\ handler'[c] = h /\ Others(c) /\ InUse' = InUse
          /\ unitType' = unitType /\ renamed' = renamed
      BY <2>1 DEF Accepted, InUse, Rows
    <2>3. Wanted' \subseteq Wanted
      <3>1. Wanted' \subseteq Wanted \cup {}
        BY <2>1, <2>2, WantedAfter
      <3> QED BY <3>1
    <2>4. Deletable(h, unitType, Wanted' \ renamed)
      BY <2>1 DEF Deletable
    <2> QED BY <2>2, <2>3, <2>4, OrphanStays
  <1> QED BY <1>2, <1>3, <1>4

LEMMA OrphanInit == Init => OrphanInv
  <1> SUFFICES ASSUME Init PROVE OrphanInv
    OBVIOUS
  <1>1. WorkInv /\ \A c \in Clerks : handler[c].op = "idle"
    BY WorkInit, IdleTyped DEF Init
  <1>2. Wanted = {}
    BY <1>1 DEF Init, Wanted, InUse, Rows, Adders, Additions
  <1> QED BY <1>1, <1>2 DEF OrphanInv, Deletable

(* A unit that is registered, moved to another number, or deleted.         *)
LEMMA WantedStays ==
  ASSUME GridInv, NEW c \in Clerks, UnitMove(c)
  PROVE  Wanted' \subseteq Wanted
  <1>1. InUse' = InUse
    BY UnitsMove DEF InUse, Rows
  <1>2. \A d \in Clerks : handler'[d].op \in Additions => handler'[d] = handler[d]
    BY RequestsStay DEF Additions
  <1> QED BY <1>1, <1>2 DEF Wanted, Adders, Adding

LEMMA OrphanMoved ==
  ASSUME DeleterAddsAlone, OrphanInv, WorkInv', NEW c \in Clerks, UnitMove(c)
  PROVE  OrphanInv'
  <1>1. /\ GridInv /\ TypeOK /\ Wanted \subseteq Units /\ Wanted' \subseteq Wanted
        /\ \A d \in Clerks : handler[d].op # "idle" => handler[d].units \subseteq Units
    BY WantedUnits, WantedStays, UnitsOfRequest DEF OrphanInv, WorkInv, GridInv
  <1>2. CASE UnitCreate(c)
    <2>1. PICK u \in Units, t \in Types :
            /\ unitType[u] = NoType /\ unitType' = [unitType EXCEPT ![u] = t]
            /\ renamed' = renamed \ {u}
      BY <1>2 DEF UnitCreate
    <2>2. /\ unitType'[u] # NoType
          /\ \A v \in Units \ {u} : unitType'[v] = unitType[v]
      BY <1>1, <2>1, UnitsAssumption DEF TypeOK
    <2>3. \A v \in Wanted' : unitType'[v] # NoType \/ v \in renamed'
      BY <1>1, <2>1, <2>2 DEF OrphanInv
    <2>4. handler' = handler
      BY <1>2 DEF UnitCreate
    <2>5. ASSUME NEW d \in Clerks, handler[d].op = "deleteUnit"
          PROVE  Deletable(handler[d], unitType', Wanted' \ renamed')
      <3>1. handler[d].units \subseteq Units /\ Deletable(handler[d], unitType, Wanted \ renamed)
        BY <1>1, <2>5 DEF OrphanInv
      <3>2. u \notin handler[d].units
        BY <2>1, <2>5, <3>1 DEF Deletable
      <3> QED BY <1>1, <2>1, <2>2, <2>5, <3>1, <3>2 DEF Deletable
    <2> QED BY <2>3, <2>4, <2>5 DEF OrphanInv, Deletable
  <1>3. CASE UnitUpdate(c)
    <2>1. PICK u \in Units, v \in Units, t \in Types :
            /\ unitType[u] # NoType
            /\ v = u \/ unitType[v] = NoType
            /\ unitType' = [unitType EXCEPT ![u] = NoType, ![v] = t]
            /\ renamed' = IF v = u THEN renamed
                          ELSE renamed \cup {n \in {u, v} : Filed(n) # {}}
            /\ handler' = Follow({u}, {v})
      BY <1>3, UnitsAssumption DEF UnitUpdate
    <2>2. /\ unitType'[v] # NoType
          /\ \A w \in Units \ {u, v} : unitType'[w] = unitType[w]
      BY <1>1, <2>1, UnitsAssumption DEF TypeOK
    <2>3. /\ renamed \subseteq renamed'
          /\ u # v => \A n \in {u, v} : n \in Wanted => n \in renamed'
      BY <2>1, WantedFiled
    <2>4. \A w \in Wanted' : unitType'[w] # NoType \/ w \in renamed'
      BY <1>1, <2>2, <2>3 DEF OrphanInv
    <2>5. ASSUME NEW d \in Clerks, handler'[d].op = "deleteUnit"
          PROVE  Deletable(handler'[d], unitType', Wanted' \ renamed')
      <3>1. /\ handler[d].op = "deleteUnit"
            /\ handler[d].units = {u} => handler'[d].units = {v}
            /\ handler[d].units # {u} => handler'[d] = handler[d]
        <4>1. PICK old : old = {u}
          OBVIOUS
        <4>2. PICK new \in SUBSET Units : new = {v}
          OBVIOUS
        <4>3. handler'[d] = Follow(old, new)[d]
          BY <2>1, <4>1, <4>2
        <4>4. /\ handler'[d].op = handler[d].op
              /\ handler[d].op = "deleteUnit" /\ handler[d].units = old =>
                   handler'[d].units = new
              /\ handler[d].units # old => handler'[d] = handler[d]
          BY <1>1, <4>3, Followed
        <4> QED BY <2>5, <4>1, <4>2, <4>4
      <3>2. /\ handler[d].units \subseteq Units
            /\ Deletable(handler[d], unitType, Wanted \ renamed)
        BY <1>1, <3>1 DEF OrphanInv
      <3>3. CASE handler[d].units = {u}
        <4>1. v \notin Wanted' \ renamed'
          BY <1>1, <2>3, <3>1, <3>2, <3>3 DEF Deletable
        <4> QED BY <2>2, <3>1, <3>3, <4>1 DEF Deletable
      <3>4. CASE handler[d].units # {u}
        <4>1. u \notin handler[d].units /\ handler'[d] = handler[d]
          BY <3>1, <3>2, <3>4 DEF Deletable
        <4>2. v \notin handler[d].units
          BY <2>1, <3>1, <3>2, <4>1 DEF Deletable
        <4> QED BY <1>1, <2>2, <2>3, <3>1, <3>2, <4>1, <4>2 DEF Deletable
      <3> QED BY <3>3, <3>4
    <2> QED BY <2>4, <2>5 DEF OrphanInv, Deletable
  <1>4. CASE UnitDeleteCommit(c)
    <2> DEFINE units == handler[c].units
    <2>1. /\ handler[c].op = "deleteUnit" /\ units # {} /\ units \subseteq Units
          /\ Deletable(handler[c], unitType, Wanted \ renamed)
          /\ unitType' = [u \in Units |-> IF u \in units THEN NoType ELSE unitType[u]]
          /\ renamed' = renamed
      BY <1>1, <1>4 DEF UnitDeleteCommit, OrphanInv
    <2>2. \A u \in Wanted' : unitType'[u] # NoType \/ u \in renamed'
      BY <1>1, <2>1 DEF OrphanInv, Deletable
    <2>3. ASSUME NEW d \in Clerks, handler'[d].op = "deleteUnit"
          PROVE  Deletable(handler'[d], unitType', Wanted' \ renamed')
      <3>1. d # c /\ handler'[d] = Follow(units, {})[d]
        <4> DEFINE f == Follow(units, {})
        <4>1. handler' = [f EXCEPT ![c] = Idle] /\ f = [e \in Clerks |-> f[e]]
          BY <1>4 DEF UnitDeleteCommit, Follow
        <4> HIDE DEF f
        <4> QED BY <2>3, <4>1, IdleTyped DEF f
      <3>2. /\ handler[d].op = "deleteUnit"
            /\ handler[d].units = units => handler'[d].units = {}
            /\ handler[d].units # units => handler'[d] = handler[d]
        BY <1>1, <2>3, <3>1, Followed
      <3>3. handler[d].units \subseteq Units /\ Deletable(handler[d], unitType, Wanted \ renamed)
        BY <1>1, <3>2 DEF OrphanInv
      <3>4. CASE handler[d].units = units
        BY <3>2, <3>4 DEF Deletable
      <3>5. CASE handler[d].units # units
        <4>1. handler[d].units \cap units = {}
          <5>1. PICK u : units \subseteq {u}
            BY <2>1 DEF Deletable
          <5>2. PICK v : handler[d].units \subseteq {v}
            BY <3>2, <3>3 DEF Deletable
          <5> HIDE DEF units
          <5> QED BY <3>5, <5>1, <5>2
        <4> HIDE DEF units
        <4> QED BY <1>1, <2>1, <3>2, <3>3, <3>5, <4>1 DEF Deletable
      <3> QED BY <3>4, <3>5
    <2> QED BY <2>2, <2>3 DEF OrphanInv, Deletable
  <1> QED BY <1>2, <1>3, <1>4 DEF UnitMove

(* A block registers the units of its batch that are missing.              *)
LEMMA OrphanBlockCreated ==
  ASSUME DeleterAddsAlone, OrphanInv, WorkInv', NEW c \in Clerks, BlockCreateCommit(c)
  PROVE  OrphanInv'
  <1> DEFINE h == handler[c]
  <1>1. /\ GridInv /\ h.op = "addBlock" /\ handler'[c].op = "idle" /\ Others(c)
        /\ renamed' = renamed \ h.fresh
        /\ unitType' = [u \in Units |-> IF u \in h.fresh THEN h.type ELSE unitType[u]]
    BY Committed DEF BlockCreateCommit, OrphanInv, WorkInv
  <1>2. h.type # NoType /\ h.units \subseteq Units /\ Wanted \subseteq Units
    BY <1>1, UnitsOfRequest, WantedUnits, UnitsAssumption DEF GridInv, TypedRequests, OrphanInv
  <1>3. h.units \ h.fresh \subseteq Wanted
    BY <1>1 DEF Wanted, Adders, Adding, Additions
  <1>4. \A d \in Clerks : handler'[d].op # "deleteUnit"
    BY <1>1, AdderAlone DEF OrphanInv, Others, Additions
  <1>5. Wanted' \subseteq Wanted \cup h.units
    <2>1. InUse' \subseteq InUse \cup h.units
      BY AddedInUse
    <2> HIDE DEF h
    <2> QED BY <1>1, <2>1, WantedAfter DEF Additions
  <1> HIDE DEF h
  <1>6. \A u \in Wanted' : u \in Units /\ (u \in Wanted \/ u \in h.fresh)
    BY <1>2, <1>3, <1>5
  <1>7. \A u \in Wanted' : unitType'[u] # NoType \/ u \in renamed'
    BY <1>1, <1>2, <1>6 DEF OrphanInv
  <1> QED BY <1>4, <1>7 DEF OrphanInv, Deletable

LEMMA OrphanStep ==
  ASSUME DeleterAddsAlone, OrphanInv, [Next]_vars
  PROVE  OrphanInv'
  <1>1. WorkInv' /\ GridInv /\ TypeOK
    BY WorkStep DEF OrphanInv, WorkInv, GridInv
  <1>2. CASE UNCHANGED vars
    BY <1>1, <1>2 DEF vars, OrphanInv, Wanted, InUse, Rows, Adders, Adding
  <1>3. ASSUME NEW c \in Clerks, UnitMove(c) PROVE OrphanInv'
    BY <1>1, <1>3, OrphanMoved
  <1>4. ASSUME NEW c \in Clerks,
               \/ UnitDeleteAsk(c) \/ BlockCreateAsk(c) \/ BlockBatchAsk(c) \/ BlockDeleteAsk(c)
               \/ MaintCreateAsk(c) \/ MaintUpdateAsk(c) \/ MaintDeleteAsk(c)
               \/ BankSaveAsk(c) \/ BankYearDeleteAsk(c)
        PROVE  OrphanInv'
    BY <1>1, <1>4, OrphanAsked
  <1>5. ASSUME NEW c \in Clerks, GridRead(c) PROVE OrphanInv'
    <2>1. /\ unitType' = unitType /\ renamed' = renamed /\ InUse' = InUse /\ Others(c)
          /\ handler'[c].op = handler[c].op /\ handler'[c].units = handler[c].units
          /\ handler'[c].fresh = handler[c].fresh /\ handler[c].op # "deleteUnit"
      BY <1>1, <1>5, GridWasRead DEF InUse, Rows, GridRead
    <2>2. handler[c].op \in Additions => handler[c].units \ handler[c].fresh \subseteq Wanted
      BY DEF Wanted, Adders, Adding
    <2>3. handler'[c].op \in Additions => handler'[c].units \ handler'[c].fresh \subseteq Wanted
      BY <2>1, <2>2
    <2>4. Wanted' \subseteq Wanted \cup Wanted
      BY <2>1, <2>3, WantedAfter
    <2>5. Deletable(handler'[c], unitType, Wanted' \ renamed)
      BY <2>1 DEF Deletable
    <2> QED BY <1>1, <2>1, <2>4, <2>5, OrphanStays
  <1>6. ASSUME NEW c \in Clerks, BlockCreateCommit(c) PROVE OrphanInv'
    BY <1>1, <1>6, OrphanBlockCreated
  <1>7. ASSUME NEW c \in Clerks,
               \/ BlockDeleteCommit(c) \/ MaintCreateCommit(c) \/ MaintUpdateCommit(c)
               \/ MaintDeleteCommit(c) \/ BankCommit(c) \/ Abandon(c)
        PROVE  OrphanInv'
    <2>1. /\ handler'[c].op = "idle" /\ Others(c) /\ unitType' = unitType
          /\ renamed' = renamed
      BY <1>1, <1>7, Committed DEF BlockDeleteCommit, MaintCreateCommit, MaintUpdateCommit,
                                   MaintDeleteCommit, BankCommit, Abandon, tables
    <2>2. InUse' \subseteq InUse \cup Wanted
      <3>1. CASE BlockDeleteCommit(c) \/ MaintDeleteCommit(c) \/ Abandon(c)
        BY <3>1 DEF BlockDeleteCommit, MaintDeleteCommit, Abandon, tables, InUse, Rows
      <3>2. CASE MaintUpdateCommit(c)
        <4>1. PICK m, days :
                /\ m \in maint
                /\ maint' = (maint \ {m})
                              \cup {[m EXCEPT !.days = days, !.type = handler[c].type]}
          BY <3>2 DEF MaintUpdateCommit
        <4>2. [m EXCEPT !.days = days, !.type = handler[c].type].unit = m.unit
          BY <1>1 DEF TypeOK, Row
        <4> QED BY <3>2, <4>1, <4>2 DEF MaintUpdateCommit, InUse, Rows
      <3>3. CASE MaintCreateCommit(c) \/ BankCommit(c)
        <4>1. handler[c].op \in {"addMaint", "saveBank", "deleteBank"}
          BY <3>3 DEF MaintCreateCommit, BankCommit, HasRead
        <4>2. WellFormed(handler[c])
          BY <4>1 DEF OrphanInv, WorkInv
        <4>3. handler[c].units \subseteq Wanted
          BY <4>1, <4>2 DEF WellFormed, Wanted, Adders, Adding, Additions
        <4> QED BY <3>3, <4>3, AddedInUse
      <3> QED BY <1>7, <3>1, <3>2, <3>3
    <2>3. Wanted' \subseteq Wanted \cup Wanted
      BY <2>1, <2>2, WantedAfter DEF Additions
    <2>4. Deletable(handler'[c], unitType, Wanted' \ renamed)
      BY <2>1 DEF Deletable
    <2> QED BY <1>1, <2>1, <2>3, <2>4, OrphanStays
  <1> QED BY <1>2, <1>3, <1>4, <1>5, <1>6, <1>7 DEF Next, UnitMove

(* A block, maintenance record or banked week has a number that no unit    *)
(* has only after an edit parted the two: deleting a unit, registering one *)
(* and adding rows never leave a row without its unit, although nothing    *)
(* ties them together but the searches before the writes and edits move    *)
(* units in between, as long as nobody adds rows beside a clerk who        *)
(* deletes units.                                                          *)
THEOREM RowsKeepTheirUnits ==
  ASSUME DeleterAddsAlone
  PROVE  Spec => []NoOrphansUnlessRenamed
  <1>1. OrphanInv /\ [Next]_vars => OrphanInv'
    BY OrphanStep
  <1>2. OrphanInv => NoOrphansUnlessRenamed
    BY DEF OrphanInv, NoOrphansUnlessRenamed, Wanted, InUse
  <1> QED BY <1>1, <1>2, OrphanInit, PTL DEF Spec
-----------------------------------------------------------------------------
(* Units offered.  A block adds its units to actNight in place, and takes  *)
(* its unit away by writing one less than what it read; so nobody else may *)
(* write actNight between that read and that write.                        *)
RemoverOffersAlone ==
  \A c, d \in Clerks :
    "deleteBlock" \in Ops[c] /\ Ops[d] \cap {"addBlock", "deleteBlock"} # {} => c = d

Counted(bs, x) == {b \in bs : b.type = x[1] /\ x[2] \in b.days}

(* What request h has read of the column.                                  *)
ReadAct(h, column) ==
  h.op = "deleteBlock" /\ h.snap # NoSnap =>
    \A d \in Days : h.snap.act[d] = column[h.type, d]

ActInv ==
  /\ WorkInv
  /\ \A x \in Cells : act[x] = Cardinality(Counted(blocks, x))
  /\ \A c \in Clerks : ReadAct(handler[c], act)

LEMMA CountedFinite ==
  ASSUME NEW bs, IsFiniteSet(bs), NEW x
  PROVE  IsFiniteSet(Counted(bs, x)) /\ Cardinality(Counted(bs, x)) \in Nat
  BY FS_Subset, FS_CardinalityType DEF Counted

(* One save inserts one row per unit.                                      *)
LEMMA NewRowsCount ==
  ASSUME NEW table, NEW units \in SUBSET Units, NEW t, NEW ranges, NEW days \in ranges,
         \A more \in ranges : more = days
  PROVE  Cardinality(NewRows(table, units, t, ranges)) = Cardinality(units)
  <1> DEFINE rows == NewRows(table, units, t, ranges)
             f == [u \in units |-> NewRow(table, u, t, days)]
  <1>1. \A u : NewRow(table, u, t, days).unit = u
    BY DEF NewRow
  <1>2. rows = {NewRow(table, u, t, days) : u \in units}
    BY DEF NewRows
  <1>3. f \in [units -> rows] /\ \A r \in rows : \E u \in units : f[u] = r
    BY <1>2
  <1>4. \A u, v \in units : f[u] = f[v] => u = v
    BY <1>1
  <1>5. IsFiniteSet(units)
    BY UnitsAssumption, FS_Subset
  <1> HIDE DEF f, rows
  <1>6. f \in Surjection(units, rows) /\ f \in Injection(units, rows)
    BY <1>3, <1>4, Fun_IsSurj, Fun_IsInj
  <1> QED BY <1>5, <1>6, FS_Surjection DEF rows

(* Steps that write neither blocks nor actNight.                           *)
LEMMA ActFrame ==
  ASSUME ActInv, WorkInv', blocks' = blocks, act' = act,
         NEW c \in Clerks, Others(c), ReadAct(handler'[c], act')
  PROVE  ActInv'
  BY DEF ActInv, Others

LEMMA BlockCreateCounted ==
  ASSUME RemoverOffersAlone, ActInv, WorkInv', NEW c \in Clerks, BlockCreateCommit(c)
  PROVE  ActInv'
  <1> DEFINE h == handler[c]
             new == NewRows(blocks, h.units, h.type, h.ranges)
  <1>1. /\ h.op = "addBlock" /\ handler'[c].op = "idle" /\ Others(c)
        /\ blocks' = blocks \cup new
        /\ act' = Offered(act, h.type, UNION h.ranges, Cardinality(h.units))
    BY Committed DEF BlockCreateCommit, ActInv, WorkInv
  <1>2. /\ TypeOK /\ FiniteRows /\ IsFiniteSet(blocks) /\ WellFormed(h)
        /\ h \in Requests /\ h.type \in Types
    BY <1>1, RequestAtWork DEF ActInv, WorkInv, GridInv, FiniteRows, TypedRequests
  <1>3. PICK days \in Ranges : h.ranges = {days}
    BY <1>1, <1>2 DEF WellFormed
  <1>4. h.units \in SUBSET Units
    BY <1>2 DEF Requests
  <1>5. \A r \in new : r.type = h.type /\ r.days = days /\ r \notin blocks
    <2> SUFFICES ASSUME NEW u \in h.units
                 PROVE  LET r == NewRow(blocks, u, h.type, days) IN
                        r.type = h.type /\ r.days = days /\ r \notin blocks
      BY <1>3 DEF NewRows
    <2> HIDE DEF h
    <2> QED BY <1>2, <1>4, NewRowType
  <1>6. Cardinality(new) = Cardinality(h.units) /\ IsFiniteSet(new)
    <2>1. h.ranges \in SUBSET Ranges
      BY <1>3
    <2> HIDE DEF h
    <2>2. Cardinality(new) = Cardinality(h.units)
      BY <1>3, <1>4, NewRowsCount
    <2>3. IsFiniteSet(new)
      BY <1>4, <2>1, NewRowsFinite
    <2> QED BY <2>2, <2>3
  <1>7. UNION h.ranges = days
    BY <1>3
  <1> HIDE DEF new, h
  <1>8. ASSUME NEW x \in Cells
        PROVE  act'[x] = Cardinality(Counted(blocks', x))
    <2>1. act[x] = Cardinality(Counted(blocks, x)) /\ act[x] \in Int
      BY <1>2 DEF ActInv, TypeOK
    <2>2. CASE x[1] = h.type /\ x[2] \in days
      <3>1. Counted(blocks', x) = Counted(blocks, x) \cup new
        BY <1>1, <1>5, <2>2 DEF Counted
      <3>2. Counted(blocks, x) \cap new = {}
        BY <1>5 DEF Counted
      <3>3. IsFiniteSet(Counted(blocks, x)) /\ Cardinality(Counted(blocks, x)) \in Nat
        BY <1>2, CountedFinite
      <3>4. Cardinality(Counted(blocks', x)) = act[x] + Cardinality(new)
        <4>1. Cardinality(new) \in Nat
          BY <1>6, FS_CardinalityType
        <4>2. Cardinality(Counted(blocks', x)) =
                Cardinality(Counted(blocks, x)) + Cardinality(new) - Cardinality({})
          BY <1>6, <3>1, <3>2, <3>3, FS_Union
        <4> QED BY <2>1, <4>1, <4>2, FS_EmptySet
      <3> QED BY <1>1, <1>6, <1>7, <2>2, <3>4 DEF Offered
    <2>3. CASE ~(x[1] = h.type /\ x[2] \in days)
      <3>1. Counted(blocks', x) = Counted(blocks, x)
        BY <1>1, <1>5, <2>3 DEF Counted
      <3> QED BY <1>1, <1>7, <2>1, <2>3, <3>1 DEF Offered
    <2> QED BY <2>2, <2>3
  <1>9. \A d \in Clerks : handler'[d].op # "deleteBlock"
    BY <1>1 DEF h, RemoverOffersAlone, ActInv, WorkInv, Others
  <1> QED BY <1>8, <1>9 DEF ActInv, ReadAct

LEMMA BlockDeleteCounted ==
  ASSUME RemoverOffersAlone, ActInv, WorkInv', NEW c \in Clerks, BlockDeleteCommit(c)
  PROVE  ActInv'
  <1> DEFINE h == handler[c]
             days == {d \in DaysOf(h.rows) : h.snap.act[d] > 0}
             less == [d \in Days |-> h.snap.act[d] - 1]
  <1>1. /\ h.op = "deleteBlock" /\ h.snap # NoSnap
        /\ handler'[c].op = "idle" /\ Others(c)
        /\ h.rows \subseteq blocks /\ blocks' = blocks \ h.rows
        /\ act' = Written(act, h.type, days, less)
    BY Committed DEF BlockDeleteCommit, HasRead, ActInv, WorkInv
  <1>2. TypeOK /\ FiniteRows /\ IsFiniteSet(blocks) /\ WellFormed(h)
    BY <1>1 DEF ActInv, WorkInv, GridInv, FiniteRows
  <1>3. PICK b \in Row : h.rows = {b} /\ b.type = h.type
    BY <1>1, <1>2 DEF WellFormed
  <1>4. b \in blocks /\ blocks' = blocks \ {b}
    BY <1>1, <1>3
  <1>5. DaysOf(h.rows) = b.days
    BY <1>3 DEF DaysOf
  <1>6. \A d \in Days : h.snap.act[d] = act[h.type, d]
    BY <1>1 DEF ActInv, ReadAct
  <1>7. b.days \subseteq Days
    BY DaysAssumption DEF Row
  <1>8. \A d \in Days : less[d] = act[h.type, d] - 1
    BY <1>6
  <1>9. days = {d \in b.days : act[h.type, d] > 0}
    BY <1>5, <1>6, <1>7
  <1> HIDE DEF h, days, less
  <1>10. ASSUME NEW t \in Types, NEW d \in Days
         PROVE  act'[t, d] = Cardinality(Counted(blocks', <<t, d>>))
    <2> DEFINE x == <<t, d>>
    <2>1. /\ x \in Cells /\ act[x] = Cardinality(Counted(blocks, x))
          /\ IsFiniteSet(Counted(blocks, x)) /\ act[x] \in Nat
      BY <1>2, CountedFinite DEF ActInv, Cells
    <2>2. act'[x] = IF t = h.type /\ d \in days THEN less[d] ELSE act[x]
      BY <1>1, <2>1 DEF Written
    <2>3. CASE t = h.type /\ d \in b.days
      <3>1. b \in Counted(blocks, x) /\ Counted(blocks', x) = Counted(blocks, x) \ {b}
        BY <1>3, <1>4, <2>3 DEF Counted
      <3>2. Cardinality(Counted(blocks', x)) = act[x] - 1
        BY <2>1, <3>1, FS_RemoveElement
      <3>3. act[x] # 0
        BY <2>1, <3>1, FS_EmptySet
      <3>4. act[h.type, d] = act[x]
        BY <2>3
      <3>5. act[x] > 0
        BY <2>1, <3>3
      <3>6. d \in days /\ less[d] = act[x] - 1
        <4>1. less[d] = act[h.type, d] - 1
          BY <1>8
        <4>2. d \in days
          BY <1>9, <2>3, <3>4, <3>5
        <4> QED BY <3>4, <4>1, <4>2
      <3> QED BY <2>2, <2>3, <3>2, <3>6
    <2>4. CASE ~(t = h.type /\ d \in b.days)
      <3>1. Counted(blocks', x) = Counted(blocks, x)
        BY <1>3, <1>4, <2>4 DEF Counted
      <3> QED BY <1>9, <2>1, <2>2, <2>4, <3>1
    <2> QED BY <2>3, <2>4
  <1>11. ASSUME NEW x \in Cells
         PROVE  act'[x] = Cardinality(Counted(blocks', x))
    <2>1. PICK t \in Types, d \in Days : x = <<t, d>>
      BY DEF Cells
    <2> QED BY <1>10, <2>1
  <1>12. \A e \in Clerks : handler'[e].op # "deleteBlock"
    BY <1>1 DEF h, RemoverOffersAlone, ActInv, WorkInv, Others
  <1> QED BY <1>11, <1>12 DEF ActInv, ReadAct

LEMMA ActInit == Init => ActInv
  <1> SUFFICES ASSUME Init PROVE ActInv
    OBVIOUS
  <1>1. \A x \in Cells : Counted(blocks, x) = {} /\ act[x] = 0
    BY DEF Init, Counted
  <1>2. \A c \in Clerks : ReadAct(handler[c], act)
    BY IdleTyped DEF Init, ReadAct
  <1> QED BY <1>1, <1>2, WorkInit, FS_EmptySet DEF ActInv

LEMMA ActStep ==
  ASSUME RemoverOffersAlone, ActInv, [Next]_vars
  PROVE  ActInv'
  <1>1. WorkInv' /\ GridInv
    BY WorkStep DEF ActInv, WorkInv
  <1>2. CASE UNCHANGED vars
    BY <1>1, <1>2 DEF vars, ActInv
  <1>3. ASSUME NEW c \in Clerks, UnitMove(c) PROVE ActInv'
    <2>1. blocks' = blocks /\ act' = act
      BY <1>1, <1>3, UnitsMove
    <2>2. \A d \in Clerks :
            handler'[d] = handler[d] \/ handler'[d].op \in {"idle", "deleteUnit"}
      BY <1>1, <1>3, RequestsStay
    <2>3. \A d \in Clerks : ReadAct(handler'[d], act')
      BY <2>1, <2>2 DEF ActInv, ReadAct
    <2> QED BY <1>1, <2>1, <2>3 DEF ActInv
  <1>4. ASSUME NEW c \in Clerks,
               \/ UnitDeleteAsk(c) \/ BlockCreateAsk(c) \/ BlockBatchAsk(c) \/ BlockDeleteAsk(c)
               \/ MaintCreateAsk(c) \/ MaintUpdateAsk(c) \/ MaintDeleteAsk(c)
               \/ BankSaveAsk(c) \/ BankYearDeleteAsk(c)
        PROVE  ActInv'
    <2>1. PICK h : Accepted(c, h)
      BY <1>1, <1>4, Asked
    <2> QED BY <1>1, <2>1, ActFrame DEF Accepted, ReadAct
  <1>5. ASSUME NEW c \in Clerks, GridRead(c) PROVE ActInv'
    BY <1>1, <1>5, GridWasRead, ActFrame DEF ReadAct
  <1>6. ASSUME NEW c \in Clerks, BlockCreateCommit(c) PROVE ActInv'
    BY <1>1, <1>6, BlockCreateCounted
  <1>7. ASSUME NEW c \in Clerks, BlockDeleteCommit(c) PROVE ActInv'
    BY <1>1, <1>7, BlockDeleteCounted
  <1>8. ASSUME NEW c \in Clerks,
               \/ MaintCreateCommit(c) \/ MaintUpdateCommit(c)
               \/ MaintDeleteCommit(c) \/ BankCommit(c) \/ Abandon(c)
        PROVE  ActInv'
    <2>1. handler'[c].op = "idle" /\ Others(c)
      BY <1>1, <1>8, Committed
    <2>2. blocks' = blocks /\ act' = act
      BY <1>8 DEF MaintCreateCommit, MaintUpdateCommit, MaintDeleteCommit, BankCommit,
                  Abandon, tables
    <2> QED BY <1>1, <2>1, <2>2, ActFrame DEF ReadAct
  <1> QED BY <1>2, <1>3, <1>4, <1>5, <1>6, <1>7, <1>8 DEF Next, UnitMove

(* actNight, never recomputed, counts the units offered: for every type    *)
(* and day, whoever offers units, edits them, withdraws and banks at the   *)
(* same time, as long as nobody else offers beside a clerk who deletes     *)
(* blocks.                                                                 *)
THEOREM OfferedUnitsCounted ==
  ASSUME RemoverOffersAlone
  PROVE  Spec => []ActCountsBlocks
  <1>1. ActInv /\ [Next]_vars => ActInv'
    BY ActStep
  <1>2. ActInv => ActCountsBlocks
    BY DEF ActInv, ActCountsBlocks, Counted
  <1> QED BY <1>1, <1>2, ActInit, PTL DEF Spec
-----------------------------------------------------------------------------
(* The chart stays in range.  Maintenance and block removal write balNight *)
(* from the rows they read, the bank tests the rows it read and increments *)
(* in place.  Others may offer units between the two: both columns rise    *)
(* together, and what was read stays as far behind in one as in the other. *)
GridWriters == {"deleteBlock", "addMaint", "updateMaint", "deleteMaint",
                "saveBank", "deleteBank"}

SingleWriter ==
  \A c, d \in Clerks :
    Ops[c] \cap GridWriters # {} /\ Ops[d] \cap GridWriters # {} => c = d

(* What request h has read of the columns na and nb.                       *)
ReadBehind(h, na, nb) ==
  h.op \in GridWriters /\ h.snap # NoSnap =>
    \A t \in Types, d \in Days : t = h.type =>
      /\ 0 <= h.snap.bal[d] /\ h.snap.bal[d] <= h.snap.act[d]
      /\ h.snap.act[d] <= na[<<t, d>>]
      /\ nb[<<t, d>>] - h.snap.bal[d] = na[<<t, d>>] - h.snap.act[d]

RangeInv ==
  /\ WorkInv /\ BalanceInRange
  /\ \A c \in Clerks : ReadBehind(handler[c], act, bal)

LEMMA RangeFrame ==
  ASSUME RangeInv, WorkInv', act' = act, bal' = bal,
         NEW c \in Clerks, Others(c), ReadBehind(handler'[c], act', bal')
  PROVE  RangeInv'
  BY DEF RangeInv, BalanceInRange, Others

(* The one clerk who writes computed numbers leaves no other reading them. *)
LEMMA RangeWritten ==
  ASSUME SingleWriter, RangeInv, WorkInv', BalanceInRange',
         NEW c \in Clerks, Others(c), handler[c].op \in GridWriters,
         handler'[c].op = "idle"
  PROVE  RangeInv'
  <1>1. \A d \in Clerks : handler'[d].op \notin GridWriters
    BY DEF SingleWriter, RangeInv, WorkInv, Others, GridWriters
  <1> QED BY <1>1 DEF RangeInv, ReadBehind

(* What a writer has read, and where it will write.                        *)
LEMMA WriterRead ==
  ASSUME RangeInv, NEW c \in Clerks, handler[c].op \in GridWriters,
         handler[c].snap # NoSnap, NEW t \in Types, t = handler[c].type, NEW d \in Days
  PROVE  LET h == handler[c] IN
         /\ act[<<t, d>>] \in Int /\ bal[<<t, d>>] \in Int
         /\ h.snap.act[d] \in Int /\ h.snap.bal[d] \in Int
         /\ 0 <= h.snap.bal[d] /\ h.snap.bal[d] <= h.snap.act[d]
         /\ h.snap.act[d] <= act[<<t, d>>]
         /\ bal[<<t, d>>] - h.snap.bal[d] = act[<<t, d>>] - h.snap.act[d]
  <1> DEFINE h == handler[c]
  <1>1. h.op # "idle" /\ h.op # "deleteUnit"
    BY DEF GridWriters
  <1>2. h.snap \in Column
    BY <1>1, SnapTyped DEF RangeInv, WorkInv, GridInv, TypedRequests
  <1>3. <<t, d>> \in Cells
    BY DEF Cells
  <1>4. act[<<t, d>>] \in Int /\ bal[<<t, d>>] \in Int
    BY <1>3 DEF RangeInv, WorkInv, GridInv, TypeOK
  <1>5. h.snap.act[d] \in Int /\ h.snap.bal[d] \in Int
    BY <1>2 DEF Column
  <1>6. ReadBehind(h, act, bal)
    BY DEF RangeInv
  <1> HIDE DEF h
  <1>7. h.op \in GridWriters /\ h.snap # NoSnap /\ t = h.type
    BY DEF h
  <1>8. /\ 0 <= h.snap.bal[d] /\ h.snap.bal[d] <= h.snap.act[d]
        /\ h.snap.act[d] <= act[<<t, d>>]
        /\ bal[<<t, d>>] - h.snap.bal[d] = act[<<t, d>>] - h.snap.act[d]
    BY <1>6, <1>7 DEF ReadBehind
  <1> QED BY <1>4, <1>5, <1>8 DEF h

LEMMA WriterType ==
  ASSUME RangeInv, NEW c \in Clerks, handler[c].op \in GridWriters
  PROVE  handler[c].type \in Types
  BY RequestAtWork DEF GridWriters, RangeInv, WorkInv, GridInv, TypedRequests

(* A column between zero and what was read stays in range when written.    *)
LEMMA WrittenInRange ==
  ASSUME RangeInv, act' = act, NEW t \in Types, NEW days, NEW new,
         bal' = Written(bal, t, days, new),
         \A d \in Days : new[d] \in Int /\ 0 <= new[d] /\ new[d] <= act[<<t, d>>]
  PROVE  BalanceInRange'
  <1>1. ASSUME NEW s \in Types, NEW d \in Days
        PROVE  0 <= bal'[<<s, d>>] /\ bal'[<<s, d>>] <= act'[<<s, d>>]
    <2>1. <<s, d>> \in Cells
      BY DEF Cells
    <2>2. bal'[<<s, d>>] = IF s = t /\ d \in days THEN new[d] ELSE bal[<<s, d>>]
      BY <2>1 DEF Written
    <2>3. 0 <= bal[<<s, d>>] /\ bal[<<s, d>>] <= act[<<s, d>>]
      BY <2>1 DEF RangeInv, BalanceInRange
    <2>4. CASE s = t /\ d \in days
      BY <2>2, <2>4
    <2>5. CASE ~(s = t /\ d \in days)
      BY <2>2, <2>3, <2>5
    <2> QED BY <2>4, <2>5
  <1> QED BY <1>1 DEF BalanceInRange, Cells

LEMMA MaintInRange ==
  ASSUME SingleWriter, RangeInv, WorkInv', NEW c \in Clerks,
         MaintCreateCommit(c) \/ MaintUpdateCommit(c) \/ MaintDeleteCommit(c)
  PROVE  RangeInv'
  <1> DEFINE h == handler[c]
  <1>1. /\ h.op \in GridWriters /\ h.snap # NoSnap
        /\ handler'[c].op = "idle" /\ Others(c) /\ act' = act
    BY Committed DEF MaintCreateCommit, MaintUpdateCommit, MaintDeleteCommit, HasRead,
                     GridWriters, RangeInv, WorkInv
  <1>2. PICK back, taken : applyMaintDelta(h, back, taken)
    BY DEF MaintCreateCommit, MaintUpdateCommit, MaintDeleteCommit
  <1> DEFINE given == GivenBack(h.snap, back)
             left  == Taken(given, h.snap, taken)
  <1>3. PICK days : bal' = Written(bal, h.type, days, left)
    BY <1>2 DEF applyMaintDelta
  <1>4. PICK t \in Types : t = h.type
    BY <1>1, WriterType
  <1>5. ASSUME NEW d \in Days
        PROVE  left[d] \in Int /\ 0 <= left[d] /\ left[d] <= act[<<t, d>>]
    <2>1. /\ act[<<t, d>>] \in Int
          /\ h.snap.act[d] \in Int /\ h.snap.bal[d] \in Int
          /\ 0 <= h.snap.bal[d] /\ h.snap.bal[d] <= h.snap.act[d]
          /\ h.snap.act[d] <= act[<<t, d>>]
      BY <1>1, <1>4, WriterRead
    <2>2. given[d] = IF d \in back /\ h.snap.bal[d] < h.snap.act[d]
                     THEN h.snap.bal[d] + 1 ELSE h.snap.bal[d]
      BY DEF GivenBack
    <2> HIDE DEF given
    <2>3. left[d] = IF d \in taken /\ h.snap.act[d] > 0 /\ given[d] > 0
                    THEN given[d] - 1 ELSE given[d]
      BY DEF Taken
    <2> HIDE DEF left, h
    <2>4. given[d] \in Int /\ 0 <= given[d] /\ given[d] <= h.snap.act[d]
      BY <2>1, <2>2
    <2>5. left[d] \in Int /\ 0 <= left[d] /\ left[d] <= h.snap.act[d]
      BY <2>1, <2>3, <2>4
    <2> QED BY <2>1, <2>5
  <1> HIDE DEF left, h
  <1>6. BalanceInRange'
    BY <1>1, <1>3, <1>4, <1>5, WrittenInRange
  <1> QED BY <1>1, <1>6, RangeWritten DEF h

LEMMA BankInRange ==
  ASSUME SingleWriter, RangeInv, WorkInv', NEW c \in Clerks, BankCommit(c)
  PROVE  RangeInv'
  <1> DEFINE h == handler[c]
  <1>1. /\ h.op \in GridWriters /\ h.snap # NoSnap
        /\ handler'[c].op = "idle" /\ Others(c) /\ act' = act
    BY Committed DEF BankCommit, HasRead, GridWriters, RangeInv, WorkInv
  <1>2. PICK back, taken : applyBankDelta(h, back, taken)
    BY DEF BankCommit
  <1> DEFINE up == {d \in back : h.snap.bal[d] < h.snap.act[d]}
             down == {d \in taken : h.snap.bal[d] > 0}
  <1>3. ASSUME NEW s \in Types, NEW d \in Days
        PROVE  0 <= bal'[<<s, d>>] /\ bal'[<<s, d>>] <= act'[<<s, d>>]
    <2>1. <<s, d>> \in Cells
      BY DEF Cells
    <2>2. /\ act[<<s, d>>] \in Int /\ bal[<<s, d>>] \in Int
          /\ 0 <= bal[<<s, d>>] /\ bal[<<s, d>>] <= act[<<s, d>>]
      BY <2>1 DEF RangeInv, BalanceInRange, WorkInv, GridInv, TypeOK
    <2>3. bal'[<<s, d>>] = IF s # h.type \/ act[<<s, d>>] = 0 THEN bal[<<s, d>>]
                           ELSE IF d \in up THEN bal[<<s, d>>] + 1
                           ELSE IF d \in down THEN bal[<<s, d>>] - 1 ELSE bal[<<s, d>>]
      BY <1>2, <2>1 DEF applyBankDelta
    <2>4. CASE s = h.type
      <3>1. /\ h.snap.act[d] \in Int /\ h.snap.bal[d] \in Int
            /\ 0 <= h.snap.bal[d] /\ h.snap.bal[d] <= h.snap.act[d]
            /\ h.snap.act[d] <= act[<<s, d>>]
            /\ bal[<<s, d>>] - h.snap.bal[d] = act[<<s, d>>] - h.snap.act[d]
        BY <1>1, <2>4, WriterRead
      <3>2. (d \in up => h.snap.bal[d] < h.snap.act[d]) /\ (d \in down => h.snap.bal[d] > 0)
        OBVIOUS
      <3> HIDE DEF up, down, h
      <3> QED BY <1>1, <2>2, <2>3, <3>1, <3>2
    <2>5. CASE s # h.type
      <3> HIDE DEF up, down, h
      <3> QED BY <1>1, <2>2, <2>3, <2>5
    <2> QED BY <2>4, <2>5
  <1>4. BalanceInRange'
    BY <1>3 DEF BalanceInRange, Cells
  <1> QED BY <1>1, <1>4, RangeWritten

LEMMA BlockDeleteInRange ==
  ASSUME SingleWriter, RangeInv, WorkInv', NEW c \in Clerks, BlockDeleteCommit(c)
  PROVE  RangeInv'
  <1> DEFINE h == handler[c]
             days == {d \in DaysOf(h.rows) : h.snap.act[d] > 0}
             less == [d \in Days |-> h.snap.act[d] - 1]
             free == [d \in Days |-> IF less[d] > 0 /\ h.snap.bal[d] > 0
                                     THEN h.snap.bal[d] - 1 ELSE 0]
  <1>1. /\ h.op \in GridWriters /\ h.snap # NoSnap
        /\ handler'[c].op = "idle" /\ Others(c)
        /\ act' = Written(act, h.type, days, less) /\ bal' = Written(bal, h.type, days, free)
    BY Committed DEF BlockDeleteCommit, HasRead, GridWriters, RangeInv, WorkInv
  <1>2. ASSUME NEW s \in Types, NEW d \in Days
        PROVE  0 <= bal'[<<s, d>>] /\ bal'[<<s, d>>] <= act'[<<s, d>>]
    <2>1. <<s, d>> \in Cells
      BY DEF Cells
    <2>2. /\ act[<<s, d>>] \in Int /\ bal[<<s, d>>] \in Int
          /\ 0 <= bal[<<s, d>>] /\ bal[<<s, d>>] <= act[<<s, d>>]
      BY <2>1 DEF RangeInv, BalanceInRange, WorkInv, GridInv, TypeOK
    <2>3. /\ bal'[<<s, d>>] = IF s = h.type /\ d \in days THEN free[d] ELSE bal[<<s, d>>]
          /\ act'[<<s, d>>] = IF s = h.type /\ d \in days THEN less[d] ELSE act[<<s, d>>]
      <3> HIDE DEF days, free, less, h
      <3> QED BY <1>1, <2>1 DEF Written
    <2>4. CASE s = h.type /\ d \in days
      <3>1. /\ h.snap.act[d] \in Int /\ h.snap.bal[d] \in Int
            /\ 0 <= h.snap.bal[d] /\ h.snap.bal[d] <= h.snap.act[d]
        BY <1>1, <2>4, WriterRead
      <3>2. h.snap.act[d] > 0
        BY <2>4
      <3>3. less[d] = h.snap.act[d] - 1
        OBVIOUS
      <3>4. free[d] = IF less[d] > 0 /\ h.snap.bal[d] > 0 THEN h.snap.bal[d] - 1 ELSE 0
        <4> HIDE DEF less
        <4> QED OBVIOUS
      <3> HIDE DEF free, less, h, days
      <3> QED BY <2>3, <2>4, <3>1, <3>2, <3>3, <3>4
    <2>5. CASE ~(s = h.type /\ d \in days)
      <3> HIDE DEF free, less, h, days
      <3> QED BY <2>2, <2>3, <2>5
    <2> QED BY <2>4, <2>5
  <1>3. BalanceInRange'
    <2> HIDE DEF h
    <2> QED BY <1>2 DEF BalanceInRange, Cells
  <1> QED BY <1>1, <1>3, RangeWritten

(* Offering units lifts both columns by as much.                           *)
LEMMA BlockCreateInRange ==
  ASSUME RangeInv, WorkInv', NEW c \in Clerks, BlockCreateCommit(c)
  PROVE  RangeInv'
  <1> DEFINE h == handler[c]
             days == UNION h.ranges
             qty == Cardinality(h.units)
  <1>1. /\ h.op = "addBlock" /\ handler'[c].op = "idle" /\ Others(c)
        /\ act' = Offered(act, h.type, days, qty) /\ bal' = Offered(bal, h.type, days, qty)
    BY Committed DEF BlockCreateCommit, RangeInv, WorkInv
  <1>2. qty \in Nat
    <2>1. h.units \in SUBSET Units
      BY <1>1, RequestAtWork DEF RangeInv, WorkInv, GridInv, Requests
    <2> QED BY <2>1, UnitsAssumption, FS_Subset, FS_CardinalityType
  <1> HIDE DEF days, qty
  <1>3. ASSUME NEW s \in Types, NEW d \in Days
        PROVE  \E more \in Nat : /\ act'[<<s, d>>] = act[<<s, d>>] + more
                                 /\ bal'[<<s, d>>] = bal[<<s, d>>] + more
                                 /\ act[<<s, d>>] \in Int /\ bal[<<s, d>>] \in Int
    <2>1. <<s, d>> \in Cells
      BY DEF Cells
    <2>2. act[<<s, d>>] \in Int /\ bal[<<s, d>>] \in Int
      BY <2>1 DEF RangeInv, WorkInv, GridInv, TypeOK
    <2>3. CASE s = h.type /\ d \in days
      BY <1>1, <1>2, <2>1, <2>2, <2>3 DEF Offered
    <2>4. CASE ~(s = h.type /\ d \in days)
      <3>1. act'[<<s, d>>] = act[<<s, d>>] + 0 /\ bal'[<<s, d>>] = bal[<<s, d>>] + 0
        BY <1>1, <2>1, <2>2, <2>4 DEF Offered
      <3> QED BY <2>2, <3>1
    <2> QED BY <2>3, <2>4
  <1>4. BalanceInRange'
    <2> SUFFICES ASSUME NEW s \in Types, NEW d \in Days
                 PROVE  0 <= bal'[<<s, d>>] /\ bal'[<<s, d>>] <= act'[<<s, d>>]
      BY DEF BalanceInRange, Cells
    <2>1. 0 <= bal[<<s, d>>] /\ bal[<<s, d>>] <= act[<<s, d>>]
      BY DEF RangeInv, BalanceInRange, Cells
    <2> QED BY <1>3, <2>1
  <1>5. ASSUME NEW e \in Clerks
        PROVE  ReadBehind(handler'[e], act', bal')
    <2> SUFFICES ASSUME e # c, handler[e].op \in GridWriters, handler[e].snap # NoSnap,
                        NEW t \in Types, t = handler[e].type, NEW d \in Days
                 PROVE  LET g == handler[e] IN
                        /\ 0 <= g.snap.bal[d] /\ g.snap.bal[d] <= g.snap.act[d]
                        /\ g.snap.act[d] <= act'[<<t, d>>]
                        /\ bal'[<<t, d>>] - g.snap.bal[d] = act'[<<t, d>>] - g.snap.act[d]
      BY <1>1 DEF ReadBehind, Others, GridWriters
    <2> DEFINE g == handler[e]
    <2>1. /\ g.snap.act[d] \in Int /\ g.snap.bal[d] \in Int
          /\ 0 <= g.snap.bal[d] /\ g.snap.bal[d] <= g.snap.act[d]
          /\ g.snap.act[d] <= act[<<t, d>>]
          /\ bal[<<t, d>>] - g.snap.bal[d] = act[<<t, d>>] - g.snap.act[d]
      BY WriterRead
    <2> HIDE DEF g
    <2>2. PICK more \in Nat : /\ act'[<<t, d>>] = act[<<t, d>>] + more
                              /\ bal'[<<t, d>>] = bal[<<t, d>>] + more
                              /\ act[<<t, d>>] \in Int /\ bal[<<t, d>>] \in Int
      BY <1>3
    <2> DEFINE a == g.snap.act[d]
               b == g.snap.bal[d]
    <2>3. a \in Int /\ b \in Int /\ 0 <= b /\ b <= a /\ a <= act[<<t, d>>]
          /\ bal[<<t, d>>] - b = act[<<t, d>>] - a
      BY <2>1
    <2> HIDE DEF a, b
    <2> DEFINE A == act[<<t, d>>]
               B == bal[<<t, d>>]
    <2>4. A \in Int /\ B \in Int /\ a <= A /\ B - b = A - a
      BY <2>2, <2>3
    <2>5. act'[<<t, d>>] = A + more /\ bal'[<<t, d>>] = B + more
      BY <2>2
    <2> HIDE DEF A, B
    <2>6. a <= A + more /\ (B + more) - b = (A + more) - a
      BY <2>3, <2>4
    <2>7. a <= act'[<<t, d>>] /\ bal'[<<t, d>>] - b = act'[<<t, d>>] - a
      BY <2>5, <2>6
    <2> QED BY <2>3, <2>7 DEF a, b, g
  <1> QED BY <1>4, <1>5 DEF RangeInv

LEMMA RangeInit == Init => RangeInv
  <1> SUFFICES ASSUME Init PROVE RangeInv
    OBVIOUS
  <1>1. BalanceInRange
    BY DEF Init, BalanceInRange
  <1>2. \A c \in Clerks : ReadBehind(handler[c], act, bal)
    BY IdleTyped DEF Init, ReadBehind, GridWriters
  <1> QED BY <1>1, <1>2, WorkInit DEF RangeInv

LEMMA RangeRead ==
  ASSUME RangeInv, WorkInv', NEW c \in Clerks, GridRead(c)
  PROVE  RangeInv'
  <1> DEFINE h == handler[c]
             g == handler'[c]
  <1>1. /\ act' = act /\ bal' = bal /\ Others(c) /\ g.type = h.type
        /\ \A t \in Types, d \in Days : t = h.type =>
             g.snap.act[d] = act[<<t, d>>] /\ g.snap.bal[d] = bal[<<t, d>>]
    BY GridWasRead DEF RangeInv, WorkInv
  <1> HIDE DEF g, h
  <1>2. ASSUME NEW t \in Types, NEW d \in Days, t = g.type
        PROVE  /\ 0 <= g.snap.bal[d] /\ g.snap.bal[d] <= g.snap.act[d]
               /\ g.snap.act[d] <= act'[<<t, d>>]
               /\ bal'[<<t, d>>] - g.snap.bal[d] = act'[<<t, d>>] - g.snap.act[d]
    <2>1. /\ act[<<t, d>>] \in Int /\ bal[<<t, d>>] \in Int
          /\ 0 <= bal[<<t, d>>] /\ bal[<<t, d>>] <= act[<<t, d>>]
      BY DEF Cells, RangeInv, BalanceInRange, WorkInv, GridInv, TypeOK
    <2>2. g.snap.act[d] = act[<<t, d>>] /\ g.snap.bal[d] = bal[<<t, d>>]
      BY <1>1, <1>2
    <2> QED BY <1>1, <2>1, <2>2
  <1>3. ReadBehind(g, act', bal')
    BY <1>2 DEF ReadBehind
  <1> QED BY <1>1, <1>3, RangeFrame DEF g

LEMMA RangeStep ==
  ASSUME SingleWriter, RangeInv, [Next]_vars
  PROVE  RangeInv'
  <1>1. WorkInv' /\ GridInv
    BY WorkStep DEF RangeInv, WorkInv
  <1>2. CASE UNCHANGED vars
    BY <1>1, <1>2 DEF vars, RangeInv, BalanceInRange
  <1>3. ASSUME NEW c \in Clerks, UnitMove(c) PROVE RangeInv'
    <2>1. act' = act /\ bal' = bal
      BY <1>1, <1>3, UnitsMove
    <2>2. \A d \in Clerks :
            handler'[d] = handler[d] \/ handler'[d].op \in {"idle", "deleteUnit"}
      BY <1>1, <1>3, RequestsStay
    <2>3. \A d \in Clerks : ReadBehind(handler'[d], act', bal')
      BY <2>1, <2>2 DEF RangeInv, ReadBehind, GridWriters
    <2> QED BY <1>1, <2>1, <2>3 DEF RangeInv, BalanceInRange
  <1>4. ASSUME NEW c \in Clerks,
               \/ UnitDeleteAsk(c) \/ BlockCreateAsk(c) \/ BlockBatchAsk(c) \/ BlockDeleteAsk(c)
               \/ MaintCreateAsk(c) \/ MaintUpdateAsk(c) \/ MaintDeleteAsk(c)
               \/ BankSaveAsk(c) \/ BankYearDeleteAsk(c)
        PROVE  RangeInv'
    <2>1. PICK h : Accepted(c, h)
      BY <1>1, <1>4, Asked
    <2> QED BY <1>1, <2>1, RangeFrame DEF Accepted, ReadBehind
  <1>5. ASSUME NEW c \in Clerks, GridRead(c) PROVE RangeInv'
    BY <1>1, <1>5, RangeRead
  <1>6. ASSUME NEW c \in Clerks, BlockCreateCommit(c) PROVE RangeInv'
    BY <1>1, <1>6, BlockCreateInRange
  <1>7. ASSUME NEW c \in Clerks, BlockDeleteCommit(c) PROVE RangeInv'
    BY <1>1, <1>7, BlockDeleteInRange
  <1>8. ASSUME NEW c \in Clerks,
               MaintCreateCommit(c) \/ MaintUpdateCommit(c) \/ MaintDeleteCommit(c)
        PROVE  RangeInv'
    BY <1>1, <1>8, MaintInRange
  <1>9. ASSUME NEW c \in Clerks, BankCommit(c) PROVE RangeInv'
    BY <1>1, <1>9, BankInRange
  <1>10. ASSUME NEW c \in Clerks, Abandon(c) PROVE RangeInv'
    <2>1. handler'[c].op = "idle" /\ Others(c)
      BY <1>1, <1>10, Committed
    <2>2. act' = act /\ bal' = bal
      BY <1>10 DEF Abandon, tables
    <2> QED BY <1>1, <2>1, <2>2, RangeFrame DEF ReadBehind, GridWriters
  <1> QED BY <1>2, <1>3, <1>4, <1>5, <1>6, <1>7, <1>8, <1>9, <1>10 DEF Next, UnitMove

(* The chart never shows fewer than no units free, nor more than there     *)
(* are, although its numbers are written from rows read before, as long as *)
(* one clerk at most withdraws, banks and removes; the others may offer    *)
(* units, register, edit and delete them.                                  *)
THEOREM ChartInRange ==
  ASSUME SingleWriter
  PROVE  Spec => []BalanceInRange
  <1>1. RangeInv /\ [Next]_vars => RangeInv'
    BY RangeStep
  <1>2. RangeInv => BalanceInRange
    BY DEF RangeInv
  <1> QED BY <1>1, <1>2, RangeInit, PTL DEF Spec
-----------------------------------------------------------------------------
(* The balance is exact.  What a request takes from or gives back to a type*)
(* is clamped at zero and at actNight, in silence; the clamps never bite,  *)
(* and the balance is actNight less the units held, as long as one clerk   *)
(* at most does more than register and edit units.                         *)
Writes == {"deleteUnit", "addBlock", "deleteBlock", "addMaint", "updateMaint",
           "deleteMaint", "saveBank", "deleteBank"}

OneWriter ==
  \A c, d \in Clerks : Ops[c] \cap Writes # {} /\ Ops[d] \cap Writes # {} => c = d

(* The types a number is known under, by its unit and by its rows: they are*)
(* one, or an edit lies between any two of them.                           *)
Alike(s, t, moved) == s = t \/ {s, t} \subseteq moved

Kinds(u) == Filed(u) \cup ({unitType[u]} \ {NoType})
KindsAlike == \A u \in Units : \A s, t \in Kinds(u) : Alike(s, t, retyped)

BanksWeeks == \A r \in bank : r.days \in Weeks

(* The rows a request was asked to change, in the tables bs, ms and ks.    *)
RowsThere(h, bs, ms, ks) ==
  /\ h.op = "deleteBlock" => h.rows \subseteq bs
  /\ h.op \in {"updateMaint", "deleteMaint"} => h.rows \subseteq ms
  /\ h.op \in {"saveBank", "deleteBank"} => h.rows \subseteq ks
  /\ h.op = "saveBank" => h.ranges \subseteq Weeks /\ \A u \in h.units, r \in h.rows : r.unit = u
  /\ h.op = "deleteBank" =>
       \E first \in h.rows : first.type = h.type /\ \A r \in h.rows : r.unit = first.unit

(* The columns a request has read are the columns na and nb.               *)
ReadExact(h, na, nb) ==
  h.op \in GridWriters /\ h.snap # NoSnap =>
    \A t \in Types, d \in Days : t = h.type =>
      h.snap.act[d] = na[<<t, d>>] /\ h.snap.bal[d] = nb[<<t, d>>]

InStep(h) == RowsThere(h, blocks, maint, bank) /\ ReadExact(h, act, bal)

BaseInv == HoldInv /\ CoverInv /\ OrphanInv /\ ActInv

ExactInv ==
  /\ BaseInv /\ KindsAlike /\ BanksWeeks /\ BalanceExactUnlessRetyped
  /\ \A c \in Clerks : InStep(handler[c])

LEMMA OneWriterAlone ==
  ASSUME OneWriter
  PROVE  SingleKeeper /\ RemoverHoldsAlone /\ DeleterAddsAlone /\ RemoverOffersAlone
  BY DEF OneWriter, Writes, SingleKeeper, RemoverHoldsAlone, DeleterAddsAlone,
         RemoverOffersAlone, Withdrawals, Additions

LEMMA BaseStep ==
  ASSUME OneWriter, BaseInv, [Next]_vars
  PROVE  BaseInv'
  BY OneWriterAlone, HoldStep, CoverStep, OrphanStep, ActStep DEF BaseInv

(* Which kinds there are after a step of one request that leaves the units *)
(* alone, when no row nor request brings a number a type it had not.       *)
LEMMA KindsKeep ==
  ASSUME ExactInv, BaseInv', NEW c \in Clerks, Others(c),
         unitType' = unitType, retyped' = retyped,
         \A r \in Rows' : r.type \in Kinds(r.unit),
         handler'[c].op \in Additions =>
           \A u \in handler'[c].units \ handler'[c].fresh : handler'[c].type \in Kinds(u)
  PROVE  KindsAlike'
  <1>1. ASSUME NEW u \in Units, NEW d \in Clerks, handler'[d].op \in Additions,
               u \in handler'[d].units \ handler'[d].fresh
        PROVE  handler'[d].type \in Kinds(u)
    <2>1. CASE d = c
      BY <1>1, <2>1
    <2>2. CASE d # c
      <3>1. handler'[d] = handler[d]
        BY <2>2 DEF Others
      <3> QED BY <1>1, <3>1 DEF Kinds, Filed
    <2> QED BY <2>1, <2>2
  <1>2. \A u \in Units : Filed(u)' \subseteq Kinds(u)
    BY <1>1 DEF Filed
  <1>3. \A u \in Units : Kinds(u)' \subseteq Kinds(u)
    BY <1>2 DEF Kinds
  <1> QED BY <1>3 DEF ExactInv, KindsAlike

LEMMA RowsOfKind == \A r \in Rows : r.type \in Kinds(r.unit)
  BY DEF Kinds, Filed

LEMMA AddersOfKind ==
  ASSUME NEW c \in Clerks, handler[c].op \in Additions
  PROVE  \A u \in handler[c].units \ handler[c].fresh : handler[c].type \in Kinds(u)
  BY DEF Kinds, Filed

(* A number that is registered with type t.                                *)
LEMMA KindsMixed ==
  ASSUME NEW u, NEW t, NEW s \in Filed(u) \cup {t}, NEW r \in Filed(u) \cup {t},
         NEW moved, Mixed(u, t) \subseteq moved
  PROVE  Alike(s, r, moved)
  BY DEF Mixed, Alike

(* Counting.  Units that each have a block of their own number.            *)
LEMMA UnitsAtMost ==
  ASSUME NEW bs, IsFiniteSet(bs), NEW U, \A u \in U : \E b \in bs : b.unit = u
  PROVE  IsFiniteSet(U) /\ Cardinality(U) <= Cardinality(bs)
  <1> DEFINE f == [u \in U |-> CHOOSE b \in bs : b.unit = u]
  <1>1. \A u \in U : f[u] \in bs /\ f[u].unit = u
    OBVIOUS
  <1>2. f \in [U -> bs]
    BY <1>1
  <1>3. \A u, v \in U : f[u] = f[v] => u = v
    BY <1>1
  <1> HIDE DEF f
  <1>4. f \in Injection(U, bs)
    BY <1>2, <1>3, Fun_IsInj
  <1> QED BY <1>4, FS_Injection

HeldUnits(rows, t, d) == {r.unit : r \in {m \in rows : m.type = t /\ d \in m.days}}
HeldCount(rows, t, d) == Cardinality(HeldUnits(rows, t, d))

LEMMA HeldAtMost ==
  ASSUME NEW bs, IsFiniteSet(bs), NEW rows, NEW moved,
         \A r \in rows : OpenOn(bs, r.unit, r.days),
         \A r \in rows, b \in bs : r.unit = b.unit => Alike(r.type, b.type, moved),
         NEW t, t \notin moved, NEW d
  PROVE  /\ IsFiniteSet(HeldUnits(rows, t, d))
         /\ HeldCount(rows, t, d) \in Nat
         /\ HeldCount(rows, t, d) <= Cardinality(Counted(bs, <<t, d>>))
  <1> DEFINE U == HeldUnits(rows, t, d)
  <1>1. ASSUME NEW u \in U
        PROVE  \E b \in Counted(bs, <<t, d>>) : b.unit = u
    <2>1. PICK r \in rows : r.type = t /\ d \in r.days /\ u = r.unit
      BY DEF HeldUnits
    <2>2. PICK b \in bs : b.unit = u /\ d \in b.days
      BY <2>1 DEF OpenOn, DaysOf, At
    <2>3. b.type = t
      BY <2>1, <2>2 DEF Alike
    <2> QED BY <2>2, <2>3 DEF Counted
  <1>2. IsFiniteSet(Counted(bs, <<t, d>>))
    BY CountedFinite
  <1> HIDE DEF U
  <1>3. IsFiniteSet(U) /\ Cardinality(U) <= Cardinality(Counted(bs, <<t, d>>))
    BY <1>1, <1>2, UnitsAtMost
  <1> QED BY <1>3, FS_CardinalityType DEF U, HeldCount

(* The units held of a type no unit was moved from or to.                  *)
LEMMA HeldFits ==
  ASSUME BaseInv, KindsAlike, NEW t \in Types, t \notin retyped, NEW d \in Days
  PROVE  /\ IsFiniteSet(HeldUnits(maint \cup bank, t, d))
         /\ HeldCount(maint \cup bank, t, d) \in Nat
         /\ HeldCount(maint \cup bank, t, d) <= act[<<t, d>>]
         /\ act[<<t, d>>] \in Int
  <1>1. IsFiniteSet(blocks) /\ TypeOK
    BY DEF BaseInv, ActInv, WorkInv, GridInv, FiniteRows
  <1>2. \A r \in maint \cup bank : OpenOn(blocks, r.unit, r.days)
    BY DEF BaseInv, CoverInv, HeldIsOffered, OpenOn
  <1>3. \A r \in maint \cup bank, b \in blocks :
          r.unit = b.unit => Alike(r.type, b.type, retyped)
    <2>1. \A r \in Rows : r.unit \in Units /\ r.type \in Kinds(r.unit)
      BY <1>1 DEF TypeOK, Row, Rows, Kinds, Filed
    <2> QED BY <2>1 DEF KindsAlike, Rows
  <1>4. <<t, d>> \in Cells
    BY DEF Cells
  <1>5. act[<<t, d>>] = Cardinality(Counted(blocks, <<t, d>>))
    BY <1>4 DEF BaseInv, ActInv
  <1>6. act[<<t, d>>] \in Int
    BY <1>1, <1>4 DEF TypeOK
  <1> HIDE DEF BaseInv, KindsAlike
  <1> QED BY <1>1, <1>2, <1>3, <1>5, <1>6, HeldAtMost

LEMMA HeldStillFits ==
  ASSUME BaseInv', KindsAlike', NEW t \in Types, t \notin retyped', NEW d \in Days
  PROVE  /\ HeldCount(maint' \cup bank', t, d) \in Nat
         /\ HeldCount(maint' \cup bank', t, d) <= act'[<<t, d>>]
         /\ act'[<<t, d>>] \in Int
  <1>1. IsFiniteSet(blocks') /\ TypeOK'
    BY DEF BaseInv, ActInv, WorkInv, GridInv, FiniteRows
  <1>2. \A r \in maint' \cup bank' : OpenOn(blocks', r.unit, r.days)
    BY DEF BaseInv, CoverInv, HeldIsOffered, OpenOn
  <1>3. \A r \in maint' \cup bank', b \in blocks' :
          r.unit = b.unit => Alike(r.type, b.type, retyped')
    <2>1. \A r \in Rows' : r.unit \in Units /\ r.type \in Kinds(r.unit)'
      BY <1>1 DEF TypeOK, Row, Rows, Kinds, Filed
    <2> QED BY <2>1 DEF KindsAlike, Rows
  <1>4. <<t, d>> \in Cells
    BY DEF Cells
  <1>5. act'[<<t, d>>] = Cardinality(Counted(blocks', <<t, d>>))
    BY <1>4 DEF BaseInv, ActInv
  <1>6. act'[<<t, d>>] \in Int
    BY <1>1, <1>4 DEF TypeOK
  <1> HIDE DEF BaseInv, KindsAlike
  <1> QED BY <1>1, <1>2, <1>3, <1>5, <1>6, HeldAtMost

(* The balance of one cell, before a step and after it.                    *)
ExactCell(t, d) ==
  bal[<<t, d>>] = act[<<t, d>>] - HeldCount(maint \cup bank, t, d)

ExactCellNext(t, d) ==
  bal'[<<t, d>>] = act'[<<t, d>>] - HeldCount(maint' \cup bank', t, d)

LEMMA ExactCells ==
  BalanceExactUnlessRetyped <=> \A t \in Types \ retyped, d \in Days : ExactCell(t, d)
  BY DEF BalanceExactUnlessRetyped, ExactCell, Cells, HeldNights, HeldUnits, HeldCount

LEMMA ExactCellsNext ==
  ASSUME \A t \in Types \ retyped', d \in Days : ExactCellNext(t, d)
  PROVE  BalanceExactUnlessRetyped'
  BY DEF BalanceExactUnlessRetyped, ExactCellNext, Cells, HeldNights, HeldUnits, HeldCount

(* The units held after a step that gives the days of back and takes those *)
(* of taken: on each day one unit leaves, comes, or both.                  *)
HeldMoves(t, back, taken) ==
  \A d \in Days :
    LET before == HeldUnits(maint \cup bank, t, d)
        after  == HeldUnits(maint' \cup bank', t, d) IN
    \E u : /\ d \in back => u \in before
           /\ d \in taken \ back => u \notin before
           /\ after = IF d \in taken THEN before \cup {u}
                      ELSE IF d \in back THEN before \ {u} ELSE before

HeldElsewhere(t) ==
  \A s \in Types \ retyped, d \in Days :
    s # t => HeldUnits(maint' \cup bank', s, d) = HeldUnits(maint \cup bank, s, d)

CountMoves(t, d, back, taken) ==
  LET n == HeldCount(maint \cup bank, t, d)
      k == HeldCount(maint' \cup bank', t, d) IN
  /\ d \in back => n >= 1
  /\ k = IF d \in taken THEN IF d \in back THEN n ELSE n + 1
         ELSE IF d \in back THEN n - 1 ELSE n

LEMMA HeldMovesCount ==
  ASSUME NEW t, NEW back, NEW taken, HeldMoves(t, back, taken), NEW d \in Days,
         IsFiniteSet(HeldUnits(maint \cup bank, t, d))
  PROVE  CountMoves(t, d, back, taken)
  <1> DEFINE before == HeldUnits(maint \cup bank, t, d)
             after == HeldUnits(maint' \cup bank', t, d)
  <1>1. PICK u : /\ d \in back => u \in before
                 /\ d \in taken \ back => u \notin before
                 /\ after = IF d \in taken THEN before \cup {u}
                            ELSE IF d \in back THEN before \ {u} ELSE before
    BY DEF HeldMoves
  <1> HIDE DEF before, after
  <1>2. IsFiniteSet(before) /\ Cardinality(before) \in Nat
    BY FS_CardinalityType DEF before
  <1>3. Cardinality(before \cup {u}) =
          IF u \in before THEN Cardinality(before) ELSE Cardinality(before) + 1
    BY <1>2, FS_AddElement
  <1>4. Cardinality(before \ {u}) =
          IF u \in before THEN Cardinality(before) - 1 ELSE Cardinality(before)
    BY <1>2, FS_RemoveElement
  <1>5. u \in before => Cardinality(before) >= 1
    BY <1>2, FS_EmptySet
  <1> QED BY <1>1, <1>2, <1>3, <1>4, <1>5 DEF before, after, HeldCount, CountMoves

LEMMA OthersIdle ==
  ASSUME OneWriter, WorkInv, NEW c \in Clerks, handler[c].op \in Writes,
         handler'[c].op = "idle", Others(c)
  PROVE  \A d \in Clerks : handler'[d].op \notin Writes
  BY DEF OneWriter, WorkInv, Writes, Others

(* After a commit no request is left that knows anything of the tables.    *)
LEMMA ExactCommitted ==
  ASSUME OneWriter, ExactInv, BaseInv', KindsAlike', BanksWeeks',
         BalanceExactUnlessRetyped', NEW c \in Clerks, handler[c].op \in Writes,
         handler'[c].op = "idle", Others(c)
  PROVE  ExactInv'
  <1>1. \A d \in Clerks : handler'[d].op \notin Writes
    BY OthersIdle DEF ExactInv, BaseInv, ActInv
  <1>2. \A d \in Clerks : InStep(handler[d])'
    BY <1>1 DEF InStep, RowsThere, ReadExact, Writes, GridWriters
  <1> QED BY <1>2 DEF ExactInv

(* The rows of one unit that leave the tables, and those that enter them.  *)
Exchanged(kept, gone, new, u, t) ==
  /\ maint \cup bank = kept \cup gone
  /\ maint' \cup bank' = kept \cup new
  /\ \A r \in kept : r.unit = u => r.days \cap (DaysOf(gone) \cup DaysOf(new)) = {}
  /\ \A r \in gone \cup new :
       r.unit = u /\ (r.type = t \/ {r.type, t} \subseteq retyped)

LEMMA HeldAfter ==
  ASSUME NEW kept, NEW gone, NEW new, NEW u, NEW t, Exchanged(kept, gone, new, u, t)
  PROVE  HeldElsewhere(t) /\ (t \notin retyped => HeldMoves(t, DaysOf(gone), DaysOf(new)))
  <1> DEFINE K(s, d) == HeldUnits(kept, s, d)
  <1>1. ASSUME NEW s \in Types \ retyped, NEW d \in Days, s # t
        PROVE  HeldUnits(maint' \cup bank', s, d) = HeldUnits(maint \cup bank, s, d)
    <2>1. \A r \in gone \cup new : r.type # s
      BY <1>1 DEF Exchanged
    <2> QED BY <2>1 DEF HeldUnits, Exchanged
  <1>2. ASSUME t \notin retyped, NEW d \in Days
        PROVE  LET before == HeldUnits(maint \cup bank, t, d)
                   after  == HeldUnits(maint' \cup bank', t, d)
                   back   == DaysOf(gone)
                   taken  == DaysOf(new) IN
               /\ d \in back => u \in before
               /\ d \in taken \ back => u \notin before
               /\ after = IF d \in taken THEN before \cup {u}
                          ELSE IF d \in back THEN before \ {u} ELSE before
    <2> DEFINE back == DaysOf(gone)
               taken == DaysOf(new)
    <2>1. \A r \in gone \cup new : r.unit = u /\ r.type = t
      BY <1>2 DEF Exchanged
    <2>2. d \in back \cup taken => u \notin K(t, d)
      BY DEF HeldUnits, Exchanged
    <2>3. HeldUnits(maint \cup bank, t, d) = IF d \in back THEN K(t, d) \cup {u} ELSE K(t, d)
      BY <2>1 DEF HeldUnits, DaysOf, Exchanged
    <2>4. HeldUnits(maint' \cup bank', t, d) = IF d \in taken THEN K(t, d) \cup {u} ELSE K(t, d)
      BY <2>1 DEF HeldUnits, DaysOf, Exchanged
    <2> HIDE DEF K, back, taken
    <2> QED BY <2>2, <2>3, <2>4 DEF back, taken
  <1> QED BY <1>1, <1>2 DEF HeldElsewhere, HeldMoves

(* No clamp bites: what is taken is free, and what is given back was held. *)
LEMMA MaintExact ==
  ASSUME ExactInv, BaseInv', KindsAlike', act' = act, retyped' = retyped,
         NEW c \in Clerks, handler[c].op \in GridWriters, handler[c].snap # NoSnap,
         NEW t \in Types, t = handler[c].type, NEW back, NEW taken,
         applyMaintDelta(handler[c], back, taken),
         HeldElsewhere(t), t \notin retyped => HeldMoves(t, back, taken)
  PROVE  BalanceExactUnlessRetyped'
  <1> DEFINE h == handler[c]
             given == GivenBack(h.snap, back)
             left  == Taken(given, h.snap, taken)
             days  == {d \in back \cup taken :
                         given[d] # h.snap.bal[d] \/ left[d] # given[d]}
  <1>1. bal' = Written(bal, t, days, left)
    BY DEF applyMaintDelta
  <1>2. ASSUME NEW s \in Types \ retyped, NEW d \in Days
        PROVE  ExactCellNext(s, d)
    <2> DEFINE n == HeldCount(maint \cup bank, s, d)
               k == HeldCount(maint' \cup bank', s, d)
               A == act[<<s, d>>]
    <2>1. /\ IsFiniteSet(HeldUnits(maint \cup bank, s, d))
          /\ n \in Nat /\ n <= A /\ A \in Int
      BY HeldFits DEF ExactInv
    <2>2. k \in Nat /\ k <= A
      BY HeldStillFits
    <2>3. bal[<<s, d>>] = A - n
      BY ExactCells DEF ExactInv, ExactCell
    <2>4. <<s, d>> \in Cells
      BY DEF Cells
    <2>5. CASE s # t
      <3>1. n = k
        BY <2>5 DEF HeldElsewhere, HeldCount
      <3>2. bal'[<<s, d>>] = bal[<<s, d>>]
        BY <1>1, <2>4, <2>5 DEF Written
      <3> QED BY <2>3, <3>1, <3>2 DEF ExactCellNext
    <2>6. CASE s = t
      <3>1. h.snap.act[d] = A /\ h.snap.bal[d] = A - n
        BY <2>3, <2>6 DEF ExactInv, InStep, ReadExact
      <3>2. /\ d \in back => n >= 1
            /\ k = IF d \in taken THEN IF d \in back THEN n ELSE n + 1
                   ELSE IF d \in back THEN n - 1 ELSE n
        <4>1. HeldMoves(s, back, taken)
          BY <2>6
        <4>2. CountMoves(s, d, back, taken)
          BY <2>1, <4>1, HeldMovesCount
        <4> QED BY <4>2 DEF CountMoves
      <3>3. given[d] = IF d \in back /\ h.snap.bal[d] < h.snap.act[d]
                       THEN h.snap.bal[d] + 1 ELSE h.snap.bal[d]
        BY DEF GivenBack
      <3> HIDE DEF given
      <3>4. left[d] = IF d \in taken /\ h.snap.act[d] > 0 /\ given[d] > 0
                      THEN given[d] - 1 ELSE given[d]
        BY DEF Taken
      <3>5. bal'[<<s, d>>] = IF d \in days THEN left[d] ELSE A - n
        BY <1>1, <2>3, <2>4, <2>6 DEF Written
      <3>6. d \in days <=> /\ d \in back \cup taken
                           /\ given[d] # h.snap.bal[d] \/ left[d] # given[d]
        OBVIOUS
      <3> HIDE DEF left, days, h, n, k, A
      <3>7. given[d] = IF d \in back THEN A - n + 1 ELSE A - n
        BY <2>1, <3>1, <3>2, <3>3
      <3>8. left[d] = A - k
        BY <2>1, <2>2, <3>1, <3>2, <3>4, <3>7
      <3>9. d \notin days => left[d] = A - n
        BY <3>1, <3>2, <3>4, <3>6, <3>7
      <3> QED BY <3>5, <3>8, <3>9 DEF ExactCellNext, k, A
    <2> QED BY <2>5, <2>6
  <1> QED BY <1>2, ExactCellsNext

LEMMA BankExact ==
  ASSUME ExactInv, BaseInv', KindsAlike', act' = act, retyped' = retyped,
         NEW c \in Clerks, handler[c].op \in GridWriters, handler[c].snap # NoSnap,
         NEW t \in Types, t = handler[c].type, NEW back, NEW taken,
         applyBankDelta(handler[c], back, taken), back \cap taken = {},
         HeldElsewhere(t), t \notin retyped => HeldMoves(t, back, taken)
  PROVE  BalanceExactUnlessRetyped'
  <1> DEFINE h == handler[c]
             up   == {d \in back : h.snap.bal[d] < h.snap.act[d]}
             down == {d \in taken : h.snap.bal[d] > 0}
  <1>1. \A x \in Cells : bal'[x] =
          IF x[1] # t \/ act[x] = 0 THEN bal[x]
          ELSE IF x[2] \in up THEN bal[x] + 1
          ELSE IF x[2] \in down THEN bal[x] - 1 ELSE bal[x]
    BY DEF applyBankDelta
  <1>2. ASSUME NEW s \in Types \ retyped, NEW d \in Days
        PROVE  ExactCellNext(s, d)
    <2> DEFINE n == HeldCount(maint \cup bank, s, d)
               k == HeldCount(maint' \cup bank', s, d)
               A == act[<<s, d>>]
    <2>1. /\ IsFiniteSet(HeldUnits(maint \cup bank, s, d))
          /\ n \in Nat /\ n <= A /\ A \in Int
      BY HeldFits DEF ExactInv
    <2>2. k \in Nat /\ k <= A
      BY HeldStillFits
    <2>3. bal[<<s, d>>] = A - n
      BY ExactCells DEF ExactInv, ExactCell
    <2>4. <<s, d>> \in Cells
      BY DEF Cells
    <2>5. CASE s # t
      <3>1. n = k
        BY <2>5 DEF HeldElsewhere, HeldCount
      <3>2. bal'[<<s, d>>] = bal[<<s, d>>]
        BY <1>1, <2>4, <2>5
      <3> QED BY <2>3, <3>1, <3>2 DEF ExactCellNext
    <2>6. CASE s = t
      <3>1. h.snap.act[d] = A /\ h.snap.bal[d] = A - n
        BY <2>3, <2>6 DEF ExactInv, InStep, ReadExact
      <3>2. /\ d \in back => n >= 1
            /\ k = IF d \in taken THEN IF d \in back THEN n ELSE n + 1
                   ELSE IF d \in back THEN n - 1 ELSE n
        <4>1. HeldMoves(s, back, taken)
          BY <2>6
        <4>2. CountMoves(s, d, back, taken)
          BY <2>1, <4>1, HeldMovesCount
        <4> QED BY <4>2 DEF CountMoves
      <3>3. /\ d \in up <=> d \in back /\ h.snap.bal[d] < h.snap.act[d]
            /\ d \in down <=> d \in taken /\ h.snap.bal[d] > 0
        OBVIOUS
      <3>4. ~(d \in back /\ d \in taken)
        OBVIOUS
      <3>5. bal'[<<s, d>>] = IF A = 0 THEN A - n
                             ELSE IF d \in up THEN A - n + 1
                             ELSE IF d \in down THEN A - n - 1 ELSE A - n
        <4> HIDE DEF up, down
        <4> QED BY <1>1, <2>3, <2>4, <2>6
      <3> HIDE DEF up, down, h, n, k, A
      <3>6. bal'[<<s, d>>] = A - k
        BY <2>1, <2>2, <3>1, <3>2, <3>3, <3>4, <3>5
      <3> QED BY <3>6 DEF ExactCellNext, k, A
    <2> QED BY <2>5, <2>6
  <1> QED BY <1>2, ExactCellsNext

(* The commits of maintenance.                                             *)
LEMMA MaintCreateExact ==
  ASSUME OneWriter, ExactInv, BaseInv', NEW c \in Clerks, MaintCreateCommit(c)
  PROVE  ExactInv'
  <1> DEFINE h == handler[c]
             taken == UNION h.ranges
  <1>1. /\ h.op = "addMaint" /\ h.snap # NoSnap /\ applyMaintDelta(h, {}, taken)
        /\ handler'[c].op = "idle" /\ Others(c)
        /\ unitType' = unitType /\ blocks' = blocks /\ bank' = bank
        /\ act' = act /\ retyped' = retyped
        /\ maint' = maint \cup NewRows(maint, h.units, h.type, h.ranges)
    BY Committed DEF MaintCreateCommit, HasRead, ExactInv, BaseInv, ActInv, WorkInv
  <1>2. /\ h \in Requests /\ h.type \in Types /\ WellFormed(h)
        /\ FiniteRows /\ IsFiniteSet(maint) /\ h.ranges \in SUBSET Ranges
    BY <1>1, RequestAtWork
       DEF ExactInv, BaseInv, ActInv, WorkInv, GridInv, TypedRequests, FiniteRows, Requests
  <1>3. PICK u \in Units : h.units = {u}
    BY <1>1, <1>2 DEF WellFormed
  <1>4. h.type \in Kinds(u)
    BY <1>1, <1>2, <1>3, AddersOfKind DEF WellFormed, Additions
  <1>5. \A days \in h.ranges : At(maint, u, days) = {} /\ At(bank, u, days) = {}
    BY <1>1, <1>3 DEF ExactInv, BaseInv, HoldInv, FoundFree
  <1> HIDE DEF h
  <1>6. PICK t \in Types : t = h.type
    BY <1>2
  <1> DEFINE new == NewRows(maint, {u}, t, h.ranges)
  <1>7. /\ \A r \in new : r.unit = u /\ r.type = t /\ r.days \in h.ranges
        /\ \A days \in h.ranges : \E r \in new : r.days = days
    BY <1>2, NewRowsOfUnit
  <1>8. maint' = maint \cup new
    BY <1>1, <1>3, <1>6
  <1> HIDE DEF new
  <1>9. DaysOf(new) = taken /\ DaysOf({}) = {}
    BY <1>7 DEF DaysOf
  <1>10. KindsAlike'
    <2>1. \A r \in Rows' : r.type \in Kinds(r.unit)
      BY <1>1, <1>4, <1>6, <1>7, <1>8, RowsOfKind DEF Rows
    <2> QED BY <1>1, <2>1, KindsKeep DEF Additions
  <1>11. HeldElsewhere(t) /\ (t \notin retyped => HeldMoves(t, {}, taken))
    <2>1. \A r \in maint \cup bank : r.unit = u => r.days \cap taken = {}
      BY <1>5 DEF At
    <2>2. /\ maint \cup bank = (maint \cup bank) \cup {}
          /\ maint' \cup bank' = (maint \cup bank) \cup new
      BY <1>1, <1>8
    <2> HIDE DEF taken
    <2>3. \A r \in maint \cup bank :
            r.unit = u => r.days \cap (DaysOf({}) \cup DaysOf(new)) = {}
      BY <1>9, <2>1
    <2>4. \A r \in {} \cup new : r.unit = u /\ (r.type = t \/ {r.type, t} \subseteq retyped)
      BY <1>7
    <2>5. Exchanged(maint \cup bank, {}, new, u, t)
      BY <2>2, <2>3, <2>4 DEF Exchanged
    <2>6. HeldElsewhere(t) /\ (t \notin retyped => HeldMoves(t, DaysOf({}), DaysOf(new)))
      BY <2>5, HeldAfter
    <2> QED BY <1>9, <2>6
  <1>12. BalanceExactUnlessRetyped'
    <2> HIDE DEF taken
    <2>1. h.op \in GridWriters
      BY <1>1 DEF GridWriters
    <2> QED BY <1>1, <1>6, <1>10, <1>11, <2>1, MaintExact DEF h
  <1>13. h.op \in Writes /\ BanksWeeks'
    BY <1>1 DEF Writes, ExactInv, BanksWeeks
  <1> QED BY <1>1, <1>10, <1>12, <1>13, ExactCommitted DEF h

LEMMA MaintUpdateExact ==
  ASSUME OneWriter, ExactInv, BaseInv', NEW c \in Clerks, MaintUpdateCommit(c)
  PROVE  ExactInv'
  <1> DEFINE h == handler[c]
             back == DaysOf(h.rows)
             taken == UNION h.ranges
  <1>1. /\ h.op = "updateMaint" /\ h.snap # NoSnap /\ applyMaintDelta(h, back, taken)
        /\ handler'[c].op = "idle" /\ Others(c)
        /\ unitType' = unitType /\ blocks' = blocks /\ bank' = bank
        /\ act' = act /\ retyped' = retyped
    BY Committed DEF MaintUpdateCommit, HasRead, ExactInv, BaseInv, ActInv, WorkInv
  <1>2. /\ h.type \in Types /\ WellFormed(h) /\ h.rows \subseteq maint /\ maint \subseteq Row
    BY <1>1 DEF ExactInv, BaseInv, ActInv, WorkInv, GridInv, TypedRequests, TypeOK,
                InStep, RowsThere
  <1>3. PICK m \in maint, old \in h.rows, days \in h.ranges :
          /\ m.id = old.id
          /\ maint' = (maint \ {m}) \cup {[m EXCEPT !.days = days, !.type = h.type]}
    BY DEF MaintUpdateCommit
  <1>4. m = old /\ At(maint \ {m}, m.unit, days) = {} /\ At(bank, m.unit, days) = {}
    <2>1. FoundFree(h, maint, bank)
      BY DEF ExactInv, BaseInv, HoldInv
    <2> HIDE DEF h
    <2> QED BY <1>1, <1>3, <2>1 DEF FoundFree
  <1>5. h.rows = {m} /\ h.ranges = {days} /\ h.type = m.type
    BY <1>1, <1>2, <1>3, <1>4 DEF WellFormed
  <1> DEFINE new == [m EXCEPT !.days = days, !.type = h.type]
  <1>6. new.unit = m.unit /\ new.type = m.type /\ new.days = days
    BY <1>2, <1>5 DEF Row
  <1>7. maint' = (maint \ {m}) \cup {new}
    BY <1>3
  <1> HIDE DEF new
  <1>8. back = m.days /\ taken = days /\ DaysOf({m}) = m.days /\ DaysOf({new}) = days
    BY <1>5, <1>6 DEF DaysOf
  <1> HIDE DEF h, back, taken
  <1>9. PICK t \in Types : t = h.type
    BY <1>2
  <1>10. KindsAlike'
    <2>1. \A r \in Rows' : r.type \in Kinds(r.unit)
      <3>1. new.type \in Kinds(new.unit)
        BY <1>5, <1>6, RowsOfKind DEF Rows
      <3> QED BY <1>1, <1>7, <3>1, RowsOfKind DEF Rows
    <2> QED BY <1>1, <2>1, KindsKeep DEF Additions
  <1>11. HeldElsewhere(t) /\ (t \notin retyped => HeldMoves(t, back, taken))
    <2> DEFINE kept == (maint \ {m}) \cup bank
               gone == {m}
               came == {new}
    <2>1. maint \cup bank = kept \cup gone /\ maint' \cup bank' = kept \cup came
      BY <1>1, <1>7
    <2>2. \A r \in kept : r.unit = m.unit => r.days \cap m.days = {}
      BY DEF ExactInv, BaseInv, HoldInv, NightsApart
    <2>3. \A r \in kept : r.unit = m.unit => r.days \cap days = {}
      BY <1>4 DEF At
    <2>4. DaysOf(gone) = back /\ DaysOf(came) = taken
      BY <1>8
    <2>5. \A r \in gone \cup came :
            r.unit = m.unit /\ (r.type = t \/ {r.type, t} \subseteq retyped)
      BY <1>5, <1>6, <1>9
    <2> HIDE DEF kept, gone, came
    <2>6. \A r \in kept : r.unit = m.unit => r.days \cap (DaysOf(gone) \cup DaysOf(came)) = {}
      BY <1>8, <2>2, <2>3, <2>4
    <2>7. Exchanged(kept, gone, came, m.unit, t)
      BY <2>1, <2>5, <2>6 DEF Exchanged
    <2>8. HeldElsewhere(t) /\ (t \notin retyped => HeldMoves(t, DaysOf(gone), DaysOf(came)))
      BY <2>7, HeldAfter
    <2> QED BY <2>4, <2>8
  <1>12. BalanceExactUnlessRetyped'
    <2>1. h.op \in GridWriters
      BY <1>1 DEF GridWriters
    <2> QED BY <1>1, <1>9, <1>10, <1>11, <2>1, MaintExact DEF h
  <1>13. h.op \in Writes /\ BanksWeeks'
    BY <1>1 DEF Writes, ExactInv, BanksWeeks
  <1> QED BY <1>1, <1>10, <1>12, <1>13, ExactCommitted DEF h

LEMMA MaintDeleteExact ==
  ASSUME OneWriter, ExactInv, BaseInv', NEW c \in Clerks, MaintDeleteCommit(c)
  PROVE  ExactInv'
  <1> DEFINE h == handler[c]
             back == DaysOf(h.rows)
  <1>1. /\ h.op = "deleteMaint" /\ h.snap # NoSnap /\ applyMaintDelta(h, back, {})
        /\ handler'[c].op = "idle" /\ Others(c)
        /\ unitType' = unitType /\ blocks' = blocks /\ bank' = bank
        /\ act' = act /\ retyped' = retyped
    BY Committed DEF MaintDeleteCommit, HasRead, ExactInv, BaseInv, ActInv, WorkInv
  <1>2. h.type \in Types /\ WellFormed(h) /\ h.rows \subseteq maint
    BY <1>1 DEF ExactInv, BaseInv, ActInv, WorkInv, GridInv, TypedRequests, TypeOK,
                InStep, RowsThere
  <1>3. PICK m \in maint, old \in h.rows : m.id = old.id /\ maint' = maint \ {m}
    BY DEF MaintDeleteCommit
  <1>4. m = old
    BY <1>2, <1>3 DEF ExactInv, BaseInv, HoldInv, OneRecordPerId
  <1>5. h.rows = {m} /\ h.type = m.type
    BY <1>1, <1>2, <1>3, <1>4 DEF WellFormed
  <1>6. back = m.days /\ DaysOf({m}) = m.days /\ DaysOf({}) = {}
    BY <1>5 DEF DaysOf
  <1> HIDE DEF h, back
  <1>7. PICK t \in Types : t = h.type
    BY <1>2
  <1>8. KindsAlike'
    <2>1. \A r \in Rows' : r.type \in Kinds(r.unit)
      BY <1>1, <1>3, RowsOfKind DEF Rows
    <2> QED BY <1>1, <2>1, KindsKeep DEF Additions
  <1>9. HeldElsewhere(t) /\ (t \notin retyped => HeldMoves(t, back, {}))
    <2> DEFINE kept == (maint \ {m}) \cup bank
               gone == {m}
               came == {}
    <2>1. maint \cup bank = kept \cup gone /\ maint' \cup bank' = kept \cup came
      BY <1>1, <1>3
    <2>2. \A r \in kept : r.unit = m.unit => r.days \cap m.days = {}
      BY DEF ExactInv, BaseInv, HoldInv, NightsApart
    <2>3. DaysOf(gone) = back /\ DaysOf(came) = {}
      BY <1>6
    <2>4. \A r \in gone \cup came :
            r.unit = m.unit /\ (r.type = t \/ {r.type, t} \subseteq retyped)
      BY <1>5, <1>7
    <2> HIDE DEF kept, gone, came
    <2>5. \A r \in kept : r.unit = m.unit => r.days \cap (DaysOf(gone) \cup DaysOf(came)) = {}
      BY <1>6, <2>2, <2>3
    <2>6. Exchanged(kept, gone, came, m.unit, t)
      BY <2>1, <2>4, <2>5 DEF Exchanged
    <2>7. HeldElsewhere(t) /\ (t \notin retyped => HeldMoves(t, DaysOf(gone), DaysOf(came)))
      BY <2>6, HeldAfter
    <2> QED BY <2>3, <2>7
  <1>10. BalanceExactUnlessRetyped'
    <2>1. h.op \in GridWriters
      BY <1>1 DEF GridWriters
    <2> QED BY <1>1, <1>7, <1>8, <1>9, <2>1, MaintExact DEF h
  <1>11. h.op \in Writes /\ BanksWeeks'
    BY <1>1 DEF Writes, ExactInv, BanksWeeks
  <1> QED BY <1>1, <1>8, <1>10, <1>11, ExactCommitted DEF h

(* What the two writes of the bank exchange.                               *)
BankExchanges(h, t) ==
  \E u, new :
    /\ bank' = (bank \ h.rows) \cup new
    /\ DaysOf(new) = UNION h.ranges /\ DaysOf(h.rows) \cap DaysOf(new) = {}
    /\ Exchanged(maint \cup (bank \ h.rows), h.rows, new, u, t)
    /\ \A r \in new : r.days \in Weeks /\ r.type \in Kinds(r.unit)

LEMMA BankSaveExchanges ==
  ASSUME ExactInv, NEW c \in Clerks, BankCommit(c), handler[c].op = "saveBank",
         NEW t \in Types, t = handler[c].type
  PROVE  BankExchanges(handler[c], t)
  <1> DEFINE h == handler[c]
             back == DaysOf(h.rows)
             taken == UNION h.ranges
             kept == maint \cup (bank \ h.rows)
  <1>1. /\ h.op = "saveBank" /\ t = h.type /\ maint' = maint
        /\ bank' = (bank \ h.rows) \cup NewRows(bank, h.units, h.type, h.ranges)
        /\ \A r \in bank : r.unit \in h.units => r.days \notin h.ranges
    BY DEF BankCommit
  <1>2. /\ h \in Requests /\ WellFormed(h)
        /\ FiniteRows /\ IsFiniteSet(bank) /\ h.ranges \in SUBSET Ranges
    BY RequestAtWork
       DEF ExactInv, BaseInv, ActInv, WorkInv, GridInv, FiniteRows, Requests
  <1>3. FoundFree(h, maint, bank) /\ InStep(h)
    BY DEF ExactInv, BaseInv, HoldInv
  <1> HIDE DEF h
  <1>4. PICK u \in Units : h.units = {u}
    BY <1>1, <1>2 DEF WellFormed
  <1>5. /\ h.rows \subseteq bank /\ h.ranges \subseteq Weeks
        /\ \A r \in h.rows : r.unit = u
    BY <1>1, <1>3, <1>4 DEF InStep, RowsThere
  <1>6. \A week \in h.ranges : At(maint, u, week) = {} /\ At(bank \ h.rows, u, week) = {}
    BY <1>1, <1>3, <1>4 DEF FoundFree
  <1> DEFINE new == NewRows(bank, {u}, t, h.ranges)
  <1>7. /\ \A r \in new : r.unit = u /\ r.type = t /\ r.days \in h.ranges
        /\ \A week \in h.ranges : \E r \in new : r.days = week
    BY <1>2, NewRowsOfUnit
  <1>8. bank' = (bank \ h.rows) \cup new
    BY <1>1, <1>4
  <1> HIDE DEF new
  <1>9. DaysOf(new) = taken
    BY <1>7 DEF DaysOf
  <1>10. back \cap taken = {}
    <2>1. \A r \in h.rows, week \in h.ranges : r.days \cap week = {}
      BY <1>1, <1>4, <1>5, WeeksAssumption DEF ExactInv, BanksWeeks
    <2> QED BY <2>1 DEF DaysOf
  <1>11. \A r \in kept : r.unit = u => r.days \cap back = {}
    <2>1. \A r \in kept, s \in h.rows : r.unit = s.unit => r.days \cap s.days = {}
      BY <1>5 DEF ExactInv, BaseInv, HoldInv, NightsApart
    <2> QED BY <1>5, <2>1 DEF DaysOf
  <1>12. \A r \in kept : r.unit = u => r.days \cap taken = {}
    BY <1>6 DEF At
  <1>13. t \in Kinds(u) /\ \A r \in h.rows : r.type = t \/ {r.type, t} \subseteq retyped
    <2>1. t \in Kinds(u)
      BY <1>1, <1>2, <1>4, AddersOfKind DEF WellFormed, Additions, h
    <2>2. \A r \in h.rows : r.type \in Kinds(u)
      BY <1>5, RowsOfKind DEF Rows
    <2> QED BY <2>1, <2>2 DEF ExactInv, KindsAlike, Alike
  <1>14. maint \cup bank = kept \cup h.rows /\ maint' \cup bank' = kept \cup new
    BY <1>1, <1>5, <1>8
  <1>15. \A r \in new : r.days \in Weeks /\ r.type \in Kinds(r.unit)
    BY <1>5, <1>7, <1>13
  <1> HIDE DEF back, taken, kept
  <1>16. Exchanged(kept, h.rows, new, u, t)
    <2>1. \A r \in kept : r.unit = u => r.days \cap (back \cup taken) = {}
      BY <1>11, <1>12
    <2>2. DaysOf(h.rows) = back
      BY DEF back
    <2> QED BY <1>5, <1>7, <1>9, <1>13, <1>14, <2>1, <2>2 DEF Exchanged
  <1> QED BY <1>8, <1>9, <1>10, <1>15, <1>16 DEF BankExchanges, back, taken, kept, h

LEMMA BankDeleteExchanges ==
  ASSUME ExactInv, NEW c \in Clerks, BankCommit(c), handler[c].op = "deleteBank",
         NEW t \in Types, t = handler[c].type
  PROVE  BankExchanges(handler[c], t)
  <1> DEFINE h == handler[c]
             back == DaysOf(h.rows)
             kept == maint \cup (bank \ h.rows)
             new == {}
  <1>1. /\ h.op = "deleteBank" /\ t = h.type /\ maint' = maint
        /\ bank' = (bank \ h.rows) \cup NewRows(bank, h.units, h.type, h.ranges)
    BY DEF BankCommit
  <1>2. WellFormed(h) /\ InStep(h)
    BY DEF ExactInv, BaseInv, ActInv, WorkInv
  <1> HIDE DEF h
  <1>3. bank' = (bank \ h.rows) \cup new /\ DaysOf(new) = UNION h.ranges /\ DaysOf(new) = {}
    BY <1>1, <1>2 DEF WellFormed, NewRows, DaysOf
  <1>4. h.rows \subseteq bank
    BY <1>1, <1>2 DEF InStep, RowsThere
  <1>5. PICK first \in h.rows : first.type = t /\ \A r \in h.rows : r.unit = first.unit
    BY <1>1, <1>2 DEF InStep, RowsThere
  <1>6. \A r \in kept : r.unit = first.unit => r.days \cap back = {}
    <2>1. \A r \in kept, s \in h.rows : r.unit = s.unit => r.days \cap s.days = {}
      BY <1>4 DEF ExactInv, BaseInv, HoldInv, NightsApart
    <2> QED BY <1>5, <2>1 DEF DaysOf
  <1>7. \A r \in h.rows : r.type = t \/ {r.type, t} \subseteq retyped
    <2>1. first.unit \in Units
      BY <1>4, <1>5 DEF ExactInv, BaseInv, ActInv, WorkInv, GridInv, TypeOK, Row
    <2>2. \A r \in h.rows : r.type \in Kinds(first.unit)
      BY <1>4, <1>5, RowsOfKind DEF Rows
    <2> QED BY <1>5, <2>1, <2>2 DEF ExactInv, KindsAlike, Alike
  <1>8. maint \cup bank = kept \cup h.rows /\ maint' \cup bank' = kept \cup new
    BY <1>1, <1>3, <1>4
  <1> HIDE DEF kept
  <1>9. Exchanged(kept, h.rows, new, first.unit, t)
    BY <1>3, <1>5, <1>6, <1>7, <1>8 DEF Exchanged
  <1> QED BY <1>3, <1>9 DEF BankExchanges, kept, h

LEMMA BankCommitExact ==
  ASSUME OneWriter, ExactInv, BaseInv', NEW c \in Clerks, BankCommit(c)
  PROVE  ExactInv'
  <1> DEFINE h == handler[c]
  <1>1. /\ h.op \in {"saveBank", "deleteBank"} /\ h.snap # NoSnap
        /\ applyBankDelta(h, DaysOf(h.rows), UNION h.ranges)
        /\ handler'[c].op = "idle" /\ Others(c)
        /\ unitType' = unitType /\ blocks' = blocks /\ maint' = maint
        /\ act' = act /\ retyped' = retyped
    BY Committed DEF BankCommit, HasRead, ExactInv, BaseInv, ActInv, WorkInv
  <1>2. h.type \in Types
    BY <1>1 DEF ExactInv, BaseInv, ActInv, WorkInv, GridInv, TypedRequests
  <1>3. PICK t \in Types : t = h.type
    BY <1>2
  <1>4. BankExchanges(h, t)
    BY <1>1, <1>3, BankSaveExchanges, BankDeleteExchanges
  <1> DEFINE back == DaysOf(h.rows)
             taken == UNION h.ranges
             kept == maint \cup (bank \ h.rows)
  <1>5. PICK u, new :
          /\ bank' = (bank \ h.rows) \cup new
          /\ DaysOf(new) = taken /\ back \cap DaysOf(new) = {}
          /\ Exchanged(kept, h.rows, new, u, t)
          /\ \A r \in new : r.days \in Weeks /\ r.type \in Kinds(r.unit)
    BY <1>4 DEF BankExchanges
  <1>6. HeldElsewhere(t) /\ (t \notin retyped => HeldMoves(t, back, taken))
    <2> HIDE DEF kept, h
    <2>1. HeldElsewhere(t) /\ (t \notin retyped => HeldMoves(t, DaysOf(h.rows), DaysOf(new)))
      BY <1>5, HeldAfter
    <2> QED BY <1>5, <2>1
  <1>7. KindsAlike' /\ BanksWeeks'
    <2>1. \A r \in Rows' : r.type \in Kinds(r.unit)
      BY <1>1, <1>5, RowsOfKind DEF Rows
    <2>2. KindsAlike'
      BY <1>1, <2>1, KindsKeep DEF Additions
    <2> QED BY <1>5, <2>2 DEF ExactInv, BanksWeeks
  <1>8. h.op \in GridWriters /\ h.op \in Writes
    BY <1>1 DEF GridWriters, Writes
  <1>9. back \cap taken = {} /\ applyBankDelta(h, back, taken)
    BY <1>1, <1>5
  <1> HIDE DEF back, taken
  <1>10. BalanceExactUnlessRetyped'
    BY <1>1, <1>3, <1>6, <1>7, <1>8, <1>9, BankExact
  <1> QED BY <1>1, <1>7, <1>8, <1>10, ExactCommitted

(* The commits of blocks: what is held stays held.                         *)
LEMMA BlockCreateExact ==
  ASSUME OneWriter, ExactInv, BaseInv', NEW c \in Clerks, BlockCreateCommit(c)
  PROVE  ExactInv'
  <1> DEFINE h == handler[c]
             new == NewRows(blocks, h.units, h.type, h.ranges)
             days == UNION h.ranges
             qty == Cardinality(h.units)
  <1>1. /\ h.op = "addBlock" /\ handler'[c].op = "idle" /\ Others(c)
        /\ maint' = maint /\ bank' = bank
        /\ retyped' = retyped \cup UNION {Mixed(u, h.type) : u \in h.fresh}
        /\ blocks' = blocks \cup new
        /\ act' = Offered(act, h.type, days, qty) /\ bal' = Offered(bal, h.type, days, qty)
        /\ unitType' = [u \in Units |-> IF u \in h.fresh THEN h.type ELSE unitType[u]]
    BY Committed DEF BlockCreateCommit, ExactInv, BaseInv, ActInv, WorkInv
  <1>2. h.type \in Types /\ h.units \in SUBSET Units
    <2>1. TypeOK /\ TypedRequests
      BY DEF ExactInv, BaseInv, ActInv, WorkInv, GridInv
    <2>2. h \in Requests
      BY <1>1, <2>1, RequestAtWork
    <2> QED BY <1>1, <2>1, <2>2 DEF TypedRequests, Requests
  <1>3. \A u \in h.units \ h.fresh : h.type \in Filed(u)
    BY <1>1 DEF Filed, Additions
  <1> HIDE DEF h
  <1>4. KindsAlike'
    <2>1. \A r \in new : r.type = h.type /\ r.unit \in h.units
      <3>1. \A u, d : /\ NewRow(blocks, u, h.type, d).unit = u
                      /\ NewRow(blocks, u, h.type, d).type = h.type
        BY DEF NewRow
      <3> QED BY <3>1 DEF NewRows
    <2> HIDE DEF new
    <2>2. \A r \in Rows' : r \in Rows \/ (r.type = h.type /\ r.unit \in h.units)
      BY <1>1, <2>1 DEF Rows
    <2>3. \A d \in Clerks : handler'[d].op \in Additions => handler'[d] = handler[d]
      BY <1>1 DEF Others, Additions
    <2>4. ASSUME NEW u \in Units PROVE \A s, t \in Kinds(u)' : Alike(s, t, retyped')
      <3>1. CASE u \in h.fresh
        <4>1. Filed(u)' \subseteq Filed(u) \cup {h.type}
          BY <2>2, <2>3 DEF Filed
        <4>2. unitType'[u] = h.type
          BY <1>1, <3>1
        <4>3. Kinds(u)' \subseteq Filed(u) \cup {h.type}
          BY <4>1, <4>2 DEF Kinds
        <4>4. Mixed(u, h.type) \subseteq retyped'
          BY <1>1, <3>1
        <4> QED BY <4>3, <4>4, KindsMixed
      <3>2. CASE u \notin h.fresh
        <4>1. u \in h.units => h.type \in Filed(u)
          BY <1>3, <3>2
        <4>2. Filed(u)' \subseteq Filed(u)
          BY <2>2, <2>3, <4>1 DEF Filed
        <4>3. unitType'[u] = unitType[u]
          BY <1>1, <3>2
        <4>4. Kinds(u)' \subseteq Kinds(u) /\ retyped \subseteq retyped'
          BY <1>1, <4>2, <4>3 DEF Kinds
        <4> QED BY <4>4 DEF ExactInv, KindsAlike, Alike
      <3> QED BY <3>1, <3>2
    <2> QED BY <2>4 DEF KindsAlike
  <1>5. qty \in Nat
    BY <1>2, UnitsAssumption, FS_Subset, FS_CardinalityType
  <1> HIDE DEF new, days, qty
  <1>6. ASSUME NEW s \in Types \ retyped', NEW d \in Days
        PROVE  ExactCellNext(s, d)
    <2> DEFINE n == HeldCount(maint \cup bank, s, d)
               A == act[<<s, d>>]
    <2>1. n \in Nat /\ A \in Int
      BY <1>1, HeldFits DEF ExactInv
    <2>2. bal[<<s, d>>] = A - n
      BY <1>1, ExactCells DEF ExactInv, ExactCell
    <2>3. <<s, d>> \in Cells
      BY DEF Cells
    <2>4. HeldCount(maint' \cup bank', s, d) = n
      BY <1>1
    <2>5. CASE s = h.type /\ d \in days
      <3>1. act'[<<s, d>>] = A + qty /\ bal'[<<s, d>>] = (A - n) + qty
        BY <1>1, <2>2, <2>3, <2>5 DEF Offered
      <3> HIDE DEF n, A
      <3> QED BY <1>5, <2>1, <2>4, <3>1 DEF ExactCellNext
    <2>6. CASE ~(s = h.type /\ d \in days)
      <3>1. act'[<<s, d>>] = A /\ bal'[<<s, d>>] = A - n
        BY <1>1, <2>2, <2>3, <2>6 DEF Offered
      <3> HIDE DEF n, A
      <3> QED BY <2>4, <3>1 DEF ExactCellNext
    <2> QED BY <2>5, <2>6
  <1>7. BalanceExactUnlessRetyped'
    BY <1>6, ExactCellsNext
  <1>8. h.op \in Writes /\ BanksWeeks'
    BY <1>1 DEF Writes, ExactInv, BanksWeeks
  <1> QED BY <1>1, <1>4, <1>7, <1>8, ExactCommitted DEF h

LEMMA BlockDeleteExact ==
  ASSUME OneWriter, ExactInv, BaseInv', NEW c \in Clerks, BlockDeleteCommit(c)
  PROVE  ExactInv'
  <1> DEFINE h == handler[c]
             days == {d \in DaysOf(h.rows) : h.snap.act[d] > 0}
             less == [d \in Days |-> h.snap.act[d] - 1]
             free == [d \in Days |-> IF less[d] > 0 /\ h.snap.bal[d] > 0
                                     THEN h.snap.bal[d] - 1 ELSE 0]
  <1>1. /\ h.op = "deleteBlock" /\ h.snap # NoSnap
        /\ handler'[c].op = "idle" /\ Others(c)
        /\ unitType' = unitType /\ maint' = maint /\ bank' = bank /\ retyped' = retyped
        /\ blocks' = blocks \ h.rows
        /\ act' = Written(act, h.type, days, less) /\ bal' = Written(bal, h.type, days, free)
    BY Committed DEF BlockDeleteCommit, HasRead, ExactInv, BaseInv, ActInv, WorkInv
  <1>2. InStep(h)
    BY DEF ExactInv
  <1>3. KindsAlike' /\ BanksWeeks'
    <2>1. \A r \in Rows' : r.type \in Kinds(r.unit)
      BY <1>1, RowsOfKind DEF Rows
    <2>2. KindsAlike'
      BY <1>1, <2>1, KindsKeep DEF Additions
    <2> QED BY <1>1, <2>2 DEF ExactInv, BanksWeeks
  <1>4. h.op \in GridWriters /\ h.op \in Writes
    BY <1>1 DEF GridWriters, Writes
  <1>5. ASSUME NEW s \in Types \ retyped', NEW d \in Days
        PROVE  ExactCellNext(s, d)
    <2> DEFINE n == HeldCount(maint \cup bank, s, d)
               A == act[<<s, d>>]
    <2>1. n \in Nat /\ n <= A /\ A \in Int
      BY <1>1, HeldFits DEF ExactInv
    <2>2. bal[<<s, d>>] = A - n
      BY <1>1, ExactCells DEF ExactInv, ExactCell
    <2>3. <<s, d>> \in Cells
      BY DEF Cells
    <2>4. HeldCount(maint' \cup bank', s, d) = n
      BY <1>1
    <2>5. n <= act'[<<s, d>>]
      BY <1>1, <1>3, <2>4, HeldStillFits
    <2>6. /\ act'[<<s, d>>] = IF s = h.type /\ d \in days THEN less[d] ELSE A
          /\ bal'[<<s, d>>] = IF s = h.type /\ d \in days THEN free[d] ELSE A - n
      <3> HIDE DEF days, free, less, h
      <3> QED BY <1>1, <2>2, <2>3 DEF Written
    <2>7. CASE s = h.type /\ d \in days
      <3>1. h.snap.act[d] = A /\ h.snap.bal[d] = A - n
        BY <1>2, <1>1, <1>4, <2>2, <2>7 DEF InStep, ReadExact
      <3>2. less[d] = h.snap.act[d] - 1
        OBVIOUS
      <3>3. free[d] = IF less[d] > 0 /\ h.snap.bal[d] > 0 THEN h.snap.bal[d] - 1 ELSE 0
        <4> HIDE DEF less
        <4> QED OBVIOUS
      <3> HIDE DEF free, less, h, days, n, A
      <3>4. less[d] = A - 1 /\ n <= A - 1 /\ act'[<<s, d>>] = A - 1 /\ bal'[<<s, d>>] = free[d]
        BY <2>5, <2>6, <2>7, <3>1, <3>2
      <3>5. free[d] = (A - 1) - n
        BY <2>1, <3>1, <3>3, <3>4
      <3> QED BY <2>4, <3>4, <3>5 DEF ExactCellNext
    <2>8. CASE ~(s = h.type /\ d \in days)
      <3>1. act'[<<s, d>>] = A /\ bal'[<<s, d>>] = A - n
        <4> HIDE DEF days, free, less, h
        <4> QED BY <2>6, <2>8
      <3> HIDE DEF n, A
      <3> QED BY <2>4, <3>1 DEF ExactCellNext
    <2> QED BY <2>7, <2>8
  <1>6. BalanceExactUnlessRetyped'
    BY <1>5, ExactCellsNext
  <1> QED BY <1>1, <1>3, <1>4, <1>6, ExactCommitted

(* Units are registered, edited and deleted, by any clerk at any time.     *)
LEMMA UnitMoveKinds ==
  ASSUME ExactInv, NEW c \in Clerks, UnitMove(c)
  PROVE  KindsAlike' /\ retyped \subseteq retyped'
  <1>1. GridInv /\ TypeOK
    BY DEF ExactInv, BaseInv, ActInv, WorkInv, GridInv
  <1>2. \A u \in Units : Filed(u)' \subseteq Filed(u)
    <2>1. Rows' = Rows
      BY <1>1, UnitsMove DEF Rows
    <2>2. \A d \in Clerks : handler'[d].op \in Additions => handler'[d] = handler[d]
      BY <1>1, RequestsStay DEF Additions
    <2> QED BY <2>1, <2>2 DEF Filed
  <1>3. ASSUME retyped \subseteq retyped',
               NEW v, \A u \in Units \ {v} : unitType'[u] \in {unitType[u], NoType},
               NEW t, Mixed(v, t) \subseteq retyped', unitType'[v] = t
        PROVE  KindsAlike'
    <2>1. ASSUME NEW u \in Units PROVE \A r, s \in Kinds(u)' : Alike(r, s, retyped')
      <3>1. CASE u = v
        <4>1. Kinds(u)' \subseteq Filed(u) \cup {t}
          BY <1>2, <1>3, <3>1 DEF Kinds
        <4> QED BY <1>3, <3>1, <4>1, KindsMixed
      <3>2. CASE u # v
        <4>1. Kinds(u)' \subseteq Kinds(u)
          BY <1>2, <1>3, <3>2 DEF Kinds
        <4> QED BY <1>3, <4>1 DEF ExactInv, KindsAlike, Alike
      <3> QED BY <3>1, <3>2
    <2> QED BY <2>1 DEF KindsAlike
  <1>4. CASE UnitCreate(c)
    <2>1. PICK u \in Units, t \in Types :
            /\ unitType' = [unitType EXCEPT ![u] = t]
            /\ retyped' = retyped \cup Mixed(u, t)
      BY <1>4 DEF UnitCreate
    <2>2. unitType'[u] = t /\ \A v \in Units \ {u} : unitType'[v] = unitType[v]
      BY <1>1, <2>1 DEF TypeOK
    <2> QED BY <1>3, <2>1, <2>2
  <1>5. CASE UnitUpdate(c)
    <2>1. PICK u \in Units, v \in Units, t \in Types :
            /\ unitType' = [unitType EXCEPT ![u] = NoType, ![v] = t]
            /\ retyped' = retyped \cup Mixed(v, t)
      BY <1>5, UnitsAssumption DEF UnitUpdate
    <2>2. /\ unitType'[v] = t
          /\ \A w \in Units \ {v} : unitType'[w] \in {unitType[w], NoType}
      BY <1>1, <2>1 DEF TypeOK
    <2> QED BY <1>3, <2>1, <2>2
  <1>6. CASE UnitDeleteCommit(c)
    <2>1. retyped' = retyped /\ \A u \in Units : unitType'[u] \in {unitType[u], NoType}
      BY <1>6 DEF UnitDeleteCommit
    <2>2. \A u \in Units : Kinds(u)' \subseteq Kinds(u)
      BY <1>2, <2>1 DEF Kinds
    <2> QED BY <2>1, <2>2 DEF ExactInv, KindsAlike
  <1> QED BY <1>4, <1>5, <1>6 DEF UnitMove

LEMMA UnitMoveExact ==
  ASSUME ExactInv, BaseInv', NEW c \in Clerks, UnitMove(c)
  PROVE  ExactInv'
  <1>1. GridInv
    BY DEF ExactInv, BaseInv, ActInv, WorkInv
  <1>2. blocks' = blocks /\ maint' = maint /\ bank' = bank /\ act' = act /\ bal' = bal
    BY <1>1, UnitsMove
  <1>3. KindsAlike' /\ retyped \subseteq retyped'
    BY UnitMoveKinds
  <1>4. BanksWeeks' /\ BalanceExactUnlessRetyped'
    BY <1>2, <1>3 DEF ExactInv, BanksWeeks, BalanceExactUnlessRetyped, HeldNights
  <1>5. ASSUME NEW d \in Clerks PROVE InStep(handler[d])'
    <2>1. handler'[d] = handler[d] \/ handler'[d].op \in {"idle", "deleteUnit"}
      BY <1>1, RequestsStay
    <2>2. CASE handler'[d] = handler[d]
      BY <1>2, <2>2 DEF ExactInv, InStep
    <2>3. CASE handler'[d].op \in {"idle", "deleteUnit"}
      BY <2>3 DEF InStep, RowsThere, ReadExact, GridWriters
    <2> QED BY <2>1, <2>2, <2>3
  <1> QED BY <1>3, <1>4, <1>5 DEF ExactInv

(* Steps that leave the tables as they are.                                *)
LEMMA ExactFrame ==
  ASSUME ExactInv, BaseInv', unitType' = unitType, blocks' = blocks, maint' = maint,
         bank' = bank, act' = act, bal' = bal, retyped' = retyped,
         NEW c \in Clerks, Others(c), InStep(handler'[c]),
         handler'[c].op \in Additions =>
           \A u \in handler'[c].units \ handler'[c].fresh : handler'[c].type \in Kinds(u)
  PROVE  ExactInv'
  <1>1. KindsAlike' /\ BanksWeeks' /\ BalanceExactUnlessRetyped'
    <2>1. \A r \in Rows' : r.type \in Kinds(r.unit)
      BY RowsOfKind DEF Rows
    <2>2. KindsAlike'
      BY <2>1, KindsKeep
    <2> QED BY <2>2 DEF ExactInv, BanksWeeks, BalanceExactUnlessRetyped, HeldNights
  <1>2. \A d \in Clerks : InStep(handler'[d])
    BY DEF ExactInv, Others
  <1>3. \A d \in Clerks : InStep(handler[d])'
    BY <1>2 DEF InStep
  <1> QED BY <1>1, <1>3 DEF ExactInv

LEMMA ExactAsked ==
  ASSUME ExactInv, BaseInv', NEW c \in Clerks,
         \/ UnitDeleteAsk(c) \/ BlockCreateAsk(c) \/ BlockBatchAsk(c) \/ BlockDeleteAsk(c)
         \/ MaintCreateAsk(c) \/ MaintUpdateAsk(c) \/ MaintDeleteAsk(c)
         \/ BankSaveAsk(c) \/ BankYearDeleteAsk(c)
  PROVE  ExactInv'
  <1>1. GridInv
    BY DEF ExactInv, BaseInv, ActInv, WorkInv
  <1>2. \E h : /\ Accepted(c, h) /\ RowsThere(h, blocks, maint, bank)
               /\ h.op \in Additions =>
                    \A u \in h.units \ h.fresh : unitType[u] # NoType /\ h.type = unitType[u]
    <2>1. CASE UnitDeleteAsk(c)
      BY <1>1, <2>1, UnitDeleteAsked DEF RowsThere, Additions
    <2>2. CASE BlockCreateAsk(c) \/ BlockBatchAsk(c)
      BY <1>1, <2>2, BlockAsked DEF RowsThere
    <2>3. CASE BlockDeleteAsk(c)
      BY <1>1, <2>3, BlockDeleteAsked DEF RowsThere, Additions
    <2>4. CASE MaintCreateAsk(c)
      BY <1>1, <2>4, MaintCreateAsked DEF RowsThere
    <2>5. CASE MaintUpdateAsk(c)
      BY <1>1, <2>5, MaintUpdateAsked DEF RowsThere, Additions
    <2>6. CASE MaintDeleteAsk(c)
      BY <1>1, <2>6, MaintDeleteAsked DEF RowsThere, Additions
    <2>7. CASE BankSaveAsk(c)
      BY <1>1, <2>7, BankSaveAsked DEF RowsThere
    <2>8. CASE BankYearDeleteAsk(c)
      BY <1>1, <2>8, BankYearDeleteAsked DEF RowsThere, Additions
    <2> QED BY <2>1, <2>2, <2>3, <2>4, <2>5, <2>6, <2>7, <2>8
  <1>3. PICK h : /\ Accepted(c, h) /\ RowsThere(h, blocks, maint, bank)
                 /\ h.op \in Additions =>
                      \A u \in h.units \ h.fresh : unitType[u] # NoType /\ h.type = unitType[u]
    BY <1>2
  <1>4. InStep(h)
    BY <1>3 DEF InStep, Accepted, ReadExact
  <1>5. h.op \in Additions => \A u \in h.units \ h.fresh : h.type \in Kinds(u)
    BY <1>3 DEF Kinds
  <1> QED BY <1>3, <1>4, <1>5, ExactFrame DEF Accepted

LEMMA ExactRead ==
  ASSUME ExactInv, BaseInv', NEW c \in Clerks, GridRead(c)
  PROVE  ExactInv'
  <1> DEFINE h == handler[c]
             g == handler'[c]
  <1>1. /\ unitType' = unitType /\ blocks' = blocks /\ maint' = maint /\ bank' = bank
        /\ act' = act /\ bal' = bal /\ retyped' = retyped
        /\ g.op = h.op /\ g.type = h.type /\ g.units = h.units /\ g.fresh = h.fresh
        /\ g.ranges = h.ranges /\ g.rows = h.rows /\ Others(c)
        /\ \A t \in Types, d \in Days : t = h.type =>
             g.snap.act[d] = act[<<t, d>>] /\ g.snap.bal[d] = bal[<<t, d>>]
    BY GridWasRead DEF ExactInv, BaseInv, ActInv, WorkInv
  <1>2. InStep(h)
    BY DEF ExactInv
  <1> HIDE DEF g, h
  <1>3. InStep(g)
    BY <1>1, <1>2 DEF InStep, RowsThere, ReadExact
  <1>4. h.op \in Additions => \A u \in h.units \ h.fresh : h.type \in Kinds(u)
    BY AddersOfKind DEF h
  <1>5. g.op \in Additions => \A u \in g.units \ g.fresh : g.type \in Kinds(u)
    BY <1>1, <1>4
  <1> QED BY <1>1, <1>3, <1>5, ExactFrame DEF g

LEMMA ExactInit == Init => ExactInv
  <1> SUFFICES ASSUME Init PROVE ExactInv
    OBVIOUS
  <1>1. BaseInv
    BY HoldInit, CoverInit, OrphanInit, ActInit DEF BaseInv
  <1>2. KindsAlike /\ BanksWeeks
    <2>1. \A c \in Clerks : handler[c].op \notin Additions
      BY IdleTyped DEF Init, Additions
    <2>2. \A u \in Units : Filed(u) = {}
      BY <2>1 DEF Init, Filed, Rows
    <2> QED BY <2>2 DEF Init, KindsAlike, Kinds, Alike, BanksWeeks
  <1>3. BalanceExactUnlessRetyped
    <2>1. \A x \in Cells : HeldNights(x[1], x[2]) = {}
      BY DEF Init, HeldNights
    <2> QED BY <2>1, FS_EmptySet DEF Init, BalanceExactUnlessRetyped
  <1>4. \A c \in Clerks : InStep(handler[c])
    BY IdleTyped DEF Init, InStep, RowsThere, ReadExact, GridWriters
  <1> QED BY <1>1, <1>2, <1>3, <1>4 DEF ExactInv

LEMMA ExactStep ==
  ASSUME OneWriter, ExactInv, [Next]_vars
  PROVE  ExactInv'
  <1>1. BaseInv' /\ GridInv
    BY BaseStep DEF ExactInv, BaseInv, ActInv, WorkInv
  <1>2. CASE UNCHANGED vars
    BY <1>1, <1>2 DEF vars, ExactInv, KindsAlike, Kinds, Filed, Rows, BanksWeeks,
                      BalanceExactUnlessRetyped, HeldNights, InStep
  <1>3. ASSUME NEW c \in Clerks, UnitMove(c) PROVE ExactInv'
    BY <1>1, <1>3, UnitMoveExact
  <1>4. ASSUME NEW c \in Clerks,
               \/ UnitDeleteAsk(c) \/ BlockCreateAsk(c) \/ BlockBatchAsk(c) \/ BlockDeleteAsk(c)
               \/ MaintCreateAsk(c) \/ MaintUpdateAsk(c) \/ MaintDeleteAsk(c)
               \/ BankSaveAsk(c) \/ BankYearDeleteAsk(c)
        PROVE  ExactInv'
    BY <1>1, <1>4, ExactAsked
  <1>5. ASSUME NEW c \in Clerks, GridRead(c) PROVE ExactInv'
    BY <1>1, <1>5, ExactRead
  <1>6. ASSUME NEW c \in Clerks, BlockCreateCommit(c) \/ BlockDeleteCommit(c) PROVE ExactInv'
    BY <1>1, <1>6, BlockCreateExact, BlockDeleteExact
  <1>7. ASSUME NEW c \in Clerks,
               MaintCreateCommit(c) \/ MaintUpdateCommit(c) \/ MaintDeleteCommit(c)
        PROVE  ExactInv'
    BY <1>1, <1>7, MaintCreateExact, MaintUpdateExact, MaintDeleteExact
  <1>8. ASSUME NEW c \in Clerks, BankCommit(c) PROVE ExactInv'
    BY <1>1, <1>8, BankCommitExact
  <1>9. ASSUME NEW c \in Clerks, Abandon(c) PROVE ExactInv'
    <2>1. handler'[c].op = "idle" /\ Others(c)
      BY <1>1, <1>9, Committed
    <2>2. InStep(handler'[c]) /\ handler'[c].op \notin Additions
      BY <2>1 DEF InStep, RowsThere, ReadExact, GridWriters, Additions
    <2>3. /\ unitType' = unitType /\ blocks' = blocks /\ maint' = maint /\ bank' = bank
          /\ act' = act /\ bal' = bal /\ retyped' = retyped
      BY <1>9 DEF Abandon, tables
    <2> QED BY <1>1, <2>1, <2>2, <2>3, ExactFrame
  <1> QED BY <1>2, <1>3, <1>4, <1>5, <1>6, <1>7, <1>8, <1>9 DEF Next, UnitMove

(* "balNight = act minus maintenance minus bookings", exactly, for every   *)
(* type under which no number in use was registered beside another, and    *)
(* every day, although nothing is ever counted anew, as long as one clerk  *)
(* does all that moves the counts; the others may register and edit units, *)
(* their numbers included, meanwhile.                                      *)
THEOREM BalanceIsExact ==
  ASSUME OneWriter
  PROVE  Spec => []BalanceExactUnlessRetyped
  <1>1. ExactInv /\ [Next]_vars => ExactInv'
    BY ExactStep
  <1>2. ExactInv => BalanceExactUnlessRetyped
    BY DEF ExactInv
  <1> QED BY <1>1, <1>2, ExactInit, PTL DEF Spec
=============================================================================
