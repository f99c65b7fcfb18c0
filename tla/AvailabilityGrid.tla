-------------------------- MODULE AvailabilityGrid --------------------------
(***************************************************************************)
(* The inventory of one resort and its per-day availability grid:          *)
(*   backend/src/controllers/resort-units.controller.ts        units       *)
(*   backend/src/controllers/apt-blocks.controller.ts          blocks      *)
(*   backend/src/controllers/resort-maintenance.controller.ts  maintenance *)
(*   backend/src/controllers/rci-bulk-bank.controller.ts       RCI bank    *)
(*                                                                         *)
(* The grid (ResAvailMast) counts, per apartment type and day, the units   *)
(* offered (actNight) and those still free (balNight).  It is kept up by   *)
(* deltas, never recomputed.  Every write handler first checks its guards  *)
(* (the ...Ask actions), then opens a transaction that reads the grid rows *)
(* it needs (GridRead) and writes (the ...Commit actions).  Transactions   *)
(* run READ COMMITTED, so other handlers run between the three.  Maintain- *)
(* ance and block removal write back numbers computed from the rows read;  *)
(* block creation and the RCI bank increment in place.                     *)
(*                                                                         *)
(* Abstractions.  A date range is its set of days, a row without actNight  *)
(* is no row, and an RCI week is WeekDays long.  Left out: the season of a *)
(* banked week and its serial number, audit rows, the listing endpoints,   *)
(* and rows migrated without an apartment type.                            *)
(***************************************************************************)
EXTENDS Integers, FiniteSets

CONSTANTS
  Clerks,      \* requests in flight at the same time
  Ops,         \* the operations each clerk uses
  Units,       \* unit numbers of the resort
  Types,       \* its apartment types
  Days,        \* bound: the days of the calendar
  WeekStarts,  \* the Friday each RCI week starts on
  WeekDays,    \* nights of an RCI week
  Bankable,    \* numbers that may have rciReserved = 'Y', no lock-off half
  Batches,     \* the unit numbers a MAR batch may name; none at own resorts
  Registered,  \* apartment type of each unit at the start
  MaxRanges,   \* ranges of one maintenance save
  Editable,    \* bound: numbers whose unit is edited
  MaxRows,     \* bound: rows in the tables
  NoType,      \* a unit that is not registered
  NoSnap       \* the grid is not read yet

OpNames == {"addUnit", "updateUnit", "deleteUnit", "addBlock", "deleteBlock",
            "addMaint", "updateMaint", "deleteMaint", "saveBank", "deleteBank"}

Ranges == {a..b : a, b \in Days} \ {{}}
WeekOf(w) == w..(w + WeekDays - 1)
Weeks == {WeekOf(w) : w \in WeekStarts}

ASSUME DaysAssumption ==
  /\ IsFiniteSet(Days)
  /\ Days \subseteq Int
  /\ \A r \in Ranges : r \subseteq Days
ASSUME WeeksAssumption ==
  /\ WeekStarts \subseteq Days
  /\ WeekDays \in Nat \ {0}
  /\ Weeks \subseteq Ranges
  /\ \A v, w \in Weeks : v # w => v \cap w = {}
ASSUME UnitsAssumption ==
  /\ IsFiniteSet(Units)
  /\ Bankable \subseteq Units
  /\ Batches \subseteq SUBSET Units
  /\ Registered \in [Units -> Types \cup {NoType}]
  /\ Editable \subseteq Units
  /\ NoType \notin Types
ASSUME BoundsAssumption == MaxRanges \in Nat /\ MaxRows \in Nat
ASSUME ClerksAssumption == IsFiniteSet(Clerks) /\ Ops \in [Clerks -> SUBSET OpNames]

VARIABLES
  unitType,  \* ResortUnit: the apartment type of a unit, or NoType
  blocks,    \* AptBlock rows
  maint,     \* ResortMaintenance rows
  bank,      \* RciBulkBank rows
  act,       \* ResAvailMast.actNight by type and day, 0 for no row
  bal,       \* ResAvailMast.balNight
  handler,   \* what each clerk's request holds
  retyped,   \* history: the types a number in use was moved from or to
  renamed    \* history: numbers whose rows an edit parted from their unit

tables == <<unitType, blocks, maint, bank, act, bal, retyped, renamed>>
vars == <<unitType, blocks, maint, bank, act, bal, handler, retyped, renamed>>

Cells == Types \X Days
Ids == Nat \X Units \X Ranges
Row == [id : Ids, unit : Units, type : Types, days : Ranges]
Column == [act : [Days -> Int], bal : [Days -> Int]]

Idle == [op |-> "idle", units |-> {}, fresh |-> {}, type |-> NoType,
         ranges |-> {}, rows |-> {}, snap |-> NoSnap]

Requests ==
  [op : OpNames, units : SUBSET Units, fresh : SUBSET Units,
   type : Types \cup {NoType}, ranges : SUBSET Ranges, rows : SUBSET Row,
   snap : Column \cup {NoSnap}]

TypeOK ==
  /\ unitType \in [Units -> Types \cup {NoType}]
  /\ blocks \subseteq Row
  /\ maint \subseteq Row
  /\ bank \subseteq Row
  /\ act \in [Cells -> Int]
  /\ bal \in [Cells -> Int]
  /\ handler \in [Clerks -> {Idle} \cup Requests]
  /\ retyped \subseteq Types
  /\ renamed \subseteq Units

Init ==
  /\ unitType = Registered
  /\ blocks = {} /\ maint = {} /\ bank = {}
  /\ act = [c \in Cells |-> 0]
  /\ bal = [c \in Cells |-> 0]
  /\ handler = [c \in Clerks |-> Idle]
  /\ retyped = {}
  /\ renamed = {}

(***************************************************************************)
(* Rows.  An id says what a row was created for, and tells it from any     *)
(* earlier row for the same that a table or a request still refers to.     *)
(***************************************************************************)
At(rows, u, days) == {r \in rows : r.unit = u /\ r.days \cap days # {}}
DaysOf(rows) == UNION {r.days : r \in rows}
First(days) == CHOOSE d \in days : \A e \in days : d <= e

Rows == blocks \cup maint \cup bank

NewRow(table, u, t, days) ==
  LET known    == table \cup UNION {handler[c].rows : c \in Clerks}
      taken(n) == \E r \in known : r.id = <<n, u, days>>
      fresh    == CHOOSE n \in 0..Cardinality(known) : ~taken(n) IN
  [id |-> <<fresh, u, days>>, unit |-> u, type |-> t, days |-> days]

NewRows(table, units, t, ranges) ==
  {NewRow(table, u, t, days) : u \in units, days \in ranges}

HasRoom(units, ranges) ==
  Cardinality(blocks) + Cardinality(maint) + Cardinality(bank)
    + Cardinality(units \X ranges) <= MaxRows

Ask(c, request) ==
  /\ handler[c] = Idle
  /\ request.op \in Ops[c]
  /\ handler' = [handler EXCEPT ![c] = request]
  /\ UNCHANGED tables

Answer(c) == handler' = [handler EXCEPT ![c] = Idle]

(***************************************************************************)
(* Units: POST, PATCH and DELETE /api/resort-units.  An edit may change the*)
(* number as well as the type, and nothing looks at the rows that carry    *)
(* the old number; a unit is found by its id, so that a request to delete  *)
(* it goes on under the new number, or finds nothing.                      *)
(***************************************************************************)
Additions == {"addBlock", "addMaint", "saveBank"}

(* The types under which rows of number u are kept, or are being added.    *)
Filed(u) ==
  {r.type : r \in {s \in Rows : s.unit = u}} \cup
  {handler[c].type : c \in {d \in Clerks : /\ handler[d].op \in Additions
                                         /\ u \in handler[d].units \ handler[d].fresh}}

(* The types that are mixed when number u is registered with type t.       *)
Mixed(u, t) == IF Filed(u) \subseteq {t} THEN {} ELSE Filed(u) \cup {t}

Follow(units, new) ==
  [c \in Clerks |-> IF handler[c].op = "deleteUnit" /\ handler[c].units = units
                    THEN [handler[c] EXCEPT !.units = new] ELSE handler[c]]

UnitCreate(c) ==
  /\ handler[c] = Idle
  /\ "addUnit" \in Ops[c]
  /\ \E u \in Units, t \in Types :
       /\ unitType[u] = NoType
       /\ unitType' = [unitType EXCEPT ![u] = t]
       /\ retyped' = retyped \cup Mixed(u, t)
       /\ renamed' = renamed \ {u}
  /\ UNCHANGED <<blocks, maint, bank, act, bal, handler>>

(* Unit u gets number v and type t; only the unique index guards v.        *)
UnitUpdate(c) ==
  /\ handler[c] = Idle
  /\ "updateUnit" \in Ops[c]
  /\ \E u \in Editable, v \in Units, t \in Types :
       /\ unitType[u] # NoType
       /\ v = u \/ unitType[v] = NoType
       /\ <<v, t>> # <<u, unitType[u]>>
       /\ unitType' = [unitType EXCEPT ![u] = NoType, ![v] = t]
       /\ retyped' = retyped \cup Mixed(v, t)
       /\ renamed' = IF v = u THEN renamed
                     ELSE renamed \cup {n \in {u, v} : Filed(n) # {}}
       /\ handler' = Follow({u}, {v})
  /\ UNCHANGED <<blocks, maint, bank, act, bal>>

(* Mutation: the availability records are not counted.                     *)
MutDeleteOffered(c) ==
  \E u \in Units :
    /\ unitType[u] # NoType
    /\ \A r \in maint \cup bank : r.unit # u
    /\ Ask(c, [Idle EXCEPT !.op = "deleteUnit", !.units = {u}])

UnitDeleteAsk(c) ==
  \E u \in Units :
    /\ unitType[u] # NoType
    /\ \A r \in Rows : r.unit # u
    /\ Ask(c, [Idle EXCEPT !.op = "deleteUnit", !.units = {u}])

UnitDeleteCommit(c) ==
  /\ handler[c].op = "deleteUnit"
  /\ handler[c].units # {}
  /\ unitType' = [u \in Units |-> IF u \in handler[c].units THEN NoType
                                  ELSE unitType[u]]
  /\ handler' = [Follow(handler[c].units, {}) EXCEPT ![c] = Idle]
  /\ UNCHANGED <<blocks, maint, bank, act, bal, retyped, renamed>>

(***************************************************************************)
(* Blocks: POST /api/apt-blocks, POST /api/apt-blocks/batch and DELETE.    *)
(* There is no update.                                                     *)
(***************************************************************************)
(* Mutation: only an equal start date counts as an overlap.                *)
MutSameStart(units, days) ==
  \E u \in units, b \in blocks : b.unit = u /\ First(b.days) = First(days)

hasOverlap(units, days) == \E u \in units : At(blocks, u, days) # {}

BlockCreateAsk(c) ==
  \E u \in Units, days \in Ranges :
    /\ unitType[u] # NoType
    /\ ~hasOverlap({u}, days)
    /\ Ask(c, [Idle EXCEPT !.op = "addBlock", !.units = {u},
                           !.type = unitType[u], !.ranges = {days}])

(* Mutation: the type is looked up before the missing units exist.         *)
MutBatchType(c) ==
  \E units \in Batches, t \in Types, days \in Ranges :
    /\ \A u \in units : unitType[u] \in {t, NoType}
    /\ ~hasOverlap(units, days)
    /\ Ask(c, [Idle EXCEPT !.op = "addBlock", !.units = units,
                           !.fresh = {u \in units : unitType[u] = NoType},
                           !.type = unitType[CHOOSE u \in units : TRUE],
                           !.ranges = {days}])

(* A MAR batch reuses the units registered with its type and registers the *)
(* missing ones in the transaction.                                        *)
BlockBatchAsk(c) ==
  \E units \in Batches, t \in Types, days \in Ranges :
    /\ \A u \in units : unitType[u] \in {t, NoType}
    /\ ~hasOverlap(units, days)
    /\ Ask(c, [Idle EXCEPT !.op = "addBlock", !.units = units,
                           !.fresh = {u \in units : unitType[u] = NoType},
                           !.type = t, !.ranges = {days}])

(* Mutation: a batch counts as one unit.                                   *)
MutOfferedOne(column, t, days, qty) ==
  [x \in Cells |-> IF x[1] = t /\ x[2] \in days THEN column[x] + 1 ELSE column[x]]

(* applyDelta, sign = +1: an upsert that increments both columns.          *)
Offered(column, t, days, qty) ==
  [x \in Cells |-> IF x[1] = t /\ x[2] \in days THEN column[x] + qty ELSE column[x]]

BlockCreateCommit(c) ==
  LET h == handler[c] IN
  /\ h.op = "addBlock"
  /\ \A u \in h.fresh : unitType[u] = NoType
  /\ \A b \in blocks : b.unit \in h.units => b.days \notin h.ranges
  /\ HasRoom(h.units, h.ranges)
  /\ blocks' = blocks \cup NewRows(blocks, h.units, h.type, h.ranges)
  /\ act' = Offered(act, h.type, UNION h.ranges, Cardinality(h.units))
  /\ bal' = Offered(bal, h.type, UNION h.ranges, Cardinality(h.units))
  /\ unitType' = [u \in Units |-> IF u \in h.fresh THEN h.type ELSE unitType[u]]
  /\ retyped' = retyped \cup UNION {Mixed(u, h.type) : u \in h.fresh}
  /\ renamed' = renamed \ h.fresh
  /\ Answer(c)
  /\ UNCHANGED <<maint, bank>>

maintenanceWithin(u, days) == At(maint, u, days) # {}
bulkBankWithin(u, days) == At(bank, u, days) # {}

BlockDeleteAsk(c) ==
  \E b \in blocks :
    /\ ~maintenanceWithin(b.unit, b.days)
    /\ ~bulkBankWithin(b.unit, b.days)
    /\ Ask(c, [Idle EXCEPT !.op = "deleteBlock", !.type = b.type, !.rows = {b}])

(***************************************************************************)
(* Inside a transaction: the grid rows of one apartment type are read.     *)
(***************************************************************************)
(* Mutation: maintenance does not look at the bank.                        *)
MutNoBankGuard(u, days) == FALSE

MaintOverlap(u, days) == At(maint, u, days) # {}
bulkBankOverlap(u, days) == At(bank, u, days) # {}

GridRead(c) ==
  LET h == handler[c] IN
  /\ h.op \in {"deleteBlock", "addMaint", "updateMaint", "deleteMaint",
               "saveBank", "deleteBank"}
  /\ h.snap = NoSnap
  /\ h.op = "addMaint" => \A u \in h.units, days \in h.ranges :
                            ~MaintOverlap(u, days) /\ ~bulkBankOverlap(u, days)
  /\ handler' = [handler EXCEPT ![c].snap =
       [act |-> [d \in Days |-> act[h.type, d]],
        bal |-> [d \in Days |-> bal[h.type, d]]]]
  /\ UNCHANGED tables

HasRead(c, op) == handler[c].op = op /\ handler[c].snap # NoSnap

(* Rows written by key: a row that has gone by then aborts the transaction.*)
RowsStill(t, days) == \A d \in days : act[t, d] > 0

Written(column, t, days, new) ==
  [x \in Cells |-> IF x[1] = t /\ x[2] \in days THEN new[x[2]] ELSE column[x]]

(* applyDelta, sign = -1: one unit less, and no row once actNight is zero. *)
BlockDeleteCommit(c) ==
  LET h    == handler[c]
      days == {d \in DaysOf(h.rows) : h.snap.act[d] > 0}
      less == [d \in Days |-> h.snap.act[d] - 1]
      free == [d \in Days |-> IF less[d] > 0 /\ h.snap.bal[d] > 0
                              THEN h.snap.bal[d] - 1 ELSE 0] IN
  /\ HasRead(c, "deleteBlock")
  /\ RowsStill(h.type, days)
  /\ h.rows \subseteq blocks
  /\ act' = Written(act, h.type, days, less)
  /\ bal' = Written(bal, h.type, days, free)
  /\ blocks' = blocks \ h.rows
  /\ Answer(c)
  /\ UNCHANGED <<unitType, maint, bank, retyped, renamed>>

(***************************************************************************)
(* Maintenance: POST, PUT and DELETE /api/resort-maintenance.              *)
(***************************************************************************)
(* Mutation: a range may hang over the end of the block.                   *)
MutTouches(u, ranges) ==
  \E b \in blocks : b.unit = u /\ \A days \in ranges : First(days) \in b.days

(* checkAvailability: the ranges lie in one block of the unit.             *)
checkAvailability(u, ranges) ==
  \E b \in blocks : b.unit = u /\ \A days \in ranges : days \subseteq b.days

MaintCreateAsk(c) ==
  \E u \in Units, ranges \in SUBSET Ranges :
    /\ Cardinality(ranges) \in 1..MaxRanges
    /\ \A r1, r2 \in ranges : r1 # r2 => r1 \cap r2 = {}
    /\ unitType[u] # NoType
    /\ checkAvailability(u, ranges)
    /\ Ask(c, [Idle EXCEPT !.op = "addMaint", !.units = {u},
                           !.type = unitType[u], !.ranges = ranges])

MaintUpdateAsk(c) ==
  \E m \in maint, days \in Ranges :
    /\ checkAvailability(m.unit, {days})
    /\ At(maint \ {m}, m.unit, days) = {}
    /\ ~bulkBankOverlap(m.unit, days)
    /\ Ask(c, [Idle EXCEPT !.op = "updateMaint", !.type = m.type,
                           !.ranges = {days}, !.rows = {m}])

MaintDeleteAsk(c) ==
  \E m \in maint :
    Ask(c, [Idle EXCEPT !.op = "deleteMaint", !.type = m.type, !.rows = {m}])

(* Mutation: the nights of an edited or deleted record are not given back. *)
MutNothingBack(snap, back) == snap.bal

(* applyMaintDelta: give the days of back, then take those of taken, in    *)
(* the rows of snap; a day at its floor or ceiling is not written.         *)
GivenBack(snap, back) ==
  [d \in Days |-> IF d \in back /\ snap.bal[d] < snap.act[d]
                  THEN snap.bal[d] + 1 ELSE snap.bal[d]]

(* Mutation: no floor at zero.                                             *)
MutNoFloor(column, snap, taken) ==
  [d \in Days |-> IF d \in taken /\ snap.act[d] > 0 THEN column[d] - 1
                  ELSE column[d]]

Taken(column, snap, taken) ==
  [d \in Days |-> IF d \in taken /\ snap.act[d] > 0 /\ column[d] > 0
                  THEN column[d] - 1 ELSE column[d]]

applyMaintDelta(h, back, taken) ==
  LET given == GivenBack(h.snap, back)
      left  == Taken(given, h.snap, taken)
      days  == {d \in back \cup taken :
                  given[d] # h.snap.bal[d] \/ left[d] # given[d]} IN
  /\ RowsStill(h.type, days)
  /\ bal' = Written(bal, h.type, days, left)

MaintCreateCommit(c) ==
  LET h == handler[c] IN
  /\ HasRead(c, "addMaint")
  /\ \A m \in maint, days \in h.ranges :
       m.unit \in h.units => First(m.days) # First(days)
  /\ applyMaintDelta(h, {}, UNION h.ranges)
  /\ HasRoom(h.units, h.ranges)
  /\ maint' = maint \cup NewRows(maint, h.units, h.type, h.ranges)
  /\ Answer(c)
  /\ UNCHANGED <<unitType, blocks, bank, act, retyped, renamed>>

(* The row is found by its id; the range given back is the one read first. *)
MaintUpdateCommit(c) ==
  LET h == handler[c] IN
  /\ HasRead(c, "updateMaint")
  /\ applyMaintDelta(h, DaysOf(h.rows), UNION h.ranges)
  /\ \E m \in maint, old \in h.rows, days \in h.ranges :
       /\ m.id = old.id
       /\ \A other \in maint \ {m} :
            other.unit = m.unit => First(other.days) # First(days)
       /\ maint' = (maint \ {m}) \cup {[m EXCEPT !.days = days, !.type = h.type]}
  /\ Answer(c)
  /\ UNCHANGED <<unitType, blocks, bank, act, retyped, renamed>>

MaintDeleteCommit(c) ==
  LET h == handler[c] IN
  /\ HasRead(c, "deleteMaint")
  /\ applyMaintDelta(h, DaysOf(h.rows), {})
  /\ \E m \in maint, old \in h.rows :
       /\ m.id = old.id
       /\ maint' = maint \ {m}
  /\ Answer(c)
  /\ UNCHANGED <<unitType, blocks, bank, act, retyped, renamed>>

(***************************************************************************)
(* RCI bulk bank: PUT /api/rci-bulk-bank/year saves the difference between *)
(* the weeks shown and the weeks stored, DELETE clears the year.           *)
(***************************************************************************)
(* Mutation: the bank does not look at maintenance.                        *)
MutBankMaintained(u, week, deletes) ==
  /\ u \in Bankable
  /\ At(bank \ deletes, u, week) = {}
  /\ week \subseteq DaysOf(At(blocks, u, week))
  /\ \A d \in week : act[unitType[u], d] > 0 => bal[unitType[u], d] > 0

(* A new week of unit u may be banked: no other week, whole cover by the   *)
(* union of the unit's blocks, no maintenance and no day fully committed.  *)
CanBank(u, week, deletes) ==
  /\ u \in Bankable
  /\ At(bank \ deletes, u, week) = {}
  /\ week \subseteq DaysOf(At(blocks, u, week))
  /\ At(maint, u, week) = {}
  /\ \A d \in week : act[unitType[u], d] > 0 => bal[unitType[u], d] > 0

BankSaveAsk(c) ==
  \E u \in Units, creates \in SUBSET Weeks, deletes \in SUBSET bank :
    /\ unitType[u] # NoType
    /\ creates # {} \/ deletes # {}
    /\ \A r \in deletes : r.unit = u
    /\ \A week \in creates :
         /\ \A r \in bank : r.unit = u => r.days # week
         /\ CanBank(u, week, deletes)
    /\ Ask(c, [Idle EXCEPT !.op = "saveBank", !.units = {u}, !.type = unitType[u],
                           !.ranges = creates, !.rows = deletes])

BankYearDeleteAsk(c) ==
  \E u \in Units :
    LET rows == {r \in bank : r.unit = u} IN
    \E firstRow \in rows :
      /\ \A r \in rows : First(firstRow.days) <= First(r.days)
      /\ Ask(c, [Idle EXCEPT !.op = "deleteBank", !.type = firstRow.type,
                             !.rows = rows])

(* applyBankDelta: which rows may move is decided from the rows read, and  *)
(* those that are still there are incremented or decremented in place.     *)
applyBankDelta(h, back, taken) ==
  LET up   == {d \in back : h.snap.bal[d] < h.snap.act[d]}
      down == {d \in taken : h.snap.bal[d] > 0} IN
  bal' = [x \in Cells |->
    IF x[1] # h.type \/ act[x] = 0 THEN bal[x]
    ELSE IF x[2] \in up THEN bal[x] + 1
    ELSE IF x[2] \in down THEN bal[x] - 1 ELSE bal[x]]

BankCommit(c) ==
  LET h == handler[c] IN
  /\ HasRead(c, "saveBank") \/ HasRead(c, "deleteBank")
  /\ \A r \in bank : r.unit \in h.units => r.days \notin h.ranges
  /\ applyBankDelta(h, DaysOf(h.rows), UNION h.ranges)
  /\ HasRoom(h.units, h.ranges)
  /\ bank' = (bank \ h.rows) \cup NewRows(bank, h.units, h.type, h.ranges)
  /\ Answer(c)
  /\ UNCHANGED <<unitType, blocks, maint, act, retyped, renamed>>

(***************************************************************************)
(* A guard inside the transaction, a unique index, a row that has gone, a  *)
(* time-out or a crash: the transaction is rolled back as a whole.         *)
(***************************************************************************)
Abandon(c) ==
  /\ handler[c] # Idle
  /\ Answer(c)
  /\ UNCHANGED tables

Next == \E c \in Clerks :
  \/ UnitCreate(c) \/ UnitUpdate(c) \/ UnitDeleteAsk(c) \/ UnitDeleteCommit(c)
  \/ BlockCreateAsk(c) \/ BlockBatchAsk(c) \/ BlockCreateCommit(c)
  \/ BlockDeleteAsk(c) \/ BlockDeleteCommit(c)
  \/ GridRead(c)
  \/ MaintCreateAsk(c) \/ MaintCreateCommit(c)
  \/ MaintUpdateAsk(c) \/ MaintUpdateCommit(c)
  \/ MaintDeleteAsk(c) \/ MaintDeleteCommit(c)
  \/ BankSaveAsk(c) \/ BankYearDeleteAsk(c) \/ BankCommit(c)
  \/ Abandon(c)

Spec == Init /\ [][Next]_vars

-----------------------------------------------------------------------------
(* "Overlapping ranges for the same unit are rejected": on a day a unit is *)
(* offered by one block at most.                                           *)
OneBlockPerNight ==
  \A a, b \in blocks : a # b /\ a.unit = b.unit => a.days \cap b.days = {}

(* A unit-night is withdrawn once: two maintenance records, two banked     *)
(* weeks, or one of each never share a night of a unit.                    *)
HeldOnce ==
  \A u \in Units, d \in Days :
    Cardinality(At(maint, u, {d})) + Cardinality(At(bank, u, {d})) <= 1

(* A night withdrawn or promised to RCI lies in an availability block of   *)
(* its unit: no block is removed out from under it.                        *)
HeldIsOffered ==
  \A r \in maint \cup bank : r.days \subseteq DaysOf(At(blocks, r.unit, r.days))

(* actNight is the number of units of the type offered that day.           *)
ActCountsBlocks ==
  \A x \in Cells :
    act[x] = Cardinality({b \in blocks : b.type = x[1] /\ x[2] \in b.days})

(* "balNight = act minus maintenance minus bookings" (there is no booking  *)
(* module yet; a banked week is one), for every type and day.              *)
HeldNights(t, d) == {r.unit : r \in {m \in maint \cup bank : m.type = t /\ d \in m.days}}

(* It is exact for every type, but those of a number that was registered   *)
(* with another type than its rows have: by an edit of its unit, or by one *)
(* that takes the unit away and leaves the number to another.              *)
BalanceExactUnlessRetyped ==
  \A x \in Cells : x[1] \notin retyped =>
    bal[x] = act[x] - Cardinality(HeldNights(x[1], x[2]))

(* Whatever was clamped, and whatever unit changed its type, the chart     *)
(* never shows fewer than no units free, nor more than there are.          *)
BalanceInRange == \A x \in Cells : 0 <= bal[x] /\ bal[x] <= act[x]

(* Inventory rows carry the unit as a number, without a foreign key: none  *)
(* has a number that no unit has, unless an edit took the number away from *)
(* its unit, or gave it to another one, while there were rows of it.       *)
NoOrphansUnlessRenamed ==
  \A r \in Rows : unitType[r.unit] = NoType => r.unit \in renamed

(* Every save is a legal move of unit-nights.                              *)
nightOf == [n \in Units \X Days |->
  IF At(maint, n[1], {n[2]}) # {} THEN "maintained"
  ELSE IF At(bank, n[1], {n[2]}) # {} THEN "banked"
  ELSE IF At(blocks, n[1], {n[2]}) # {} THEN "open" ELSE "closed"]

Pool == INSTANCE UnitNights WITH night <- nightOf
PoolSpec == Pool!Spec
=============================================================================
