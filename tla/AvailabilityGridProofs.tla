----------------------- MODULE AvailabilityGridProofs -----------------------
(***************************************************************************)
(* What holds of a resort's inventory for every set of units, types, days  *)
(* and clerks: its type invariant, and that no unit is offered twice on a  *)
(* day as long as one clerk at most creates blocks.                        *)
(***************************************************************************)
EXTENDS AvailabilityGrid, FiniteSetTheorems, FunctionTheorems, TLAPS

(* The image of a finite set.                                              *)
LEMMA ImageFinite ==
  ASSUME NEW S, IsFiniteSet(S), NEW f, f = [x \in S |-> f[x]]
  PROVE  IsFiniteSet({f[x] : x \in S})
  <1> DEFINE T == {f[x] : x \in S}
  <1>1. f \in [S -> T]
    OBVIOUS
  <1>2. \A t \in T : \E s \in S : f[s] = t
    OBVIOUS
  <1>3. f \in Surjection(S, T)
    BY <1>1, <1>2, Fun_IsSurj
  <1> QED BY <1>3, FS_Surjection

LEMMA RangesFinite == IsFiniteSet(Ranges)
  <1>1. Ranges \in SUBSET SUBSET Days
    BY DaysAssumption
  <1>2. IsFiniteSet(SUBSET Days)
    BY DaysAssumption, FS_SUBSET
  <1> QED BY <1>1, <1>2, FS_Subset

LEMMA WeeksAreRanges == Weeks \subseteq Ranges
  BY WeeksAssumption

(* Among one more number than there are rows, one is not taken yet.        *)
LEMMA FreshId ==
  ASSUME NEW S, IsFiniteSet(S), NEW u, NEW days
  PROVE  \E n \in 0..Cardinality(S) : ~ \E r \in S : r.id = <<n, u, days>>
  <1> SUFFICES ASSUME \A n \in 0..Cardinality(S) : \E r \in S : r.id = <<n, u, days>>
               PROVE  FALSE
    OBVIOUS
  <1> DEFINE N == 0..Cardinality(S)
             f == [n \in N |-> CHOOSE r \in S : r.id = <<n, u, days>>]
  <1>1. Cardinality(S) \in Nat
    BY FS_CardinalityType
  <1>2. IsFiniteSet(N) /\ Cardinality(S) < Cardinality(N)
    BY <1>1, FS_Interval
  <1>3. \A n \in N : f[n] \in S /\ f[n].id = <<n, u, days>>
    OBVIOUS
  <1>4. f \in [N -> S]
    BY <1>3
  <1>5. PICK m \in N, n \in N : m # n /\ f[m] = f[n]
    <2> HIDE DEF f, N
    <2> QED BY <1>2, <1>4, FS_PigeonHole
  <1>6. <<m, u, days>> = <<n, u, days>>
    BY <1>3, <1>5
  <1> QED BY <1>5, <1>6
-----------------------------------------------------------------------------
(* Types.  Beside TypeOK: the tables and what requests hold of them are    *)
(* finite, and a request that will touch the grid knows an apartment type. *)
FiniteRows ==
  /\ IsFiniteSet(blocks) /\ IsFiniteSet(maint) /\ IsFiniteSet(bank)
  /\ \A c \in Clerks : IsFiniteSet(handler[c].rows)

TypedRequests ==
  \A c \in Clerks : handler[c].op \notin {"idle", "deleteUnit"} => handler[c].type \in Types

GridInv == TypeOK /\ FiniteRows /\ TypedRequests

(* A new row is a row, and its id is none of the ids in the table.         *)
LEMMA NewRowType ==
  ASSUME FiniteRows, NEW table, IsFiniteSet(table),
         NEW u \in Units, NEW t \in Types, NEW days \in Ranges
  PROVE  /\ NewRow(table, u, t, days) \in Row
         /\ NewRow(table, u, t, days).unit = u
         /\ NewRow(table, u, t, days).type = t
         /\ NewRow(table, u, t, days).days = days
         /\ \A r \in table : r.id # NewRow(table, u, t, days).id
  <1> DEFINE known == table \cup UNION {handler[c].rows : c \in Clerks}
             taken(n) == \E r \in known : r.id = <<n, u, days>>
             fresh == CHOOSE n \in 0..Cardinality(known) : ~taken(n)
             held == [c \in Clerks |-> handler[c].rows]
  <1>1. IsFiniteSet({held[c] : c \in Clerks})
    <2>1. held = [c \in Clerks |-> held[c]]
      OBVIOUS
    <2> HIDE DEF held
    <2> QED BY <2>1, ClerksAssumption, ImageFinite
  <1>2. {held[c] : c \in Clerks} = {handler[c].rows : c \in Clerks}
    OBVIOUS
  <1>3. IsFiniteSet(UNION {handler[c].rows : c \in Clerks})
    BY <1>1, <1>2, FS_UNION DEF FiniteRows
  <1>4. IsFiniteSet(known)
    BY <1>3, FS_Union
  <1>5. \E n \in 0..Cardinality(known) : ~taken(n)
    <2> HIDE DEF known
    <2> QED BY <1>4, FreshId
  <1>6. fresh \in 0..Cardinality(known) /\ ~taken(fresh)
    BY <1>5
  <1>7. fresh \in Nat
    BY <1>4, <1>6, FS_CardinalityType
  <1>8. NewRow(table, u, t, days) = [id |-> <<fresh, u, days>>, unit |-> u, type |-> t, days |-> days]
    BY DEF NewRow
  <1>9. \A r \in table : r.id # <<fresh, u, days>>
    BY <1>6
  <1> HIDE DEF fresh
  <1> QED BY <1>7, <1>8, <1>9 DEF Row, Ids

(* The rows one save inserts.                                              *)
LEMMA NewRowsType ==
  ASSUME FiniteRows, NEW table, IsFiniteSet(table),
         NEW units \in SUBSET Units, NEW t \in Types, NEW ranges \in SUBSET Ranges
  PROVE  NewRows(table, units, t, ranges) \subseteq Row
  BY NewRowType DEF NewRows

LEMMA NewRowsFinite ==
  ASSUME NEW table, NEW units \in SUBSET Units, NEW t, NEW ranges \in SUBSET Ranges
  PROVE  IsFiniteSet(NewRows(table, units, t, ranges))
  <1> DEFINE S == units \X ranges
             f == [x \in S |-> NewRow(table, x[1], t, x[2])]
  <1>1. IsFiniteSet(units) /\ IsFiniteSet(ranges)
    BY UnitsAssumption, RangesFinite, FS_Subset
  <1>2. IsFiniteSet(S)
    BY <1>1, FS_Product
  <1>3. IsFiniteSet({f[x] : x \in S})
    <2>1. f = [x \in S |-> f[x]]
      OBVIOUS
    <2> HIDE DEF f, S
    <2> QED BY <1>2, <2>1, ImageFinite
  <1>4. NewRows(table, units, t, ranges) = {f[x] : x \in S}
    <2>1. \A x \in S : f[x] \in NewRows(table, units, t, ranges)
      BY DEF NewRows
    <2>2. \A r \in NewRows(table, units, t, ranges) : \E x \in S : r = f[x]
      <3> SUFFICES ASSUME NEW u \in units, NEW days \in ranges
                   PROVE  \E x \in S : NewRow(table, u, t, days) = f[x]
        BY DEF NewRows
      <3>1. <<u, days>> \in S /\ f[<<u, days>>] = NewRow(table, u, t, days)
        OBVIOUS
      <3> QED BY <3>1
    <2> QED BY <2>1, <2>2
  <1> QED BY <1>3, <1>4

LEMMA IdleTyped ==
  /\ Idle.op = "idle" /\ Idle.rows = {}
  /\ IsFiniteSet(Idle.rows)
  BY FS_EmptySet DEF Idle

(* A request at work has the fields of a request.                          *)
LEMMA RequestAtWork ==
  ASSUME TypeOK, NEW c \in Clerks, handler[c].op # "idle"
  PROVE  handler[c] \in Requests
  BY DEF TypeOK, Idle

LEMMA TypeInit == Init => GridInv
  <1> SUFFICES ASSUME Init PROVE GridInv
    OBVIOUS
  <1>1. TypeOK
    BY UnitsAssumption DEF Init, TypeOK
  <1>2. FiniteRows
    BY FS_EmptySet, IdleTyped DEF Init, FiniteRows
  <1>3. TypedRequests
    BY IdleTyped DEF Init, TypedRequests
  <1> QED BY <1>1, <1>2, <1>3 DEF GridInv

(* A request that passes the guards before its transaction.                *)
LEMMA AskTyped ==
  ASSUME GridInv, NEW c \in Clerks, NEW request \in Requests, Ask(c, request),
         IsFiniteSet(request.rows),
         request.op # "deleteUnit" => request.type \in Types
  PROVE  GridInv'
  <1>1. /\ UNCHANGED <<unitType, blocks, maint, bank, act, bal, retyped, renamed>>
        /\ handler' = [handler EXCEPT ![c] = request]
    BY DEF Ask, tables
  <1>2. handler' \in [Clerks -> {Idle} \cup Requests]
    BY <1>1 DEF GridInv, TypeOK
  <1>3. TypeOK'
    BY <1>1, <1>2 DEF GridInv, TypeOK
  <1>4. \A d \in Clerks : handler'[d] = IF d = c THEN request ELSE handler[d]
    BY <1>1 DEF GridInv, TypeOK
  <1>5. FiniteRows'
    BY <1>1, <1>4 DEF GridInv, FiniteRows
  <1>6. TypedRequests'
    BY <1>4 DEF GridInv, TypedRequests
  <1> QED BY <1>3, <1>5, <1>6 DEF GridInv

(* A request that ends, whatever it wrote.                                 *)
LEMMA AnswerTyped ==
  ASSUME GridInv, NEW c \in Clerks, Answer(c),
         unitType' \in [Units -> Types \cup {NoType}],
         blocks' \subseteq Row, maint' \subseteq Row, bank' \subseteq Row,
         IsFiniteSet(blocks'), IsFiniteSet(maint'), IsFiniteSet(bank'),
         act' \in [Cells -> Int], bal' \in [Cells -> Int],
         retyped' \subseteq Types, renamed' \subseteq Units
  PROVE  GridInv'
  <1>1. handler' = [handler EXCEPT ![c] = Idle]
    BY DEF Answer
  <1>2. handler' \in [Clerks -> {Idle} \cup Requests]
    BY <1>1 DEF GridInv, TypeOK
  <1>3. TypeOK'
    BY <1>2 DEF GridInv, TypeOK
  <1>4. \A d \in Clerks : handler'[d] = IF d = c THEN Idle ELSE handler[d]
    BY <1>1 DEF GridInv, TypeOK
  <1>5. FiniteRows'
    BY <1>4, IdleTyped DEF GridInv, FiniteRows
  <1>6. TypedRequests'
    BY <1>4, IdleTyped DEF GridInv, TypedRequests
  <1> QED BY <1>3, <1>5, <1>6 DEF GridInv

(* The columns the deltas compute.                                         *)
LEMMA SnapTyped ==
  ASSUME GridInv, NEW c \in Clerks, handler[c].op # "idle", handler[c].snap # NoSnap
  PROVE  handler[c].snap \in Column
  BY RequestAtWork DEF GridInv, Requests

LEMMA WrittenTyped ==
  ASSUME NEW column \in [Cells -> Int], NEW t, NEW days, NEW new \in [Days -> Int]
  PROVE  Written(column, t, days, new) \in [Cells -> Int]
  BY DEF Written, Cells

LEMMA OfferedTyped ==
  ASSUME NEW column \in [Cells -> Int], NEW t, NEW days, NEW qty \in Int
  PROVE  Offered(column, t, days, qty) \in [Cells -> Int]
  BY DEF Offered, Cells

LEMMA MaintDeltaTyped ==
  ASSUME GridInv, NEW c \in Clerks, handler[c].op # "idle", handler[c].snap # NoSnap,
         NEW back, NEW taken, applyMaintDelta(handler[c], back, taken)
  PROVE  bal' \in [Cells -> Int]
  <1> DEFINE h == handler[c]
             given == GivenBack(h.snap, back)
             left  == Taken(given, h.snap, taken)
  <1>1. h.snap.act \in [Days -> Int] /\ h.snap.bal \in [Days -> Int]
    BY SnapTyped DEF Column
  <1>2. given \in [Days -> Int]
    BY <1>1 DEF GivenBack
  <1>3. left \in [Days -> Int]
    <2> HIDE DEF given
    <2> QED BY <1>1, <1>2 DEF Taken
  <1>4. \E days : bal' = Written(bal, h.type, days, left)
    BY DEF applyMaintDelta
  <1> HIDE DEF left, h
  <1> QED BY <1>3, <1>4, WrittenTyped DEF GridInv, TypeOK

LEMMA BankDeltaTyped ==
  ASSUME GridInv, NEW h, NEW back, NEW taken, applyBankDelta(h, back, taken)
  PROVE  bal' \in [Cells -> Int]
  BY DEF GridInv, TypeOK, applyBankDelta, Cells
(* The types a number may be mixed up with are types.                      *)
LEMMA MixedTyped ==
  ASSUME GridInv, NEW u, NEW t \in Types
  PROVE  Mixed(u, t) \subseteq Types
  <1>1. \A r \in Rows : r.type \in Types
    BY DEF Rows, GridInv, TypeOK, Row
  <1>2. \A c \in Clerks : handler[c].op \in Additions => handler[c].type \in Types
    BY DEF Additions, GridInv, TypedRequests
  <1>3. Filed(u) \subseteq Types
    BY <1>1, <1>2 DEF Filed
  <1> QED BY <1>3 DEF Mixed

(* A request to delete a unit, followed to the number the unit has now.    *)
LEMMA Followed ==
  ASSUME GridInv, NEW units, NEW new \in SUBSET Units, NEW d \in Clerks
  PROVE  /\ Follow(units, new)[d] \in {Idle} \cup Requests
         /\ Follow(units, new)[d].op = handler[d].op
         /\ Follow(units, new)[d].rows = handler[d].rows
         /\ Follow(units, new)[d].type = handler[d].type
         /\ handler[d].op # "deleteUnit" => Follow(units, new)[d] = handler[d]
         /\ Follow(units, new)[d].units \in {handler[d].units, new}
         /\ handler[d].op = "deleteUnit" /\ handler[d].units = units =>
              Follow(units, new)[d].units = new
         /\ handler[d].units # units => Follow(units, new)[d] = handler[d]
  <1> DEFINE g == [handler[d] EXCEPT !.units = new]
  <1>1. CASE handler[d].op = "deleteUnit"
    <2>1. handler[d] \in Requests
      BY <1>1, RequestAtWork DEF GridInv
    <2>2. /\ g \in Requests /\ g.op = handler[d].op /\ g.rows = handler[d].rows
          /\ g.type = handler[d].type /\ g.units = new
      BY <2>1 DEF Requests
    <2>3. Follow(units, new)[d] = IF handler[d].units = units THEN g ELSE handler[d]
      BY <1>1 DEF Follow
    <2> HIDE DEF g
    <2>4. CASE handler[d].units = units
      BY <1>1, <2>2, <2>3, <2>4
    <2>5. CASE handler[d].units # units
      BY <2>1, <2>3, <2>5
    <2> QED BY <2>4, <2>5
  <1>2. CASE handler[d].op # "deleteUnit"
    BY <1>2 DEF Follow, GridInv, TypeOK
  <1> QED BY <1>1, <1>2

(* What a change of the units does to requests: only requests to delete a  *)
(* unit are touched, and the tables of rows and the grid are not.          *)
UnitMove(c) == UnitCreate(c) \/ UnitUpdate(c) \/ UnitDeleteCommit(c)

LEMMA UnitsMove ==
  ASSUME GridInv, NEW c \in Clerks, UnitMove(c)
  PROVE  /\ blocks' = blocks /\ maint' = maint /\ bank' = bank
         /\ act' = act /\ bal' = bal
         /\ handler' \in [Clerks -> {Idle} \cup Requests]
         /\ \A d \in Clerks :
              \/ handler'[d] = handler[d]
              \/ handler'[d] = Idle
              \/ /\ handler[d].op = "deleteUnit" /\ handler'[d].op = "deleteUnit"
                 /\ handler'[d].rows = handler[d].rows
  <1>1. CASE UnitCreate(c)
    BY <1>1 DEF UnitCreate, GridInv, TypeOK
  <1>2. CASE UnitUpdate(c)
    <2>1. PICK u \in Units, v \in Units : handler' = Follow({u}, {v})
      BY <1>2, UnitsAssumption DEF UnitUpdate
    <2> DEFINE f == Follow({u}, {v})
    <2>2. handler' = f /\ f = [d \in Clerks |-> f[d]]
      BY <2>1 DEF Follow
    <2>3. \A d \in Clerks : /\ f[d] \in {Idle} \cup Requests
                            /\ f[d].op = handler[d].op /\ f[d].rows = handler[d].rows
                            /\ handler[d].op # "deleteUnit" => f[d] = handler[d]
      BY Followed
    <2> HIDE DEF f
    <2> QED BY <1>2, <2>2, <2>3 DEF UnitUpdate
  <1>3. CASE UnitDeleteCommit(c)
    <2> DEFINE f == Follow(handler[c].units, {})
    <2>1. handler' = [f EXCEPT ![c] = Idle]
      BY <1>3 DEF UnitDeleteCommit
    <2>2. f = [d \in Clerks |-> f[d]]
      BY DEF Follow
    <2>3. \A d \in Clerks : /\ f[d] \in {Idle} \cup Requests
                            /\ f[d].op = handler[d].op /\ f[d].rows = handler[d].rows
                            /\ handler[d].op # "deleteUnit" => f[d] = handler[d]
      BY Followed
    <2> HIDE DEF f
    <2> QED BY <1>3, <2>1, <2>2, <2>3 DEF UnitDeleteCommit
  <1> QED BY <1>1, <1>2, <1>3 DEF UnitMove

(* The unit requests: no grid, and no block, is touched.                   *)
LEMMA UnitTyped ==
  ASSUME GridInv, NEW c \in Clerks, UnitMove(c) \/ UnitDeleteAsk(c)
  PROVE  GridInv'
  <1>1. CASE UnitMove(c)
    <2>1. /\ unitType' \in [Units -> Types \cup {NoType}]
          /\ retyped' \subseteq Types /\ renamed' \subseteq Units
      <3>1. CASE UnitCreate(c)
        <4>1. PICK u \in Units, t \in Types :
                /\ unitType' = [unitType EXCEPT ![u] = t]
                /\ retyped' = retyped \cup Mixed(u, t) /\ renamed' = renamed \ {u}
          BY <3>1 DEF UnitCreate
        <4> QED BY <4>1, MixedTyped DEF GridInv, TypeOK
      <3>2. CASE UnitUpdate(c)
        <4>1. PICK u \in Units, v \in Units, t \in Types :
                /\ unitType' = [unitType EXCEPT ![u] = NoType, ![v] = t]
                /\ retyped' = retyped \cup Mixed(v, t)
                /\ renamed' = IF v = u THEN renamed
                              ELSE renamed \cup {n \in {u, v} : Filed(n) # {}}
          BY <3>2, UnitsAssumption DEF UnitUpdate
        <4> QED BY <4>1, MixedTyped DEF GridInv, TypeOK
      <3>3. CASE UnitDeleteCommit(c)
        BY <3>3 DEF UnitDeleteCommit, GridInv, TypeOK
      <3> QED BY <1>1, <3>1, <3>2, <3>3 DEF UnitMove
    <2>2. TypeOK'
      BY <1>1, <2>1, UnitsMove DEF GridInv, TypeOK
    <2>3. FiniteRows' /\ TypedRequests'
      BY <1>1, UnitsMove, IdleTyped DEF GridInv, FiniteRows, TypedRequests
    <2> QED BY <2>2, <2>3 DEF GridInv
  <1>2. CASE UnitDeleteAsk(c)
    <2>1. PICK u \in Units : Ask(c, [Idle EXCEPT !.op = "deleteUnit", !.units = {u}])
      BY <1>2 DEF UnitDeleteAsk
    <2> DEFINE request == [Idle EXCEPT !.op = "deleteUnit", !.units = {u}]
    <2>2. request \in Requests
      BY DEF Idle, Requests, OpNames
    <2>3. IsFiniteSet(request.rows) /\ request.op = "deleteUnit"
      BY FS_EmptySet DEF Idle
    <2> HIDE DEF request
    <2> QED BY <2>1, <2>2, <2>3, AskTyped DEF request
  <1> QED BY <1>1, <1>2

LEMMA BlockAskTyped ==
  ASSUME GridInv, NEW c \in Clerks,
         BlockCreateAsk(c) \/ BlockBatchAsk(c) \/ BlockDeleteAsk(c)
  PROVE  GridInv'
  <1>1. CASE BlockCreateAsk(c)
    <2>1. PICK u \in Units, days \in Ranges :
            /\ unitType[u] # NoType
            /\ Ask(c, [Idle EXCEPT !.op = "addBlock", !.units = {u},
                                   !.type = unitType[u], !.ranges = {days}])
      BY <1>1 DEF BlockCreateAsk
    <2> DEFINE request == [Idle EXCEPT !.op = "addBlock", !.units = {u},
                                       !.type = unitType[u], !.ranges = {days}]
    <2>2. unitType[u] \in Types
      BY <2>1 DEF GridInv, TypeOK
    <2>3. request \in Requests
      BY <2>2 DEF Idle, Requests, OpNames
    <2>4. IsFiniteSet(request.rows) /\ request.type \in Types
      BY <2>2, FS_EmptySet DEF Idle
    <2> QED BY <2>1, <2>3, <2>4, AskTyped
  <1>2. CASE BlockBatchAsk(c)
    <2>1. PICK units \in Batches, t \in Types, days \in Ranges :
            Ask(c, [Idle EXCEPT !.op = "addBlock", !.units = units,
                                !.fresh = {u \in units : unitType[u] = NoType},
                                !.type = t, !.ranges = {days}])
      BY <1>2 DEF BlockBatchAsk
    <2> DEFINE request == [Idle EXCEPT !.op = "addBlock", !.units = units,
                                       !.fresh = {u \in units : unitType[u] = NoType},
                                       !.type = t, !.ranges = {days}]
    <2>2. units \in SUBSET Units
      BY UnitsAssumption
    <2>3. request \in Requests
      BY <2>2 DEF Idle, Requests, OpNames
    <2>4. IsFiniteSet(request.rows) /\ request.type \in Types
      BY FS_EmptySet DEF Idle
    <2> QED BY <2>1, <2>3, <2>4, AskTyped
  <1>3. CASE BlockDeleteAsk(c)
    <2>1. PICK b \in blocks :
            Ask(c, [Idle EXCEPT !.op = "deleteBlock", !.type = b.type, !.rows = {b}])
      BY <1>3 DEF BlockDeleteAsk
    <2> DEFINE request == [Idle EXCEPT !.op = "deleteBlock", !.type = b.type, !.rows = {b}]
    <2>2. b \in Row /\ b.type \in Types
      BY DEF GridInv, TypeOK, Row
    <2>3. request \in Requests
      BY <2>2 DEF Idle, Requests, OpNames
    <2>4. IsFiniteSet(request.rows) /\ request.type \in Types
      BY <2>2, FS_Singleton DEF Idle
    <2> QED BY <2>1, <2>3, <2>4, AskTyped
  <1> QED BY <1>1, <1>2, <1>3

LEMMA BlockCommitTyped ==
  ASSUME GridInv, NEW c \in Clerks, BlockCreateCommit(c) \/ BlockDeleteCommit(c)
  PROVE  GridInv'
  <1>1. CASE BlockCreateCommit(c)
    <2> DEFINE h == handler[c]
    <2>1. h.op = "addBlock"
      BY <1>1 DEF BlockCreateCommit
    <2>2. h \in Requests /\ h.type \in Types
      BY <2>1, RequestAtWork DEF GridInv, TypedRequests
    <2>3. h.units \in SUBSET Units /\ h.fresh \in SUBSET Units /\ h.ranges \in SUBSET Ranges
      BY <2>2 DEF Requests
    <2>4. blocks' \subseteq Row /\ IsFiniteSet(blocks')
      BY <1>1, <2>2, <2>3, NewRowsType, NewRowsFinite, FS_Union
         DEF BlockCreateCommit, GridInv, TypeOK, FiniteRows
    <2>5. Cardinality(h.units) \in Int
      BY <2>3, UnitsAssumption, FS_Subset, FS_CardinalityType
    <2>6. act' \in [Cells -> Int] /\ bal' \in [Cells -> Int]
      BY <1>1, <2>5, OfferedTyped DEF BlockCreateCommit, GridInv, TypeOK
    <2>7. unitType' \in [Units -> Types \cup {NoType}]
      BY <1>1, <2>2 DEF BlockCreateCommit, GridInv, TypeOK
    <2>8. retyped' \subseteq Types /\ renamed' \subseteq Units
      BY <1>1, <2>2, MixedTyped DEF BlockCreateCommit, GridInv, TypeOK
    <2> QED BY <1>1, <2>4, <2>6, <2>7, <2>8, AnswerTyped
            DEF BlockCreateCommit, GridInv, TypeOK, FiniteRows
  <1>2. CASE BlockDeleteCommit(c)
    <2> DEFINE h == handler[c]
               less == [d \in Days |-> h.snap.act[d] - 1]
               free == [d \in Days |-> IF less[d] > 0 /\ h.snap.bal[d] > 0
                                       THEN h.snap.bal[d] - 1 ELSE 0]
    <2>1. h.op # "idle" /\ h.snap # NoSnap
      BY <1>2 DEF BlockDeleteCommit, HasRead
    <2>2. h.snap.act \in [Days -> Int] /\ h.snap.bal \in [Days -> Int]
      BY <2>1, SnapTyped DEF Column
    <2>3. less \in [Days -> Int] /\ free \in [Days -> Int]
      BY <2>2
    <2>4. \E days : act' = Written(act, h.type, days, less) /\ bal' = Written(bal, h.type, days, free)
      BY <1>2 DEF BlockDeleteCommit
    <2>5. act' \in [Cells -> Int] /\ bal' \in [Cells -> Int]
      <3> HIDE DEF less, free, h
      <3> QED BY <2>3, <2>4, WrittenTyped DEF GridInv, TypeOK
    <2>6. blocks' \subseteq Row /\ IsFiniteSet(blocks')
      BY <1>2, FS_Difference DEF BlockDeleteCommit, GridInv, TypeOK, FiniteRows
    <2> QED BY <1>2, <2>5, <2>6, AnswerTyped
            DEF BlockDeleteCommit, GridInv, TypeOK, FiniteRows
  <1> QED BY <1>1, <1>2
(* Reading the grid: the rows of a type that is known.                     *)
LEMMA GridReadTyped ==
  ASSUME GridInv, NEW c \in Clerks, GridRead(c)
  PROVE  GridInv'
  <1> DEFINE h == handler[c]
             snap == [act |-> [d \in Days |-> act[h.type, d]],
                      bal |-> [d \in Days |-> bal[h.type, d]]]
  <1>1. /\ UNCHANGED <<unitType, blocks, maint, bank, act, bal, retyped, renamed>>
        /\ handler' = [handler EXCEPT ![c].snap = snap]
    BY DEF GridRead, tables
  <1>2. h.op \notin {"idle", "deleteUnit"}
    BY DEF GridRead
  <1>3. h \in Requests /\ h.type \in Types
    BY <1>2, RequestAtWork DEF GridInv, TypedRequests
  <1>4. snap \in Column
    BY <1>3 DEF Column, Cells, GridInv, TypeOK
  <1>5. [h EXCEPT !.snap = snap] \in Requests
    BY <1>3, <1>4 DEF Requests
  <1>6. handler' = [handler EXCEPT ![c] = [h EXCEPT !.snap = snap]]
    BY <1>1 DEF GridInv, TypeOK
  <1>7. handler' \in [Clerks -> {Idle} \cup Requests]
    <2> HIDE DEF snap, h
    <2> QED BY <1>5, <1>6 DEF GridInv, TypeOK
  <1>8. TypeOK'
    BY <1>1, <1>7 DEF GridInv, TypeOK
  <1>9. \A d \in Clerks : /\ handler'[d].op = handler[d].op
                          /\ handler'[d].type = handler[d].type
                          /\ handler'[d].rows = handler[d].rows
    <2>1. /\ [h EXCEPT !.snap = snap].op = h.op
          /\ [h EXCEPT !.snap = snap].type = h.type
          /\ [h EXCEPT !.snap = snap].rows = h.rows
      BY <1>3 DEF Requests
    <2> HIDE DEF snap
    <2> QED BY <1>6, <2>1 DEF GridInv, TypeOK
  <1>10. FiniteRows' /\ TypedRequests'
    BY <1>1, <1>9 DEF GridInv, FiniteRows, TypedRequests
  <1> QED BY <1>8, <1>10 DEF GridInv

LEMMA MaintAskTyped ==
  ASSUME GridInv, NEW c \in Clerks,
         MaintCreateAsk(c) \/ MaintUpdateAsk(c) \/ MaintDeleteAsk(c)
  PROVE  GridInv'
  <1>1. CASE MaintCreateAsk(c)
    <2>1. PICK u \in Units, ranges \in SUBSET Ranges :
            /\ unitType[u] # NoType
            /\ Ask(c, [Idle EXCEPT !.op = "addMaint", !.units = {u},
                                   !.type = unitType[u], !.ranges = ranges])
      BY <1>1 DEF MaintCreateAsk
    <2> DEFINE request == [Idle EXCEPT !.op = "addMaint", !.units = {u},
                                       !.type = unitType[u], !.ranges = ranges]
    <2>2. unitType[u] \in Types
      BY <2>1 DEF GridInv, TypeOK
    <2>3. request \in Requests
      BY <2>2 DEF Idle, Requests, OpNames
    <2>4. IsFiniteSet(request.rows) /\ request.type \in Types
      BY <2>2, FS_EmptySet DEF Idle
    <2> QED BY <2>1, <2>3, <2>4, AskTyped
  <1>2. CASE MaintUpdateAsk(c)
    <2>1. PICK m \in maint, days \in Ranges :
            Ask(c, [Idle EXCEPT !.op = "updateMaint", !.type = m.type,
                                !.ranges = {days}, !.rows = {m}])
      BY <1>2 DEF MaintUpdateAsk
    <2> DEFINE request == [Idle EXCEPT !.op = "updateMaint", !.type = m.type,
                                       !.ranges = {days}, !.rows = {m}]
    <2>2. m \in Row /\ m.type \in Types
      BY DEF GridInv, TypeOK, Row
    <2>3. request \in Requests
      BY <2>2 DEF Idle, Requests, OpNames
    <2>4. IsFiniteSet(request.rows) /\ request.type \in Types
      BY <2>2, FS_Singleton DEF Idle
    <2> QED BY <2>1, <2>3, <2>4, AskTyped
  <1>3. CASE MaintDeleteAsk(c)
    <2>1. PICK m \in maint :
            Ask(c, [Idle EXCEPT !.op = "deleteMaint", !.type = m.type, !.rows = {m}])
      BY <1>3 DEF MaintDeleteAsk
    <2> DEFINE request == [Idle EXCEPT !.op = "deleteMaint", !.type = m.type, !.rows = {m}]
    <2>2. m \in Row /\ m.type \in Types
      BY DEF GridInv, TypeOK, Row
    <2>3. request \in Requests
      BY <2>2 DEF Idle, Requests, OpNames
    <2>4. IsFiniteSet(request.rows) /\ request.type \in Types
      BY <2>2, FS_Singleton DEF Idle
    <2> QED BY <2>1, <2>3, <2>4, AskTyped
  <1> QED BY <1>1, <1>2, <1>3

LEMMA MaintCommitTyped ==
  ASSUME GridInv, NEW c \in Clerks,
         MaintCreateCommit(c) \/ MaintUpdateCommit(c) \/ MaintDeleteCommit(c)
  PROVE  GridInv'
  <1> DEFINE h == handler[c]
  <1>1. h.op \notin {"idle", "deleteUnit"} /\ h.snap # NoSnap
    BY DEF MaintCreateCommit, MaintUpdateCommit, MaintDeleteCommit, HasRead
  <1>2. h \in Requests /\ h.type \in Types
    BY <1>1, RequestAtWork DEF GridInv, TypedRequests
  <1>3. h.units \in SUBSET Units /\ h.ranges \in SUBSET Ranges
    BY <1>2 DEF Requests
  <1>4. bal' \in [Cells -> Int]
    <2>1. \E back, taken : applyMaintDelta(h, back, taken)
      BY DEF MaintCreateCommit, MaintUpdateCommit, MaintDeleteCommit
    <2> QED BY <1>1, <2>1, MaintDeltaTyped
  <1>5. maint' \subseteq Row /\ IsFiniteSet(maint')
    <2>1. CASE MaintCreateCommit(c)
      BY <1>2, <1>3, <2>1, NewRowsType, NewRowsFinite, FS_Union
         DEF MaintCreateCommit, GridInv, TypeOK, FiniteRows
    <2>2. CASE MaintUpdateCommit(c)
      <3>1. PICK m \in maint, days \in h.ranges :
              maint' = (maint \ {m}) \cup {[m EXCEPT !.days = days, !.type = h.type]}
        BY <2>2 DEF MaintUpdateCommit
      <3>2. [m EXCEPT !.days = days, !.type = h.type] \in Row
        BY <1>2, <1>3 DEF GridInv, TypeOK, Row
      <3>3. maint' \subseteq Row
        BY <3>1, <3>2 DEF GridInv, TypeOK
      <3>4. IsFiniteSet(maint')
        BY <3>1, FS_RemoveElement, FS_AddElement DEF GridInv, FiniteRows
      <3> QED BY <3>3, <3>4
    <2>3. CASE MaintDeleteCommit(c)
      <3>1. PICK m \in maint : maint' = maint \ {m}
        BY <2>3 DEF MaintDeleteCommit
      <3> QED BY <3>1, FS_RemoveElement DEF GridInv, TypeOK, FiniteRows
    <2> QED BY <2>1, <2>2, <2>3
  <1>6. Answer(c) /\ UNCHANGED <<unitType, blocks, bank, act, retyped, renamed>>
    BY DEF MaintCreateCommit, MaintUpdateCommit, MaintDeleteCommit
  <1> QED BY <1>4, <1>5, <1>6, AnswerTyped DEF GridInv, TypeOK, FiniteRows

LEMMA BankTyped ==
  ASSUME GridInv, NEW c \in Clerks,
         BankSaveAsk(c) \/ BankYearDeleteAsk(c) \/ BankCommit(c)
  PROVE  GridInv'
  <1>1. CASE BankSaveAsk(c)
    <2>1. PICK u \in Units, creates \in SUBSET Weeks, deletes \in SUBSET bank :
            /\ unitType[u] # NoType
            /\ Ask(c, [Idle EXCEPT !.op = "saveBank", !.units = {u}, !.type = unitType[u],
                                   !.ranges = creates, !.rows = deletes])
      BY <1>1 DEF BankSaveAsk
    <2> DEFINE request == [Idle EXCEPT !.op = "saveBank", !.units = {u}, !.type = unitType[u],
                                       !.ranges = creates, !.rows = deletes]
    <2>2. unitType[u] \in Types /\ deletes \in SUBSET Row /\ IsFiniteSet(deletes)
      BY <2>1, FS_Subset DEF GridInv, TypeOK, FiniteRows
    <2>3. creates \in SUBSET Ranges
      BY WeeksAreRanges
    <2>4. request \in Requests
      BY <2>2, <2>3 DEF Idle, Requests, OpNames
    <2>5. IsFiniteSet(request.rows) /\ request.type \in Types
      BY <2>2 DEF Idle
    <2> QED BY <2>1, <2>4, <2>5, AskTyped
  <1>2. CASE BankYearDeleteAsk(c)
    <2>1. PICK u \in Units, firstRow \in bank :
            Ask(c, [Idle EXCEPT !.op = "deleteBank", !.type = firstRow.type,
                                !.rows = {r \in bank : r.unit = u}])
      BY <1>2 DEF BankYearDeleteAsk
    <2> DEFINE held == {r \in bank : r.unit = u}
               request == [Idle EXCEPT !.op = "deleteBank", !.type = firstRow.type,
                                       !.rows = held]
    <2>2. firstRow.type \in Types
      BY DEF GridInv, TypeOK, Row
    <2>3. held \in SUBSET Row /\ IsFiniteSet(held)
      BY FS_Subset DEF GridInv, TypeOK, FiniteRows
    <2>4. request \in Requests
      <3> HIDE DEF held
      <3> QED BY <2>2, <2>3 DEF Idle, Requests, OpNames
    <2>5. IsFiniteSet(request.rows) /\ request.type \in Types
      BY <2>2, <2>3 DEF Idle
    <2> QED BY <2>1, <2>4, <2>5, AskTyped
  <1>3. CASE BankCommit(c)
    <2> DEFINE h == handler[c]
    <2>1. h.op \notin {"idle", "deleteUnit"}
      BY <1>3 DEF BankCommit, HasRead
    <2>2. h \in Requests /\ h.type \in Types
      BY <2>1, RequestAtWork DEF GridInv, TypedRequests
    <2>3. h.units \in SUBSET Units /\ h.ranges \in SUBSET Ranges
      BY <2>2 DEF Requests
    <2>4. bal' \in [Cells -> Int]
      BY <1>3, BankDeltaTyped DEF BankCommit
    <2>5. IsFiniteSet(bank \ h.rows)
      BY FS_Difference DEF GridInv, FiniteRows
    <2>6. bank' \subseteq Row /\ IsFiniteSet(bank')
      BY <1>3, <2>2, <2>3, <2>5, NewRowsType, NewRowsFinite, FS_Union
         DEF BankCommit, GridInv, TypeOK, FiniteRows
    <2> QED BY <1>3, <2>4, <2>6, AnswerTyped DEF BankCommit, GridInv, TypeOK, FiniteRows
  <1> QED BY <1>1, <1>2, <1>3

LEMMA AbandonTyped ==
  ASSUME GridInv, NEW c \in Clerks, Abandon(c)
  PROVE  GridInv'
  BY AnswerTyped DEF Abandon, tables, GridInv, TypeOK, FiniteRows

LEMMA TypeStep == GridInv /\ [Next]_vars => GridInv'
  <1> SUFFICES ASSUME GridInv, [Next]_vars PROVE GridInv'
    OBVIOUS
  <1>1. CASE UNCHANGED vars
    BY <1>1 DEF vars, GridInv, TypeOK, FiniteRows, TypedRequests
  <1>2. CASE Next
    BY <1>2, UnitTyped, BlockAskTyped, BlockCommitTyped, GridReadTyped,
       MaintAskTyped, MaintCommitTyped, BankTyped, AbandonTyped DEF Next, UnitMove
  <1> QED BY <1>1, <1>2

(* Type correctness: tables, grid and requests keep their form for every   *)
(* resort and calendar; in particular a request that reaches the grid has  *)
(* an apartment type to look up, and a free id can always be found.        *)
THEOREM GridTypeCorrect == Spec => []TypeOK
  <1>1. GridInv => TypeOK
    BY DEF GridInv
  <1> QED BY <1>1, TypeInit, TypeStep, PTL DEF Spec
-----------------------------------------------------------------------------
(* Blocks.  The overlap check runs before the transaction that inserts, so *)
(* it must still hold when the block is inserted.  It does as long as one  *)
(* clerk at most creates blocks: everyone else can only take some away.    *)
SingleOfferer ==
  \A c, d \in Clerks : "addBlock" \in Ops[c] /\ "addBlock" \in Ops[d] => c = d

PendingOfferIsFree ==
  \A c \in Clerks : handler[c].op = "addBlock" =>
    /\ "addBlock" \in Ops[c]
    /\ \E days \in Ranges : /\ handler[c].ranges = {days}
                            /\ \A u \in handler[c].units : At(blocks, u, days) = {}

OfferInv == GridInv /\ OneBlockPerNight /\ PendingOfferIsFree

(* Steps that insert no block and accept no new offer.                     *)
LEMMA OfferFrame ==
  ASSUME OfferInv, GridInv', blocks' \subseteq blocks,
         \A d \in Clerks : handler'[d].op = "addBlock" =>
           /\ handler[d].op = "addBlock"
           /\ handler'[d].ranges = handler[d].ranges
           /\ handler'[d].units = handler[d].units
  PROVE  OfferInv'
  <1>1. OneBlockPerNight'
    BY DEF OfferInv, OneBlockPerNight
  <1>2. PendingOfferIsFree'
    <2> SUFFICES ASSUME NEW d \in Clerks, handler'[d].op = "addBlock"
                 PROVE  /\ "addBlock" \in Ops[d]
                        /\ \E days \in Ranges :
                             /\ handler'[d].ranges = {days}
                             /\ \A u \in handler'[d].units : At(blocks', u, days) = {}
      BY DEF PendingOfferIsFree, At
    <2>1. PICK days \in Ranges : /\ handler[d].ranges = {days}
                                 /\ \A u \in handler[d].units : At(blocks, u, days) = {}
      BY DEF OfferInv, PendingOfferIsFree
    <2>2. \A u \in handler[d].units : At(blocks', u, days) = {}
      BY <2>1 DEF At
    <2>3. "addBlock" \in Ops[d]
      BY DEF OfferInv, PendingOfferIsFree
    <2> QED BY <2>1, <2>2, <2>3
  <1> QED BY <1>1, <1>2 DEF OfferInv

LEMMA AskFrame ==
  ASSUME OfferInv, GridInv', NEW c \in Clerks, NEW request, Ask(c, request),
         request.op # "addBlock"
  PROVE  OfferInv'
  <1>1. blocks' = blocks /\ handler' = [handler EXCEPT ![c] = request]
    BY DEF Ask, tables
  <1>2. \A d \in Clerks : handler'[d] = IF d = c THEN request ELSE handler[d]
    BY <1>1 DEF OfferInv, GridInv, TypeOK
  <1> QED BY <1>1, <1>2, OfferFrame

LEMMA AnswerFrame ==
  ASSUME OfferInv, GridInv', NEW c \in Clerks, Answer(c), blocks' \subseteq blocks
  PROVE  OfferInv'
  <1>1. \A d \in Clerks : handler'[d] = IF d = c THEN Idle ELSE handler[d]
    BY DEF Answer, OfferInv, GridInv, TypeOK
  <1> QED BY <1>1, IdleTyped, OfferFrame

(* A new offer has just been found free.                                   *)
LEMMA OfferAsked ==
  ASSUME OfferInv, GridInv', NEW c \in Clerks, BlockCreateAsk(c) \/ BlockBatchAsk(c)
  PROVE  OfferInv'
  <1>1. \E units, request : \E days \in Ranges :
          /\ ~hasOverlap(units, days)
          /\ request.op = "addBlock" /\ request.units = units /\ request.ranges = {days}
          /\ Ask(c, request)
    <2>1. CASE BlockCreateAsk(c)
      <3>1. PICK u \in Units, days \in Ranges :
              /\ ~hasOverlap({u}, days)
              /\ Ask(c, [Idle EXCEPT !.op = "addBlock", !.units = {u},
                                     !.type = unitType[u], !.ranges = {days}])
        BY <2>1 DEF BlockCreateAsk
      <3> DEFINE request == [Idle EXCEPT !.op = "addBlock", !.units = {u},
                                         !.type = unitType[u], !.ranges = {days}]
      <3>2. request.op = "addBlock" /\ request.units = {u} /\ request.ranges = {days}
        BY DEF Idle
      <3>3. Ask(c, request)
        BY <3>1
      <3> HIDE DEF request
      <3> QED BY <3>1, <3>2, <3>3
    <2>2. CASE BlockBatchAsk(c)
      <3>1. PICK units \in Batches, t \in Types, days \in Ranges :
              /\ ~hasOverlap(units, days)
              /\ Ask(c, [Idle EXCEPT !.op = "addBlock", !.units = units,
                                     !.fresh = {u \in units : unitType[u] = NoType},
                                     !.type = t, !.ranges = {days}])
        BY <2>2 DEF BlockBatchAsk
      <3> DEFINE request == [Idle EXCEPT !.op = "addBlock", !.units = units,
                                         !.fresh = {u \in units : unitType[u] = NoType},
                                         !.type = t, !.ranges = {days}]
      <3>2. request.op = "addBlock" /\ request.units = units /\ request.ranges = {days}
        BY DEF Idle
      <3>3. Ask(c, request)
        BY <3>1
      <3> HIDE DEF request
      <3> QED BY <3>1, <3>2, <3>3
    <2> QED BY <2>1, <2>2
  <1>2. PICK units, request : \E days \in Ranges :
          /\ ~hasOverlap(units, days)
          /\ request.op = "addBlock" /\ request.units = units /\ request.ranges = {days}
          /\ Ask(c, request)
    BY <1>1
  <1>3. PICK days \in Ranges :
          /\ ~hasOverlap(units, days)
          /\ request.op = "addBlock" /\ request.units = units /\ request.ranges = {days}
          /\ Ask(c, request)
    BY <1>2
  <1>4. blocks' = blocks /\ "addBlock" \in Ops[c]
    BY <1>3 DEF Ask, tables
  <1>5. \A d \in Clerks : handler'[d] = IF d = c THEN request ELSE handler[d]
    BY <1>3 DEF Ask, OfferInv, GridInv, TypeOK
  <1>6. OneBlockPerNight'
    BY <1>4 DEF OfferInv, OneBlockPerNight
  <1>7. \A u \in units : At(blocks, u, days) = {}
    BY <1>3 DEF hasOverlap
  <1>8. PendingOfferIsFree'
    <2>1. ASSUME NEW d \in Clerks, d # c, handler[d].op = "addBlock"
          PROVE  /\ "addBlock" \in Ops[d]
                 /\ \E r \in Ranges : /\ handler[d].ranges = {r}
                                      /\ \A u \in handler[d].units : At(blocks, u, r) = {}
      BY <2>1 DEF OfferInv, PendingOfferIsFree
    <2> QED BY <1>3, <1>4, <1>5, <1>7, <2>1 DEF PendingOfferIsFree, At
  <1> QED BY <1>6, <1>8 DEF OfferInv

(* The one place where blocks are inserted.                                *)
LEMMA OfferCommitted ==
  ASSUME SingleOfferer, OfferInv, GridInv', NEW c \in Clerks, BlockCreateCommit(c)
  PROVE  OfferInv'
  <1> DEFINE h == handler[c]
  <1>1. h.op = "addBlock" /\ Answer(c)
    BY DEF BlockCreateCommit
  <1>2. PICK days \in Ranges : /\ h.ranges = {days}
                               /\ \A u \in h.units : At(blocks, u, days) = {}
    BY <1>1 DEF OfferInv, PendingOfferIsFree
  <1>3. h \in Requests /\ h.type \in Types
    BY <1>1, RequestAtWork DEF OfferInv, GridInv, TypedRequests
  <1>4. h.units \in SUBSET Units
    BY <1>3 DEF Requests
  <1>5. blocks' = blocks \cup {NewRow(blocks, u, h.type, days) : u \in h.units}
    BY <1>2 DEF BlockCreateCommit, NewRows
  <1>6. \A u \in h.units : /\ NewRow(blocks, u, h.type, days).unit = u
                           /\ NewRow(blocks, u, h.type, days).days = days
    BY DEF NewRow
  <1>7. \A b \in blocks : b.unit \in h.units => b.days \cap days = {}
    BY <1>2 DEF At
  <1>8. OneBlockPerNight'
    <2> SUFFICES ASSUME NEW a \in blocks', NEW b \in blocks', a # b, a.unit = b.unit
                 PROVE  a.days \cap b.days = {}
      BY DEF OneBlockPerNight
    <2>1. CASE a \in blocks /\ b \in blocks
      BY <2>1 DEF OfferInv, OneBlockPerNight
    <2>2. CASE a \in blocks /\ b \notin blocks
      <3>1. b.unit \in h.units /\ b.days = days
        BY <2>2, <1>5, <1>6
      <3> QED BY <2>2, <3>1, <1>7
    <2>3. CASE a \notin blocks /\ b \in blocks
      <3>1. a.unit \in h.units /\ a.days = days
        BY <2>3, <1>5, <1>6
      <3> QED BY <2>3, <3>1, <1>7
    <2>4. CASE a \notin blocks /\ b \notin blocks
      <3>1. PICK u \in h.units : a = NewRow(blocks, u, h.type, days)
        BY <2>4, <1>5
      <3>2. PICK v \in h.units : b = NewRow(blocks, v, h.type, days)
        BY <2>4, <1>5
      <3>3. u = v
        BY <3>1, <3>2, <1>6
      <3> QED BY <3>1, <3>2, <3>3
    <2> QED BY <2>1, <2>2, <2>3, <2>4
  <1>9. PendingOfferIsFree'
    <2>1. \A d \in Clerks : handler'[d] = IF d = c THEN Idle ELSE handler[d]
      BY <1>1 DEF Answer, OfferInv, GridInv, TypeOK
    <2>2. \A d \in Clerks : d # c => handler[d].op # "addBlock"
      BY <1>1 DEF SingleOfferer, OfferInv, PendingOfferIsFree
    <2> QED BY <2>1, <2>2, IdleTyped DEF PendingOfferIsFree
  <1> QED BY <1>8, <1>9 DEF OfferInv
(* Every other request that passes its guards offers nothing.              *)
LEMMA OtherAsk ==
  ASSUME NEW c \in Clerks,
         \/ UnitDeleteAsk(c) \/ BlockDeleteAsk(c)
         \/ MaintCreateAsk(c) \/ MaintUpdateAsk(c) \/ MaintDeleteAsk(c)
         \/ BankSaveAsk(c) \/ BankYearDeleteAsk(c)
  PROVE  \E request : request.op # "addBlock" /\ Ask(c, request)
  <1>1. CASE UnitDeleteAsk(c)
    BY <1>1 DEF UnitDeleteAsk, Idle
  <1>2. CASE BlockDeleteAsk(c)
    BY <1>2 DEF BlockDeleteAsk, Idle
  <1>3. CASE MaintCreateAsk(c)
    BY <1>3 DEF MaintCreateAsk, Idle
  <1>4. CASE MaintUpdateAsk(c)
    BY <1>4 DEF MaintUpdateAsk, Idle
  <1>5. CASE MaintDeleteAsk(c)
    BY <1>5 DEF MaintDeleteAsk, Idle
  <1>6. CASE BankSaveAsk(c)
    BY <1>6 DEF BankSaveAsk, Idle
  <1>7. CASE BankYearDeleteAsk(c)
    BY <1>7 DEF BankYearDeleteAsk, Idle
  <1> QED BY <1>1, <1>2, <1>3, <1>4, <1>5, <1>6, <1>7

LEMMA OfferInit == Init => OfferInv
  <1> SUFFICES ASSUME Init PROVE OfferInv
    OBVIOUS
  <1>1. OneBlockPerNight
    BY DEF Init, OneBlockPerNight
  <1>2. PendingOfferIsFree
    BY IdleTyped DEF Init, PendingOfferIsFree
  <1> QED BY <1>1, <1>2, TypeInit DEF OfferInv

LEMMA OfferStep ==
  ASSUME SingleOfferer, OfferInv, [Next]_vars
  PROVE  OfferInv'
  <1>1. GridInv'
    BY TypeStep DEF OfferInv
  <1>2. CASE UNCHANGED vars
    BY <1>1, <1>2, OfferFrame DEF vars
  <1>3. ASSUME NEW c \in Clerks, UnitMove(c) PROVE OfferInv'
    <2>1. blocks' = blocks
      BY <1>3, UnitsMove DEF OfferInv
    <2>2. \A d \in Clerks : handler'[d].op = "addBlock" => handler'[d] = handler[d]
      BY <1>3, UnitsMove, IdleTyped DEF OfferInv
    <2> QED BY <1>1, <2>1, <2>2, OfferFrame
  <1>4. ASSUME NEW c \in Clerks,
               \/ UnitDeleteAsk(c) \/ BlockDeleteAsk(c)
               \/ MaintCreateAsk(c) \/ MaintUpdateAsk(c) \/ MaintDeleteAsk(c)
               \/ BankSaveAsk(c) \/ BankYearDeleteAsk(c)
        PROVE  OfferInv'
    <2>1. PICK request : request.op # "addBlock" /\ Ask(c, request)
      BY <1>4, OtherAsk
    <2> QED BY <1>1, <2>1, AskFrame
  <1>5. ASSUME NEW c \in Clerks, BlockCreateAsk(c) \/ BlockBatchAsk(c) PROVE OfferInv'
    BY <1>1, <1>5, OfferAsked
  <1>6. ASSUME NEW c \in Clerks, BlockCreateCommit(c) PROVE OfferInv'
    BY <1>1, <1>6, OfferCommitted
  <1>7. ASSUME NEW c \in Clerks,
               \/ BlockDeleteCommit(c)
               \/ MaintCreateCommit(c) \/ MaintUpdateCommit(c) \/ MaintDeleteCommit(c)
               \/ BankCommit(c) \/ Abandon(c)
        PROVE  OfferInv'
    <2>1. Answer(c)
      BY <1>7 DEF BlockDeleteCommit, MaintCreateCommit,
                  MaintUpdateCommit, MaintDeleteCommit, BankCommit, Abandon
    <2>2. blocks' \subseteq blocks
      BY <1>7 DEF BlockDeleteCommit, MaintCreateCommit,
                  MaintUpdateCommit, MaintDeleteCommit, BankCommit, Abandon, tables
    <2> QED BY <1>1, <2>1, <2>2, AnswerFrame
  <1>8. ASSUME NEW c \in Clerks, GridRead(c) PROVE OfferInv'
    <2>1. blocks' = blocks /\ handler[c].op # "idle"
      BY <1>8 DEF GridRead, tables
    <2>2. handler[c] \in Requests
      BY <2>1, RequestAtWork DEF OfferInv, GridInv
    <2>3. PICK snap : handler' = [handler EXCEPT ![c] = [handler[c] EXCEPT !.snap = snap]]
      BY <1>8 DEF GridRead, OfferInv, GridInv, TypeOK
    <2>4. /\ [handler[c] EXCEPT !.snap = snap].op = handler[c].op
          /\ [handler[c] EXCEPT !.snap = snap].ranges = handler[c].ranges
          /\ [handler[c] EXCEPT !.snap = snap].units = handler[c].units
      BY <2>2 DEF Requests
    <2>5. \A d \in Clerks : /\ handler'[d].op = handler[d].op
                            /\ handler'[d].ranges = handler[d].ranges
                            /\ handler'[d].units = handler[d].units
      BY <2>3, <2>4 DEF OfferInv, GridInv, TypeOK
    <2> QED BY <1>1, <2>1, <2>5, OfferFrame
  <1> QED BY <1>2, <1>3, <1>4, <1>5, <1>6, <1>7, <1>8 DEF Next, UnitMove

(* "Overlapping ranges for the same unit are rejected" although the check  *)
(* precedes the transaction, as long as one clerk at most creates blocks:  *)
(* whatever the others delete, withdraw or bank meanwhile.                 *)
THEOREM UnitsOfferedOnce ==
  ASSUME SingleOfferer
  PROVE  Spec => []OneBlockPerNight
  <1>1. OfferInv /\ [Next]_vars => OfferInv'
    BY OfferStep
  <1>2. OfferInv => OneBlockPerNight
    BY DEF OfferInv
  <1> QED BY <1>1, <1>2, OfferInit, PTL DEF Spec
=============================================================================
