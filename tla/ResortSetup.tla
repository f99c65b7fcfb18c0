---------------------------- MODULE ResortSetup ----------------------------
(***************************************************************************)
(* Resorts Setup: the masters (products, resorts, LVC codes, apartment     *)
(* types) and the season points charts that are priced on them:            *)
(*   backend/src/controllers/{products,resorts,lvc-codes,apartment-types,  *)
(*     season-points}.controller.ts                                        *)
(*   frontend/src/pages/resorts/{Products,ResortMaster,ResortFormModal,    *)
(*     LvcCodes,ApartmentTypes,SeasonPoints}.tsx                           *)
(*                                                                         *)
(* A product is named by its code, with no foreign key: a look-up before   *)
(* the write is all that keeps a reference alive. A chart is all rows with *)
(* one resort and one effective date; a save replaces it whole, possibly   *)
(* at another date. A handler takes one step for each look-up whose answer *)
(* it uses later, and the replacement of a chart is two statements of one  *)
(* READ COMMITTED transaction.                                             *)
(*                                                                         *)
(* A clerk works on the lists of the last fetch: what others did since is  *)
(* not on the page, and neither is the clerk's own last save until its     *)
(* refetch has answered. A rate stays open as it was, in another tab, when *)
(* it has been saved or deleted.                                           *)
(*                                                                         *)
(* Left out: the points themselves and the seasons (a row stands for a     *)
(* room type's rows of a chart), the columns pointsType and coCode of a    *)
(* row, which nothing reads, names and addresses, the information lines of *)
(* a resort, whether a resort or an LVC code is active (the pickers leave  *)
(* it out, a URL does not), audit rows.                                    *)
(***************************************************************************)
EXTENDS Integers

CONSTANTS
  Staff,       \* requests in flight at the same time
  SetupOps,    \* what each clerk uses
  Products,    \* product codes
  CP_CO_CODE,  \* '02', the product whose resorts are home resorts
  Resorts,     \* resort codes
  LvcCodes,    \* exchange programmes
  Types,       \* apartment types
  Sold,        \* products that agreements or billing schedules name
  Housed,      \* <<resort, type>> with units, availability or grid rows
  LastDay,     \* bound: effective dates are 1..LastDay
  MaxSaves,    \* bound: charts saved
  MaxMasterEdits, \* bound: other writes
  Migrated     \* what the loaders found: products, resorts, types, points

SetupOpNames == {"chart", "purge", "product", "resort", "lvc", "type"}
Dates == 1..LastDay
NoCode == "none"
Named == Products \cup {NoCode}

(* The product and the id of a row, or its absence: a resort created again  *)
(* has another id.                                                          *)
Absent == [coCode |-> NoCode, id |-> -1]
Listed == [coCode : Named, id : Nat] \cup {Absent}

Point == [resort : Resorts, eff : Dates, type : Types, charged : Named,
          save : Nat]
Staged == [resort : Resorts, type : Types, year : Nat, eff : Dates,
           charged : Named]

ASSUME SetupOpsAssumption == SetupOps \in [Staff -> SUBSET SetupOpNames]
ASSUME NamesAssumption ==
  /\ CP_CO_CODE \in Products /\ NoCode \notin Products
  /\ Sold \subseteq Products
  /\ Housed \subseteq Resorts \X Types
  /\ LastDay \in Nat /\ MaxSaves \in Nat /\ MaxMasterEdits \in Nat
ASSUME MigratedAssumption ==
  /\ Migrated.products \in [Products -> {"A", "U", "none"}]
  /\ Migrated.resorts \in [Resorts -> Listed]
  /\ Migrated.lvcCodes \in [LvcCodes -> Listed]
  /\ \A t \in {Migrated.resorts, Migrated.lvcCodes} : \A k \in DOMAIN t :
       t[k].coCode # NoCode => Migrated.products[t[k].coCode] # "none"
  /\ Migrated.types \subseteq Resorts \X Types
  /\ Migrated.points \subseteq Staged

VARIABLES
  products,   \* Product.status of each code, "none" when there is no row
  resorts,    \* Resort
  lvcCodes,   \* LvcCode
  aptTypes,   \* ApartmentType, as <<resort, type>>
  points,     \* SeasonPoint
  handler,    \* what each clerk's request holds
  seen,       \* the cached ['products', ''] list of each clerk
  editor,     \* the rate each clerk has open on fn 10
  saves,      \* charts saved so far
  edits       \* other writes so far

setupVars == <<products, resorts, lvcCodes, aptTypes, points, handler, seen, editor,
          saves, edits>>
masters == <<products, resorts, lvcCodes, aptTypes, edits>>

Idle == [op |-> "idle"]
(* saveVersionSchema: eff is the date asked for, replaces the version named *)
(* as the one being edited (0: none); then the id of the resort read, the   *)
(* rows the transaction has deleted and which save it is.                   *)
ChartSave == [op : {"load", "check", "date", "drop", "commit"},
              resort : Resorts, kind : {"HOME", "AWAY"}, eff : Dates,
              replaces : {0} \cup Dates, rows : SUBSET Types, charged : Named,
              id : Nat, gone : SUBSET Point, save : Nat]
(* A resort or LVC code to be written, new or not; a removal whose counts   *)
(* came back zero.                                                          *)
FormSave == [op : {"product", "write"}, table : {"resort", "lvc"},
             key : Resorts \cup LvcCodes, coCode : Named, new : BOOLEAN]
Removal == [op : {"removeProduct"}, key : Products]
           \cup [op : {"removeType"}, key : Resorts \X Types]
Closed == [resort |-> "none"]
Editor == [resort : Resorts, kind : {"HOME", "AWAY"}, eff : {0} \cup Dates,
           offered : SUBSET Types, charged : Named, latest : SUBSET Dates]

SetupTypeOK ==
  /\ products \in [Products -> {"A", "U", "none"}]
  /\ resorts \in [Resorts -> Listed]
  /\ lvcCodes \in [LvcCodes -> Listed]
  /\ aptTypes \subseteq Resorts \X Types
  /\ points \subseteq Point
  /\ handler \in [Staff -> ChartSave \cup FormSave \cup Removal \cup {Idle}]
  /\ seen \in [Staff -> [Products -> {"A", "U", "none"}]]
  /\ editor \in [Staff -> Editor \cup {Closed}]
  /\ saves \in Nat /\ edits \in Nat

(* Mutation: the year is taken for the date.                                *)
MutCollapse(staged) ==
  {[resort |-> r.resort, eff |-> r.year, type |-> r.type, charged |-> r.charged,
    save |-> 0] : r \in staged}

(* collapseToLatestVersion: of a resort's yearly charts the latest year is  *)
(* kept, and all its rows get the latest date among them.                   *)
CollapseToLatestVersion(staged) ==
  LET kept == {r \in staged :
                 \A s \in staged : s.resort = r.resort => s.year <= r.year}
      VersionDate(rc) == {e \in Dates :
        /\ \E r \in kept : r.resort = rc /\ r.eff = e
        /\ \A r \in kept : r.resort = rc => r.eff <= e}
  IN UNION {[resort : {r.resort}, eff : VersionDate(r.resort), type : {r.type},
             charged : {r.charged}, save : {0}] : r \in kept}

SetupInit ==
  /\ products = Migrated.products
  /\ resorts = Migrated.resorts
  /\ lvcCodes = Migrated.lvcCodes
  /\ aptTypes = Migrated.types
  /\ points = CollapseToLatestVersion(Migrated.points)
  /\ handler = [c \in Staff |-> Idle]
  /\ seen = [c \in Staff |-> products]
  /\ editor = [c \in Staff |-> Closed]
  /\ saves = 0 /\ edits = 0

(***************************************************************************)
(* What the handlers look up.                                              *)
(***************************************************************************)
kindOf(resort) == IF resort.coCode = CP_CO_CODE THEN "HOME" ELSE "AWAY"

(* Mutation: the look-up is left out.                                      *)
MutProductMissing(code) == FALSE

productMissing(code) == code # NoCode /\ products[code] = "none"

Version(r, d) == {p \in points : p.resort = r /\ p.eff = d}
VersionDates(r) == {p.eff : p \in {q \in points : q.resort = r}}
LatestEff(r) == {d \in VersionDates(r) : \A e \in VersionDates(r) : e <= d}

(* The version in force on a day, or the earliest when none is yet.        *)
InForce(r, day) ==
  LET past == {d \in VersionDates(r) : d <= day}
  IN IF past # {} THEN {d \in past : \A e \in past : e <= d}
     ELSE {d \in VersionDates(r) : \A e \in VersionDates(r) : d <= e}

allowedApartmentTypes(r) ==
  {t \in Types : <<r, t>> \in aptTypes} \cup {p.type : p \in {q \in points : q.resort = r}}

(* Mutation: the count leaves the LVC codes out.                           *)
MutInUse(p) == p \in Sold \/ \E r \in Resorts : resorts[r].coCode = p

(* The counts of deleteProduct.                                            *)
InUse(p) ==
  \/ p \in Sold
  \/ \E r \in Resorts : resorts[r].coCode = p
  \/ \E l \in LvcCodes : lvcCodes[l].coCode = p

(* Mutation: a version being edited may move onto another.                 *)
MutClashes(q) == q.replaces = 0 /\ Version(q.resort, q.eff) # {}

(* Another version is in the way of the date asked for.                    *)
Clashes(q) == q.replaces # q.eff /\ Version(q.resort, q.eff) # {}

(* Mutation: a new rate may be dated back.                                 *)
MutBackdated(q) == FALSE

(* A new rate must start after the latest one.                             *)
Backdated(q) == q.replaces = 0 /\ \E d \in VersionDates(q.resort) : q.eff <= d

(***************************************************************************)
(* Season points.                                                          *)
(***************************************************************************)
Free(c, op) == handler[c] = Idle /\ op \in SetupOps[c]
Refuse(c) ==
  /\ handler' = [handler EXCEPT ![c] = Idle]
  /\ UNCHANGED <<masters, points, seen, editor, saves>>
Step(c, q) ==
  /\ handler' = [handler EXCEPT ![c] = q]
  /\ UNCHANGED <<masters, points, seen, editor, saves>>

(* The clerk's list of products is fetched.                                *)
FetchProducts(c) ==
  /\ handler[c] = Idle /\ seen[c] # products
  /\ seen' = [seen EXCEPT ![c] = products]
  /\ UNCHANGED <<masters, points, handler, editor, saves>>

(* productOptions: the active products, and the selected one if it is      *)
(* known.                                                                  *)
ProductOptions(c, selected) ==
  {p \in Products : seen[c][p] = "A" \/ (p = selected /\ seen[c][p] = "U")}

(* listSeasonPoints: the rows of a version, or with no date (0) of the one  *)
(* in force; with them the types that are registered or already charted,   *)
(* and the product charged.                                                 *)
listSeasonPoints(r, eff, today) ==
  LET dates == IF eff = 0 THEN InForce(r, today) ELSE {eff}
      stored == {p.charged : p \in {q \in points : q.resort = r /\ q.eff \in dates}}
  IN [types |-> allowedApartmentTypes(r),
      charged |-> IF stored \subseteq {NoCode} THEN {CP_CO_CODE} ELSE stored \ {NoCode}]

(* A version is opened from the list of all, or a new one (0) that starts  *)
(* as a copy of the rate in force.                                         *)
OpenRate(c, r, eff, today) ==
  LET answer == listSeasonPoints(r, eff, today) IN
  /\ Free(c, "chart") /\ saves < MaxSaves
  /\ resorts[r] # Absent
  /\ eff \in {0} \cup VersionDates(r)
  /\ \E charged \in answer.charged :
       editor' = [editor EXCEPT ![c] =
         [resort |-> r, kind |-> kindOf(resorts[r]), eff |-> eff,
          offered |-> answer.types, charged |-> charged, latest |-> LatestEff(r)]]
  /\ UNCHANGED <<masters, points, handler, seen, saves>>

(* Save rate: the rows left filled, under the date of the header; the      *)
(* stored date is named unless the rate is new.                            *)
SubmitRate(c, rows, eff, charged) ==
  LET e == editor[c] IN
  /\ Free(c, "chart") /\ saves < MaxSaves
  /\ e # Closed
  /\ rows # {} /\ rows \subseteq e.offered
  /\ e.eff = 0 => \A d \in e.latest : d < eff
  /\ IF e.kind = "AWAY" THEN charged \in {e.charged} \cup ProductOptions(c, e.charged)
     ELSE charged = NoCode
  /\ saves' = saves + 1
  /\ handler' = [handler EXCEPT ![c] =
       [op |-> "load", resort |-> e.resort, kind |-> e.kind, eff |-> eff,
        replaces |-> e.eff, rows |-> rows, charged |-> charged, id |-> 0,
        gone |-> {}, save |-> saves + 1]]
  /\ UNCHANGED <<masters, points, seen, editor>>

(* requireResortOfType                                                     *)
LoadResort(c) ==
  LET q == handler[c] IN
  /\ q.op = "load"
  /\ IF resorts[q.resort] = Absent \/ kindOf(resorts[q.resort]) # q.kind THEN Refuse(c)
     ELSE Step(c, [q EXCEPT !.op = "check", !.id = resorts[q.resort].id])

(* The product charged and the types submitted.                            *)
CheckRows(c) ==
  LET q == handler[c] IN
  /\ q.op = "check"
  /\ IF productMissing(q.charged) \/ ~(q.rows \subseteq allowedApartmentTypes(q.resort))
     THEN Refuse(c)
     ELSE Step(c, [q EXCEPT !.op = "date"])

(* The look-up of a clash and that of the latest rate: nobody but a save   *)
(* adds a version between them.                                            *)
CheckDate(c) ==
  LET q == handler[c] IN
  /\ q.op = "date"
  /\ IF Clashes(q) \/ Backdated(q) THEN Refuse(c)
     ELSE Step(c, [q EXCEPT !.op = "drop"])

(* deleteMany sees and locks the rows committed when it starts.            *)
DropVersion(c) ==
  LET q == handler[c]
      target == IF q.replaces = 0 THEN q.eff ELSE q.replaces
  IN
  /\ q.op = "drop"
  /\ Step(c, [q EXCEPT !.op = "commit", !.gone = Version(q.resort, target)])

(* createMany and commit: the resort must still be the row that was read   *)
(* (foreign key), and no other row may have the same type and date (unique *)
(* index); otherwise all is rolled back.                                   *)
CommitRate(c) ==
  LET q == handler[c]
      left == points \ q.gone
      new == [resort : {q.resort}, eff : {q.eff}, type : q.rows,
              charged : {q.charged}, save : {q.save}]
  IN
  /\ q.op = "commit"
  /\ IF \/ resorts[q.resort].id # q.id
        \/ \E p \in left : p.resort = q.resort /\ p.eff = q.eff /\ p.type \in q.rows
     THEN Refuse(c)
     ELSE /\ points' = left \cup new
          /\ handler' = [handler EXCEPT ![c] = Idle]
          /\ UNCHANGED <<masters, seen, editor, saves>>

(* deleteSeasonPointVersion, from a list or an editor of any age, on the   *)
(* tab of the kind the resort has: requireResortOfType refuses the other.  *)
DeleteVersion(c, r, d) ==
  /\ Free(c, "purge") /\ edits < MaxMasterEdits
  /\ resorts[r] # Absent /\ Version(r, d) # {}
  /\ points' = points \ Version(r, d)
  /\ edits' = edits + 1
  /\ UNCHANGED <<products, resorts, lvcCodes, aptTypes, handler, seen, editor, saves>>

(***************************************************************************)
(* The masters.  A write of a row that is there already, or no longer, is  *)
(* refused by the unique index or the missing row.                         *)
(***************************************************************************)
Edit == edits < MaxMasterEdits /\ edits' = edits + 1

(* createProduct, updateProduct and toggleProductStatus: the code stays.   *)
SaveProduct(c, p, status) ==
  /\ Free(c, "product") /\ Edit
  /\ products[p] # status
  /\ products' = [products EXCEPT ![p] = status]
  /\ UNCHANGED <<resorts, lvcCodes, aptTypes, points, handler, seen, editor, saves>>

DeleteProduct(c, p) ==
  /\ Free(c, "product") /\ edits < MaxMasterEdits
  /\ products[p] # "none" /\ ~InUse(p)
  /\ Step(c, [op |-> "removeProduct", key |-> p])

RemoveProduct(c) ==
  /\ handler[c].op = "removeProduct" /\ Edit
  /\ products' = [products EXCEPT ![handler[c].key] = "none"]
  /\ handler' = [handler EXCEPT ![c] = Idle]
  /\ UNCHANGED <<resorts, lvcCodes, aptTypes, points, seen, editor, saves>>

(* The forms of a resort and of an LVC code, new or filled from a row; an  *)
(* LVC code may have no product.                                           *)
Submit(c, table, key, coCode, new) ==
  /\ Free(c, table) /\ edits < MaxMasterEdits
  /\ Step(c, [op |-> "product", table |-> table, key |-> key, coCode |-> coCode,
              new |-> new])

SubmitResort(c, r, coCode) ==
  /\ coCode \in ProductOptions(c, resorts[r].coCode) \cup {resorts[r].coCode}
  /\ coCode # NoCode
  /\ Submit(c, "resort", r, coCode, resorts[r] = Absent)

SubmitLvcCode(c, l, coCode) ==
  /\ coCode \in ProductOptions(c, lvcCodes[l].coCode) \cup {lvcCodes[l].coCode, NoCode}
  /\ Submit(c, "lvc", l, coCode, lvcCodes[l] = Absent)

CheckProduct(c) ==
  LET q == handler[c] IN
  /\ q.op = "product"
  /\ IF productMissing(q.coCode) THEN Refuse(c) ELSE Step(c, [q EXCEPT !.op = "write"])

(* A row is created under a free code or updated where it is; the code     *)
(* itself never changes.                                                   *)
Fits(q, row) == q.new = (row = Absent)
Written(q, row) == [coCode |-> q.coCode, id |-> IF q.new THEN edits + 1 ELSE row.id]

WriteResort(c) ==
  LET q == handler[c] IN
  /\ q.op = "write" /\ q.table = "resort"
  /\ IF ~Fits(q, resorts[q.key]) THEN Refuse(c)
     ELSE /\ Edit
          /\ resorts' = [resorts EXCEPT ![q.key] = Written(q, @)]
          /\ handler' = [handler EXCEPT ![c] = Idle]
          /\ UNCHANGED <<products, lvcCodes, aptTypes, points, seen, editor, saves>>

WriteLvcCode(c) ==
  LET q == handler[c] IN
  /\ q.op = "write" /\ q.table = "lvc"
  /\ IF ~Fits(q, lvcCodes[q.key]) THEN Refuse(c)
     ELSE /\ Edit
          /\ lvcCodes' = [lvcCodes EXCEPT ![q.key] = Written(q, @)]
          /\ handler' = [handler EXCEPT ![c] = Idle]
          /\ UNCHANGED <<products, resorts, aptTypes, points, seen, editor, saves>>

(* deleteResort: the types and charts of the resort go with it.            *)
DeleteResort(c, r) ==
  /\ Free(c, "resort") /\ Edit
  /\ resorts[r] # Absent
  /\ resorts' = [resorts EXCEPT ![r] = Absent]
  /\ aptTypes' = {a \in aptTypes : a[1] # r}
  /\ points' = {p \in points : p.resort # r}
  /\ UNCHANGED <<products, lvcCodes, handler, seen, editor, saves>>

DeleteLvcCode(c, l) ==
  /\ Free(c, "lvc") /\ Edit
  /\ lvcCodes[l] # Absent
  /\ lvcCodes' = [lvcCodes EXCEPT ![l] = Absent]
  /\ UNCHANGED <<products, resorts, aptTypes, points, handler, seen, editor, saves>>

(* createApartmentType                                                     *)
CreateType(c, r, t) ==
  /\ Free(c, "type") /\ Edit
  /\ resorts[r] # Absent /\ <<r, t>> \notin aptTypes
  /\ aptTypes' = aptTypes \cup {<<r, t>>}
  /\ UNCHANGED <<products, resorts, lvcCodes, points, handler, seen, editor, saves>>

(* updateApartmentType: the units and charts keep the old name.            *)
RenameType(c, r, t, u) ==
  /\ Free(c, "type") /\ Edit
  /\ <<r, t>> \in aptTypes /\ <<r, u>> \notin aptTypes
  /\ aptTypes' = (aptTypes \ {<<r, t>>}) \cup {<<r, u>>}
  /\ UNCHANGED <<products, resorts, lvcCodes, points, handler, seen, editor, saves>>

(* The counts of deleteApartmentType.                                      *)
DeleteType(c, r, t) ==
  /\ Free(c, "type") /\ edits < MaxMasterEdits
  /\ <<r, t>> \in aptTypes \ Housed
  /\ \A p \in points : ~(p.resort = r /\ p.type = t)
  /\ Step(c, [op |-> "removeType", key |-> <<r, t>>])

RemoveType(c) ==
  /\ handler[c].op = "removeType" /\ Edit
  /\ aptTypes' = aptTypes \ {handler[c].key}
  /\ handler' = [handler EXCEPT ![c] = Idle]
  /\ UNCHANGED <<products, resorts, lvcCodes, points, seen, editor, saves>>

SetupNext ==
  \E c \in Staff :
    \/ FetchProducts(c)
    \/ \E r \in Resorts, eff \in {0} \cup Dates :
         \E today \in IF eff = 0 THEN Dates ELSE {eff} : OpenRate(c, r, eff, today)
    \/ \E rows \in SUBSET Types, eff \in Dates, code \in Named : SubmitRate(c, rows, eff, code)
    \/ LoadResort(c) \/ CheckRows(c) \/ CheckDate(c) \/ DropVersion(c) \/ CommitRate(c)
    \/ \E r \in Resorts, d \in Dates : DeleteVersion(c, r, d)
    \/ \E p \in Products, status \in {"A", "U"} : SaveProduct(c, p, status)
    \/ \E p \in Products : DeleteProduct(c, p)
    \/ RemoveProduct(c)
    \/ \E r \in Resorts, code \in Products : SubmitResort(c, r, code)
    \/ \E l \in LvcCodes, code \in Named : SubmitLvcCode(c, l, code)
    \/ CheckProduct(c) \/ WriteResort(c) \/ WriteLvcCode(c)
    \/ \E r \in Resorts : DeleteResort(c, r)
    \/ \E l \in LvcCodes : DeleteLvcCode(c, l)
    \/ \E r \in Resorts, t \in Types : CreateType(c, r, t) \/ DeleteType(c, r, t)
    \/ \E r \in Resorts, t, u \in Types : RenameType(c, r, t, u)
    \/ RemoveType(c)

-----------------------------------------------------------------------------
(* A chart is one save's: whatever is edited, moved to another date or     *)
(* deleted meanwhile, the rows that share a resort and an effective date   *)
(* were written together, so that no night is priced half by an old rate   *)
(* and half by a new one (one clerk saving charts).                        *)
VersionsWhole ==
  \A p, q \in points : p.resort = q.resort /\ p.eff = q.eff => p.save = q.save

(* "A NEW rate must start AFTER the resort's latest existing one": when a  *)
(* save that was not opened on a version commits, its rate is in force on  *)
(* every day from its date on, and on the days before it what was in force *)
(* still is.                                                               *)
NewRateSupersedes ==
  [][\A c \in Staff :
       LET q == handler[c]
       IN q.op = "commit" /\ q.replaces = 0 /\ points' # points /\ handler'[c] = Idle =>
            \A r \in Resorts \cap {q.resort}, day \in Dates :
              IF day >= q.eff THEN InForce(r, day)' = {q.eff}
              ELSE InForce(r, day) \in {{}, InForce(r, day)'}]_setupVars

(* "This count is the only thing stopping a delete from orphaning live     *)
(* data": the product of a resort or LVC code exists, though the forms     *)
(* offer what was listed long ago and no foreign key says so (one clerk    *)
(* keeping the masters).                                                   *)
ReferencesResolve ==
  LET named == {resorts[r].coCode : r \in Resorts} \cup {lvcCodes[l].coCode : l \in LvcCodes}
  IN \A code \in named \ {NoCode} : products[code] # "none"
=============================================================================
