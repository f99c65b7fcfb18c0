------------------------------ MODULE PbsClaims ------------------------------
(***************************************************************************)
(* The Zurich payback scheme (PBS): schemes, claims and auto-transfer, and *)
(* the two screens that drive them:                                        *)
(*   backend/src/controllers/pbs.controller.ts                             *)
(*   frontend/src/pages/pbs/PbsEnquiryDetail.tsx     one scheme            *)
(*   frontend/src/pages/pbs/PbsAutoTransfer.tsx      a month of schemes    *)
(*                                                                         *)
(* A screen works on the copy its query cached (page, preview), which is   *)
(* refreshed after its own save and otherwise at any time or never.  A     *)
(* request is split where its handler awaits between a read and a write:   *)
(* a claim's number is read, the row created, and the indicator set by     *)
(* three statements without a transaction; a run reads its matches, counts *)
(* inside its transaction, and commits.                                    *)
(*                                                                         *)
(* Left out: names, banks, dates and remarks of a claim, its amount once   *)
(* it is known to be one, the agreement joined to a scheme, audit rows.    *)
(***************************************************************************)
EXTENDS Integers, FiniteSetsExt

CONSTANTS
  Clerks,      \* requests in flight at the same time
  Ops,         \* what each clerk uses
  Schemes,     \* PbsScheme ids
  Registered,  \* the migrated row of each scheme
  Opened,      \* bound: the schemes whose page is opened
  Periods,     \* bound: payback months, as numbers
  Now,         \* the current month
  FormTypes,   \* bound: claim types chosen in the form
  MaxSaves,    \* bound: saves and runs that create claims
  NotLoaded    \* no copy, no result

ClaimTypes == {"AD", "TPD", "ND", "PBS", "none"}
Main == {"AD", "TPD", "PBS"}
Kinds == {"19K", "21K", "none"}
OpNames == {"claim", "edit", "delete", "save", "transfer"}

SchemeRow == [pbsIndc : BOOLEAN, claimIndc : BOOLEAN, kind : Kinds, due : Int]
Ids == Nat \X Schemes
Claim == [id : Ids, scheme : Schemes, refNo : Nat, type : ClaimTypes, run : BOOLEAN]

ASSUME SchemesAssumption ==
  /\ IsFiniteSet(Schemes) /\ Opened \subseteq Schemes
  /\ Registered \in [Schemes -> SchemeRow]
ASSUME FormAssumption ==
  /\ Periods \subseteq Int /\ Now \in Int
  /\ FormTypes \subseteq ClaimTypes /\ MaxSaves \in Nat
ASSUME OpsAssumption == Ops \in [Clerks -> SUBSET OpNames]

VARIABLES
  scheme,   \* PbsScheme rows
  claims,   \* PbsClaim rows
  minted,   \* such saves so far; names claims, as randomUUID does
  handler,  \* what each clerk's request holds
  page,     \* the cached ['pbs-scheme', id] queries of each clerk
  preview,  \* the auto-transfer screen of each clerk: month and its rows,
            \* none before the query has answered
  result    \* what that screen shows of its last run

server == <<scheme, claims, minted>>
client == <<page, preview, result>>
vars == <<scheme, claims, minted, handler, page, preview, result>>

Copy == [row : SchemeRow, claims : SUBSET Ids]  \* the claims by id
Preview == [period : Int, rows : SUBSET Schemes]
Result == [period : Int, ids : SUBSET Ids]

NoRefs == [s \in Schemes |-> 0]
Idle == [op |-> "idle", rows |-> {}, refs |-> NoRefs, type |-> "none",
         id |-> NotLoaded, period |-> Now]
Request == [op : {"idle", "claim", "flag", "delete", "unflag", "match", "run"},
            rows : SUBSET Schemes, refs : [Schemes -> Nat], type : ClaimTypes,
            id : Ids \cup {NotLoaded}, period : Int]

TypeOK ==
  /\ scheme \in [Schemes -> SchemeRow]
  /\ claims \subseteq Claim
  /\ minted \in Nat
  /\ handler \in [Clerks -> Request]
  /\ page \in [Clerks -> [Schemes -> Copy \cup {NotLoaded}]]
  /\ preview \in [Clerks -> Preview]
  /\ result \in [Clerks -> Result \cup {NotLoaded}]

Init ==
  /\ scheme = Registered
  /\ claims = {} /\ minted = 0
  /\ handler = [c \in Clerks |-> Idle]
  /\ page = [c \in Clerks |-> [s \in Schemes |-> NotLoaded]]
  /\ preview = [c \in Clerks |-> [period |-> Now, rows |-> {}]]
  /\ result = [c \in Clerks |-> NotLoaded]

(***************************************************************************)
(* Numbers, matches and amounts.                                           *)
(***************************************************************************)
OfScheme(s) == {k \in claims : k.scheme = s}
RefsOf(s) == {k.refNo : k \in OfScheme(s)}

(* Mutation: the highest number itself is used once there is one.          *)
MutSameRef(s, n) ==
  /\ n = 1 \/ n \in RefsOf(s)
  /\ \A m \in RefsOf(s) : m <= n

(* (_max.refNo ?? 0) + 1                                                   *)
NextRef(s, n) ==
  /\ n = 1 \/ n - 1 \in RefsOf(s)
  /\ \A m \in RefsOf(s) : m < n

(* The numbers for one claim of each of the schemes: none is higher than   *)
(* the number of saves so far, plus one.                                   *)
NewRefs(rows) ==
  {f \in [Schemes -> 0..(minted + 1)] :
    \A s \in Schemes : IF s \in rows THEN NextRef(s, f[s]) ELSE f[s] = 0}

(* Mutation: claimed schemes are due again.                                *)
MutDueIn(table, p) == {s \in Schemes : table[s].pbsIndc /\ table[s].due = p}

DueIn(table, p) ==
  {s \in Schemes : table[s].pbsIndc /\ ~table[s].claimIndc /\ table[s].due = p}

findAutoTransferMatches(p) == DueIn(scheme, p)

pbsClaimAmount(kind) ==
  IF kind = "19K" THEN 19000 ELSE IF kind = "21K" THEN 21000 ELSE 0

(* The pay-by-month report: open schemes of a known kind, by kind.         *)
PayableOf(kind, p) ==
  {s \in Schemes : /\ scheme[s].kind = kind /\ scheme[s].due = p
                   /\ scheme[s].pbsIndc /\ ~scheme[s].claimIndc}
totalRM(p) == Cardinality(PayableOf("19K", p)) * 19000
            + Cardinality(PayableOf("21K", p)) * 21000

(***************************************************************************)
(* The page of one scheme.                                                 *)
(***************************************************************************)
Fresh(s) == [row |-> scheme[s], claims |-> {k.id : k \in OfScheme(s)}]
Refreshed(c, s) == page' = [page EXCEPT ![c][s] =
  [row |-> scheme'[s], claims |-> {k.id : k \in {k \in claims' : k.scheme = s}}]]

Uses(c, op) == op \in Ops[c] /\ handler[c] = Idle

FetchScheme(c) ==
  /\ \E s \in Opened : page' = [page EXCEPT ![c][s] = Fresh(s)]
  /\ UNCHANGED <<scheme, claims, minted, handler, preview, result>>

(* Mutation: an empty kind is sent as the empty string.                    *)
MutSaved(row, kind) == [row EXCEPT !.kind = IF kind = "none" THEN "" ELSE kind]

Saved(row, kind) == [row EXCEPT !.kind = kind]

(* updatePbsScheme: the form lets the clerk choose the kind, and sends     *)
(* every other column back as it was on the page.                          *)
SchemeSave(c) ==
  /\ Uses(c, "save")
  /\ \E s \in Schemes, kind \in Kinds :
       /\ page[c][s] # NotLoaded
       /\ scheme' = [scheme EXCEPT ![s] = Saved(page[c][s].row, kind)]
       /\ UNCHANGED <<claims, minted>>
       /\ Refreshed(c, s)
  /\ UNCHANGED <<handler, preview, result>>

(* "Add claim" shows on a page whose copy is in PBS and unclaimed; a main  *)
(* type takes its amount from the kind, and without one is not sent.       *)
CanAdd(copy, type) ==
  /\ copy # NotLoaded
  /\ copy.row.pbsIndc /\ ~copy.row.claimIndc
  /\ type \in Main => copy.row.kind # "none"

ClaimAsk(c) ==
  /\ Uses(c, "claim")
  /\ \E s \in Schemes, type \in FormTypes :
       /\ CanAdd(page[c][s], type)
       /\ \E refs \in NewRefs({s}) :
            handler' = [handler EXCEPT ![c] = [Idle EXCEPT
              !.op = "claim", !.rows = {s}, !.type = type, !.refs = refs]]
  /\ UNCHANGED <<scheme, claims, minted, page, preview, result>>

(* The new rows, one for each scheme of the request.                       *)
Created(h, type, isRun) ==
  {[id |-> <<minted, s>>, scheme |-> s, refNo |-> h.refs[s], type |-> type,
    run |-> isRun] : s \in h.rows}

ClaimRow(c) ==
  LET h == handler[c] IN
  /\ h.op = "claim"
  /\ minted < MaxSaves
  /\ claims' = claims \cup Created(h, h.type, FALSE)
  /\ minted' = minted + 1
  /\ handler' = [handler EXCEPT ![c].op = "flag"]
  /\ UNCHANGED <<scheme, page, preview, result>>

(* Only a claim of a main type moves the indicator; then the answer.       *)
Flagged(h, value) ==
  [s \in Schemes |-> IF s \in h.rows /\ h.type \in Main
                     THEN [scheme[s] EXCEPT !.claimIndc = value] ELSE scheme[s]]

SetIndicator(c) ==
  LET h == handler[c] IN
  /\ h.op \in {"flag", "unflag"}
  /\ scheme' = Flagged(h, h.op = "flag")
  /\ UNCHANGED <<claims, minted>>
  /\ \E s \in h.rows : Refreshed(c, s)
  /\ handler' = [handler EXCEPT ![c] = Idle]
  /\ UNCHANGED <<preview, result>>

(* updateClaim: the row is written from the form; the indicator is not.    *)
ClaimUpdate(c) ==
  /\ Uses(c, "edit")
  /\ \E s \in Schemes, type \in FormTypes :
       /\ page[c][s] # NotLoaded
       /\ type \in Main => page[c][s].row.kind # "none"
       /\ \E k \in claims :
            /\ k.id \in page[c][s].claims
            /\ claims' = (claims \ {k}) \cup {[k EXCEPT !.type = type]}
       /\ UNCHANGED <<scheme, minted>>
       /\ Refreshed(c, s)
  /\ UNCHANGED <<handler, preview, result>>

ClaimDeleteAsk(c) ==
  /\ Uses(c, "delete")
  /\ \E s \in Schemes :
       /\ page[c][s] # NotLoaded
       /\ \E k \in claims :
            /\ k.id \in page[c][s].claims
            /\ handler' = [handler EXCEPT ![c] =
                 [Idle EXCEPT !.op = "delete", !.rows = {s}, !.type = k.type,
                              !.id = k.id]]
  /\ UNCHANGED <<scheme, claims, minted, page, preview, result>>

ClaimDeleteRow(c) ==
  /\ handler[c].op = "delete"
  /\ \E k \in claims : k.id = handler[c].id /\ claims' = claims \ {k}
  /\ handler' = [handler EXCEPT ![c].op = "unflag"]
  /\ UNCHANGED <<scheme, minted, page, preview, result>>

(***************************************************************************)
(* Auto-transfer.  Choosing a month clears the result; "Run" needs rows on *)
(* screen and a month no later than the next.                              *)
(***************************************************************************)
beyondNextMonth(p) == p > Now + 1

PreviewMonth(c) ==
  /\ "transfer" \in Ops[c]
  /\ \E p \in Periods :
       /\ preview' = [preview EXCEPT ![c] =
            [period |-> p, rows |-> findAutoTransferMatches(p)]]
       /\ result' = [result EXCEPT ![c] =
            IF preview[c].period = p THEN @ ELSE NotLoaded]
  /\ UNCHANGED <<scheme, claims, minted, handler, page>>

RunAsk(c) ==
  LET view == preview[c] IN
  /\ Uses(c, "transfer")
  /\ view.rows # {} /\ ~beyondNextMonth(view.period)
  /\ result' = [result EXCEPT ![c] = NotLoaded]
  /\ handler' = [handler EXCEPT ![c] =
       [Idle EXCEPT !.op = "match", !.period = view.period,
                    !.rows = findAutoTransferMatches(view.period)]]
  /\ UNCHANGED <<scheme, claims, minted, page, preview>>

(* Inside the transaction: the number of each claim.                       *)
RunCount(c) ==
  LET h == handler[c] IN
  /\ h.op = "match"
  /\ \E refs \in NewRefs(h.rows) :
       handler' = [handler EXCEPT ![c].op = "run", ![c].refs = refs]
  /\ UNCHANGED <<scheme, claims, minted, page, preview, result>>

(* Mutation: the answer names the payback claims of the month's schemes.   *)
MutRunIds(h, made) ==
  {k.id : k \in {k \in claims \cup made :
                   k.type = "PBS" /\ scheme[k.scheme].due = h.period}}

RunIds(h, made) == {k.id : k \in made}

RunCommit(c) ==
  LET h    == handler[c]
      made == Created(h, "PBS", TRUE) IN
  /\ h.op = "run"
  /\ minted < MaxSaves
  /\ claims' = claims \cup made
  /\ minted' = minted + 1
  /\ scheme' = [s \in Schemes |-> IF s \in h.rows
                THEN [scheme[s] EXCEPT !.claimIndc = TRUE] ELSE scheme[s]]
  /\ result' = [result EXCEPT ![c] = [period |-> h.period, ids |-> RunIds(h, made)]]
  /\ preview' = [preview EXCEPT ![c].rows = DueIn(scheme', preview[c].period)]
  /\ handler' = [handler EXCEPT ![c] = Idle]
  /\ UNCHANGED page

(* A lost connection, a failed statement, the end of the process: what has *)
(* been committed stays, the rest of the handler does not run.             *)
Abandon(c) ==
  /\ handler[c] # Idle
  /\ handler' = [handler EXCEPT ![c] = Idle]
  /\ UNCHANGED <<scheme, claims, minted, page, preview, result>>

Next == \E c \in Clerks :
  \/ FetchScheme(c) \/ SchemeSave(c)
  \/ ClaimAsk(c) \/ ClaimRow(c) \/ SetIndicator(c)
  \/ ClaimUpdate(c) \/ ClaimDeleteAsk(c) \/ ClaimDeleteRow(c)
  \/ PreviewMonth(c) \/ RunAsk(c) \/ RunCount(c) \/ RunCommit(c)
  \/ Abandon(c)

Spec == Init /\ [][Next]_vars

-----------------------------------------------------------------------------
(* "Claim #n" names one claim of a scheme: numbers are read before the row *)
(* is created, and numbers of deleted claims are used again.               *)
RefNosUnique ==
  \A j, k \in claims : j.scheme = k.scheme /\ j.refNo = k.refNo => j = k

(* "Excel of the exact PBS claims a run created (identified by claimIds so *)
(* a manually keyed-in PBS claim for the same period is never swept in)",  *)
(* whatever the clerk does to the month on screen while the run is on.     *)
ExportIsTheRun ==
  \A c \in Clerks : result[c] # NotLoaded =>
    \A k \in claims : k.id \in result[c].ids =>
      k.run /\ scheme[k.scheme].due = result[c].period

(* The pay-by-month report announces for a month the sum that the auto-    *)
(* transfer of the month would claim: two queries, one rule.               *)
PayByMonthAgrees ==
  \A p \in Periods :
    totalRM(p) = MapThenSumSet(LAMBDA s : pbsClaimAmount(scheme[s].kind),
                               findAutoTransferMatches(p))

(* "Schemes due to pay back in the given month/year, that are in PBS and   *)
(* not yet claimed": a run adds no claim to a scheme that has a main one.  *)
TransferSkipsClaimed ==
  [][\A k \in claims' \ claims : k.run /\ (\A old \in claims : old.id # k.id) =>
       \A old \in OfScheme(k.scheme) : old.type \notin Main]_vars
=============================================================================
