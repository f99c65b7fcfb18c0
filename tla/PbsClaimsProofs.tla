--------------------------- MODULE PbsClaimsProofs ---------------------------
(***************************************************************************)
(* For every set of schemes, clerks and months: the types of PbsClaims,    *)
(* that a claim number names one claim of its scheme as long as one clerk  *)
(* at most creates claims, that the export of a run is the run, and that   *)
(* the pay-by-month report announces what the run of the month claims.     *)
(***************************************************************************)
EXTENDS PbsClaims, FiniteSetTheorems, WellFoundedInduction, TLAPS

LEMMA IdleTyped == Idle \in Request
  BY FormAssumption DEF Idle, NoRefs, Request, ClaimTypes

LEMMA HandlerTyped ==
  ASSUME TypeOK, NEW c \in Clerks, NEW h \in Request,
         handler' = [handler EXCEPT ![c] = h]
  PROVE  handler' \in [Clerks -> Request]
  BY DEF TypeOK

LEMMA RefsTyped ==
  ASSUME TypeOK, NEW rows, NEW refs \in NewRefs(rows)
  PROVE  refs \in [Schemes -> Nat]
  BY DEF NewRefs, TypeOK

LEMMA CreatedTyped ==
  ASSUME TypeOK, NEW h \in Request, NEW type \in ClaimTypes, NEW isRun \in BOOLEAN
  PROVE  Created(h, type, isRun) \subseteq Claim
  BY DEF Created, TypeOK, Request, Claim, Ids

(* The rows a transaction writes differ from the old in the indicator.     *)
LEMMA IndicatorTyped ==
  ASSUME TypeOK, NEW s \in Schemes, NEW value \in BOOLEAN
  PROVE  [scheme[s] EXCEPT !.claimIndc = value] \in SchemeRow
  BY DEF TypeOK, SchemeRow

LEMMA FlaggedTyped ==
  ASSUME TypeOK, NEW h, NEW value \in BOOLEAN
  PROVE  Flagged(h, value) \in [Schemes -> SchemeRow]
  BY IndicatorTyped DEF Flagged, TypeOK

LEMMA RefreshTyped ==
  ASSUME TypeOK, NEW c \in Clerks, NEW s \in Schemes, Refreshed(c, s),
         scheme' \in [Schemes -> SchemeRow], claims' \subseteq Claim
  PROVE  page' \in [Clerks -> [Schemes -> Copy \cup {NotLoaded}]]
  <1> DEFINE copy == [row |-> scheme'[s],
                      claims |-> {k.id : k \in {k \in claims' : k.scheme = s}}]
  <1>1. copy \in Copy
    BY DEF Copy, Claim
  <1>2. page' = [page EXCEPT ![c][s] = copy]
    BY DEF Refreshed
  <1> HIDE DEF copy
  <1> QED BY <1>1, <1>2 DEF TypeOK

(* One step keeps the types.                                               *)
LEMMA TypeStep ==
  ASSUME TypeOK, [Next]_vars
  PROVE  TypeOK'
  <1> USE DEF server, client
  <1>1. CASE UNCHANGED vars
    BY <1>1 DEF vars, TypeOK
  <1>2. CASE Next
    <2> PICK c \in Clerks :
          \/ FetchScheme(c) \/ SchemeSave(c)
          \/ ClaimAsk(c) \/ ClaimRow(c) \/ SetIndicator(c)
          \/ ClaimUpdate(c) \/ ClaimDeleteAsk(c) \/ ClaimDeleteRow(c)
          \/ PreviewMonth(c) \/ RunAsk(c) \/ RunCount(c) \/ RunCommit(c)
          \/ Abandon(c)
      BY <1>2 DEF Next
    <2>1. CASE FetchScheme(c)
      <3>1. PICK s \in Opened : page' = [page EXCEPT ![c][s] = Fresh(s)]
        BY <2>1 DEF FetchScheme
      <3>2. Fresh(s) \in Copy /\ s \in Schemes
        BY SchemesAssumption DEF Fresh, OfScheme, TypeOK, Copy, Claim
      <3> QED BY <2>1, <3>1, <3>2 DEF FetchScheme, TypeOK
    <2>2. CASE SchemeSave(c)
      <3>1. PICK s \in Schemes, kind \in Kinds :
              /\ page[c][s] # NotLoaded
              /\ scheme' = [scheme EXCEPT ![s] = Saved(page[c][s].row, kind)]
              /\ Refreshed(c, s)
        BY <2>2 DEF SchemeSave
      <3>2. page[c][s] \in Copy
        BY <3>1 DEF TypeOK
      <3>4. Saved(page[c][s].row, kind) \in SchemeRow
        BY <3>2 DEF Saved, Copy, SchemeRow
      <3>3. scheme' \in [Schemes -> SchemeRow] /\ claims' \subseteq Claim
        BY <2>2, <3>1, <3>4 DEF SchemeSave, TypeOK
      <3>5. page' \in [Clerks -> [Schemes -> Copy \cup {NotLoaded}]]
        BY <3>1, <3>3, RefreshTyped
      <3> QED BY <2>2, <3>3, <3>5 DEF SchemeSave, TypeOK
    <2>3. CASE ClaimAsk(c)
      <3>1. PICK s \in Schemes, type \in FormTypes :
              \E refs \in NewRefs({s}) :
                handler' = [handler EXCEPT ![c] = [Idle EXCEPT
                  !.op = "claim", !.rows = {s}, !.type = type, !.refs = refs]]
        BY <2>3 DEF ClaimAsk
      <3>3. PICK refs \in NewRefs({s}) :
              handler' = [handler EXCEPT ![c] = [Idle EXCEPT
                !.op = "claim", !.rows = {s}, !.type = type, !.refs = refs]]
        BY <3>1
      <3>2. refs \in [Schemes -> Nat] /\ type \in ClaimTypes
        BY RefsTyped, FormAssumption
      <3>4. [Idle EXCEPT !.op = "claim", !.rows = {s}, !.type = type, !.refs = refs]
              \in Request
        BY <3>2, IdleTyped DEF Request
      <3>5. handler' \in [Clerks -> Request]
        BY <3>3, <3>4, HandlerTyped
      <3> QED BY <2>3, <3>5 DEF ClaimAsk, TypeOK
    <2>4. CASE ClaimRow(c)
      <3>1. handler[c] \in Request
        BY DEF TypeOK
      <3>2. Created(handler[c], handler[c].type, FALSE) \subseteq Claim
        BY <3>1, CreatedTyped DEF Request
      <3>3. [handler[c] EXCEPT !.op = "flag"] \in Request
        BY <3>1 DEF Request
      <3>4. handler' = [handler EXCEPT ![c] = [handler[c] EXCEPT !.op = "flag"]]
        BY <2>4 DEF ClaimRow
      <3>5. handler' \in [Clerks -> Request]
        BY <3>3, <3>4, HandlerTyped
      <3>6. claims' \subseteq Claim
        <4>1. claims' = claims \cup Created(handler[c], handler[c].type, FALSE)
          BY <2>4 DEF ClaimRow
        <4> QED BY <3>2, <4>1 DEF TypeOK
      <3>7. minted' \in Nat
        BY <2>4 DEF ClaimRow, TypeOK
      <3> QED BY <2>4, <3>5, <3>6, <3>7 DEF ClaimRow, TypeOK
    <2>5. CASE SetIndicator(c)
      <3>1. handler[c] \in Request
        BY DEF TypeOK
      <3>2. scheme' \in [Schemes -> SchemeRow] /\ claims' \subseteq Claim
        <4>1. scheme' = Flagged(handler[c], handler[c].op = "flag") /\ claims' = claims
          BY <2>5 DEF SetIndicator
        <4>2. (handler[c].op = "flag") \in BOOLEAN
          OBVIOUS
        <4>3. Flagged(handler[c], handler[c].op = "flag") \in [Schemes -> SchemeRow]
          BY <4>2, FlaggedTyped
        <4> QED BY <4>1, <4>3 DEF TypeOK
      <3>3. PICK s \in handler[c].rows : Refreshed(c, s)
        BY <2>5 DEF SetIndicator
      <3>4. s \in Schemes
        BY <3>1, <3>3 DEF Request
      <3>5. page' \in [Clerks -> [Schemes -> Copy \cup {NotLoaded}]]
        BY <3>2, <3>3, <3>4, RefreshTyped
      <3>6. handler' = [handler EXCEPT ![c] = Idle] /\ UNCHANGED <<minted, preview, result>>
        BY <2>5 DEF SetIndicator
      <3>7. handler' \in [Clerks -> Request]
        BY <3>6, IdleTyped, HandlerTyped
      <3> QED BY <3>2, <3>5, <3>6, <3>7 DEF TypeOK
    <2>6. CASE ClaimUpdate(c)
      <3>1. PICK s \in Schemes, type \in FormTypes, k \in claims :
              /\ claims' = (claims \ {k}) \cup {[k EXCEPT !.type = type]}
              /\ Refreshed(c, s)
        BY <2>6 DEF ClaimUpdate
      <3>2. claims' \subseteq Claim
        BY <3>1, FormAssumption DEF TypeOK, Claim
      <3>3. scheme' \in [Schemes -> SchemeRow]
        BY <2>6 DEF ClaimUpdate, TypeOK
      <3>4. page' \in [Clerks -> [Schemes -> Copy \cup {NotLoaded}]]
        BY <3>1, <3>2, <3>3, RefreshTyped
      <3> QED BY <2>6, <3>2, <3>4 DEF ClaimUpdate, TypeOK
    <2>7. CASE ClaimDeleteAsk(c)
      <3>1. PICK s \in Schemes, k \in claims :
              handler' = [handler EXCEPT ![c] =
                 [Idle EXCEPT !.op = "delete", !.rows = {s}, !.type = k.type,
                              !.id = k.id]]
        BY <2>7 DEF ClaimDeleteAsk
      <3>2. [Idle EXCEPT !.op = "delete", !.rows = {s}, !.type = k.type, !.id = k.id]
              \in Request
        BY IdleTyped DEF Request, TypeOK, Claim
      <3>3. handler' \in [Clerks -> Request]
        BY <3>1, <3>2, HandlerTyped
      <3> QED BY <2>7, <3>3 DEF ClaimDeleteAsk, TypeOK
    <2>8. CASE ClaimDeleteRow(c)
      <3>1. [handler[c] EXCEPT !.op = "unflag"] \in Request
        BY DEF Request, TypeOK
      <3>2. handler' = [handler EXCEPT ![c] = [handler[c] EXCEPT !.op = "unflag"]]
        BY <2>8 DEF ClaimDeleteRow
      <3>3. handler' \in [Clerks -> Request]
        BY <3>1, <3>2, HandlerTyped
      <3> QED BY <2>8, <3>3 DEF ClaimDeleteRow, TypeOK
    <2>9. CASE PreviewMonth(c)
      <3>1. PICK p \in Periods :
              /\ preview' = [preview EXCEPT ![c] =
                   [period |-> p, rows |-> findAutoTransferMatches(p)]]
              /\ result' = [result EXCEPT ![c] =
                   IF preview[c].period = p THEN @
                   ELSE NotLoaded]
        BY <2>9 DEF PreviewMonth
      <3>2. findAutoTransferMatches(p) \subseteq Schemes /\ p \in Int
        BY FormAssumption DEF findAutoTransferMatches, DueIn
      <3>3. [period |-> p, rows |-> findAutoTransferMatches(p)] \in Preview
        BY <3>2 DEF Preview
      <3>4. preview' \in [Clerks -> Preview]
        BY <3>1, <3>3 DEF TypeOK
      <3>5. result' \in [Clerks -> Result \cup {NotLoaded}]
        BY <3>1 DEF TypeOK
      <3> QED BY <2>9, <3>4, <3>5 DEF PreviewMonth, TypeOK
    <2>10. CASE RunAsk(c)
      <3>1. findAutoTransferMatches(preview[c].period) \subseteq Schemes
        BY DEF findAutoTransferMatches, DueIn
      <3>2. preview[c].period \in Int
        BY <2>10 DEF RunAsk, TypeOK, Preview
      <3> DEFINE h == [Idle EXCEPT !.op = "match", !.period = preview[c].period,
                         !.rows = findAutoTransferMatches(preview[c].period)]
      <3>3. h \in Request
        BY <3>1, <3>2, IdleTyped DEF Request
      <3>4. handler' = [handler EXCEPT ![c] = h]
        BY <2>10 DEF RunAsk
      <3>5. handler' \in [Clerks -> Request]
        <4> HIDE DEF h
        <4> QED BY <3>3, <3>4, HandlerTyped
      <3> QED BY <2>10, <3>5 DEF RunAsk, TypeOK
    <2>11. CASE RunCount(c)
      <3>1. PICK refs \in NewRefs(handler[c].rows) :
              handler' = [handler EXCEPT ![c].op = "run", ![c].refs = refs]
        BY <2>11 DEF RunCount
      <3>2. refs \in [Schemes -> Nat]
        BY RefsTyped
      <3>3. [handler[c] EXCEPT !.op = "run", !.refs = refs] \in Request
        BY <3>2 DEF Request, TypeOK
      <3>4. handler' = [handler EXCEPT ![c] =
                          [handler[c] EXCEPT !.op = "run", !.refs = refs]]
        BY <3>1 DEF TypeOK
      <3>5. handler' \in [Clerks -> Request]
        BY <3>3, <3>4, HandlerTyped
      <3> QED BY <2>11, <3>5 DEF RunCount, TypeOK
    <2>12. CASE RunCommit(c)
      <3> DEFINE made == Created(handler[c], "PBS", TRUE)
      <3>1. handler[c] \in Request
        BY DEF TypeOK
      <3>2. made \subseteq Claim
        <4>1. "PBS" \in ClaimTypes /\ TRUE \in BOOLEAN
          BY DEF ClaimTypes
        <4> QED BY <3>1, <4>1, CreatedTyped
      <3>3. RunIds(handler[c], made) \subseteq Ids
        BY <3>2 DEF RunIds, Claim
      <3> HIDE DEF made
      <3>4. [period |-> handler[c].period, ids |-> RunIds(handler[c], made)] \in Result
        <4>1. handler[c].period \in Int
          BY <3>1 DEF Request
        <4> QED BY <3>3, <4>1 DEF Result
      <3>5. claims' \subseteq Claim /\ minted' \in Nat
        <4>1. claims' = claims \cup made /\ minted' = minted + 1
          BY <2>12 DEF RunCommit, made
        <4>2. minted \in Nat /\ claims \subseteq Claim
          BY DEF TypeOK
        <4> QED BY <3>2, <4>1, <4>2
      <3>6. scheme' \in [Schemes -> SchemeRow]
        <4>1. scheme' = [s \in Schemes |-> IF s \in handler[c].rows
                THEN [scheme[s] EXCEPT !.claimIndc = TRUE] ELSE scheme[s]]
          BY <2>12 DEF RunCommit
        <4>2. \A s \in Schemes : [scheme[s] EXCEPT !.claimIndc = TRUE] \in SchemeRow
          BY IndicatorTyped, TRUE \in BOOLEAN
        <4> QED BY <4>1, <4>2 DEF TypeOK
      <3>7. DueIn(scheme', preview[c].period) \subseteq Schemes
        BY DEF DueIn
      <3>8. preview' = [preview EXCEPT ![c].rows = DueIn(scheme', preview[c].period)]
        BY <2>12 DEF RunCommit
      <3>9. preview' \in [Clerks -> Preview]
        BY <3>7, <3>8 DEF TypeOK, Preview
      <3>10. result' \in [Clerks -> Result \cup {NotLoaded}]
        <4>1. result' = [result EXCEPT ![c] =
                [period |-> handler[c].period, ids |-> RunIds(handler[c], made)]]
          BY <2>12 DEF RunCommit, made
        <4> QED BY <3>4, <4>1 DEF TypeOK
      <3>11. handler' = [handler EXCEPT ![c] = Idle] /\ page' = page
        BY <2>12 DEF RunCommit
      <3>12. handler' \in [Clerks -> Request]
        BY <3>11, IdleTyped, HandlerTyped
      <3> QED BY <3>5, <3>6, <3>9, <3>10, <3>11, <3>12 DEF TypeOK
    <2>13. CASE Abandon(c)
      BY <2>13, IdleTyped DEF Abandon, TypeOK
    <2> QED BY <2>1, <2>2, <2>3, <2>4, <2>5, <2>6, <2>7, <2>8, <2>9, <2>10,
               <2>11, <2>12, <2>13
  <1> QED BY <1>1, <1>2

(* Every table, page and request keeps its type, whatever the clerks do.   *)
THEOREM PbsTypeCorrect == Spec => []TypeOK
  <1>1. Init => TypeOK
    BY SchemesAssumption, FormAssumption, IdleTyped DEF Init, TypeOK, Preview
  <1>2. TypeOK /\ [Next]_vars => TypeOK'
    BY TypeStep
  <1> QED BY <1>1, <1>2, PTL DEF Spec
-----------------------------------------------------------------------------
(***************************************************************************)
(* Claim numbers.  A number is chosen one await before its row is created  *)
(* and nothing checks it then, so the argument needs that all requests     *)
(* that create claims are one clerk's: what the others may do between, to  *)
(* edit or delete claims, leaves the chosen number above all numbers.      *)
(***************************************************************************)
Creates(c) == Ops[c] \cap {"claim", "transfer"} # {}
SingleCreator == \A c, d \in Clerks : Creates(c) /\ Creates(d) => c = d

(* Requests that create claims come from who may send them, and the number *)
(* they hold is above every number of its scheme.                          *)
CreatorHolds ==
  \A c \in Clerks :
    /\ handler[c].op \in {"claim", "match", "run"} => Creates(c)
    /\ handler[c].op \in {"claim", "run"} =>
         \A k \in claims : k.scheme \in handler[c].rows =>
                           k.refNo < handler[c].refs[k.scheme]

NumberInv == TypeOK /\ RefNosUnique /\ CreatorHolds

LEMMA FreshRefs ==
  ASSUME TypeOK, NEW rows, NEW refs \in NewRefs(rows)
  PROVE  \A k \in claims : k.scheme \in rows => k.refNo < refs[k.scheme]
  BY DEF NewRefs, NextRef, RefsOf, OfScheme, TypeOK, Claim

(* Rows created with numbers above those in the table keep them unique.    *)
LEMMA CreatedUnique ==
  ASSUME RefNosUnique, TypeOK, NEW h \in Request, NEW type, NEW isRun,
         \A k \in claims : k.scheme \in h.rows => k.refNo < h.refs[k.scheme],
         claims' = claims \cup Created(h, type, isRun)
  PROVE  RefNosUnique'
  <1> SUFFICES ASSUME NEW j \in claims', NEW k \in claims',
                      j.scheme = k.scheme, j.refNo = k.refNo
               PROVE  j = k
    BY DEF RefNosUnique
  <1>1. CASE j \in claims /\ k \in claims
    BY <1>1 DEF RefNosUnique
  <1>2. ASSUME NEW m \in claims, NEW n \in Created(h, type, isRun),
               m.scheme = n.scheme
        PROVE  m.refNo # n.refNo
    <2>1. n.scheme \in h.rows /\ n.refNo = h.refs[n.scheme]
      BY DEF Created
    <2>2. m.refNo \in Nat /\ h.refs[n.scheme] \in Nat
      BY <2>1 DEF TypeOK, Claim, Request
    <2> QED BY <1>2, <2>1, <2>2
  <1>3. CASE j \in Created(h, type, isRun) /\ k \in Created(h, type, isRun)
    BY <1>3 DEF Created
  <1> QED BY <1>1, <1>2, <1>3

LEMMA NumberStep ==
  ASSUME SingleCreator, NumberInv, [Next]_vars
  PROVE  RefNosUnique' /\ CreatorHolds'
  <1>1. CASE UNCHANGED vars
    BY <1>1 DEF NumberInv, vars, server, client, RefNosUnique, CreatorHolds
  <1>2. CASE Next
    <2> USE DEF NumberInv
    <2> PICK c \in Clerks :
          \/ FetchScheme(c) \/ SchemeSave(c)
          \/ ClaimAsk(c) \/ ClaimRow(c) \/ SetIndicator(c)
          \/ ClaimUpdate(c) \/ ClaimDeleteAsk(c) \/ ClaimDeleteRow(c)
          \/ PreviewMonth(c) \/ RunAsk(c) \/ RunCount(c) \/ RunCommit(c)
          \/ Abandon(c)
      BY <1>2 DEF Next
    <2>1. CASE claims' = claims /\ handler' = handler
      BY <2>1 DEF RefNosUnique, CreatorHolds
    (* A new request that holds no number, or has just chosen one.         *)
    <2>2. ASSUME NEW h, claims' = claims, handler' = [handler EXCEPT ![c] = h],
                 h.op \in {"claim", "match", "run"} => Creates(c),
                 h.op \in {"claim", "run"} =>
                   \A k \in claims : k.scheme \in h.rows => k.refNo < h.refs[k.scheme]
          PROVE  RefNosUnique' /\ CreatorHolds'
      <3>1. \A d \in Clerks : handler'[d] = IF d = c THEN h ELSE handler[d]
        BY <2>2 DEF TypeOK
      <3> QED BY <2>2, <3>1 DEF RefNosUnique, CreatorHolds
    (* Claims are created: no other request holds a number.                *)
    <2>3. ASSUME NEW type, NEW isRun, NEW h, Creates(c),
                 handler[c].op \in {"claim", "run"},
                 claims' = claims \cup Created(handler[c], type, isRun),
                 handler' = [handler EXCEPT ![c] = h],
                 h.op \notin {"claim", "match", "run"}
          PROVE  RefNosUnique' /\ CreatorHolds'
      <3>1. handler[c] \in Request
        BY DEF TypeOK
      <3>2. RefNosUnique'
        BY <2>3, <3>1, CreatedUnique DEF CreatorHolds
      <3>3. \A d \in Clerks : handler'[d] = IF d = c THEN h ELSE handler[d]
        BY <2>3 DEF TypeOK
      <3>4. \A d \in Clerks : d # c => handler[d].op \notin {"claim", "match", "run"}
        BY <2>3 DEF SingleCreator, CreatorHolds, Creates
      <3> QED BY <2>3, <3>2, <3>3, <3>4 DEF CreatorHolds
    (* Claims are changed or deleted: no number is new.                    *)
    <2>4. ASSUME handler' = handler \/ \E h : /\ handler' = [handler EXCEPT ![c] = h]
                                             /\ h.op \notin {"claim", "match", "run"},
                 \A k \in claims' : \E j \in claims :
                   j.scheme = k.scheme /\ j.refNo = k.refNo
          PROVE  CreatorHolds'
      <3>1. \A d \in Clerks : \/ handler'[d] = handler[d]
                              \/ handler'[d].op \notin {"claim", "match", "run"}
        BY <2>4 DEF TypeOK
      <3> QED BY <2>4, <3>1 DEF CreatorHolds
    <2>5. CASE FetchScheme(c)
      BY <2>1, <2>5 DEF FetchScheme
    <2>6. CASE SchemeSave(c)
      BY <2>1, <2>6 DEF SchemeSave
    <2>7. CASE ClaimAsk(c)
      <3>1. PICK s \in Schemes, type \in FormTypes :
              \E refs \in NewRefs({s}) :
                handler' = [handler EXCEPT ![c] = [Idle EXCEPT
                  !.op = "claim", !.rows = {s}, !.type = type, !.refs = refs]]
        BY <2>7 DEF ClaimAsk
      <3>2. PICK refs \in NewRefs({s}) :
              handler' = [handler EXCEPT ![c] = [Idle EXCEPT
                !.op = "claim", !.rows = {s}, !.type = type, !.refs = refs]]
        BY <3>1
      <3> DEFINE h == [Idle EXCEPT !.op = "claim", !.rows = {s}, !.type = type,
                                   !.refs = refs]
      <3>3. h.rows = {s} /\ h.refs = refs
        BY DEF Idle
      <3>4. \A k \in claims : k.scheme \in h.rows => k.refNo < h.refs[k.scheme]
        BY <3>3, FreshRefs
      <3>5. claims' = claims /\ handler' = [handler EXCEPT ![c] = h]
        BY <2>7, <3>2 DEF ClaimAsk
      <3>6. Creates(c)
        BY <2>7 DEF ClaimAsk, Uses, Creates
      <3> HIDE DEF h
      <3> QED BY <2>2, <3>4, <3>5, <3>6
    <2>8. CASE ClaimRow(c)
      <3> DEFINE h == [handler[c] EXCEPT !.op = "flag"]
      <3>1. h.op = "flag"
        BY DEF TypeOK, Request
      <3>2. handler' = [handler EXCEPT ![c] = h]
        BY <2>8 DEF ClaimRow
      <3>3. /\ handler[c].op \in {"claim", "run"}
            /\ claims' = claims \cup Created(handler[c], handler[c].type, FALSE)
        BY <2>8 DEF ClaimRow
      <3>4. Creates(c)
        BY <3>3 DEF CreatorHolds
      <3> HIDE DEF h
      <3> QED BY <2>3, <3>1, <3>2, <3>3, <3>4
    <2>9. CASE SetIndicator(c)
      <3>1. claims' = claims /\ handler' = [handler EXCEPT ![c] = Idle]
        BY <2>9 DEF SetIndicator
      <3>2. Idle.op = "idle"
        BY DEF Idle
      <3> QED BY <2>2, <3>1, <3>2
    <2>10. CASE ClaimUpdate(c)
      <3>1. PICK type \in FormTypes, k \in claims :
              claims' = (claims \ {k}) \cup {[k EXCEPT !.type = type]}
        BY <2>10 DEF ClaimUpdate
      <3> DEFINE new == [k EXCEPT !.type = type]
      <3>2. new.scheme = k.scheme /\ new.refNo = k.refNo
        BY DEF TypeOK, Claim
      <3>3. handler' = handler /\ claims' = (claims \ {k}) \cup {new}
        BY <2>10, <3>1 DEF ClaimUpdate
      <3> HIDE DEF new
      <3>4. RefNosUnique'
        BY <3>2, <3>3 DEF RefNosUnique
      <3> QED BY <2>4, <3>2, <3>3, <3>4
    <2>11. CASE ClaimDeleteAsk(c)
      <3>1. PICK s \in Schemes, k \in claims :
              handler' = [handler EXCEPT ![c] =
                 [Idle EXCEPT !.op = "delete", !.rows = {s}, !.type = k.type,
                              !.id = k.id]]
        BY <2>11 DEF ClaimDeleteAsk
      <3> DEFINE h == [Idle EXCEPT !.op = "delete", !.rows = {s}, !.type = k.type,
                              !.id = k.id]
      <3>2. h.op = "delete"
        BY DEF Idle
      <3>3. claims' = claims /\ handler' = [handler EXCEPT ![c] = h]
        BY <2>11, <3>1 DEF ClaimDeleteAsk
      <3> HIDE DEF h
      <3> QED BY <2>2, <3>2, <3>3
    <2>12. CASE ClaimDeleteRow(c)
      <3> DEFINE h == [handler[c] EXCEPT !.op = "unflag"]
      <3>1. h.op = "unflag"
        BY DEF TypeOK, Request
      <3>2. handler' = [handler EXCEPT ![c] = h] /\ claims' \subseteq claims
        BY <2>12 DEF ClaimDeleteRow
      <3> HIDE DEF h
      <3>3. RefNosUnique'
        BY <3>2 DEF RefNosUnique
      <3> QED BY <2>4, <3>1, <3>2, <3>3
    <2>13. CASE PreviewMonth(c)
      BY <2>1, <2>13 DEF PreviewMonth
    <2>14. CASE RunAsk(c)
      <3> DEFINE h == [Idle EXCEPT !.op = "match", !.period = preview[c].period,
                         !.rows = findAutoTransferMatches(preview[c].period)]
      <3>1. h.op = "match"
        BY DEF Idle
      <3>2. claims' = claims /\ handler' = [handler EXCEPT ![c] = h]
        BY <2>14 DEF RunAsk
      <3>3. Creates(c)
        BY <2>14 DEF RunAsk, Uses, Creates
      <3> HIDE DEF h
      <3> QED BY <2>2, <3>1, <3>2, <3>3
    <2>15. CASE RunCount(c)
      <3>1. PICK refs \in NewRefs(handler[c].rows) :
              handler' = [handler EXCEPT ![c].op = "run", ![c].refs = refs]
        BY <2>15 DEF RunCount
      <3> DEFINE h == [handler[c] EXCEPT !.op = "run", !.refs = refs]
      <3>2. h.rows = handler[c].rows /\ h.refs = refs
        BY DEF TypeOK, Request
      <3>3. \A k \in claims : k.scheme \in h.rows => k.refNo < h.refs[k.scheme]
        BY <3>2, FreshRefs
      <3>4. Creates(c)
        BY <2>15 DEF RunCount, CreatorHolds
      <3>5. handler' = [handler EXCEPT ![c] = h]
        BY <3>1 DEF TypeOK
      <3>6. claims' = claims
        BY <2>15 DEF RunCount
      <3> HIDE DEF h
      <3> QED BY <2>2, <3>3, <3>4, <3>5, <3>6
    <2>16. CASE RunCommit(c)
      <3>1. /\ handler[c].op \in {"claim", "run"}
            /\ claims' = claims \cup Created(handler[c], "PBS", TRUE)
            /\ handler' = [handler EXCEPT ![c] = Idle]
        BY <2>16 DEF RunCommit
      <3>2. Creates(c)
        BY <3>1 DEF CreatorHolds
      <3>3. Idle.op = "idle"
        BY DEF Idle
      <3> QED BY <2>3, <3>1, <3>2, <3>3
    <2>17. CASE Abandon(c)
      <3>1. claims' = claims /\ handler' = [handler EXCEPT ![c] = Idle]
        BY <2>17 DEF Abandon
      <3>2. Idle.op = "idle"
        BY DEF Idle
      <3> QED BY <2>2, <3>1, <3>2
    <2> QED BY <2>5, <2>6, <2>7, <2>8, <2>9, <2>10, <2>11, <2>12, <2>13, <2>14,
               <2>15, <2>16, <2>17
  <1> QED BY <1>1, <1>2

(* If the claims of the system are created by one clerk, "Claim #n" names  *)
(* one claim of a scheme for ever, whatever the others edit and delete.    *)
THEOREM ClaimNumbersUnique == SingleCreator => (Spec => []RefNosUnique)
  <1> SUFFICES ASSUME SingleCreator PROVE Spec => []RefNosUnique
    OBVIOUS
  <1>1. Init => NumberInv
    BY SchemesAssumption, FormAssumption, IdleTyped
       DEF Init, NumberInv, TypeOK, Preview, RefNosUnique, CreatorHolds, Idle
  <1>2. NumberInv /\ [Next]_vars => NumberInv'
    BY TypeStep, NumberStep DEF NumberInv
  <1>3. NumberInv => RefNosUnique
    BY DEF NumberInv
  <1> QED BY <1>1, <1>2, <1>3, PTL DEF Spec
-----------------------------------------------------------------------------
(***************************************************************************)
(* The export of a run.  It names the claims of the run by id and the      *)
(* month by the request; between them stand other runs, deletions, edits   *)
(* of the claims and saves of the schemes from stale pages.                *)
(***************************************************************************)
(* No save moves a payback date: the page sends back the one it was given. *)
DueStays ==
  /\ \A s \in Schemes : scheme[s].due = Registered[s].due
  /\ \A c \in Clerks, s \in Schemes :
       page[c][s] # NotLoaded => page[c][s].row.due = Registered[s].due

(* A run holds schemes that are due in its month.                          *)
RunIsDue ==
  \A c \in Clerks : handler[c].op \in {"match", "run"} =>
    \A s \in handler[c].rows : Registered[s].due = handler[c].period

(* Ids are handed out in order, and none twice.                            *)
IdsBehind ==
  /\ \A k \in claims : k.id[1] < minted
  /\ \A c \in Clerks : result[c] # NotLoaded => \A id \in result[c].ids : id[1] < minted

RunInv == TypeOK /\ DueStays /\ RunIsDue /\ IdsBehind /\ ExportIsTheRun

(* Steps that create no claim and answer no run.                           *)
Known ==
  /\ minted' = minted
  /\ \A k \in claims' : \E j \in claims :
       k.id = j.id /\ k.scheme = j.scheme /\ k.run = j.run
  /\ \A c \in Clerks : result'[c] \in {result[c], NotLoaded}

LEMMA KnownKeeps ==
  ASSUME RunInv, DueStays', RunIsDue', TypeOK', Known
  PROVE  RunInv'
  <1>1. IdsBehind'
    BY DEF RunInv, IdsBehind, Known
  <1>2. ExportIsTheRun'
    <2> SUFFICES ASSUME NEW c \in Clerks, result'[c] # NotLoaded,
                        NEW k \in claims', k.id \in result'[c].ids
                 PROVE  k.run /\ scheme'[k.scheme].due = result'[c].period
      BY DEF ExportIsTheRun
    <2>1. result'[c] = result[c]
      BY DEF Known
    <2>2. PICK j \in claims : k.id = j.id /\ k.scheme = j.scheme /\ k.run = j.run
      BY DEF Known
    <2>3. j.run /\ scheme[j.scheme].due = result[c].period /\ j.scheme \in Schemes
      BY <2>1, <2>2 DEF RunInv, ExportIsTheRun, TypeOK, Claim
    <2>4. scheme'[j.scheme].due = scheme[j.scheme].due
      BY <2>3 DEF RunInv, DueStays
    <2> QED BY <2>1, <2>2, <2>3, <2>4
  <1> QED BY <1>1, <1>2 DEF RunInv

(* Claims are created: their ids are new.                                  *)
LEMMA NewIds ==
  ASSUME RunInv, NEW c \in Clerks, NEW type, NEW isRun,
         claims' = claims \cup Created(handler[c], type, isRun), minted' = minted + 1
  PROVE  /\ \A k \in claims' : k.id[1] < minted'
         /\ \A d \in Clerks : result[d] # NotLoaded =>
              /\ \A id \in result[d].ids : id[1] < minted'
              /\ \A k \in claims' : k.id \in result[d].ids => k \in claims
  <1>1. minted \in Nat /\ \A k \in claims : k.id[1] \in Nat
    BY DEF RunInv, TypeOK, Claim, Ids
  <1>2. ASSUME NEW d \in Clerks, result[d] # NotLoaded, NEW id \in result[d].ids
        PROVE  id[1] < minted' /\ id[1] # minted
    <2>1. id \in Nat \X Schemes
      BY <1>2 DEF RunInv, TypeOK, Result, Ids
    <2>2. id[1] \in Nat /\ id[1] < minted
      BY <1>2, <2>1 DEF RunInv, IdsBehind
    <2> QED BY <1>1, <2>2
  <1>3. \A k \in Created(handler[c], type, isRun) : k.id[1] = minted
    BY DEF Created
  <1> QED BY <1>1, <1>2, <1>3 DEF RunInv, IdsBehind

(* A page that is refreshed, or filled, from schemes that stay due.        *)
LEMMA RefreshedDue ==
  ASSUME RunInv, NEW c \in Clerks, NEW s \in Schemes, Refreshed(c, s),
         \A x \in Schemes : scheme'[x].due = scheme[x].due
  PROVE  DueStays'
  <1> DEFINE copy == [row |-> scheme'[s],
                      claims |-> {k.id : k \in {k \in claims' : k.scheme = s}}]
  <1>1. copy.row.due = Registered[s].due
    BY DEF RunInv, DueStays
  <1>2. page' = [page EXCEPT ![c][s] = copy]
    BY DEF Refreshed
  <1> HIDE DEF copy
  <1>3. \A d \in Clerks, x \in Schemes :
          page'[d][x] = IF d = c /\ x = s THEN copy ELSE page[d][x]
    BY <1>2 DEF RunInv, TypeOK
  <1> QED BY <1>1, <1>3 DEF RunInv, DueStays

(* A request that is no run, or goes on with one.                          *)
LEMMA RunRequest ==
  ASSUME RunInv, NEW c \in Clerks, NEW h, handler' = [handler EXCEPT ![c] = h],
         h.op \in {"match", "run"} =>
           \A s \in h.rows : Registered[s].due = h.period
  PROVE  RunIsDue'
  <1>1. \A d \in Clerks : handler'[d] = IF d = c THEN h ELSE handler[d]
    BY DEF RunInv, TypeOK
  <1> QED BY <1>1 DEF RunInv, RunIsDue

LEMMA RunStep ==
  ASSUME RunInv, [Next]_vars
  PROVE  RunInv'
  <1>1. TypeOK'
    BY TypeStep DEF RunInv
  <1>2. CASE UNCHANGED vars
    BY <1>1, <1>2, KnownKeeps
       DEF vars, RunInv, DueStays, RunIsDue, Known
  <1>3. CASE Next
    <2> PICK c \in Clerks :
          \/ FetchScheme(c) \/ SchemeSave(c)
          \/ ClaimAsk(c) \/ ClaimRow(c) \/ SetIndicator(c)
          \/ ClaimUpdate(c) \/ ClaimDeleteAsk(c) \/ ClaimDeleteRow(c)
          \/ PreviewMonth(c) \/ RunAsk(c) \/ RunCount(c) \/ RunCommit(c)
          \/ Abandon(c)
      BY <1>3 DEF Next
    <2> DEFINE SameSchemes == scheme' = scheme /\ page' = page
               SameClaims == claims' \subseteq claims /\ minted' = minted
               SameResults == result' = result
    <2>1. SameSchemes => DueStays'
      BY DEF RunInv, DueStays
    <2>2. SameClaims /\ SameResults => Known
      BY DEF Known
    <2>3. handler[c] \in Request /\ Idle.op = "idle"
      BY DEF RunInv, TypeOK, Idle
    <2>4. handler' = handler => RunIsDue'
      BY DEF RunInv, RunIsDue
    <2>5. handler' = [handler EXCEPT ![c] = Idle] => RunIsDue'
      BY <2>3, RunRequest
    <2>6. CASE FetchScheme(c)
      <3>1. PICK s \in Opened : page' = [page EXCEPT ![c][s] = Fresh(s)]
        BY <2>6 DEF FetchScheme
      <3>2. s \in Schemes /\ Fresh(s).row = scheme[s] /\ scheme' = scheme
        BY <2>6, SchemesAssumption DEF Fresh, FetchScheme
      <3>3. \A d \in Clerks, x \in Schemes :
              page'[d][x] = IF d = c /\ x = s THEN Fresh(s) ELSE page[d][x]
        BY <3>1, <3>2 DEF RunInv, TypeOK
      <3>4. DueStays'
        BY <3>2, <3>3 DEF RunInv, DueStays
      <3> QED BY <1>1, <2>2, <2>4, <2>6, <3>4, KnownKeeps DEF FetchScheme
    <2>7. CASE SchemeSave(c)
      <3>1. PICK s \in Schemes, kind \in Kinds :
              /\ page[c][s] # NotLoaded
              /\ scheme' = [scheme EXCEPT ![s] = Saved(page[c][s].row, kind)]
              /\ Refreshed(c, s)
        BY <2>7 DEF SchemeSave
      <3>2. page[c][s].row \in SchemeRow
        BY <3>1 DEF RunInv, TypeOK, Copy
      <3>3. Saved(page[c][s].row, kind).due = Registered[s].due
        BY <3>1, <3>2 DEF Saved, SchemeRow, RunInv, DueStays
      <3>4. \A x \in Schemes : scheme'[x].due = scheme[x].due
        BY <3>1, <3>3 DEF RunInv, TypeOK, DueStays
      <3>5. DueStays'
        BY <3>1, <3>4, RefreshedDue
      <3> QED BY <1>1, <2>2, <2>4, <2>7, <3>5, KnownKeeps DEF SchemeSave
    <2>8. CASE ClaimAsk(c)
      <3>1. PICK s \in Schemes, type \in FormTypes : \E refs \in NewRefs({s}) :
              handler' = [handler EXCEPT ![c] = [Idle EXCEPT
                !.op = "claim", !.rows = {s}, !.type = type, !.refs = refs]]
        BY <2>8 DEF ClaimAsk
      <3>2. PICK refs \in NewRefs({s}) :
              handler' = [handler EXCEPT ![c] = [Idle EXCEPT
                !.op = "claim", !.rows = {s}, !.type = type, !.refs = refs]]
        BY <3>1
      <3> DEFINE h == [Idle EXCEPT !.op = "claim", !.rows = {s}, !.type = type,
                                   !.refs = refs]
      <3>3. h.op = "claim" /\ handler' = [handler EXCEPT ![c] = h]
        BY <3>2 DEF Idle
      <3>4. RunIsDue'
        <4> HIDE DEF h
        <4> QED BY <3>3, RunRequest
      <3> QED BY <1>1, <2>1, <2>2, <2>8, <3>4, KnownKeeps DEF ClaimAsk
    <2>9. CASE ClaimRow(c)
      <3> DEFINE h == [handler[c] EXCEPT !.op = "flag"]
      <3>1. /\ claims' = claims \cup Created(handler[c], handler[c].type, FALSE)
            /\ minted' = minted + 1 /\ handler' = [handler EXCEPT ![c] = h]
            /\ UNCHANGED <<scheme, page, result>>
        BY <2>9 DEF ClaimRow
      <3>2. h.op = "flag"
        BY <2>3 DEF Request
      <3>3. RunIsDue'
        <4> HIDE DEF h
        <4> QED BY <3>1, <3>2, RunRequest
      <3>4. IdsBehind'
        BY <3>1, NewIds DEF IdsBehind
      <3>5. ExportIsTheRun'
        BY <3>1, NewIds DEF RunInv, ExportIsTheRun
      <3> QED BY <1>1, <2>1, <3>1, <3>3, <3>4, <3>5 DEF RunInv
    <2>10. CASE SetIndicator(c)
      <3>1. PICK s \in handler[c].rows : Refreshed(c, s)
        BY <2>10 DEF SetIndicator
      <3>2. s \in Schemes
        BY <2>3, <3>1 DEF Request
      <3>3. \A x \in Schemes : scheme'[x].due = scheme[x].due
        BY <2>10 DEF SetIndicator, Flagged, RunInv, TypeOK, SchemeRow
      <3>4. DueStays'
        BY <3>1, <3>2, <3>3, RefreshedDue
      <3> QED BY <1>1, <2>2, <2>5, <2>10, <3>4, KnownKeeps DEF SetIndicator
    <2>11. CASE ClaimUpdate(c)
      <3>1. PICK s \in Schemes, type \in FormTypes, k \in claims :
              /\ claims' = (claims \ {k}) \cup {[k EXCEPT !.type = type]}
              /\ Refreshed(c, s) /\ scheme' = scheme /\ minted' = minted
        BY <2>11 DEF ClaimUpdate
      <3> DEFINE new == [k EXCEPT !.type = type]
      <3>2. new.id = k.id /\ new.scheme = k.scheme /\ new.run = k.run
        BY DEF RunInv, TypeOK, Claim
      <3>3. Known
        <4>1. claims' = (claims \ {k}) \cup {new}
          BY <3>1
        <4> HIDE DEF new
        <4> QED BY <2>11, <3>1, <3>2, <4>1 DEF Known, ClaimUpdate
      <3>4. DueStays'
        BY <3>1, RefreshedDue
      <3> QED BY <1>1, <2>4, <2>11, <3>3, <3>4, KnownKeeps DEF ClaimUpdate
    <2>12. CASE ClaimDeleteAsk(c)
      <3>1. PICK s \in Schemes, k \in claims :
              handler' = [handler EXCEPT ![c] =
                [Idle EXCEPT !.op = "delete", !.rows = {s}, !.type = k.type, !.id = k.id]]
        BY <2>12 DEF ClaimDeleteAsk
      <3> DEFINE h == [Idle EXCEPT !.op = "delete", !.rows = {s}, !.type = k.type,
                                   !.id = k.id]
      <3>2. h.op = "delete" /\ handler' = [handler EXCEPT ![c] = h]
        BY <3>1 DEF Idle
      <3>3. RunIsDue'
        <4> HIDE DEF h
        <4> QED BY <3>2, RunRequest
      <3> QED BY <1>1, <2>1, <2>2, <2>12, <3>3, KnownKeeps DEF ClaimDeleteAsk
    <2>13. CASE ClaimDeleteRow(c)
      <3> DEFINE h == [handler[c] EXCEPT !.op = "unflag"]
      <3>1. h.op = "unflag" /\ handler' = [handler EXCEPT ![c] = h]
        BY <2>3, <2>13 DEF ClaimDeleteRow, Request
      <3>2. RunIsDue'
        <4> HIDE DEF h
        <4> QED BY <3>1, RunRequest
      <3> QED BY <1>1, <2>1, <2>2, <2>13, <3>2, KnownKeeps DEF ClaimDeleteRow
    <2>14. CASE PreviewMonth(c)
      <3>1. \A d \in Clerks : result'[d] \in {result[d], NotLoaded}
        BY <2>14 DEF PreviewMonth, RunInv, TypeOK
      <3> QED BY <1>1, <2>1, <2>4, <2>14, <3>1, KnownKeeps DEF PreviewMonth, Known
    <2>15. CASE RunAsk(c)
      <3> DEFINE h == [Idle EXCEPT !.op = "match", !.period = preview[c].period,
                         !.rows = findAutoTransferMatches(preview[c].period)]
      <3>1. /\ handler' = [handler EXCEPT ![c] = h]
            /\ h.period = preview[c].period
            /\ h.rows = findAutoTransferMatches(preview[c].period)
        BY <2>15 DEF RunAsk, Idle
      <3>2. \A s \in h.rows : Registered[s].due = h.period
        BY <3>1 DEF findAutoTransferMatches, DueIn, RunInv, DueStays
      <3>3. RunIsDue'
        <4> HIDE DEF h
        <4> QED BY <3>1, <3>2, RunRequest
      <3>4. Known
        BY <2>15 DEF RunAsk, RunInv, TypeOK, Known
      <3> QED BY <1>1, <2>1, <2>15, <3>3, <3>4, KnownKeeps DEF RunAsk
    <2>16. CASE RunCount(c)
      <3>1. PICK refs : handler' = [handler EXCEPT ![c].op = "run", ![c].refs = refs]
        BY <2>16 DEF RunCount
      <3> DEFINE h == [handler[c] EXCEPT !.op = "run", !.refs = refs]
      <3>2. h.rows = handler[c].rows /\ h.period = handler[c].period
        BY <2>3 DEF Request
      <3>3. handler' = [handler EXCEPT ![c] = h]
        BY <3>1 DEF RunInv, TypeOK
      <3>4. \A s \in h.rows : Registered[s].due = h.period
        BY <2>16, <3>2 DEF RunCount, RunInv, RunIsDue
      <3>5. RunIsDue'
        <4> HIDE DEF h
        <4> QED BY <3>3, <3>4, RunRequest
      <3> QED BY <1>1, <2>1, <2>2, <2>16, <3>5, KnownKeeps DEF RunCount
    <2>17. CASE RunCommit(c)
      <3> DEFINE made == Created(handler[c], "PBS", TRUE)
                 answer == [period |-> handler[c].period, ids |-> {k.id : k \in made}]
      <3>1. /\ handler[c].op = "run"
            /\ claims' = claims \cup made /\ minted' = minted + 1
            /\ page' = page /\ handler' = [handler EXCEPT ![c] = Idle]
            /\ result' = [result EXCEPT ![c] = answer]
        BY <2>17 DEF RunCommit, RunIds
      <3>2. \A d \in Clerks : result'[d] = IF d = c THEN answer ELSE result[d]
        <4> HIDE DEF answer
        <4> QED BY <3>1 DEF RunInv, TypeOK
      <3>3. \A s \in Schemes : scheme'[s].due = scheme[s].due
        BY <2>17 DEF RunCommit, RunInv, TypeOK, SchemeRow
      <3>4. DueStays'
        BY <3>1, <3>3 DEF RunInv, DueStays
      <3>5. \A k \in made : /\ k.id[1] = minted /\ k.run /\ k.scheme \in Schemes
                            /\ Registered[k.scheme].due = handler[c].period
        BY <2>3, <3>1 DEF Created, Request, RunInv, RunIsDue
      <3>6. minted \in Nat /\ answer.ids = {k.id : k \in made}
        BY DEF RunInv, TypeOK
      <3>7. /\ \A k \in claims' : k.id[1] < minted'
            /\ \A d \in Clerks : result[d] # NotLoaded =>
                 /\ \A id \in result[d].ids : id[1] < minted'
                 /\ \A k \in claims' : k.id \in result[d].ids => k \in claims
        BY <3>1, NewIds
      <3>8. IdsBehind'
        <4> HIDE DEF answer, made
        <4>1. \A id \in answer.ids : id[1] < minted'
          BY <3>1, <3>5, <3>6
        <4> QED BY <3>1, <3>2, <3>6, <3>7, <4>1 DEF RunInv, IdsBehind
      <3>9. ExportIsTheRun'
        <4> SUFFICES ASSUME NEW d \in Clerks, result'[d] # NotLoaded,
                            NEW k \in claims', k.id \in result'[d].ids
                     PROVE  k.run /\ scheme'[k.scheme].due = result'[d].period
          BY DEF ExportIsTheRun
        <4>1. CASE d = c
          <5>0. answer.period = handler[c].period
            OBVIOUS
          <5> HIDE DEF made, answer
          <5>1. k.id \in answer.ids /\ result'[d].period = handler[c].period
            BY <3>2, <4>1, <5>0
          <5>2. \E j \in made : j.id = k.id
            BY <3>6, <5>1
          <5>3. k \in made
            <6>1. \A j \in claims : j.id[1] < minted /\ j.id[1] \in Nat
              BY DEF RunInv, IdsBehind, TypeOK, Claim, Ids
            <6>2. k.id[1] = minted
              BY <3>5, <5>2
            <6>3. k \notin claims
              BY <3>6, <6>1, <6>2
            <6> QED BY <3>1, <6>3
          <5> QED BY <3>3, <3>5, <5>1, <5>3 DEF RunInv, DueStays
        <4>2. CASE d # c
          <5>1. result'[d] = result[d]
            BY <3>2, <4>2
          <5>2. k \in claims /\ k.scheme \in Schemes
            BY <3>7, <5>1 DEF RunInv, TypeOK, Claim
          <5> QED BY <3>3, <5>1, <5>2 DEF RunInv, ExportIsTheRun
        <4> QED BY <4>1, <4>2
      <3> QED BY <1>1, <2>5, <3>1, <3>4, <3>8, <3>9 DEF RunInv
    <2>18. CASE Abandon(c)
      BY <1>1, <2>1, <2>2, <2>5, <2>18, KnownKeeps DEF Abandon
    <2> QED BY <2>6, <2>7, <2>8, <2>9, <2>10, <2>11, <2>12, <2>13, <2>14, <2>15,
               <2>16, <2>17, <2>18
  <1> QED BY <1>2, <1>3

(* "Excel of the exact PBS claims a run created": what a result names is   *)
(* that run's and of its month, however many clerks run, key in, edit and  *)
(* delete claims, or save schemes from stale pages, at the same time.      *)
THEOREM ExportsAreRuns == Spec => []ExportIsTheRun
  <1>1. Init => RunInv
    BY SchemesAssumption, FormAssumption, IdleTyped
       DEF Init, RunInv, TypeOK, Preview, DueStays, RunIsDue, IdsBehind, ExportIsTheRun, Idle
  <1>2. RunInv /\ [Next]_vars => RunInv'
    BY RunStep
  <1>3. RunInv => ExportIsTheRun
    BY DEF RunInv
  <1> QED BY <1>1, <1>2, <1>3, PTL DEF Spec
-----------------------------------------------------------------------------
(***************************************************************************)
(* The pay-by-month report.  The sum of the transfer is a fold over a      *)
(* finite set, whose value no step unfolds: what the fold computes is      *)
(* shown by the smallest set at which it would differ from the totals of   *)
(* the report.                                                             *)
(***************************************************************************)
Pick(S) == CHOOSE x \in S : TRUE
Amount(s) == pbsClaimAmount(scheme[s].kind)

(* What MapThenSumSet chooses: a table of the sums of the subsets.         *)
Adds(sums, S) ==
  sums = [T \in SUBSET S |->
            IF T = {} THEN 0 ELSE Amount(Pick(T)) + sums[T \ {Pick(T)}]]

(* The totals of the report, of any schemes.                               *)
OfKind(T, kind) == {s \in T : scheme[s].kind = kind}
Worth(T) == Cardinality(OfKind(T, "19K")) * 19000 + Cardinality(OfKind(T, "21K")) * 21000

(* A non-empty set of subsets of a finite set has a smallest one.          *)
LEMMA SmallestSubset ==
  ASSUME NEW S, IsFiniteSet(S), NEW U, U \subseteq SUBSET S, U # {}
  PROVE  \E T \in U : \A V \in U : ~(V \subseteq T /\ V # T)
  <1>1. IsWellFoundedOn(StrictSubsetOrdering(S), FiniteSubsetsOf(S))
    BY FS_StrictSubsetOrderingWellFounded
  <1>2. U \subseteq FiniteSubsetsOf(S)
    BY FS_Subset DEF FiniteSubsetsOf
  <1>3. PICK T \in U : \A V \in U : ~(<<V, T>> \in StrictSubsetOrdering(S))
    BY <1>1, <1>2, WFMin
  <1> QED BY <1>3 DEF StrictSubsetOrdering

(* One scheme less counts one less of its kind, and none of another.       *)
LEMMA OneLess ==
  ASSUME NEW T, IsFiniteSet(T), NEW x \in T, NEW kind
  PROVE  /\ Cardinality(OfKind(T, kind)) \in Nat
         /\ Cardinality(OfKind(T \ {x}, kind)) \in Nat
         /\ Cardinality(OfKind(T, kind)) = Cardinality(OfKind(T \ {x}, kind))
              + (IF scheme[x].kind = kind THEN 1 ELSE 0)
  <1>1. IsFiniteSet(OfKind(T, kind)) /\ IsFiniteSet(OfKind(T \ {x}, kind))
    <2>1. OfKind(T, kind) \subseteq T /\ OfKind(T \ {x}, kind) \subseteq T
      BY DEF OfKind
    <2> QED BY <2>1, FS_Subset
  <1>2. /\ Cardinality(OfKind(T, kind)) \in Nat
        /\ Cardinality(OfKind(T \ {x}, kind)) \in Nat
    BY <1>1, FS_CardinalityType
  <1>3. CASE scheme[x].kind = kind
    <2>1. OfKind(T \ {x}, kind) = OfKind(T, kind) \ {x} /\ x \in OfKind(T, kind)
      BY <1>3 DEF OfKind
    <2>2. Cardinality(OfKind(T, kind) \ {x}) = Cardinality(OfKind(T, kind)) - 1
      BY <1>1, <2>1, FS_RemoveElement
    <2>3. Cardinality(OfKind(T \ {x}, kind)) = Cardinality(OfKind(T, kind)) - 1
      BY <2>1, <2>2
    <2> QED BY <1>2, <1>3, <2>3
  <1>4. CASE scheme[x].kind # kind
    <2>1. OfKind(T \ {x}, kind) = OfKind(T, kind)
      BY <1>4 DEF OfKind
    <2> QED BY <1>2, <1>4, <2>1
  <1> QED BY <1>2, <1>3, <1>4

(* The totals satisfy the recursion of the sum.                            *)
LEMMA WorthAdds ==
  ASSUME NEW T, IsFiniteSet(T)
  PROVE  /\ T = {} => Worth(T) = 0
         /\ \A x \in T : Worth(T) = Amount(x) + Worth(T \ {x})
  <1>1. T = {} => Worth(T) = 0
    <2>1. OfKind({}, "19K") = {} /\ OfKind({}, "21K") = {}
      BY DEF OfKind
    <2> QED BY <2>1, FS_EmptySet DEF Worth
  <1>2. ASSUME NEW x \in T
        PROVE  Worth(T) = Amount(x) + Worth(T \ {x})
    BY OneLess DEF Worth, Amount, pbsClaimAmount
  <1> QED BY <1>1, <1>2

(* Whatever satisfies the recursion is the totals.                         *)
LEMMA SumsAreWorth ==
  ASSUME NEW S, IsFiniteSet(S), NEW sums, Adds(sums, S)
  PROVE  \A T \in SUBSET S : sums[T] = Worth(T)
  <1> DEFINE Wrong == {T \in SUBSET S : sums[T] # Worth(T)}
  <1>1. SUFFICES ASSUME Wrong # {} PROVE FALSE
    OBVIOUS
  <1>2. PICK T \in Wrong : \A V \in Wrong : ~(V \subseteq T /\ V # T)
    <2>1. Wrong \subseteq SUBSET S
      OBVIOUS
    <2> HIDE DEF Wrong
    <2> QED BY <1>1, <2>1, SmallestSubset
  <1>3. IsFiniteSet(T)
    BY FS_Subset
  <1>4. sums[T] = IF T = {} THEN 0 ELSE Amount(Pick(T)) + sums[T \ {Pick(T)}]
    BY DEF Adds
  <1>5. CASE T = {}
    BY <1>3, <1>4, <1>5, WorthAdds
  <1>6. CASE T # {}
    <2>1. Pick(T) \in T
      BY <1>6 DEF Pick
    <2>2. T \ {Pick(T)} \in SUBSET S /\ T \ {Pick(T)} \notin Wrong
      BY <1>2, <2>1
    <2>3. sums[T \ {Pick(T)}] = Worth(T \ {Pick(T)})
      BY <2>2
    <2> QED BY <1>3, <1>4, <1>6, <2>1, <2>3, WorthAdds
  <1> QED BY <1>5, <1>6

(* So the sum over a finite set of schemes is the totals of the set.       *)
LEMMA SumIsWorth ==
  ASSUME NEW S, IsFiniteSet(S)
  PROVE  MapThenSumSet(LAMBDA s : pbsClaimAmount(scheme[s].kind), S) = Worth(S)
  <1> DEFINE totals == [T \in SUBSET S |-> Worth(T)]
  <1>1. MapThenSumSet(LAMBDA s : pbsClaimAmount(scheme[s].kind), S)
          = (CHOOSE sums : Adds(sums, S))[S]
    BY DEF MapThenSumSet, MapThenFoldSet, Adds, Pick, Amount
  <1>2. Adds(totals, S)
    <2>1. ASSUME NEW T \in SUBSET S
          PROVE  Worth(T) = IF T = {} THEN 0
                            ELSE Amount(Pick(T)) + totals[T \ {Pick(T)}]
      <3>1. IsFiniteSet(T)
        BY FS_Subset
      <3>2. T # {} => Pick(T) \in T
        BY DEF Pick
      <3>3. totals[T \ {Pick(T)}] = Worth(T \ {Pick(T)})
        OBVIOUS
      <3> QED BY <3>1, <3>2, <3>3, WorthAdds
    <2> QED BY <2>1 DEF Adds
  <1>3. Adds(CHOOSE sums : Adds(sums, S), S)
    <2> HIDE DEF totals
    <2> QED BY <1>2
  <1> QED BY <1>1, <1>3, SumsAreWorth

(* "Two queries, one rule": the report announces for a month, in any state *)
(* of the tables, what the auto-transfer of the month would claim.         *)
THEOREM ReportAnnouncesRun == Spec => []PayByMonthAgrees
  <1>1. ASSUME TypeOK, NEW p \in Periods
        PROVE  totalRM(p) = MapThenSumSet(LAMBDA s : pbsClaimAmount(scheme[s].kind),
                                          findAutoTransferMatches(p))
    <2> DEFINE due == findAutoTransferMatches(p)
    <2>1. IsFiniteSet(due)
      BY SchemesAssumption, FS_Subset DEF findAutoTransferMatches, DueIn
    <2>2. MapThenSumSet(LAMBDA s : pbsClaimAmount(scheme[s].kind), due) = Worth(due)
      BY <2>1, SumIsWorth
    <2>3. ASSUME NEW kind PROVE PayableOf(kind, p) = OfKind(due, kind)
      BY DEF PayableOf, OfKind, findAutoTransferMatches, DueIn
    <2>4. totalRM(p) = Worth(due)
      BY <2>3 DEF totalRM, Worth
    <2> QED BY <2>2, <2>4
  <1>2. TypeOK => PayByMonthAgrees
    BY <1>1 DEF PayByMonthAgrees
  <1> QED BY <1>2, PbsTypeCorrect, PTL
=============================================================================
