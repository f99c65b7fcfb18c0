------------------------- MODULE RciEnrolmentProofs -------------------------
(***************************************************************************)
(* For every register, every set of clerks and whatever they type: the     *)
(* types of RciEnrolment; that serial numbers are unique; that a second    *)
(* enrolment of an agreement comes of two requests that crossed; and, when *)
(* one clerk alone writes numbers, that no number spreads to another       *)
(* membership and no edit is refused for a number it leaves alone.         *)
(***************************************************************************)
EXTENDS RciEnrolment, TLAPS

-----------------------------------------------------------------------------
(* Types.                                                                  *)

LEMMA HandlerTyped ==
  ASSUME TypeOK, NEW c \in Clerks, NEW h \in Request \cup {Idle},
         handler' = [handler EXCEPT ![c] = h]
  PROVE  handler' \in [Clerks -> Request \cup {Idle}]
  BY DEF TypeOK

LEMMA BusyTyped ==
  ASSUME TypeOK, NEW c \in Clerks, handler[c].op # "idle"
  PROVE  handler[c] \in Request
  BY DEF TypeOK, Idle

LEMMA AnswerTyped ==
  ASSUME TypeOK, NEW c \in Clerks, NEW error \in Errors, NEW kept \in BOOLEAN,
         answer' = [answer EXCEPT ![c] = [error |-> error, kept |-> kept]]
  PROVE  answer' \in [Clerks -> Answer]
  BY DEF TypeOK, Answer

LEMMA RefusedTyped ==
  ASSUME TypeOK, NEW c \in Clerks, NEW error \in Errors, Refused(c, error)
  PROVE  TypeOK'
  <1>1. handler' \in [Clerks -> Request \cup {Idle}]
    BY HandlerTyped DEF Refused
  <1>2. answer' \in [Clerks -> Answer]
    <2> PICK kept : kept = (handler[c].rciNo = handler[c].shown)
      OBVIOUS
    <2>1. kept \in BOOLEAN
      OBVIOUS
    <2> QED BY <2>1, AnswerTyped DEF Refused
  <1> QED BY <1>1, <1>2 DEF Refused, TypeOK

LEMMA GoesOnTyped ==
  ASSUME TypeOK, NEW c \in Clerks, handler[c].op # "idle",
         NEW op \in {"clash", "count", "insert", "load", "compare", "write"},
         GoesOn(c, op)
  PROVE  TypeOK'
  <1>1. handler[c] \in Request
    BY BusyTyped
  <1>2. [handler[c] EXCEPT !.op = op] \in Request
    BY <1>1 DEF Request
  <1>3. handler' = [handler EXCEPT ![c] = [handler[c] EXCEPT !.op = op]]
    BY DEF GoesOn
  <1>4. handler' \in [Clerks -> Request \cup {Idle}]
    BY <1>2, <1>3 DEF TypeOK
  <1> QED BY <1>4 DEF GoesOn, TypeOK

LEMMA SavedTyped ==
  ASSUME TypeOK, NEW c \in Clerks, enrolments' \subseteq Row, created' \in Nat,
         Saved(c)
  PROVE  TypeOK'
  <1>1. handler' \in [Clerks -> Request \cup {Idle}]
    BY HandlerTyped DEF Saved
  <1>2. answer' \in [Clerks -> Answer]
    BY AnswerTyped DEF Saved, NoAnswer, Errors
  <1>3. list' \in [Clerks -> SUBSET Row]
    BY DEF Saved, TypeOK
  <1> QED BY <1>1, <1>2, <1>3 DEF Saved, TypeOK

LEMMA TypedNumbers ==
  ASSUME NEW c \in Clerks
  PROVE  /\ Typed[c] \subseteq Numbers
         /\ "none" \in Numbers /\ "none" \notin Typed[c]
  BY NumbersAssumption DEF Numbers, RCI_NO_EXEMPT

LEMMA EditedTyped ==
  ASSUME NEW r \in Row, NEW n \in Numbers
  PROVE  [r EXCEPT !.rciNo = n] \in Row
  BY DEF Row

LEMMA AllocatedTyped ==
  ASSUME TypeOK, NEW n \in Serials
  PROVE  Allocated(n) \in Nat \ {0}
  BY DEF Serials, TypeOK, Row, Allocated

(* A row is inserted with a number allocated, never with the placeholder.  *)
Numbered == \A c \in Clerks : handler[c].op = "insert" => handler[c].serialNo # 0

LEMMA NumberedStep ==
  ASSUME TypeOK, Numbered, [Next]_vars
  PROVE  Numbered'
  <1>1. CASE UNCHANGED vars
    BY <1>1 DEF vars, Numbered
  <1>2. CASE Next
    <2> PICK c \in Clerks :
          \/ FetchList(c) \/ SearchAgreements(c)
          \/ CreateAsk(c) \/ CreateCheck(c) \/ CreateCount(c) \/ CreateRow(c)
          \/ UpdateAsk(c) \/ UpdateLoad(c) \/ UpdateCheck(c) \/ UpdateWrite(c)
          \/ Delete(c) \/ Abandon(c)
      BY <1>2 DEF Next
    <2>0. ASSUME NEW h, h.op # "insert" \/ h.serialNo # 0,
                 handler' = [handler EXCEPT ![c] = h]
          PROVE  Numbered'
      BY <2>0 DEF Numbered, TypeOK
    <2>1. ASSUME NEW op \in {"clash", "count", "load", "compare", "write"},
                 handler[c].op # "idle", GoesOn(c, op)
          PROVE  Numbered'
      <3>1. handler[c] \in Request
        BY <2>1, BusyTyped
      <3>2. [handler[c] EXCEPT !.op = op].op # "insert"
        BY <3>1 DEF Request
      <3> QED BY <2>0, <2>1, <3>2 DEF GoesOn
    <2>2. ASSUME handler' = [handler EXCEPT ![c] = Idle]
          PROVE  Numbered'
      BY <2>0, <2>2 DEF Idle
    <2>3. CASE FetchList(c) \/ SearchAgreements(c)
      BY <2>3 DEF FetchList, SearchAgreements, Numbered
    <2>4. CASE CreateAsk(c)
      <3>1. CASE UNCHANGED handler
        BY <3>1 DEF Numbered
      <3>2. CASE \E a \in picker[c], n \in Typed[c] :
                   handler' = [handler EXCEPT ![c] =
                     [op |-> "clash", id |-> <<c, 0>>, agreement |-> a,
                      rciNo |-> n, shown |-> "none", serialNo |-> 0]]
        BY <2>0, <3>2
      <3> QED BY <2>4, <3>1, <3>2 DEF CreateAsk
    <2>5. CASE CreateCheck(c)
      BY <2>5, <2>1, <2>2 DEF CreateCheck, Refused
    <2>6. CASE CreateCount(c)
      <3>1. PICK n \in Serials :
              handler' = [handler EXCEPT ![c].op = "insert",
                                         ![c].serialNo = Allocated(n)]
        BY <2>6 DEF CreateCount
      <3>2. handler[c] \in Request
        BY <2>6, BusyTyped DEF CreateCount
      <3>3. [handler[c] EXCEPT !.op = "insert", !.serialNo = Allocated(n)].serialNo # 0
        BY <3>2, AllocatedTyped DEF Request
      <3> QED BY <3>1, <3>3, <2>0
    <2>7. CASE CreateRow(c) \/ UpdateWrite(c) \/ Delete(c) \/ Abandon(c)
      BY <2>7, <2>2 DEF CreateRow, UpdateWrite, Delete, Abandon, Refused, Saved
    <2>8. CASE UpdateAsk(c)
      <3>1. PICK r \in list[c] : \E n \in Typed[c] \cup {r.rciNo, "none"} :
              handler' = [handler EXCEPT ![c] =
                [op |-> "load", id |-> r.id, agreement |-> r.agreement, rciNo |-> n,
                 shown |-> r.rciNo, serialNo |-> 0]]
        BY <2>8 DEF UpdateAsk
      <3> QED BY <3>1, <2>0
    <2>9. CASE UpdateLoad(c) \/ UpdateCheck(c)
      BY <2>9, <2>1, <2>2 DEF UpdateLoad, UpdateCheck, Refused
    <2> QED BY <2>3, <2>4, <2>5, <2>6, <2>7, <2>8, <2>9
  <1> QED BY <1>1, <1>2

(* One step keeps the types.                                               *)
LEMMA TypeStep ==
  ASSUME TypeOK, Numbered, [Next]_vars
  PROVE  TypeOK'
  <1>1. CASE UNCHANGED vars
    BY <1>1 DEF vars, TypeOK
  <1>2. CASE Next
    <2> PICK c \in Clerks :
          \/ FetchList(c) \/ SearchAgreements(c)
          \/ CreateAsk(c) \/ CreateCheck(c) \/ CreateCount(c) \/ CreateRow(c)
          \/ UpdateAsk(c) \/ UpdateLoad(c) \/ UpdateCheck(c) \/ UpdateWrite(c)
          \/ Delete(c) \/ Abandon(c)
      BY <1>2 DEF Next
    <2>1. CASE FetchList(c)
      BY <2>1 DEF FetchList, TypeOK
    <2>2. CASE SearchAgreements(c)
      BY <2>2 DEF SearchAgreements, TypeOK
    <2>3. CASE CreateAsk(c)
      <3>1. PICK a \in picker[c], n \in Typed[c] :
              IF Enrolled(a)
              THEN /\ answer' = [answer EXCEPT ![c] =
                        [error |-> "enrolled", kept |-> FALSE]]
                   /\ UNCHANGED handler
              ELSE /\ handler' = [handler EXCEPT ![c] =
                        [op |-> "clash", id |-> <<c, 0>>, agreement |-> a,
                         rciNo |-> n, shown |-> "none", serialNo |-> 0]]
                   /\ answer' = [answer EXCEPT ![c] = NoAnswer]
        BY <2>3 DEF CreateAsk
      <3>2. a \in Agreements /\ n \in Numbers
        BY TypedNumbers DEF TypeOK
      <3>3. [op |-> "clash", id |-> <<c, 0>>, agreement |-> a, rciNo |-> n,
             shown |-> "none", serialNo |-> 0] \in Request
        BY <3>2, TypedNumbers DEF Request, Ids
      <3>4. handler' \in [Clerks -> Request \cup {Idle}]
        BY <3>1, <3>3, HandlerTyped DEF TypeOK
      <3>5. answer' \in [Clerks -> Answer]
        BY <3>1, AnswerTyped DEF NoAnswer, Errors
      <3> QED BY <2>3, <3>4, <3>5 DEF CreateAsk, TypeOK
    <2>4. CASE CreateCheck(c)
      BY <2>4, RefusedTyped, GoesOnTyped DEF CreateCheck, Errors
    <2>5. CASE CreateCount(c)
      <3>1. PICK n \in Serials :
              handler' = [handler EXCEPT ![c].op = "insert",
                                         ![c].serialNo = Allocated(n)]
        BY <2>5 DEF CreateCount
      <3>2. handler[c] \in Request
        BY <2>5, BusyTyped DEF CreateCount
      <3>3. [handler[c] EXCEPT !.op = "insert", !.serialNo = Allocated(n)] \in Request
        BY <3>2, AllocatedTyped DEF Request
      <3>4. handler' \in [Clerks -> Request \cup {Idle}]
        BY <3>1, <3>3 DEF TypeOK
      <3> QED BY <2>5, <3>4 DEF CreateCount, TypeOK
    <2>6. CASE CreateRow(c)
      <3>1. handler[c] \in Request /\ handler[c].op = "insert"
        BY <2>6, BusyTyped DEF CreateRow
      <3>2. CASE SerialTaken(handler[c].serialNo)
        BY <2>6, <3>2, RefusedTyped DEF CreateRow, Errors
      <3>3. CASE ~SerialTaken(handler[c].serialNo)
        <4>1. PICK row : row = [id |-> <<c, created>>, serialNo |-> handler[c].serialNo,
                                agreement |-> handler[c].agreement,
                                rciNo |-> handler[c].rciNo]
          OBVIOUS
        <4>2. /\ enrolments' = enrolments \cup {row}
              /\ created' = created + 1
              /\ Saved(c)
          BY <2>6, <3>3, <4>1 DEF CreateRow
        <4>3. row \in Row
          <5>1. <<c, created>> \in Ids
            BY DEF TypeOK, Ids
          <5>2. handler[c].serialNo \in Nat \ {0}
            BY <3>1 DEF Numbered, Request
          <5> QED BY <3>1, <4>1, <5>1, <5>2 DEF Request, Row
        <4> QED BY <4>2, <4>3, SavedTyped DEF TypeOK
      <3> QED BY <3>2, <3>3
    <2>7. CASE UpdateAsk(c)
      <3>1. PICK r \in list[c] : \E n \in Typed[c] \cup {r.rciNo, "none"} :
              handler' = [handler EXCEPT ![c] =
                [op |-> "load", id |-> r.id, agreement |-> r.agreement, rciNo |-> n,
                 shown |-> r.rciNo, serialNo |-> 0]]
        BY <2>7 DEF UpdateAsk
      <3>2. PICK n \in Typed[c] \cup {r.rciNo, "none"} :
              handler' = [handler EXCEPT ![c] =
                [op |-> "load", id |-> r.id, agreement |-> r.agreement, rciNo |-> n,
                 shown |-> r.rciNo, serialNo |-> 0]]
        BY <3>1
      <3>3. r \in Row
        BY DEF TypeOK
      <3>4. n \in Numbers
        BY <3>3, TypedNumbers DEF Row
      <3>5. [op |-> "load", id |-> r.id, agreement |-> r.agreement, rciNo |-> n,
             shown |-> r.rciNo, serialNo |-> 0] \in Request
        BY <3>3, <3>4 DEF Row, Request
      <3>6. handler' \in [Clerks -> Request \cup {Idle}]
        BY <3>2, <3>5, HandlerTyped
      <3>7. answer' \in [Clerks -> Answer]
        BY <2>7, AnswerTyped DEF UpdateAsk, NoAnswer, Errors
      <3> QED BY <2>7, <3>6, <3>7 DEF UpdateAsk, TypeOK
    <2>8. CASE UpdateLoad(c)
      BY <2>8, RefusedTyped, GoesOnTyped DEF UpdateLoad, Errors
    <2>9. CASE UpdateCheck(c)
      BY <2>9, RefusedTyped, GoesOnTyped DEF UpdateCheck, Errors
    <2>10. CASE UpdateWrite(c)
      <3>1. handler[c] \in Request
        BY <2>10, BusyTyped DEF UpdateWrite
      <3>2. CASE Refused(c, "missing")
        BY <3>2, RefusedTyped DEF Errors
      <3>3. CASE \E r \in Stored(handler[c].id) :
                   /\ enrolments' = (enrolments \ {r})
                                    \cup {[r EXCEPT !.rciNo = handler[c].rciNo]}
                   /\ UNCHANGED created
                   /\ Saved(c)
        <4>1. PICK r \in Stored(handler[c].id) :
                   /\ enrolments' = (enrolments \ {r})
                                    \cup {[r EXCEPT !.rciNo = handler[c].rciNo]}
                   /\ UNCHANGED created
                   /\ Saved(c)
          BY <3>3
        <4>2. r \in Row /\ handler[c].rciNo \in Numbers
          BY <3>1 DEF Stored, TypeOK, Request
        <4>3. [r EXCEPT !.rciNo = handler[c].rciNo] \in Row
          BY <4>2, EditedTyped
        <4>4. enrolments' \subseteq Row
          BY <4>1, <4>3 DEF TypeOK
        <4> QED BY <4>1, <4>4, SavedTyped DEF TypeOK
      <3> QED BY <2>10, <3>2, <3>3 DEF UpdateWrite
    <2>11. CASE Delete(c)
      <3>1. enrolments' \subseteq enrolments
        BY <2>11 DEF Delete
      <3> QED BY <2>11, <3>1, SavedTyped DEF Delete, TypeOK
    <2>12. CASE Abandon(c)
      <3>1. handler' \in [Clerks -> Request \cup {Idle}]
        BY <2>12, HandlerTyped DEF Abandon
      <3> QED BY <2>12, <3>1 DEF Abandon, TypeOK
    <2> QED BY <2>1, <2>2, <2>3, <2>4, <2>5, <2>6, <2>7, <2>8, <2>9, <2>10,
               <2>11, <2>12
  <1> QED BY <1>1, <1>2

LEMMA TypeInit == Init => TypeOK
  BY MigratedAssumption DEF Init, TypeOK, NoAnswer, Answer, Errors

(* Every state of the register, the requests and the pages has its type.   *)
THEOREM RciTypeCorrect == Spec => []TypeOK
  <1>1. Init => Numbered
    BY DEF Init, Numbered, Idle
  <1>2. TypeOK /\ Numbered /\ [Next]_vars => TypeOK' /\ Numbered'
    BY TypeStep, NumberedStep
  <1> QED BY TypeInit, <1>1, <1>2, PTL DEF Spec

-----------------------------------------------------------------------------
(* What one step may do to the rows: some leave, one is added, or one is   *)
(* given another number.                                                   *)

NewRow(c) == [id |-> <<c, created>>, serialNo |-> handler[c].serialNo,
              agreement |-> handler[c].agreement, rciNo |-> handler[c].rciNo]

RowAdded(c) ==
  /\ handler[c].op = "insert"
  /\ ~SerialTaken(handler[c].serialNo)
  /\ enrolments' = enrolments \cup {NewRow(c)}
  /\ created' = created + 1

RowWritten(c, r) ==
  /\ handler[c].op = "write"
  /\ r \in Stored(handler[c].id)
  /\ enrolments' = (enrolments \ {r}) \cup {[r EXCEPT !.rciNo = handler[c].rciNo]}
  /\ UNCHANGED created

RowsKept == enrolments' \subseteq enrolments /\ UNCHANGED created

LEMMA RowStep ==
  ASSUME [Next]_vars
  PROVE  \/ RowsKept
         \/ \E c \in Clerks : RowAdded(c) /\ CreateRow(c) /\ Saved(c)
         \/ \E c \in Clerks : /\ UpdateWrite(c) /\ Saved(c)
                              /\ \E r \in enrolments : RowWritten(c, r)
  <1>1. CASE UNCHANGED vars
    BY <1>1 DEF vars, RowsKept
  <1>2. CASE Next
    <2> PICK c \in Clerks :
          \/ FetchList(c) \/ SearchAgreements(c)
          \/ CreateAsk(c) \/ CreateCheck(c) \/ CreateCount(c) \/ CreateRow(c)
          \/ UpdateAsk(c) \/ UpdateLoad(c) \/ UpdateCheck(c) \/ UpdateWrite(c)
          \/ Delete(c) \/ Abandon(c)
      BY <1>2 DEF Next
    <2>1. CASE CreateRow(c)
      BY <2>1 DEF CreateRow, RowAdded, NewRow, RowsKept, Refused
    <2>2. CASE UpdateWrite(c)
      BY <2>2 DEF UpdateWrite, RowWritten, RowsKept, Refused, Stored
    <2>3. CASE FetchList(c) \/ SearchAgreements(c) \/ CreateAsk(c) \/ CreateCount(c)
               \/ UpdateAsk(c) \/ Delete(c) \/ Abandon(c)
      BY <2>3 DEF FetchList, SearchAgreements, CreateAsk, CreateCount, UpdateAsk,
                  Delete, Abandon, RowsKept
    <2>4. CASE CreateCheck(c) \/ UpdateLoad(c) \/ UpdateCheck(c)
      BY <2>4 DEF CreateCheck, UpdateLoad, UpdateCheck, Refused, GoesOn, RowsKept
    <2> QED BY <2>1, <2>2, <2>3, <2>4
  <1> QED BY <1>1, <1>2

(* The written row keeps everything but its number.                        *)
LEMMA WrittenRow ==
  ASSUME TypeOK, NEW c \in Clerks, NEW r \in enrolments, RowWritten(c, r)
  PROVE  \A p \in enrolments' :
           \/ p \in enrolments \ {r}
           \/ /\ p.id = r.id /\ p.serialNo = r.serialNo /\ p.agreement = r.agreement
              /\ p.rciNo = handler[c].rciNo
              /\ p = [r EXCEPT !.rciNo = handler[c].rciNo]
  BY DEF RowWritten, TypeOK, Row

LEMMA SerialsStep ==
  ASSUME TypeOK, SerialsUnique, [Next]_vars
  PROVE  SerialsUnique'
  <1>1. CASE RowsKept
    BY <1>1 DEF RowsKept, SerialsUnique
  <1>2. CASE \E c \in Clerks : RowAdded(c)
    <2> PICK c \in Clerks : RowAdded(c)
      BY <1>2
    <2>1. NewRow(c).serialNo = handler[c].serialNo
      BY DEF NewRow
    <2>2. \A r \in enrolments : r.serialNo # NewRow(c).serialNo
      BY <2>1 DEF RowAdded, SerialTaken
    <2> QED BY <2>2 DEF RowAdded, SerialsUnique
  <1>3. CASE \E c \in Clerks : \E r \in enrolments : RowWritten(c, r)
    <2> PICK c \in Clerks, r \in enrolments : RowWritten(c, r)
      BY <1>3
    <2> SUFFICES ASSUME NEW p \in enrolments', NEW q \in enrolments',
                        p.serialNo = q.serialNo
                 PROVE  p = q
      BY DEF SerialsUnique
    <2> QED BY WrittenRow DEF SerialsUnique
  <1> QED BY RowStep, <1>1, <1>2, <1>3

(* No two rows share a serial number, however many creates race for one.   *)
THEOREM RciSerialsUnique == Spec => []SerialsUnique
  <1>1. Init => SerialsUnique
    BY MigratedAssumption DEF Init, SerialsUnique
  <1>2. TypeOK /\ SerialsUnique /\ [Next]_vars => SerialsUnique'
    BY SerialsStep
  <1> QED BY <1>1, <1>2, RciTypeCorrect, PTL DEF Spec

-----------------------------------------------------------------------------
(* One enrolment of an agreement: a create under way has found none, so    *)
(* the rows that have come since are of other clerks.                      *)

Creating(c) == handler[c].op \in {"clash", "count", "insert"}

FoundNone ==
  \A c \in Clerks : Creating(c) =>
    \A r \in enrolments : r.agreement = handler[c].agreement =>
      r.id[1] # c /\ r.id[1] # Informix

(* What a step may do to one clerk's create.                               *)
LEMMA CreatingStep ==
  ASSUME TypeOK, [Next]_vars, NEW c \in Clerks, Creating(c)'
  PROVE  \/ Creating(c) /\ handler'[c].agreement = handler[c].agreement
         \/ /\ UNCHANGED <<enrolments, created>>
            /\ ~Enrolled(handler'[c].agreement)
  <1>1. CASE UNCHANGED vars
    BY <1>1 DEF vars, Creating
  <1>2. CASE Next
    <2> PICK d \in Clerks :
          \/ FetchList(d) \/ SearchAgreements(d)
          \/ CreateAsk(d) \/ CreateCheck(d) \/ CreateCount(d) \/ CreateRow(d)
          \/ UpdateAsk(d) \/ UpdateLoad(d) \/ UpdateCheck(d) \/ UpdateWrite(d)
          \/ Delete(d) \/ Abandon(d)
      BY <1>2 DEF Next
    <2>0. CASE UNCHANGED handler
      BY <2>0 DEF Creating
    <2>1. ASSUME handler' = [handler EXCEPT ![d] = Idle]
          PROVE  Creating(c) /\ handler'[c].agreement = handler[c].agreement
      BY <2>1 DEF Creating, TypeOK, Idle
    <2>2. ASSUME NEW op, GoesOn(d, op), handler[d].op # "idle",
                 op \in {"count", "load", "compare", "write"},
                 op = "count" => Creating(d)
          PROVE  Creating(c) /\ handler'[c].agreement = handler[c].agreement
      <3>1. handler[d] \in Request
        BY <2>2, BusyTyped
      <3>2. /\ [handler[d] EXCEPT !.op = op].op = op
            /\ [handler[d] EXCEPT !.op = op].agreement = handler[d].agreement
        BY <3>1 DEF Request
      <3>3. handler'[c] = IF c = d THEN [handler[d] EXCEPT !.op = op] ELSE handler[c]
        BY <2>2 DEF GoesOn, TypeOK
      <3> QED BY <2>2, <3>2, <3>3 DEF Creating
    <2>3. CASE FetchList(d) \/ SearchAgreements(d)
      BY <2>3, <2>0 DEF FetchList, SearchAgreements
    <2>4. CASE CreateAsk(d)
      <3>1. CASE \E a \in picker[d], n \in Typed[d] :
                   /\ ~Enrolled(a)
                   /\ handler' = [handler EXCEPT ![d] =
                        [op |-> "clash", id |-> <<d, 0>>, agreement |-> a,
                         rciNo |-> n, shown |-> "none", serialNo |-> 0]]
        <4> PICK a \in picker[d], n \in Typed[d] :
                   /\ ~Enrolled(a)
                   /\ handler' = [handler EXCEPT ![d] =
                        [op |-> "clash", id |-> <<d, 0>>, agreement |-> a,
                         rciNo |-> n, shown |-> "none", serialNo |-> 0]]
          BY <3>1
        <4>1. CASE c = d
          BY <2>4, <4>1 DEF CreateAsk, TypeOK
        <4>2. CASE c # d
          BY <4>2 DEF TypeOK, Creating
        <4> QED BY <4>1, <4>2
      <3> QED BY <2>4, <2>0, <3>1 DEF CreateAsk
    <2>5. CASE CreateCheck(d)
      BY <2>5, <2>1, <2>2 DEF CreateCheck, Refused, Creating
    <2>6. CASE CreateCount(d)
      <3>1. PICK n \in Serials :
              handler' = [handler EXCEPT ![d].op = "insert",
                                         ![d].serialNo = Allocated(n)]
        BY <2>6 DEF CreateCount
      <3>2. handler[d] \in Request
        BY <2>6, BusyTyped DEF CreateCount
      <3>3. [handler[d] EXCEPT !.op = "insert", !.serialNo = Allocated(n)].agreement
              = handler[d].agreement
        BY <3>2 DEF Request
      <3>4. handler'[c] = IF c = d
              THEN [handler[d] EXCEPT !.op = "insert", !.serialNo = Allocated(n)]
              ELSE handler[c]
        BY <3>1 DEF TypeOK
      <3> QED BY <2>6, <3>3, <3>4 DEF CreateCount, Creating
    <2>7. CASE CreateRow(d) \/ UpdateWrite(d) \/ Delete(d) \/ Abandon(d)
      BY <2>7, <2>1 DEF CreateRow, UpdateWrite, Delete, Abandon, Refused, Saved
    <2>8. CASE UpdateAsk(d)
      <3>1. PICK r \in list[d] : \E n \in Typed[d] \cup {r.rciNo, "none"} :
              handler' = [handler EXCEPT ![d] =
                [op |-> "load", id |-> r.id, agreement |-> r.agreement, rciNo |-> n,
                 shown |-> r.rciNo, serialNo |-> 0]]
        BY <2>8 DEF UpdateAsk
      <3>2. c # d
        BY <3>1 DEF Creating, TypeOK
      <3> QED BY <3>1, <3>2 DEF TypeOK, Creating
    <2>9. CASE UpdateLoad(d) \/ UpdateCheck(d)
      BY <2>9, <2>1, <2>2 DEF UpdateLoad, UpdateCheck, Refused
    <2> QED BY <2>3, <2>4, <2>5, <2>6, <2>7, <2>8, <2>9
  <1> QED BY <1>1, <1>2

(* Whose rows an agreement has after a step.                               *)
LEMMA OwnersStep ==
  ASSUME TypeOK, [Next]_vars, NEW p \in enrolments'
  PROVE  \/ \E r \in enrolments : r.id = p.id /\ r.agreement = p.agreement
         \/ \E d \in Clerks : /\ RowAdded(d) /\ CreateRow(d) /\ Saved(d)
                              /\ p = NewRow(d)
  <1>1. CASE RowsKept
    BY <1>1 DEF RowsKept
  <1>2. CASE \E d \in Clerks : RowAdded(d) /\ CreateRow(d) /\ Saved(d)
    BY <1>2 DEF RowAdded
  <1>3. CASE \E d \in Clerks : \E r \in enrolments : RowWritten(d, r)
    BY <1>3, WrittenRow
  <1> QED BY RowStep, <1>1, <1>2, <1>3

LEMMA FoundNoneStep ==
  ASSUME TypeOK, FoundNone, [Next]_vars
  PROVE  FoundNone'
  <1> SUFFICES ASSUME NEW c \in Clerks, Creating(c)', NEW p \in enrolments',
                      p.agreement = handler'[c].agreement
               PROVE  p.id[1] # c /\ p.id[1] # Informix
    BY DEF FoundNone
  <1>1. CASE UNCHANGED <<enrolments, created>> /\ ~Enrolled(handler'[c].agreement)
    BY <1>1 DEF Enrolled
  <1>2. CASE Creating(c) /\ handler'[c].agreement = handler[c].agreement
    <2>1. CASE \E r \in enrolments : r.id = p.id /\ r.agreement = p.agreement
      BY <1>2, <2>1 DEF FoundNone
    <2>2. CASE \E d \in Clerks : RowAdded(d) /\ CreateRow(d) /\ Saved(d) /\ p = NewRow(d)
      <3> PICK d \in Clerks : Saved(d) /\ p = NewRow(d)
        BY <2>2
      <3>1. p.id[1] = d
        BY DEF NewRow
      <3>2. handler'[d] = Idle
        BY DEF Saved, TypeOK
      <3>3. c # d
        BY <3>2 DEF Creating, Idle
      <3> QED BY <3>1, <3>3, MigratedAssumption
    <2> QED BY OwnersStep, <2>1, <2>2
  <1> QED BY CreatingStep, <1>1, <1>2

LEMMA EnrolledOnceStep ==
  ASSUME TypeOK, FoundNone, EnrolledOnce, [Next]_vars
  PROVE  EnrolledOnce'
  <1> DEFINE Fits(i, j) == \/ i[1] = Informix /\ j[1] = Informix
                           \/ i[1] # j[1] /\ Informix \notin {i[1], j[1]}
  <1>0. \A r, s \in enrolments : r # s /\ r.agreement = s.agreement => Fits(r.id, s.id)
    BY DEF EnrolledOnce
  <1> SUFFICES ASSUME NEW p \in enrolments', NEW q \in enrolments', p # q,
                      p.agreement = q.agreement
               PROVE  Fits(p.id, q.id)
    BY DEF EnrolledOnce
  <1>1. CASE RowsKept
    BY <1>0, <1>1 DEF RowsKept
  <1>2. CASE \E d \in Clerks : RowAdded(d)
    <2> PICK d \in Clerks : RowAdded(d)
      BY <1>2
    <2>1. /\ NewRow(d).id[1] = d /\ NewRow(d).agreement = handler[d].agreement
          /\ Creating(d)
      BY DEF NewRow, RowAdded, Creating
    <2>2. \A r \in enrolments : r.agreement = NewRow(d).agreement =>
            Fits(r.id, NewRow(d).id) /\ Fits(NewRow(d).id, r.id)
      BY <2>1, MigratedAssumption DEF FoundNone
    <2>3. \A r \in enrolments' : r \in enrolments \/ r = NewRow(d)
      BY DEF RowAdded
    <2> HIDE DEF Fits
    <2> QED BY <1>0, <2>2, <2>3
  <1>3. CASE \E d \in Clerks : \E r \in enrolments : RowWritten(d, r)
    <2> PICK d \in Clerks, r \in enrolments : RowWritten(d, r)
      BY <1>3
    <2> HIDE DEF Fits
    <2> QED BY <1>0, WrittenRow
  <1> QED BY RowStep, <1>1, <1>2, <1>3

(* Whatever the clerks do, a second row of an agreement comes of the       *)
(* migration or of two creates that crossed.                               *)
THEOREM RciEnrolledOnce == Spec => []EnrolledOnce
  <1>1. Init => FoundNone /\ EnrolledOnce
    BY MigratedAssumption DEF Init, FoundNone, EnrolledOnce, Creating, Idle
  <1>2. TypeOK /\ FoundNone /\ EnrolledOnce /\ [Next]_vars
          => FoundNone' /\ EnrolledOnce'
    BY FoundNoneStep, EnrolledOnceStep
  <1> QED BY <1>1, <1>2, RciTypeCorrect, PTL DEF Spec

-----------------------------------------------------------------------------
(* What one step may do to one clerk's request: it stays, ends, or moves   *)
(* one statement on while no row changes.                                  *)

Updating(c) == handler[c].op \in {"load", "compare", "write"}

SameForm(c) == /\ handler'[c].id = handler[c].id
               /\ handler'[c].agreement = handler[c].agreement
               /\ handler'[c].rciNo = handler[c].rciNo
               /\ handler'[c].shown = handler[c].shown

Quiet == UNCHANGED <<enrolments, created, list>>

Began(c) == /\ handler'[c].op = "clash"
            /\ handler'[c].rciNo \in Typed[c] /\ handler'[c].shown = "none"

Opened(c) == /\ handler'[c].op = "load" /\ "edit" \in Ops[c]
             /\ \E r \in list[c] : /\ handler'[c].id = r.id
                                   /\ handler'[c].agreement = r.agreement
                                   /\ handler'[c].shown = r.rciNo

Moved(c, from, to) == handler[c].op = from /\ handler'[c].op = to /\ SameForm(c)

LEMMA HandlerStep ==
  ASSUME TypeOK, [Next]_vars, NEW c \in Clerks
  PROVE  \/ handler'[c] = handler[c]
         \/ handler'[c] = Idle
         \/ Quiet /\ Began(c)
         \/ Quiet /\ Opened(c)
         \/ /\ Quiet /\ Moved(c, "clash", "count")
            /\ ~OwnedByAnother(handler[c].rciNo, handler[c].agreement)
         \/ Quiet /\ Moved(c, "count", "insert")
         \/ /\ Quiet /\ Moved(c, "load", "compare")
            /\ \E r \in Stored(handler[c].id) : handler[c].rciNo # r.rciNo
         \/ /\ Quiet /\ Moved(c, "load", "write")
            /\ \E r \in Stored(handler[c].id) : handler[c].rciNo = r.rciNo
         \/ /\ Quiet /\ Moved(c, "compare", "write")
            /\ ~OwnedByAnother(handler[c].rciNo, handler[c].agreement)
  <1>1. CASE UNCHANGED vars
    BY <1>1 DEF vars
  <1>2. CASE Next
    <2> PICK d \in Clerks :
          \/ FetchList(d) \/ SearchAgreements(d)
          \/ CreateAsk(d) \/ CreateCheck(d) \/ CreateCount(d) \/ CreateRow(d)
          \/ UpdateAsk(d) \/ UpdateLoad(d) \/ UpdateCheck(d) \/ UpdateWrite(d)
          \/ Delete(d) \/ Abandon(d)
      BY <1>2 DEF Next
    <2>1. ASSUME NEW h, handler' = [handler EXCEPT ![d] = h]
          PROVE  handler'[c] = IF c = d THEN h ELSE handler[c]
      BY <2>1 DEF TypeOK
    <2>2. ASSUME NEW op, GoesOn(d, op), handler[d].op # "idle"
          PROVE  /\ Quiet
                 /\ \/ handler'[c] = handler[c]
                    \/ c = d /\ Moved(c, handler[c].op, op)
      <3>1. handler[d] \in Request
        BY <2>2, BusyTyped
      <3>2. /\ [handler[d] EXCEPT !.op = op].op = op
            /\ [handler[d] EXCEPT !.op = op].id = handler[d].id
            /\ [handler[d] EXCEPT !.op = op].agreement = handler[d].agreement
            /\ [handler[d] EXCEPT !.op = op].rciNo = handler[d].rciNo
            /\ [handler[d] EXCEPT !.op = op].shown = handler[d].shown
        BY <3>1 DEF Request
      <3>3. handler'[c] = IF c = d THEN [handler[d] EXCEPT !.op = op] ELSE handler[c]
        BY <2>2, <2>1 DEF GoesOn
      <3> QED BY <2>2, <3>2, <3>3 DEF GoesOn, Quiet, Moved, SameForm
    <2>3. CASE FetchList(d) \/ SearchAgreements(d)
      BY <2>3 DEF FetchList, SearchAgreements
    <2>4. CASE CreateAsk(d)
      <3>1. CASE UNCHANGED handler
        BY <3>1
      <3>2. CASE \E a \in picker[d], n \in Typed[d] :
                   handler' = [handler EXCEPT ![d] =
                        [op |-> "clash", id |-> <<d, 0>>, agreement |-> a,
                         rciNo |-> n, shown |-> "none", serialNo |-> 0]]
        <4> PICK a \in picker[d], n \in Typed[d] :
                   handler' = [handler EXCEPT ![d] =
                        [op |-> "clash", id |-> <<d, 0>>, agreement |-> a,
                         rciNo |-> n, shown |-> "none", serialNo |-> 0]]
          BY <3>2
        <4> QED BY <2>1, <2>4 DEF CreateAsk, Quiet, Began
      <3> QED BY <2>4, <3>1, <3>2 DEF CreateAsk
    <2>5. CASE CreateCheck(d)
      <3>1. CASE GoesOn(d, "count")
                 /\ ~OwnedByAnother(handler[d].rciNo, handler[d].agreement)
        BY <2>5, <3>1, <2>2 DEF CreateCheck
      <3> QED BY <2>1, <2>5, <3>1 DEF CreateCheck, Refused
    <2>6. CASE CreateCount(d)
      <3>1. PICK n \in Serials :
              handler' = [handler EXCEPT ![d].op = "insert",
                                         ![d].serialNo = Allocated(n)]
        BY <2>6 DEF CreateCount
      <3>2. handler[d] \in Request
        BY <2>6, BusyTyped DEF CreateCount
      <3> DEFINE h == [handler[d] EXCEPT !.op = "insert", !.serialNo = Allocated(n)]
      <3>3. /\ h.op = "insert" /\ h.id = handler[d].id
            /\ h.agreement = handler[d].agreement
            /\ h.rciNo = handler[d].rciNo /\ h.shown = handler[d].shown
        BY <3>2 DEF Request
      <3>4. handler' = [handler EXCEPT ![d] = h]
        BY <3>1
      <3> HIDE DEF h
      <3>5. handler'[c] = IF c = d THEN h ELSE handler[c]
        BY <3>4, <2>1
      <3> QED BY <2>6, <3>3, <3>5 DEF CreateCount, Quiet, Moved, SameForm
    <2>7. CASE CreateRow(d) \/ UpdateWrite(d) \/ Delete(d) \/ Abandon(d)
      BY <2>7, <2>1 DEF CreateRow, UpdateWrite, Delete, Abandon, Refused, Saved
    <2>8. CASE UpdateAsk(d)
      <3>1. PICK r \in list[d] : \E n \in Typed[d] \cup {r.rciNo, "none"} :
              handler' = [handler EXCEPT ![d] =
                [op |-> "load", id |-> r.id, agreement |-> r.agreement, rciNo |-> n,
                 shown |-> r.rciNo, serialNo |-> 0]]
        BY <2>8 DEF UpdateAsk
      <3>2. PICK n \in Typed[d] \cup {r.rciNo, "none"} :
              handler' = [handler EXCEPT ![d] =
                [op |-> "load", id |-> r.id, agreement |-> r.agreement, rciNo |-> n,
                 shown |-> r.rciNo, serialNo |-> 0]]
        BY <3>1
      <3> QED BY <2>1, <2>8, <3>2 DEF UpdateAsk, Free, Quiet, Opened
    <2>9. CASE UpdateLoad(d)
      <3>1. CASE Refused(d, "missing")
        BY <2>1, <3>1 DEF Refused
      <3>2. CASE \E r \in Stored(handler[d].id) :
                   GoesOn(d, IF Renumbers(r, handler[d].rciNo) THEN "compare" ELSE "write")
        <4> PICK r \in Stored(handler[d].id) :
                   GoesOn(d, IF Renumbers(r, handler[d].rciNo) THEN "compare" ELSE "write")
          BY <3>2
        <4>1. CASE handler[d].rciNo # r.rciNo
          BY <2>9, <2>2, <4>1 DEF UpdateLoad, Renumbers
        <4>2. CASE handler[d].rciNo = r.rciNo
          BY <2>9, <2>2, <4>2 DEF UpdateLoad, Renumbers
        <4> QED BY <4>1, <4>2
      <3> QED BY <2>9, <3>1, <3>2 DEF UpdateLoad
    <2>10. CASE UpdateCheck(d)
      <3>1. CASE GoesOn(d, "write")
                 /\ ~OwnedByAnother(handler[d].rciNo, handler[d].agreement)
        BY <2>10, <3>1, <2>2 DEF UpdateCheck
      <3> QED BY <2>1, <2>10, <3>1 DEF UpdateCheck, Refused
    <2> QED BY <2>3, <2>4, <2>5, <2>6, <2>7, <2>8, <2>9, <2>10
  <1> QED BY <1>1, <1>2

LEMMA ListStep ==
  ASSUME TypeOK, [Next]_vars, NEW c \in Clerks
  PROVE  list'[c] = list[c] \/ list'[c] = enrolments'
  <1>1. CASE UNCHANGED vars
    BY <1>1 DEF vars
  <1>2. CASE Next
    <2> PICK d \in Clerks :
          \/ FetchList(d) \/ SearchAgreements(d)
          \/ CreateAsk(d) \/ CreateCheck(d) \/ CreateCount(d) \/ CreateRow(d)
          \/ UpdateAsk(d) \/ UpdateLoad(d) \/ UpdateCheck(d) \/ UpdateWrite(d)
          \/ Delete(d) \/ Abandon(d)
      BY <1>2 DEF Next
    <2>1. CASE FetchList(d)
      BY <2>1 DEF FetchList, TypeOK
    <2>2. CASE CreateRow(d) \/ UpdateWrite(d) \/ Delete(d)
      BY <2>2 DEF CreateRow, UpdateWrite, Delete, Refused, Saved, TypeOK
    <2>3. CASE SearchAgreements(d) \/ CreateAsk(d) \/ CreateCount(d) \/ UpdateAsk(d)
               \/ Abandon(d)
      BY <2>3 DEF SearchAgreements, CreateAsk, CreateCount, UpdateAsk, Abandon
    <2>4. CASE CreateCheck(d) \/ UpdateLoad(d) \/ UpdateCheck(d)
      BY <2>4 DEF CreateCheck, UpdateLoad, UpdateCheck, Refused, GoesOn
    <2> QED BY <2>1, <2>2, <2>3, <2>4
  <1> QED BY <1>1, <1>2

-----------------------------------------------------------------------------
(* Rows are known by their ids: a new row's is none that a page shows or a *)
(* request holds, and the agreement of an id never changes.                *)

Known(id) == id[1] = Informix \/ id[2] < created

IdsInv ==
  /\ \A r, s \in enrolments : r.id = s.id => r = s
  /\ \A r \in enrolments : Known(r.id)
  /\ \A c \in Clerks : \A r \in list[c] : Known(r.id)
  /\ \A c \in Clerks : Updating(c) => Known(handler[c].id)

SameAgreement ==
  /\ \A c \in Clerks : \A r \in list[c], s \in enrolments :
       r.id = s.id => r.agreement = s.agreement
  /\ \A c \in Clerks : \A s \in enrolments :
       Updating(c) /\ s.id = handler[c].id => s.agreement = handler[c].agreement

LEMMA NewRowUnknown ==
  ASSUME TypeOK, NEW c \in Clerks
  PROVE  ~Known(NewRow(c).id)
  BY MigratedAssumption DEF Known, NewRow, TypeOK

LEMMA KnownStays ==
  ASSUME TypeOK, [Next]_vars, NEW id \in Ids, Known(id)
  PROVE  Known(id)'
  <1>1. created' = created \/ created' = created + 1
    BY RowStep DEF RowsKept, RowAdded, RowWritten
  <1> QED BY <1>1 DEF Known, Ids, TypeOK

LEMMA UpdatingStep ==
  ASSUME TypeOK, [Next]_vars, NEW c \in Clerks, Updating(c)'
  PROVE  \/ Updating(c) /\ SameForm(c)
         \/ Quiet /\ Opened(c)
  <1>1. CASE handler'[c] = handler[c]
    BY <1>1 DEF Updating, SameForm
  <1> QED BY <1>1, HandlerStep DEF Updating, Idle, Began, Moved

LEMMA RowOfId ==
  ASSUME TypeOK, [Next]_vars, NEW p \in enrolments', Known(p.id)
  PROVE  \E r \in enrolments : r.id = p.id /\ r.agreement = p.agreement
  BY OwnersStep, NewRowUnknown

LEMMA IdsStep ==
  ASSUME TypeOK, IdsInv, [Next]_vars
  PROVE  IdsInv'
  <1>1. \A r, s \in enrolments' : r.id = s.id => r = s
    <2>1. CASE RowsKept
      BY <2>1 DEF RowsKept, IdsInv
    <2>2. CASE \E d \in Clerks : RowAdded(d)
      BY <2>2, NewRowUnknown DEF RowAdded, IdsInv
    <2>3. CASE \E d \in Clerks : \E r \in enrolments : RowWritten(d, r)
      <3> PICK d \in Clerks, r \in enrolments : RowWritten(d, r)
        BY <2>3
      <3> QED BY WrittenRow DEF IdsInv
    <2> QED BY RowStep, <2>1, <2>2, <2>3
  <1>2. ASSUME NEW p \in enrolments' PROVE Known(p.id)'
    <2>1. CASE \E r \in enrolments : r.id = p.id
      <3> PICK r \in enrolments : r.id = p.id
        BY <2>1
      <3>1. r.id \in Ids /\ Known(r.id)
        BY DEF TypeOK, Row, IdsInv
      <3> QED BY <3>1, KnownStays
    <2>2. CASE \E d \in Clerks : RowAdded(d) /\ p = NewRow(d)
      <3>1. p.id[2] = created /\ created' = created + 1
        BY <2>2 DEF NewRow, RowAdded
      <3> QED BY <3>1 DEF Known, TypeOK
    <2> QED BY OwnersStep, <2>1, <2>2
  <1>3. ASSUME NEW c \in Clerks, NEW r \in list'[c] PROVE Known(r.id)'
    <2>1. CASE list'[c] = list[c]
      <3>1. r.id \in Ids /\ Known(r.id)
        BY <2>1 DEF TypeOK, Row, IdsInv
      <3> QED BY <3>1, KnownStays
    <2> QED BY <1>2, <2>1, ListStep
  <1>4. ASSUME NEW c \in Clerks, Updating(c)' PROVE Known(handler[c].id)'
    <2>1. CASE Updating(c) /\ SameForm(c)
      <3>1. handler[c] \in Request
        BY <2>1, BusyTyped DEF Updating
      <3> PICK id : id = handler[c].id
        OBVIOUS
      <3>2. id \in Ids /\ Known(id)
        BY <2>1, <3>1 DEF Request, IdsInv
      <3>3. Known(id)'
        BY <3>2, KnownStays
      <3> QED BY <2>1, <3>3 DEF SameForm, Known
    <2>2. CASE Quiet /\ Opened(c)
      BY <2>2 DEF Quiet, Opened, IdsInv, Known
    <2> QED BY <1>4, UpdatingStep, <2>1, <2>2
  <1> QED BY <1>1, <1>2, <1>3, <1>4 DEF IdsInv

LEMMA SameAgreementStep ==
  ASSUME TypeOK, IdsInv, SameAgreement, [Next]_vars
  PROVE  SameAgreement'
  <1>1. ASSUME NEW c \in Clerks, NEW r \in list'[c], NEW p \in enrolments', r.id = p.id
        PROVE  r.agreement = p.agreement
    <2>1. CASE list'[c] = list[c]
      <3>1. Known(p.id) /\ r \in list[c]
        BY <1>1, <2>1 DEF IdsInv
      <3>2. PICK s \in enrolments : s.id = p.id /\ s.agreement = p.agreement
        BY <3>1, RowOfId
      <3> QED BY <1>1, <3>1, <3>2 DEF SameAgreement
    <2>2. CASE list'[c] = enrolments'
      BY <1>1, <2>2, IdsStep DEF IdsInv
    <2> QED BY <2>1, <2>2, ListStep
  <1>2. ASSUME NEW c \in Clerks, NEW p \in enrolments', Updating(c)',
               p.id = handler'[c].id
        PROVE  p.agreement = handler'[c].agreement
    <2>1. CASE Updating(c) /\ SameForm(c)
      <3>1. Known(p.id)
        BY <1>2, <2>1 DEF SameForm, IdsInv
      <3>2. PICK s \in enrolments : s.id = p.id /\ s.agreement = p.agreement
        BY <3>1, RowOfId
      <3> QED BY <1>2, <2>1, <3>2 DEF SameForm, SameAgreement
    <2>2. CASE Quiet /\ Opened(c)
      BY <1>2, <2>2 DEF Quiet, Opened, SameAgreement
    <2> QED BY <1>2, UpdatingStep, <2>1, <2>2
  <1> QED BY <1>1, <1>2 DEF SameAgreement

LEMMA IdsInit == Init => IdsInv /\ SameAgreement
  BY MigratedAssumption DEF Init, IdsInv, SameAgreement, Known, Updating, Idle

-----------------------------------------------------------------------------
(* Numbers, when one clerk alone writes them.                              *)

OnlyWriter(w) ==
  /\ w \in Clerks
  /\ \A c \in Clerks \ {w} : "edit" \notin Ops[c] /\ Typed[c] \cap RciNos = {}

Owned(c) == OwnedByAnother(handler[c].rciNo, handler[c].agreement)

NumbersInv(w) ==
  /\ \A c \in Clerks \ {w} : ~Updating(c)
  /\ \A c \in Clerks \ {w} : Creating(c) => handler[c].rciNo \notin RciNos
  /\ handler[w].op \in {"count", "insert"} => ~Owned(w)
  /\ handler[w].op = "write" =>
       ~Owned(w) \/ \A r \in Stored(handler[w].id) : r.rciNo = handler[w].rciNo

LEMMA OthersStep ==
  ASSUME TypeOK, NEW w, OnlyWriter(w), NumbersInv(w), [Next]_vars,
         NEW c \in Clerks \ {w}
  PROVE  ~Updating(c)' /\ (Creating(c)' => handler'[c].rciNo \notin RciNos)
  BY HandlerStep DEF OnlyWriter, NumbersInv, Updating, Creating, Idle, Began, Opened,
                     Moved, SameForm

(* While the writer's own request stays as it is, no number gains a row.   *)
LEMMA NoNumberGained ==
  ASSUME TypeOK, NEW w, OnlyWriter(w), NumbersInv(w), [Next]_vars,
         handler'[w] = handler[w], Creating(w) \/ Updating(w)
  PROVE  \A p \in enrolments' : p \in enrolments \/
           (p.rciNo \notin RciNos /\ ~Known(p.id))
  <1>1. CASE RowsKept
    BY <1>1 DEF RowsKept
  <1>2. CASE \E d \in Clerks : RowAdded(d) /\ CreateRow(d) /\ Saved(d)
    <2> PICK d \in Clerks : RowAdded(d) /\ Saved(d)
      BY <1>2
    <2>1. handler'[d] = Idle
      BY DEF Saved, TypeOK
    <2>2. d # w
      BY <2>1 DEF Creating, Updating, Idle
    <2>3. handler[d].rciNo \notin RciNos
      BY <2>2 DEF NumbersInv, Creating, RowAdded
    <2> QED BY <2>3, NewRowUnknown DEF RowAdded, NewRow
  <1>3. CASE \E d \in Clerks : UpdateWrite(d) /\ Saved(d)
    <2> PICK d \in Clerks : UpdateWrite(d) /\ Saved(d)
      BY <1>3
    <2>1. handler'[d] = Idle
      BY DEF Saved, TypeOK
    <2>2. d # w
      BY <2>1 DEF Creating, Updating, Idle
    <2> QED BY <2>2 DEF NumbersInv, Updating, UpdateWrite
  <1> QED BY RowStep, <1>1, <1>2, <1>3

LEMMA NumbersStep ==
  ASSUME TypeOK, IdsInv, NEW w, OnlyWriter(w), NumbersInv(w), [Next]_vars
  PROVE  NumbersInv(w)'
  <1> w \in Clerks
    BY DEF OnlyWriter
  <1>1. CASE handler'[w] = handler[w] /\ (Creating(w) \/ Updating(w))
    <2>1. \A p \in enrolments' : p \in enrolments \/
            (p.rciNo \notin RciNos /\ ~Known(p.id))
      BY <1>1, NoNumberGained
    <2>2. ~Owned(w) => ~Owned(w)'
      <3> SUFFICES ASSUME Owned(w)' PROVE Owned(w)
        OBVIOUS
      <3>1. /\ handler[w].rciNo \notin RCI_NO_EXEMPT \cup {"none"}
            /\ \E r \in enrolments' :
                 /\ r.rciNo = handler[w].rciNo
                 /\ Membership[r.agreement] # Membership[handler[w].agreement]
        BY <1>1 DEF Owned, OwnedByAnother
      <3>2. handler[w] \in Request
        BY <1>1, BusyTyped DEF Creating, Updating
      <3>3. handler[w].rciNo \in RciNos
        BY <3>1, <3>2 DEF Request, Numbers
      <3> QED BY <2>1, <3>1, <3>3 DEF Owned, OwnedByAnother
    <2>3. Updating(w) => Stored(handler[w].id)' \subseteq Stored(handler[w].id)
      BY <1>1, <2>1 DEF Stored, IdsInv
    <2> QED BY <1>1, <2>2, <2>3, OthersStep DEF NumbersInv, Updating
  <1>2. CASE Quiet /\ handler'[w] # handler[w]
    <2>1. Owned(w)' => OwnedByAnother(handler'[w].rciNo, handler'[w].agreement)
      BY <1>2 DEF Quiet, Owned, OwnedByAnother
    <2>2. Stored(handler[w].id)' = Stored(handler'[w].id)
      BY <1>2 DEF Quiet, Stored
    <2>3. /\ handler'[w].op \in {"count", "insert"} => ~Owned(w)'
          /\ handler'[w].op = "write" => ~Owned(w)'
               \/ \A r \in Stored(handler'[w].id) : r.rciNo = handler'[w].rciNo
      <3>1. CASE handler'[w] = Idle \/ Began(w) \/ Opened(w)
        BY <3>1 DEF Idle, Began, Opened
      <3>2. CASE Moved(w, "clash", "count") /\ ~OwnedByAnother(handler[w].rciNo, handler[w].agreement)
        BY <2>1, <3>2 DEF Moved, SameForm
      <3>3. CASE Moved(w, "count", "insert")
        BY <2>1, <3>3 DEF Moved, SameForm, NumbersInv, Owned
      <3>4. CASE Moved(w, "load", "compare")
        BY <3>4 DEF Moved
      <3>5. CASE Moved(w, "load", "write") /\ \E r \in Stored(handler[w].id) : handler[w].rciNo = r.rciNo
        BY <3>5 DEF Moved, SameForm, Stored, IdsInv
      <3>6. CASE Moved(w, "compare", "write") /\ ~OwnedByAnother(handler[w].rciNo, handler[w].agreement)
        BY <2>1, <3>6 DEF Moved, SameForm
      <3> QED BY <1>2, HandlerStep, <3>1, <3>2, <3>3, <3>4, <3>5, <3>6
    <2> QED BY <2>2, <2>3, OthersStep DEF NumbersInv
  <1>3. CASE handler'[w] = Idle \/ (handler'[w] = handler[w] /\ ~Creating(w) /\ ~Updating(w))
    BY <1>3, OthersStep DEF NumbersInv, Creating, Updating, Idle
  <1> QED BY HandlerStep, <1>1, <1>2, <1>3

LEMMA OneMembershipStep ==
  ASSUME TypeOK, SameAgreement, NEW w, OnlyWriter(w), NumbersInv(w),
         RciNoOneMembership, [Next]_vars
  PROVE  RciNoOneMembership'
  <1> w \in Clerks
    BY DEF OnlyWriter
  <1> DEFINE Spread(n) ==
        \E p, q \in Migrated : /\ p.rciNo = n /\ q.rciNo = n
                               /\ Membership[p.agreement] # Membership[q.agreement]
  <1>0. \A r, s \in enrolments :
          /\ r.rciNo = s.rciNo /\ r.rciNo \in RciNos
          /\ Membership[r.agreement] # Membership[s.agreement]
          => Spread(r.rciNo)
    BY DEF RciNoOneMembership
  <1> HIDE DEF Spread
  <1> SUFFICES ASSUME NEW p \in enrolments', NEW q \in enrolments',
                      p.rciNo = q.rciNo, p.rciNo \in RciNos,
                      Membership[p.agreement] # Membership[q.agreement]
               PROVE  Spread(p.rciNo)
    BY DEF RciNoOneMembership, Spread
  <1>e. \A n \in RciNos : n \notin RCI_NO_EXEMPT \cup {"none"}
    BY NumbersAssumption DEF RCI_NO_EXEMPT
  <1>1. CASE RowsKept
    BY <1>0, <1>1 DEF RowsKept
  <1>2. CASE \E d \in Clerks : RowAdded(d)
    <2> PICK d \in Clerks : RowAdded(d)
      BY <1>2
    <2>1. CASE handler[d].rciNo \notin RciNos
      <3>1. p \in enrolments /\ q \in enrolments
        BY <2>1 DEF RowAdded, NewRow
      <3> QED BY <1>0, <3>1
    <2>2. CASE handler[d].rciNo \in RciNos
      <3>1. d = w
        BY <2>2 DEF NumbersInv, RowAdded, Creating
      <3>2. ~Owned(w)
        BY <3>1 DEF NumbersInv, RowAdded
      <3>3. \A r \in enrolments : r.rciNo = handler[w].rciNo =>
              Membership[r.agreement] = Membership[handler[w].agreement]
        BY <2>2, <3>1, <3>2, <1>e DEF Owned, OwnedByAnother
      <3> QED BY <1>0, <3>1, <3>3 DEF RowAdded, NewRow
    <2> QED BY <2>1, <2>2
  <1>3. CASE \E d \in Clerks : UpdateWrite(d) /\ \E r \in enrolments : RowWritten(d, r)
    <2> PICK d \in Clerks, r \in enrolments : RowWritten(d, r)
      BY <1>3
    <2>1. d = w /\ Updating(w) /\ handler[w].op = "write"
      BY DEF NumbersInv, RowWritten, Updating
    <2>2. r.agreement = handler[w].agreement
      BY <2>1 DEF SameAgreement, RowWritten, Stored
    <2>3. CASE r.rciNo = handler[w].rciNo
      <3>1. r \in Row
        BY DEF TypeOK
      <3>2. [r EXCEPT !.rciNo = handler[w].rciNo] = r
        BY <2>3, <3>1 DEF Row
      <3>3. p \in enrolments /\ q \in enrolments
        BY <2>1, <3>2 DEF RowWritten
      <3> QED BY <1>0, <3>3
    <2>4. CASE ~Owned(w)
      <3>1. \A s \in enrolments : s.rciNo = handler[w].rciNo /\ s.rciNo \in RciNos =>
              Membership[s.agreement] = Membership[r.agreement]
        BY <2>2, <2>4, <1>e DEF Owned, OwnedByAnother
      <3>2. \A s \in enrolments' : s \in enrolments \/
              (s.agreement = r.agreement /\ s.rciNo = handler[w].rciNo)
        BY <2>1, WrittenRow
      <3> QED BY <1>0, <3>1, <3>2
    <2> QED BY <2>1, <2>3, <2>4 DEF NumbersInv, RowWritten
  <1> QED BY RowStep, <1>1, <1>2, <1>3

(* With one clerk to write numbers, whatever the others add as PENDING or  *)
(* delete, no number spreads beyond the memberships it was migrated under. *)
THEOREM RciNumbersStay ==
  ASSUME NEW w, OnlyWriter(w)
  PROVE  Spec => []RciNoOneMembership
  <1>1. Init => NumbersInv(w) /\ RciNoOneMembership
    BY DEF Init, NumbersInv, RciNoOneMembership, Updating, Creating, Idle, OnlyWriter
  <1>2. /\ TypeOK /\ IdsInv /\ SameAgreement /\ NumbersInv(w) /\ RciNoOneMembership
        /\ [Next]_vars
        => IdsInv' /\ SameAgreement' /\ NumbersInv(w)' /\ RciNoOneMembership'
    BY IdsStep, SameAgreementStep, NumbersStep, OneMembershipStep
  <1> QED BY <1>1, <1>2, IdsInit, RciTypeCorrect, PTL DEF Spec

-----------------------------------------------------------------------------
(* Refusals, when one clerk alone edits.                                   *)

OnlyEditor(e) == e \in Clerks /\ \A c \in Clerks \ {e} : "edit" \notin Ops[c]

ShownInv(e) ==
  /\ \A c \in Clerks \ {e} : ~Updating(c)
  /\ \A c \in Clerks : Creating(c) => handler[c].rciNo # handler[c].shown
  /\ \A r \in list[e], s \in enrolments : r.id = s.id => r.rciNo = s.rciNo
  /\ handler[e].op = "load" =>
       \A s \in Stored(handler[e].id) : s.rciNo = handler[e].shown
  /\ handler[e].op = "compare" => handler[e].rciNo # handler[e].shown

(* A row keeps its number unless the editor's request ends.                *)
LEMMA NumberKept ==
  ASSUME TypeOK, NEW e, OnlyEditor(e), ShownInv(e), [Next]_vars,
         NEW p \in enrolments', Known(p.id)
  PROVE  \/ p \in enrolments
         \/ list'[e] = enrolments' /\ handler'[e] = Idle
  <1>1. CASE RowsKept
    BY <1>1 DEF RowsKept
  <1>2. CASE \E d \in Clerks : RowAdded(d)
    BY <1>2, NewRowUnknown DEF RowAdded
  <1>3. CASE \E d \in Clerks : UpdateWrite(d) /\ Saved(d)
    BY <1>3 DEF ShownInv, Updating, UpdateWrite, Saved, TypeOK
  <1> QED BY RowStep, <1>1, <1>2, <1>3

LEMMA ShownStep ==
  ASSUME TypeOK, IdsInv, NEW e, OnlyEditor(e), ShownInv(e), [Next]_vars
  PROVE  ShownInv(e)'
  <1> e \in Clerks
    BY DEF OnlyEditor
  <1>1. ASSUME NEW c \in Clerks \ {e} PROVE ~Updating(c)'
    BY HandlerStep DEF OnlyEditor, ShownInv, Updating, Idle, Began, Opened, Moved
  <1>2. ASSUME NEW c \in Clerks, Creating(c)'
        PROVE  handler'[c].rciNo # handler'[c].shown
    <2>1. CASE handler'[c] = handler[c]
      BY <1>2, <2>1 DEF ShownInv, Creating
    <2> QED BY <1>2, <2>1, HandlerStep, TypedNumbers DEF ShownInv, Creating, Idle,
               Began, Opened, Moved, SameForm
  <1>3. ASSUME NEW r \in list'[e], NEW p \in enrolments', r.id = p.id
        PROVE  r.rciNo = p.rciNo
    <2>1. CASE list'[e] = enrolments'
      BY <1>3, <2>1, IdsStep DEF IdsInv
    <2>2. CASE list'[e] = list[e] /\ list'[e] # enrolments'
      <3>1. Known(p.id) /\ r \in list[e]
        BY <1>3, <2>2 DEF IdsInv
      <3>2. p \in enrolments
        BY <3>1, <2>2, NumberKept
      <3> QED BY <1>3, <3>1, <3>2 DEF ShownInv
    <2> QED BY ListStep, <2>1, <2>2
  <1>4. ASSUME handler'[e].op = "load", NEW p \in enrolments', p.id = handler'[e].id
        PROVE  p.rciNo = handler'[e].shown
    <2>1. CASE handler'[e] = handler[e]
      <3>1. Updating(e) /\ handler'[e] # Idle
        BY <1>4, <2>1 DEF Updating, Idle
      <3>2. Known(p.id)
        BY <1>4, <2>1, <3>1 DEF IdsInv
      <3>3. p \in enrolments
        BY <1>4, <3>1, <3>2, NumberKept
      <3> QED BY <1>4, <2>1, <3>3 DEF ShownInv, Stored
    <2>2. CASE Quiet /\ Opened(e)
      BY <1>4, <2>2 DEF Quiet, Opened, ShownInv
    <2> QED BY <1>4, HandlerStep, <2>1, <2>2 DEF Idle, Began, Moved
  <1>5. ASSUME handler'[e].op = "compare"
        PROVE  handler'[e].rciNo # handler'[e].shown
    <2>1. CASE handler'[e] = handler[e]
      BY <1>5, <2>1 DEF ShownInv
    <2>2. CASE /\ Moved(e, "load", "compare")
               /\ \E r \in Stored(handler[e].id) : handler[e].rciNo # r.rciNo
      BY <2>2 DEF Moved, SameForm, ShownInv
    <2> QED BY <1>5, HandlerStep, <2>1, <2>2 DEF Idle, Began, Opened, Moved
  <1> QED BY <1>1, <1>2, <1>3, <1>4, <1>5 DEF ShownInv, Stored

LEMMA RefusedFor ==
  ASSUME TypeOK, [Next]_vars, NEW c \in Clerks, answer'[c].error = "clash"
  PROVE  \/ answer'[c] = answer[c]
         \/ /\ handler[c].op \in {"clash", "compare"}
            /\ answer'[c].kept = (handler[c].rciNo = handler[c].shown)
  <1>1. CASE UNCHANGED vars
    BY <1>1 DEF vars
  <1>2. CASE Next
    <2> PICK d \in Clerks :
          \/ FetchList(d) \/ SearchAgreements(d)
          \/ CreateAsk(d) \/ CreateCheck(d) \/ CreateCount(d) \/ CreateRow(d)
          \/ UpdateAsk(d) \/ UpdateLoad(d) \/ UpdateCheck(d) \/ UpdateWrite(d)
          \/ Delete(d) \/ Abandon(d)
      BY <1>2 DEF Next
    <2>1. ASSUME NEW a, answer' = [answer EXCEPT ![d] = a]
          PROVE  answer'[c] = IF c = d THEN a ELSE answer[c]
      BY <2>1 DEF TypeOK
    <2>2. ASSUME NEW error, Refused(d, error)
          PROVE  \/ answer'[c] = answer[c]
                 \/ /\ c = d /\ answer'[c].error = error
                    /\ answer'[c].kept = (handler[c].rciNo = handler[c].shown)
      <3> PICK kept : kept = (handler[d].rciNo = handler[d].shown)
        OBVIOUS
      <3>1. answer' = [answer EXCEPT ![d] = [error |-> error, kept |-> kept]]
        BY <2>2 DEF Refused
      <3>2. answer'[c] = IF c = d THEN [error |-> error, kept |-> kept] ELSE answer[c]
        BY <3>1, <2>1
      <3>3. CASE c = d
        <4>1. answer'[c].error = error /\ answer'[c].kept = kept
          BY <3>2, <3>3
        <4> QED BY <3>3, <4>1
      <3> QED BY <3>2, <3>3
    <2>0. ASSUME Saved(d)
          PROVE  answer'[c] = answer[c] \/ answer'[c].error = "none"
      BY <2>0, <2>1 DEF Saved, NoAnswer
    <2>3. CASE FetchList(d) \/ SearchAgreements(d) \/ CreateCount(d) \/ Abandon(d)
      BY <2>3 DEF FetchList, SearchAgreements, CreateCount, Abandon
    <2>4. CASE CreateAsk(d) \/ UpdateAsk(d)
      BY <2>4, <2>1 DEF CreateAsk, UpdateAsk, NoAnswer
    <2>5. CASE CreateCheck(d)
      BY <2>5, <2>2 DEF CreateCheck, GoesOn
    <2>6. CASE UpdateCheck(d)
      BY <2>6, <2>2 DEF UpdateCheck, GoesOn
    <2>7. CASE UpdateLoad(d)
      BY <2>7, <2>2 DEF UpdateLoad, GoesOn
    <2>8. CASE CreateRow(d)
      BY <2>8, <2>0, <2>2 DEF CreateRow
    <2>9. CASE UpdateWrite(d)
      BY <2>9, <2>0, <2>2 DEF UpdateWrite
    <2>10. CASE Delete(d)
      BY <2>10, <2>0 DEF Delete
    <2> QED BY <2>3, <2>4, <2>5, <2>6, <2>7, <2>8, <2>9, <2>10
  <1> QED BY <1>1, <1>2

LEMMA BlockedStep ==
  ASSUME TypeOK, NEW e, OnlyEditor(e), ShownInv(e), EditNeverBlocked, [Next]_vars
  PROVE  EditNeverBlocked'
  <1> SUFFICES ASSUME NEW c \in Clerks, answer'[c].error = "clash"
               PROVE  ~answer'[c].kept
    BY DEF EditNeverBlocked
  <1>1. CASE answer'[c] = answer[c]
    BY <1>1 DEF EditNeverBlocked
  <1>2. CASE /\ handler[c].op \in {"clash", "compare"}
             /\ answer'[c].kept = (handler[c].rciNo = handler[c].shown)
    <2>1. handler[c].rciNo # handler[c].shown
      BY <1>2 DEF ShownInv, Creating, Updating
    <2> QED BY <1>2, <2>1
  <1> QED BY RefusedFor, <1>1, <1>2

(* With one clerk to edit, whatever the others add and delete, no save is  *)
(* refused for a number its form was opened with.                          *)
THEOREM RciEditNeverBlocked ==
  ASSUME NEW e, OnlyEditor(e)
  PROVE  Spec => []EditNeverBlocked
  <1>1. Init => ShownInv(e) /\ EditNeverBlocked
    BY DEF Init, ShownInv, EditNeverBlocked, Updating, Creating, Idle, OnlyEditor, NoAnswer
  <1>2. TypeOK /\ IdsInv /\ ShownInv(e) /\ EditNeverBlocked /\ [Next]_vars
          => IdsInv' /\ ShownInv(e)' /\ EditNeverBlocked'
    BY IdsStep, ShownStep, BlockedStep
  <1> QED BY <1>1, <1>2, IdsInit, RciTypeCorrect, PTL DEF Spec
=============================================================================
