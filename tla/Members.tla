------------------------------ MODULE Members ------------------------------
(***************************************************************************)
(* The forms of members and agreements:                                    *)
(*   backend/src/controllers/members.controller.ts     create, get, update *)
(*   backend/src/controllers/nominees.controller.ts    updateNominees      *)
(*   backend/src/controllers/agreements.controller.ts  get, change status  *)
(*   frontend/src/pages/members/MemberForm.tsx, MemberDetail.tsx           *)
(*   frontend/src/pages/agreements/AgreementDetail.tsx                     *)
(*                                                                         *)
(* A form is filled from the row the query client holds and filled again   *)
(* when that changes.  The member form keeps no entry for an empty column  *)
(* and sends what it has, the nominee form sends whole slots.              *)
(*                                                                         *)
(* Abstractions.  A few columns stand for all; a value has no format, so   *)
(* that no request is refused for one.  One agreement is edited.  A form   *)
(* of a member opens from the page of the member, whose row it shares.     *)
(***************************************************************************)
EXTENDS Integers, FiniteSets

CONSTANTS
  Clerks,      \* people at a browser
  Dept,        \* their departments
  Numbers,     \* membership numbers
  Columns,     \* columns of a member, the state and its city among them
  Slots,       \* nomineeSeq
  NomColumns,  \* columns of a nominee, fullName among them
  Values,      \* what may be keyed in a column
  SuReasons,   \* codes of SuReason
  CanReasons,  \* codes of CancellationReason
  Members0,    \* members at first
  Agreement0,  \* the agreement at first
  MaxSaves,    \* bound: saves
  MaxKeys,     \* bound: entries keyed in forms
  Null         \* SQL NULL, no row, nothing loaded

StateColumns == {"resStateCode", "resCityState"}
AcctClassify == {"NA", "SU", "PT", "TM"}

Column == Values \cup {Null}
MemberRow == [Columns -> Column]
NomineeRow == [NomColumns -> Column]
AgreementRow ==
  [acctClassify : AcctClassify, suCode : SuReasons \cup {Null},
   canCode : CanReasons \cup {Null}, nominees : [Slots -> NomineeRow \cup {Null}]]

ASSUME FormsAssumption ==
  /\ Dept \in [Clerks -> {"IT", "Finance", "Credit", "Member Services"}]
  /\ StateColumns \subseteq Columns /\ "fullName" \in NomColumns
  /\ "" \notin Values /\ MaxSaves \in Nat /\ MaxKeys \in Nat
  /\ Members0 \in [Numbers -> MemberRow \cup {Null}]
  /\ Agreement0 \in AgreementRow
  /\ Null \notin MemberRow

VARIABLES
  members,      \* Member rows
  agreement,    \* the agreement and its nominees
  memberQuery,  \* ['member', id] of each clerk's query client
  agmtQuery,    \* ['agreement', id] of each
  memberForm,   \* the member form of each, and where its clerk has typed
  agmtForm,     \* status and nominee form of each
  statusReq,    \* a status change that was found allowed
  saves,        \* bound: saves so far
  saver,        \* who saved last
  keys          \* bound: entries keyed so far

memberVars == <<members, memberQuery, memberForm>>
agmtVars == <<agreement, agmtQuery, agmtForm, statusReq>>
formVars == <<members, agreement, memberQuery, agmtQuery, memberForm, agmtForm,
              statusReq, saves, saver, keys>>

Save(c) == saves < MaxSaves /\ saves' = saves + 1 /\ saver' = c /\ UNCHANGED keys
NoSave == UNCHANGED <<saves, saver, keys>>
Key == keys < MaxKeys /\ keys' = keys + 1 /\ UNCHANGED <<saves, saver>>

-----------------------------------------------------------------------------
(* The member form.  Its text has an entry for every column that was not   *)
(* empty when it was loaded and for every column that was typed in.        *)

(* Mutation: an empty column is loaded as an empty text.                   *)
MutLoaded(row) == [f \in Columns |-> IF row[f] = Null THEN "" ELSE row[f]]

Loaded(row) == [f \in {g \in Columns : row[g] # Null} |-> row[f]]

(* What is sent or keyed goes over what was there.                         *)
Over(new, old) ==
  [f \in DOMAIN new \cup DOMAIN old |-> IF f \in DOMAIN new THEN new[f] ELSE old[f]]

OpenForm(no, isEdit, text) ==
  [no |-> no, isEdit |-> isEdit, text |-> text, typed |-> {}]

buildPayload(text) == [f \in DOMAIN text |-> IF text[f] = "" THEN Null ELSE text[f]]

(* GET /api/members/:id, for the page of a member or again behind a form,  *)
(* which is filled again if the row has changed.                           *)
ShowMember(c, no) ==
  /\ members[no] # Null /\ memberQuery[c][no] # members[no]
  /\ memberQuery' = [memberQuery EXCEPT ![c][no] = members[no]]
  /\ memberForm' = IF memberForm[c] = Null THEN memberForm
                   ELSE IF memberForm[c].isEdit /\ memberForm[c].no = no
                   THEN [memberForm EXCEPT ![c] = OpenForm(no, TRUE, Loaded(members[no]))]
                   ELSE memberForm
  /\ UNCHANGED members /\ NoSave

EditMember(c, no) ==
  /\ memberForm[c] = Null /\ memberQuery[c][no] # Null
  /\ memberForm' = [memberForm EXCEPT ![c] = OpenForm(no, TRUE, Loaded(memberQuery[c][no]))]
  /\ UNCHANGED <<members, memberQuery>> /\ NoSave

NewMember(c, no) ==
  /\ memberForm[c] = Null
  /\ memberForm' = [memberForm EXCEPT ![c] = OpenForm(no, FALSE, <<>>)]
  /\ UNCHANGED <<members, memberQuery>> /\ NoSave

Typing(c, entry) ==
  /\ memberForm[c] # Null
  /\ memberForm' = [memberForm EXCEPT ![c].text = Over(entry, @),
                                      ![c].typed = @ \cup DOMAIN entry]
  /\ Key /\ UNCHANGED <<members, memberQuery>>

TypeMember(c, f, v) == Typing(c, [g \in {f} |-> v])

(* Another state brings its name into the field of the city.               *)
handleStateChange(c, v) == Typing(c, [f \in StateColumns |-> v])

CloseForm(c) == memberForm' = [memberForm EXCEPT ![c] = Null]

CancelEdit(c) ==
  memberForm[c] # Null /\ CloseForm(c) /\ UNCHANGED <<members, memberQuery>> /\ NoSave

(* PUT /api/members/:id: only the columns that were sent.                  *)
updateMember(c) ==
  LET form == memberForm[c]
  IN /\ form # Null
     /\ form.isEdit
     /\ members' = [members EXCEPT ![form.no] = Over(buildPayload(form.text), @)]
     /\ CloseForm(c) /\ Save(c)
     /\ UNCHANGED memberQuery

(* POST /api/members: refused if there is the number.                      *)
createMember(c) ==
  LET form == memberForm[c]
  IN /\ form # Null
     /\ ~form.isEdit /\ members[form.no] = Null
     /\ members' = [members EXCEPT ![form.no] =
                      Over(buildPayload(form.text), [f \in Columns |-> Null])]
     /\ CloseForm(c) /\ Save(c)
     /\ UNCHANGED memberQuery

(* The departments whose matrix has MEMBERS edit.                          *)
MemberClerks == {c \in Clerks : Dept[c] \in {"IT", "Member Services"}}

MemberDesk ==
  /\ \E c \in MemberClerks :
       \/ \E no \in Numbers : ShowMember(c, no) \/ EditMember(c, no) \/ NewMember(c, no)
       \/ \E v \in Values \cup {""} :
            handleStateChange(c, v) \/ \E f \in Columns : TypeMember(c, f, v)
       \/ CancelEdit(c) \/ updateMember(c) \/ createMember(c)
  /\ UNCHANGED agmtVars

-----------------------------------------------------------------------------
(* The page of the agreement.  The page offers what the server allows.     *)
allowedNewStatuses(dept, current) ==
  CASE dept \in {"IT", "Finance"} -> AcctClassify
    [] dept = "Credit" -> IF current = "TM" THEN {} ELSE {"NA", "SU", "PT"}
    [] OTHER -> {}

(* Mutation: a termination is not looked at.                               *)
MutStatusChangeAllowed(dept, current, new) ==
  dept \in {"IT", "Finance"} \/ (dept = "Credit" /\ new # "TM")

statusChangeAllowed(dept, current, new) ==
  dept \in {"IT", "Finance"} \/ (dept = "Credit" /\ new # "TM" /\ current # "TM")

canEditNominees(dept) == dept \in {"IT", "Member Services"}

ReasonsOf(status) ==
  CASE status = "SU" -> SuReasons [] status \in {"PT", "TM"} -> CanReasons [] OTHER -> {}

(* The reason the agreement has, if it has this status.                    *)
ReasonShown(row, status) ==
  LET code == IF status = "SU" THEN row.suCode ELSE row.canCode
  IN IF status = row.acctClassify /\ status # "NA" /\ code # Null THEN code ELSE ""

(* A nominee as text; a slot without one has no entries.                   *)
SlotText(nominee) ==
  IF nominee = Null THEN <<>>
  ELSE [f \in NomColumns |-> IF nominee[f] = Null THEN "" ELSE nominee[f]]

TextOf(slot, f) == IF f \in DOMAIN slot THEN slot[f] ELSE ""

PageForm(row) ==
  [newStatus |-> row.acctClassify, reasonCode |-> ReasonShown(row, row.acctClassify),
   nominees |-> [s \in Slots |-> SlotText(row.nominees[s])], typed |-> [s \in Slots |-> {}]]

(* GET /api/agreements/:id: both forms of the page are filled again.       *)
ShowAgreement(c) ==
  /\ agmtQuery[c] # agreement
  /\ agmtQuery' = [agmtQuery EXCEPT ![c] = agreement]
  /\ agmtForm' = [agmtForm EXCEPT ![c] = PageForm(agreement)]
  /\ UNCHANGED <<agreement, statusReq>> /\ NoSave

OnPage(c) == agmtQuery[c] # Null /\ statusReq[c] = Null

handleStatusChange(c, s) ==
  /\ OnPage(c)
  /\ s \in allowedNewStatuses(Dept[c], agmtQuery[c].acctClassify)
  /\ agmtForm' = [agmtForm EXCEPT ![c].newStatus = s,
                                  ![c].reasonCode = ReasonShown(agmtQuery[c], s)]
  /\ Key /\ UNCHANGED <<agreement, agmtQuery, statusReq>>

ChooseReason(c, r) ==
  /\ OnPage(c)
  /\ r \in ReasonsOf(agmtForm[c].newStatus)
  /\ agmtForm' = [agmtForm EXCEPT ![c].reasonCode = r]
  /\ Key /\ UNCHANGED <<agreement, agmtQuery, statusReq>>

(* PATCH /api/agreements/:id/status: the authority is checked against the  *)
(* status that is read now ...                                             *)
AskStatus(c) ==
  LET new == agmtForm[c].newStatus
      reason == agmtForm[c].reasonCode
  IN /\ OnPage(c)
     /\ allowedNewStatuses(Dept[c], agmtQuery[c].acctClassify) # {}
     /\ new # "NA" => reason # ""
     /\ statusChangeAllowed(Dept[c], agreement.acctClassify, new)
     /\ statusReq' = [statusReq EXCEPT ![c] =
                        [new |-> new, reason |-> reason, old |-> agreement.acctClassify]]
     /\ UNCHANGED <<agreement, agmtQuery, agmtForm>> /\ NoSave

(* ... and the status written by a transaction of its own, its reason in   *)
(* the column of the status and none in the other.                         *)
reasonData(new, reason) ==
  CASE new = "SU" -> <<reason, Null>>
    [] new \in {"PT", "TM"} -> <<Null, reason>>
    [] OTHER -> <<Null, Null>>

changeAgreementStatus(c) ==
  LET req == statusReq[c]
  IN /\ req # Null
     /\ agreement' = [agreement EXCEPT
                        !.acctClassify = req.new,
                        !.suCode = reasonData(req.new, req.reason)[1],
                        !.canCode = reasonData(req.new, req.reason)[2]]
     /\ statusReq' = [statusReq EXCEPT ![c] = Null]
     /\ Save(c) /\ UNCHANGED <<agmtQuery, agmtForm>>

(* A field reports what is typed in it when its text changes.              *)
TypeNominee(c, s, f, v) ==
  /\ OnPage(c)
  /\ canEditNominees(Dept[c])
  /\ TextOf(agmtForm[c].nominees[s], f) # v
  /\ agmtForm' = [agmtForm EXCEPT ![c].nominees[s] = Over([g \in {f} |-> v], @),
                                  ![c].typed[s] = @ \cup {f}]
  /\ Key /\ UNCHANGED <<agreement, agmtQuery, statusReq>>

NameOf(slot) == TextOf(slot, "fullName")

(* Mutation: every slot with an entry is sent.                             *)
MutSent(slots) == {s \in Slots : DOMAIN slots[s] # {}}

(* The slots that are sent: those with a name.                             *)
Sent(slots) == {s \in Slots : NameOf(slots[s]) # ""}

(* PUT /api/agreements/:id/nominees: one transaction of upserts.           *)
updateNominees(c) ==
  LET slots == agmtForm[c].nominees
      stored(s) == IF agreement.nominees[s] = Null THEN [f \in NomColumns |-> Null]
                   ELSE agreement.nominees[s]
  IN /\ OnPage(c)
     /\ canEditNominees(Dept[c])
     /\ Sent(slots) # {}
     /\ agreement' = [agreement EXCEPT !.nominees =
          [s \in Slots |-> IF s \in Sent(slots) THEN Over(buildPayload(slots[s]), stored(s))
                           ELSE @[s]]]
     /\ Save(c) /\ UNCHANGED <<agmtQuery, agmtForm, statusReq>>

AgreementDesk ==
  /\ \E c \in Clerks :
       \/ ShowAgreement(c) \/ AskStatus(c) \/ changeAgreementStatus(c) \/ updateNominees(c)
       \/ \E s \in AcctClassify : handleStatusChange(c, s)
       \/ \E r \in SuReasons \cup CanReasons : ChooseReason(c, r)
       \/ \E s \in Slots, f \in NomColumns, v \in Values \cup {""} : TypeNominee(c, s, f, v)
  /\ UNCHANGED memberVars

-----------------------------------------------------------------------------
FormInit ==
  /\ members = Members0 /\ agreement = Agreement0
  /\ saves = 0 /\ saver = Null /\ keys = 0
  /\ memberQuery = [c \in Clerks |-> [no \in Numbers |-> Null]]
  /\ memberForm = [c \in Clerks |-> Null]
  /\ agmtQuery = [c \in Clerks |-> Null]
  /\ agmtForm = [c \in Clerks |-> PageForm(Agreement0)]
  /\ statusReq = [c \in Clerks |-> Null]

FormTypeOK ==
  /\ members \in [Numbers -> MemberRow \cup {Null}]
  /\ agreement \in AgreementRow
  /\ \A c \in Clerks : memberForm[c] # Null =>
       memberForm[c].text \in UNION {[D -> Values \cup {""}] : D \in SUBSET Columns}
  /\ saves \in 0..MaxSaves /\ saver \in Clerks \cup {Null} /\ keys \in 0..MaxKeys

(* What a form shows of a column.                                          *)
Displayed(text, f) == IF f \in DOMAIN text /\ text[f] # "" THEN text[f] ELSE Null

(* A column the clerk has not typed in keeps its value or gets the one it  *)
(* was loaded with; if it was empty then, it keeps what is there now.      *)
Kept(form, loaded, f, old, new) ==
  IF f \in form.typed THEN new = Displayed(form.text, f)
  ELSE new = old \/ (loaded # Null /\ new = loaded)

MembersKept(c) ==
  LET form == memberForm[c]
      old == members[form.no]
      new == members'[form.no]
  IN /\ \A no \in Numbers \ {form.no} : members'[no] = members[no]
     /\ form.isEdit <=> old # Null
     /\ \A f \in Columns :
          IF form.isEdit THEN Kept(form, memberQuery[c][form.no][f], f, old[f], new[f])
          ELSE Kept(form, Null, f, Null, new[f])

(* A slot that is shown without a name keeps its nominee.  In the others a *)
(* column that was not typed in keeps its value if there was no nominee    *)
(* when the page was loaded; if there was one it goes back to what was     *)
(* loaded, to nothing if that was empty, though another clerk has filled   *)
(* it since: the exception that the nominee form makes.                    *)
SlotKept(c, s) ==
  LET text == agmtForm[c].nominees[s]
      loaded == agmtQuery[c].nominees[s]
      old == agreement.nominees[s]
      new == agreement'.nominees[s]
  IN IF NameOf(text) = "" THEN new = old
     ELSE \A f \in NomColumns :
            new[f] = IF f \in agmtForm[c].typed[s] THEN Displayed(text, f)
                     ELSE IF loaded # Null THEN loaded[f]
                     ELSE IF old # Null THEN old[f] ELSE Null

(* The reason is one of the status.  Credit does not terminate, and undoes *)
(* a termination only if that was committed between the check of its       *)
(* request and the write: the exception that the check makes.              *)
StatusKept(c) ==
  LET new == agreement'
      reason == IF new.acctClassify = "SU" THEN new.suCode ELSE new.canCode
  IN /\ new.acctClassify = "NA" \/ reason \in ReasonsOf(new.acctClassify)
     /\ Null \in {new.suCode, new.canCode}
     /\ Dept[c] = "Credit" =>
          /\ new.acctClassify # "TM"
          /\ agreement.acctClassify = "TM" => statusReq[c].old # "TM"

(* Saves from forms however old.  The member form changes what its clerk   *)
(* typed and puts back at most what it was loaded with: it empties no      *)
(* column that another clerk filled meanwhile, and renames no member.  The *)
(* nominee form drops no nominee and takes a column of a slot back to what *)
(* the page was loaded with, no further.  A status is left with no reason  *)
(* of another, and by Credit no termination it was checked against undone. *)
SavesKeepOthers ==
  [][/\ members' # members => memberForm[saver'] # Null /\ MembersKept(saver')
     /\ agreement'.nominees # agreement.nominees =>
          \A s \in Slots : agmtQuery[saver'] # Null /\ SlotKept(saver', s)
     /\ [agreement' EXCEPT !.nominees = agreement.nominees] # agreement =>
          statusReq[saver'] # Null /\ StatusKept(saver')]_formVars
=============================================================================
