-------------------------- MODULE FrontDeskProofs --------------------------
(***************************************************************************)
(* For any clerks and departments, members, columns and values,            *)
(* agreements, usage, reports, days and lists: every table and page keeps  *)
(* its type, a save from a form of any age keeps what others saved         *)
(* meanwhile, the page of a list that is shown exists, a card accounts for *)
(* all of its nights or points, and the reports on screen and in a file    *)
(* agree.                                                                  *)
(*                                                                         *)
(* The desks share no state, so that each has an inductive invariant of    *)
(* its own: ListInv, FormInv, ReportInv and EntitlementInv, and on top of  *)
(* the last two CardInv and DocumentsInv, by which a card and a document   *)
(* are what the tables of the day make of them. What is made is then a     *)
(* matter of sums, counts and orders over finite sets, whose lemmas are    *)
(* proved by a smallest counterexample.                                    *)
(***************************************************************************)
EXTENDS FrontDesk, TLAPS, FiniteSetTheorems, WellFoundedInduction

(***************************************************************************)
(* Lists.                                                                  *)
(***************************************************************************)
PageSize(name) == IF name = "audit" THEN 50 ELSE 20
PagesOf(name, q, filter) == (TotalOf[<<q, filter>>] + PageSize(name) - 1) \div PageSize(name)

(* The parameters whose page is the first or one that has rows.            *)
Sound(name) ==
  {p \in Params : p.page >= 1 /\ (p.page = 1 \/ p.page <= PagesOf(name, p.q, p.filter))}

ListInv ==
  /\ ListTypeOK
  /\ timer # NoTimer => timer.q \in Texts /\ timer.prev \in Params
  /\ sp \in Sound(list)
  /\ hist \in Seq(Sound(list))
  /\ list = "none" => hist = <<>>

(* Nothing but the steps of the lists moves the state of a list.         *)
LEMMA ListDesk ==
  /\ Init => ListInit
  /\ [Next]_vars => [ListNext]_listVars
  <1>1. Init => ListInit
    BY DEF Init
  <1>2. ASSUME Next PROVE ListNext \/ listVars' = listVars
    BY <1>2 DEF Next, listVars
  <1>3. vars' = vars => listVars' = listVars
    BY DEF vars
  <1> QED BY <1>1, <1>2, <1>3

(* What a search that starts over asks for.                                *)
LEMMA FirstPage ==
  ASSUME NEW name, NEW p \in Params, p.page = 1
  PROVE  p \in Sound(name)
  BY DEF Sound

(* The parameters of a fresh list are well formed and lie on its first   *)
(* page.                                                                 *)
LEMMA EmptySound == Empty \in Params /\ \A name : Empty \in Sound(name)
  <1>1. Empty \in Params /\ Empty.page = 1
    BY DEF Empty, Params, Texts
  <1> QED BY <1>1, FirstPage

(* Every text a list is searched for has a number of rows.               *)
LEMMA SearchTotal ==
  ASSUME NEW p \in Params
  PROVE  TotalOf[<<p.q, p.filter>>] \in Nat
  BY ListsAssumption DEF Params

(* The buttons: pages of the search, no page twice, the page shown and its *)
(* neighbours among them.                                                  *)
LEMMA ButtonsExist ==
  ASSUME NEW at \in Int, NEW pages \in Int, 1 <= at, at <= pages
  PROVE  LET buttons == PageButtons(at, pages)
         IN /\ pages > 1 =>
                 /\ \A i, j \in DOMAIN buttons : i # j => buttons[i] # buttons[j]
                 /\ {at - 1, at, at + 1} \cap (1..pages)
                      \subseteq {buttons[i] : i \in DOMAIN buttons}
            /\ Pagination(at, pages) \subseteq 1..pages
  <1> DEFINE n == IF pages < 7 THEN pages ELSE 7
             first == IF pages <= 7 \/ at <= 4 THEN 1
                      ELSE IF at >= pages - 3 THEN pages - 6 ELSE at - 3
             buttons == PageButtons(at, pages)
  <1>1. CASE pages <= 1
    <2>1. buttons = <<>> /\ DOMAIN buttons = {}
      BY <1>1 DEF PageButtons
    <2> QED BY <1>1, <2>1 DEF Pagination
  <1>2. CASE pages > 1
    <2>1. n \in Int /\ first \in Int /\ 1 <= first /\ first + n - 1 <= pages
      BY <1>2
    <2>2. \A k \in 1..pages : k \in {at - 1, at, at + 1} => k - first + 1 \in 1..n
      BY <1>2
    <2>3. buttons = [i \in 1..n |-> first + i - 1]
      BY <1>2 DEF PageButtons
    <2> HIDE DEF n, first, buttons
    <2>4. DOMAIN buttons = 1..n /\ \A i \in 1..n : buttons[i] = first + i - 1
      BY <2>3
    <2>5. \A i, j \in DOMAIN buttons : i # j => buttons[i] # buttons[j]
      BY <2>1, <2>4
    <2>6. \A k \in {at - 1, at, at + 1} \cap (1..pages) :
            k \in {buttons[i] : i \in DOMAIN buttons}
      <3> TAKE k \in {at - 1, at, at + 1} \cap (1..pages)
      <3>1. k - first + 1 \in 1..n
        BY <2>2
      <3>2. buttons[k - first + 1] = k
        BY <2>1, <2>4, <3>1
      <3> QED BY <2>4, <3>1, <3>2
    <2>7. \A i \in DOMAIN buttons : buttons[i] \in 1..pages
      BY <2>1, <2>4
    <2>8. /\ at # 1 => at - 1 \in 1..pages
          /\ at # pages => at + 1 \in 1..pages
      OBVIOUS
    <2>9. Pagination(at, pages) \subseteq 1..pages
      BY <2>7, <2>8 DEF Pagination, buttons
    <2> QED BY <2>5, <2>6, <2>9 DEF buttons
  <1> QED BY <1>1, <1>2

(* With no page there is no button.                                        *)
LEMMA NoButtons == Pagination(1, 0) = {}
  BY DEF Pagination, PageButtons

(* What is answered for parameters with a sound page.                      *)
LEMMA AnswerSound ==
  ASSUME sp \in Sound(list)
  PROVE  /\ Answer.page = sp.page /\ Answer.page \in Nat
         /\ Answer.total = TotalOf[<<sp.q, sp.filter>>] /\ Answer.total \in Nat
         /\ Answer.pages = PagesOf(list, sp.q, sp.filter) /\ Answer.pages \in Nat
         /\ Answer.page <= Answer.pages \/ (Answer.page = 1 /\ Answer.pages = 0)
         /\ Answer.total > 0 => Answer.rows > 0 /\ Answer.pages > 0
  <1> DEFINE total == TotalOf[<<sp.q, sp.filter>>]
             l == PageSize(list)
  <1>1. sp \in Params /\ sp.page \in Nat /\ sp.page >= 1 /\ total \in Nat
    BY SearchTotal DEF Sound, Params
  <1>2. l \in {20, 50} /\ Limit = l
    BY DEF PageSize, Limit
  <1>3. parsePagination(sp.page, Limit) = [skip |-> (sp.page - 1) * l, take |-> l, page |-> sp.page]
    BY <1>1, <1>2 DEF parsePagination
  <1>4. /\ Answer.page = sp.page /\ Answer.total = total
        /\ Answer.pages = (total + l - 1) \div l
        /\ Answer.rows = LET left == total - (sp.page - 1) * l
                         IN IF left <= 0 THEN 0 ELSE IF left < l THEN left ELSE l
    BY <1>3 DEF Answer
  <1>5. sp.page = 1 \/ sp.page <= (total + l - 1) \div l
    BY DEF Sound, PagesOf
  <1> HIDE DEF total, l
  <1>6. PICK p \in Nat, t \in Nat : p = sp.page /\ t = total
    BY <1>1
  <1>7. CASE l = 20
    <2>1. (t + 20 - 1) \div 20 \in Nat /\ (t > 0 => (t + 20 - 1) \div 20 > 0)
      BY <1>6
    <2>2. t > 0 => t - (p - 1) * 20 > 0
      BY <1>1, <1>5, <1>6, <1>7
    <2> QED BY <1>1, <1>4, <1>5, <1>6, <1>7, <2>1, <2>2 DEF PagesOf, total, l
  <1>8. CASE l = 50
    <2>1. (t + 50 - 1) \div 50 \in Nat /\ (t > 0 => (t + 50 - 1) \div 50 > 0)
      BY <1>6
    <2>2. t > 0 => t - (p - 1) * 50 > 0
      BY <1>1, <1>5, <1>6, <1>8
    <2> QED BY <1>1, <1>4, <1>5, <1>6, <1>8, <2>1, <2>2 DEF PagesOf, total, l
  <1> QED BY <1>2, <1>7, <1>8

(* A list whose parameters are sound shows a page that exists.           *)
LEMMA PagesShown == ListInv => ListPageExists
  <1> SUFFICES ASSUME ListInv PROVE ListPageExists
    OBVIOUS
  <1>1. sp \in Sound(list)
    BY DEF ListInv
  <1>2. PICK at \in Nat, pages \in Nat : at = Answer.page /\ pages = Answer.pages
    BY <1>1, AnswerSound
  <1>3. at >= 1 /\ (at <= pages \/ pages = 0)
    BY <1>1, <1>2, AnswerSound DEF Sound
  <1>4. Answer.total > 0 => Answer.rows > 0
    BY <1>1, AnswerSound
  <1>5. pages > 1 =>
          LET buttons == PageButtons(at, pages)
          IN /\ \A i, j \in DOMAIN buttons : i # j => buttons[i] # buttons[j]
             /\ {at - 1, at, at + 1} \cap (1..pages)
                  \subseteq {buttons[i] : i \in DOMAIN buttons}
             /\ Pagination(at, pages) \subseteq 1..pages
    BY <1>3, ButtonsExist
  <1> QED BY <1>2, <1>4, <1>5 DEF ListPageExists

(***************************************************************************)
(* Steps.                                                                  *)
(***************************************************************************)
LEMMA ListStart == ListInit => ListInv
  <1> SUFFICES ASSUME ListInit PROVE ListInv
    OBVIOUS
  <1>1. sp \in Params /\ sp \in Sound(list)
    BY EmptySound DEF ListInit
  <1>2. input \in [q : Texts, filter : Texts]
    BY DEF ListInit, Texts
  <1>3. hist \in Seq(Params) /\ hist \in Seq(Sound(list))
    <2>1. \A S : <<>> \in Seq(S)
      OBVIOUS
    <2> QED BY <2>1 DEF ListInit
  <1>4. clicks \in 0..MaxClicks
    <2>1. clicks = 0 /\ MaxClicks \in Nat
      BY Zenon, ListsAssumption DEF ListInit
    <2> QED BY <2>1
  <1>5. away \in BOOLEAN
    BY Zenon DEF ListInit
  <1>6. ListTypeOK
    BY <1>1, <1>2, <1>3, <1>4, <1>5 DEF ListInit, ListTypeOK
  <1> QED BY <1>1, <1>3, <1>6 DEF ListInit, ListInv

(* A step that stays on the list and leaves the searches of Back alone.    *)
LEMMA Stays ==
  ASSUME ListInv, list' = list, hist' = hist, away' \in BOOLEAN,
         clicks' = clicks \/ Click,
         sp' \in Sound(list), input' \in [q : Texts, filter : Texts],
         timer' # NoTimer => timer'.q \in Texts /\ timer'.prev \in Params
  PROVE  ListInv'
  <1>1. clicks' \in 0..MaxClicks
    BY ListsAssumption DEF ListInv, ListTypeOK, Click, Here
  <1>2. sp' \in Params
    BY DEF Sound
  <1> QED BY <1>1, <1>2 DEF ListInv, ListTypeOK, Sound, PagesOf, PageSize

(* A search that Back may return to.                                       *)
LEMMA Remembers ==
  ASSUME ListInv, list' = list, away' = away, input' \in [q : Texts, filter : Texts],
         timer' = timer \/ (timer'.q \in Texts /\ timer'.prev \in Params),
         Click, list # "none", sp' \in Sound(list),
         hist' = hist \/ hist' = Append(hist, sp)
  PROVE  ListInv'
  <1>1. clicks' \in 0..MaxClicks
    BY ListsAssumption DEF ListInv, ListTypeOK, Click, Here
  <1>2. sp' \in Params
    BY DEF Sound
  <1>3. hist' \in Seq(Sound(list)) /\ hist' \in Seq(Params)
    <2>1. sp \in Sound(list) /\ sp \in Params
      BY DEF ListInv, ListTypeOK
    <2> QED BY <2>1 DEF ListInv, ListTypeOK
  <1>4. Sound(list)' = Sound(list)
    BY DEF Sound, PagesOf, PageSize
  <1> QED BY <1>1, <1>2, <1>3, <1>4 DEF ListInv, ListTypeOK

(* Going back to an earlier search shows parameters that were sound      *)
(* then.                                                                 *)
LEMMA Returns ==
  ASSUME ListInv, BackToSearch
  PROVE  ListInv'
  <1>1. Len(hist) \in Nat \ {0} /\ hist \in Seq(Sound(list))
    BY DEF ListInv, BackToSearch
  <1>2. sp' \in Sound(list) /\ sp' \in Params
    BY <1>1 DEF BackToSearch, Sound
  <1>3. hist' \in Seq(Sound(list)) /\ hist' \in Seq(Params)
    <2>1. hist' = SubSeq(hist, 1, Len(hist) - 1) /\ hist \in Seq(Params)
      BY DEF BackToSearch, ListInv, ListTypeOK
    <2>2. \A i \in 1..(Len(hist) - 1) : hist[i] \in Sound(list) /\ hist[i] \in Params
      BY <1>1, <2>1
    <2> QED BY <1>1, <2>1, <2>2
  <1>4. clicks' \in 0..MaxClicks
    BY ListsAssumption DEF ListInv, ListTypeOK, BackToSearch, Click, Here
  <1>5. Sound(list)' = Sound(list) /\ list # "none"
    BY DEF Sound, PagesOf, PageSize, BackToSearch, Click, Here
  <1> QED BY <1>2, <1>3, <1>4, <1>5 DEF ListInv, ListTypeOK, BackToSearch

(* Opening a list from the menu shows its first page.                    *)
LEMMA Visits ==
  ASSUME ListInv, VisitList
  PROVE  ListInv'
  <1>1. list' \in Lists /\ hist' = <<>> /\ sp' = Empty /\ away' = away /\ clicks' = clicks
    BY DEF VisitList, Mounted, ListInv
  <1>2. input' \in [q : Texts, filter : Texts]
    BY EmptySound DEF VisitList, Mounted, Params
  <1>3. timer' # NoTimer => timer'.q \in Texts /\ timer'.prev \in Params
    BY EmptySound DEF VisitList, Mounted, Params, Timed
  <1>4. sp' \in Sound(list') /\ sp' \in Params
    BY <1>1, EmptySound
  <1>5. Sound(list)' = Sound(list')
    BY DEF Sound, PagesOf, PageSize
  <1>6. hist' \in Seq(Sound(list')) /\ hist' \in Seq(Params)
    BY <1>1
  <1> QED BY <1>1, <1>2, <1>3, <1>4, <1>5, <1>6 DEF ListInv, ListTypeOK

(* Every step of a list keeps its parameters sound.                      *)
LEMMA ListStep == ListInv /\ [ListNext]_listVars => ListInv'
  <1> SUFFICES ASSUME ListInv, [ListNext]_listVars PROVE ListInv'
    OBVIOUS
  <1> USE EmptySound
  <1>1. /\ sp \in Params /\ sp \in Sound(list) /\ away \in BOOLEAN
        /\ input \in [q : Texts, filter : Texts]
        /\ timer # NoTimer => timer.q \in Texts /\ timer.prev \in Params
    BY DEF ListInv, ListTypeOK
  <1>2. CASE UNCHANGED listVars
    BY <1>1, <1>2, Stays DEF listVars
  <1>3. CASE VisitList
    BY <1>3, Visits
  <1>4. CASE TypeText
    <2>1. PICK text \in Texts :
            /\ input' = [input EXCEPT !.q = text]
            /\ timer' = IF list \in AsTyped THEN Timed(text, sp) ELSE timer
            /\ sp' = IF list = "users" THEN [sp EXCEPT !.q = text, !.page = 1] ELSE sp
      BY <1>4 DEF TypeText
    <2>2. input' \in [q : Texts, filter : Texts]
      BY <1>1, <2>1
    <2>3. timer' # NoTimer => timer'.q \in Texts /\ timer'.prev \in Params
      BY <1>1, <2>1 DEF Timed
    <2>4. sp' \in Sound(list)
      <3>1. [sp EXCEPT !.q = text, !.page = 1] \in Params
        BY <1>1 DEF Params
      <3>2. [sp EXCEPT !.q = text, !.page = 1].page = 1
        BY <1>1 DEF Params
      <3> QED BY <1>1, <2>1, <3>1, <3>2, FirstPage
    <2> QED BY <1>1, <1>4, <2>2, <2>3, <2>4, Stays DEF TypeText
  <1>5. CASE TimerFires
    <2>1. PICK prev \in Params : sp' = [prev EXCEPT !.q = timer.q, !.page = 1]
      BY <1>1, <1>5 DEF TimerFires
    <2>2. timer.q \in Texts
      BY <1>1, <1>5 DEF TimerFires
    <2>3. sp' \in Params /\ sp'.page = 1
      BY <2>1, <2>2 DEF Params
    <2> QED BY <1>1, <1>5, <2>3, FirstPage, Stays DEF TimerFires
  <1>6. CASE SetFilter
    <2>1. PICK value \in Texts : sp' = Filtered(value) /\ input' = [input EXCEPT !.filter = value]
      BY <1>6 DEF SetFilter
    <2>2. sp' \in Params /\ sp'.page = 1
      BY <1>1, <2>1 DEF Filtered, Params
    <2>3. input' \in [q : Texts, filter : Texts]
      BY <1>1, <2>1
    <2> QED BY <1>1, <1>6, <2>2, <2>3, FirstPage, Stays DEF SetFilter
  <1>7. CASE DraftFilter
    <2>1. input' \in [q : Texts, filter : Texts]
      BY <1>1, <1>7 DEF DraftFilter
    <2> QED BY <1>1, <1>7, <2>1, Stays DEF DraftFilter
  <1>8. CASE handleSearch
    <2>1. sp' \in Params /\ sp'.page = 1
      BY <1>1, <1>8 DEF handleSearch, Params
    <2> QED BY <1>1, <1>8, <2>1, FirstPage, Remembers DEF handleSearch, Click, Here
  <1>9. CASE handleClear
    <2>1. sp' \in Sound(list) /\ input' \in [q : Texts, filter : Texts]
      BY <1>9 DEF handleClear, Texts
    <2>2. timer' = timer \/ (timer'.q \in Texts /\ timer'.prev \in Params)
      BY <1>9 DEF handleClear, Timed, Texts
    <2> QED BY <1>1, <1>9, <2>1, <2>2, Remembers DEF handleClear, Click, Here
  <1>10. CASE handleSort
    <2>1. PICK order \in Texts : sp' = [sp EXCEPT !.sort = order, !.page = 1]
      BY <1>10 DEF handleSort
    <2>2. sp' \in Params /\ sp'.page = 1
      BY <1>1, <2>1 DEF Params
    <2> QED BY <1>1, <1>10, <2>2, FirstPage, Stays DEF handleSort
  <1>11. CASE handlePage
    <2>1. PICK at \in Nat, pages \in Nat :
            /\ at = Answer.page /\ pages = PagesOf(list, sp.q, sp.filter)
            /\ pages = Answer.pages
            /\ at >= 1 /\ (at <= pages \/ (at = 1 /\ pages = 0))
      BY <1>1, AnswerSound DEF Sound
    <2>2. PICK p \in Pagination(at, pages) : sp' = [sp EXCEPT !.page = p]
      BY <1>11, <2>1 DEF handlePage
    <2>3. p \in 1..pages
      BY <2>1, <2>2, ButtonsExist, NoButtons
    <2>4. sp' \in Params /\ sp'.page = p /\ sp'.q = sp.q /\ sp'.filter = sp.filter
      BY <1>1, <2>2, <2>3 DEF Params
    <2>5. PagesOf(list, sp'.q, sp'.filter) = pages
      BY <2>1, <2>4
    <2>6. sp' \in Sound(list)
      <3> DEFINE params == sp'
      <3>1. params \in Params /\ params.page >= 1
            /\ params.page <= PagesOf(list, params.q, params.filter)
        BY <2>3, <2>4, <2>5
      <3> HIDE DEF params
      <3>2. params \in Sound(list)
        BY <3>1 DEF Sound
      <3> QED BY <3>2 DEF params
    <2> QED BY <1>1, <1>11, <2>6, Stays DEF handlePage
  <1>12. CASE OpenRow
    BY <1>1, <1>12, Stays DEF OpenRow
  <1>13. CASE BackToList
    <2>1. PICK p \in Sound(list) : p \in Params /\ Mounted(list, p)
      BY <1>1, <1>13 DEF BackToList
    <2>2. /\ sp' \in Sound(list) /\ input' \in [q : Texts, filter : Texts]
          /\ timer' # NoTimer => timer'.q \in Texts /\ timer'.prev \in Params
      BY <2>1 DEF Mounted, Timed, Params
    <2> QED BY <1>13, <2>2, Stays DEF BackToList
  <1>14. CASE BackToSearch
    BY <1>14, Returns
  <1> QED BY <1>2, <1>3, <1>4, <1>5, <1>6, <1>7, <1>8, <1>9, <1>10, <1>11, <1>12, <1>13, <1>14
          DEF ListNext

(* The parameters, forms and searches of the lists keep their types.       *)
THEOREM ListTypeCorrect == Spec => []ListTypeOK
  <1>1. Init => ListInv
    BY ListDesk, ListStart
  <1>2. ListInv /\ [Next]_vars => ListInv'
    BY ListDesk, ListStep
  <1>3. ListInv => ListTypeOK
    BY DEF ListInv
  <1> QED BY <1>1, <1>2, <1>3, PTL DEF Spec

(* However many rows fit each search, and whatever is typed, chosen,       *)
(* sorted, paged, opened and gone back to: the page shown exists, a search *)
(* with rows shows some, and every button leads to a page that exists.     *)
THEOREM PagesExist == Spec => []ListPageExists
  <1>1. Init => ListInv
    BY ListDesk, ListStart
  <1>2. ListInv /\ [Next]_vars => ListInv'
    BY ListDesk, ListStep
  <1>3. ListInv => ListPageExists
    BY PagesShown
  <1> QED BY <1>1, <1>2, <1>3, PTL DEF Spec

(***************************************************************************)
(* The forms of members and of agreements.                                 *)
(***************************************************************************)
(* A text has entries of some of the columns.                              *)
SoundText(text, columns) ==
  DOMAIN text \subseteq columns /\ text \in [DOMAIN text -> Values \cup {""}]

(* An entry nobody typed is what was loaded.                               *)
SoundForm(form, query) ==
  form # Null =>
    /\ form = [no |-> form.no, isEdit |-> form.isEdit, text |-> form.text, typed |-> form.typed]
    /\ form.no \in Numbers /\ form.isEdit \in BOOLEAN
    /\ SoundText(form.text, Columns) /\ form.typed \subseteq DOMAIN form.text
    /\ form.isEdit => query[form.no] # Null
    /\ \A f \in DOMAIN form.text \ form.typed :
         form.isEdit /\ query[form.no][f] # Null /\ form.text[f] = query[form.no][f]

(* What the query client of a clerk holds of a member was in the table,    *)
(* and rows stay in it; every form of a member is sound.                   *)
MemberInv ==
  /\ members \in [Numbers -> MemberRow \cup {Null}]
  /\ memberQuery \in [Clerks -> [Numbers -> MemberRow \cup {Null}]]
  /\ \A c \in Clerks, no \in Numbers : memberQuery[c][no] # Null => members[no] # Null
  /\ memberForm = [c \in Clerks |-> memberForm[c]]
  /\ \A c \in Clerks : SoundForm(memberForm[c], memberQuery[c])

(* What nobody typed in a slot is what was loaded, a nominee whole.        *)
SoundSlot(text, typed, nominee) ==
  /\ typed \subseteq DOMAIN text
  /\ nominee # Null => DOMAIN text = NomColumns
  /\ \A f \in DOMAIN text \ typed : nominee # Null /\ text[f] = SlotText(nominee)[f]

(* The forms of the page of the agreement: a reason of the status, and     *)
(* sound slots.                                                            *)
SoundPage(form, shown) ==
  /\ form = [newStatus |-> form.newStatus, reasonCode |-> form.reasonCode,
             nominees |-> form.nominees, typed |-> form.typed]
  /\ form.newStatus \in AcctClassify
  /\ form.reasonCode \in ReasonsOf(form.newStatus) \cup {""}
  /\ form.nominees = [s \in Slots |-> form.nominees[s]]
  /\ form.typed = [s \in Slots |-> form.typed[s]]
  /\ \A s \in Slots :
       /\ SoundText(form.nominees[s], NomColumns)
       /\ shown # Null => SoundSlot(form.nominees[s], form.typed[s], shown.nominees[s])

(* A status change that was allowed, with the status that was read.        *)
SoundRequest(c, req) ==
  req # Null =>
    /\ req.new \in AcctClassify
    /\ req.new # "NA" => req.reason \in ReasonsOf(req.new)
    /\ Dept[c] = "Credit" => "TM" \notin {req.new, req.old}

(* The agreement is typed, and so is every page of it, its form and a      *)
(* request under way.                                                      *)
AgmtInv ==
  /\ agreement \in AgreementRow
  /\ agmtQuery \in [Clerks -> AgreementRow \cup {Null}]
  /\ agmtForm = [c \in Clerks |-> agmtForm[c]]
  /\ statusReq = [c \in Clerks |-> statusReq[c]]
  /\ \A c \in Clerks : SoundPage(agmtForm[c], agmtQuery[c]) /\ SoundRequest(c, statusReq[c])

(* The counters of the bounds.                                             *)
CountInv ==
  saves \in 0..MaxSaves /\ saver \in Clerks \cup {Null} /\ keys \in 0..MaxKeys

(* The inductive invariant of the forms.                                   *)
FormInv == MemberInv /\ AgmtInv /\ CountInv

(* A step of the front desk is one of the two desks of the forms, or       *)
(* leaves the forms alone.                                                 *)
LEMMA FormDesk ==
  /\ Init => FormInit
  /\ [Next]_vars => MemberDesk \/ AgreementDesk \/ UNCHANGED formVars
  <1>1. Init => FormInit
    BY DEF Init
  <1>2. ASSUME Next PROVE MemberDesk \/ AgreementDesk \/ UNCHANGED formVars
    BY <1>2 DEF Next
  <1>3. vars' = vars => formVars' = formVars
    BY DEF vars
  <1> QED BY <1>1, <1>2, <1>3

(***************************************************************************)
(* Texts and rows.                                                         *)
(***************************************************************************)
LEMMA OverText ==
  ASSUME NEW columns, NEW new, NEW old, SoundText(new, columns), SoundText(old, columns)
  PROVE  SoundText(Over(new, old), columns)
  BY DEF SoundText, Over

(* What is put over a text adds its entries and keeps the others.          *)
LEMMA OverEntries ==
  \A new, old : /\ DOMAIN Over(new, old) = DOMAIN new \cup DOMAIN old
                /\ \A f \in DOMAIN old : f \notin DOMAIN new => Over(new, old)[f] = old[f]
  BY DEF Over

(* What is sent of a text.                                                 *)
LEMMA Payload ==
  ASSUME NEW columns, NEW text, SoundText(text, columns), NEW row \in [columns -> Column]
  PROVE  LET new == Over(buildPayload(text), row)
         IN /\ new \in [columns -> Column]
            /\ \A f \in columns \cap DOMAIN text : new[f] = Displayed(text, f)
            /\ \A f \in columns \ DOMAIN text : new[f] = row[f]
  <1>1. \A f \in DOMAIN text : text[f] # "" => text[f] \in Values
    BY DEF SoundText
  <1>2. buildPayload(text) = [f \in DOMAIN text |-> IF text[f] = "" THEN Null ELSE text[f]]
    BY DEF buildPayload
  <1> QED BY <1>1, <1>2 DEF Over, Column, Displayed, SoundText

(* A row that is loaded has an entry for each column that is not empty.    *)
LEMMA LoadedText ==
  ASSUME NEW row \in MemberRow
  PROVE  /\ SoundText(Loaded(row), Columns)
         /\ \A f \in DOMAIN Loaded(row) : row[f] # Null /\ Loaded(row)[f] = row[f]
  BY DEF Loaded, SoundText, MemberRow, Column

(* The empty text is a text of any columns.                                *)
LEMMA NoText == \A columns : SoundText(<<>>, columns) /\ DOMAIN <<>> = {}
  BY DEF SoundText

(* A form that was opened or filled again shows what was loaded.           *)
LEMMA OpenedForm ==
  ASSUME NEW no \in Numbers, NEW query, query[no] \in MemberRow, query[no] # Null
  PROVE  SoundForm(OpenForm(no, TRUE, Loaded(query[no])), query)
  <1> DEFINE form == OpenForm(no, TRUE, Loaded(query[no]))
  <1>1. form = [no |-> form.no, isEdit |-> form.isEdit, text |-> form.text,
                typed |-> form.typed]
    BY DEF OpenForm
  <1>2. form.no = no /\ form.isEdit = TRUE /\ form.text = Loaded(query[no]) /\ form.typed = {}
    BY DEF OpenForm
  <1>3. /\ SoundText(Loaded(query[no]), Columns)
        /\ \A f \in DOMAIN Loaded(query[no]) :
             query[no][f] # Null /\ Loaded(query[no])[f] = query[no][f]
    BY LoadedText
  <1> HIDE DEF form
  <1>4. SoundForm(form, query)
    BY <1>1, <1>2, <1>3 DEF SoundForm
  <1> QED BY <1>4 DEF form

(* A form for a new member is empty.                                       *)
LEMMA NewForm ==
  ASSUME NEW no \in Numbers, NEW query
  PROVE  SoundForm(OpenForm(no, FALSE, <<>>), query)
  <1> DEFINE form == OpenForm(no, FALSE, <<>>)
  <1>1. form = [no |-> form.no, isEdit |-> form.isEdit, text |-> form.text,
                typed |-> form.typed]
    BY DEF OpenForm
  <1>2. form.no = no /\ form.isEdit = FALSE /\ form.text = <<>> /\ form.typed = {}
    BY DEF OpenForm
  <1> HIDE DEF form
  <1>3. SoundForm(form, query)
    BY <1>1, <1>2, NoText DEF SoundForm
  <1> QED BY <1>3 DEF form

(***************************************************************************)
(* The desk of the members.                                                *)
(***************************************************************************)
(* The bounds are naturals.                                                *)
LEMMA BoundsNat == MaxSaves \in Nat /\ MaxKeys \in Nat
  BY FormsAssumption

(* The counters stay within the bounds.                                    *)
LEMMA Counts ==
  ASSUME CountInv, NEW c \in Clerks, NoSave \/ Key \/ Save(c)
  PROVE  CountInv'
  <1>1. CASE NoSave
    BY <1>1 DEF NoSave, CountInv
  <1>2. CASE Key
    BY <1>2, BoundsNat DEF Key, CountInv
  <1>3. CASE Save(c)
    BY <1>3, BoundsNat DEF Save, CountInv
  <1> QED BY <1>1, <1>2, <1>3

(* One clerk's form changes, or a member is written that was not removed.  *)
LEMMA MembersFrame ==
  ASSUME MemberInv, NEW c \in Clerks,
         members' \in [Numbers -> MemberRow \cup {Null}],
         \A no \in Numbers : members[no] # Null => members'[no] # Null,
         NEW form, memberForm' = [memberForm EXCEPT ![c] = form],
         memberQuery' = memberQuery,
         SoundForm(form, memberQuery[c])
  PROVE  MemberInv'
  <1>1. /\ memberForm' = [d \in Clerks |-> memberForm'[d]]
        /\ memberForm'[c] = form
        /\ \A d \in Clerks \ {c} : memberForm'[d] = memberForm[d]
    BY DEF MemberInv
  <1>2. \A d \in Clerks : SoundForm(memberForm'[d], memberQuery'[d])
    BY <1>1 DEF MemberInv
  <1> QED BY <1>1, <1>2 DEF MemberInv

(* One clerk's form changes and no row.                                    *)
LEMMA FormFrame ==
  ASSUME MemberInv, NEW c \in Clerks, members' = members, memberQuery' = memberQuery,
         NEW form, memberForm' = [memberForm EXCEPT ![c] = form],
         SoundForm(form, memberQuery[c])
  PROVE  MemberInv'
  <1>1. members' \in [Numbers -> MemberRow \cup {Null}]
    BY DEF MemberInv
  <1> QED BY <1>1, MembersFrame

(* GET of a member fills the form again only if the form is of this        *)
(* member.                                                                 *)
LEMMA Shows ==
  ASSUME MemberInv, NEW c \in Clerks, NEW no \in Numbers, ShowMember(c, no)
  PROVE  MemberInv'
  <1>1. /\ members[no] # Null /\ members[no] \in MemberRow /\ members' = members
        /\ memberQuery' = [memberQuery EXCEPT ![c][no] = members[no]]
    BY DEF MemberInv, ShowMember
  <1>2. /\ memberQuery' \in [Clerks -> [Numbers -> MemberRow \cup {Null}]]
        /\ memberQuery'[c][no] = members[no]
        /\ \A k \in Numbers \ {no} : memberQuery'[c][k] = memberQuery[c][k]
        /\ \A d \in Clerks \ {c} : memberQuery'[d] = memberQuery[d]
    BY <1>1 DEF MemberInv
  <1>3. \A d \in Clerks, k \in Numbers : memberQuery'[d][k] # Null => members'[k] # Null
    BY <1>1, <1>2 DEF MemberInv
  <1>4. CASE /\ memberForm[c] # Null /\ memberForm[c].isEdit /\ memberForm[c].no = no
    <2>1. memberForm' = [memberForm EXCEPT ![c] = OpenForm(no, TRUE, Loaded(members[no]))]
      BY <1>4 DEF ShowMember
    <2>2. SoundForm(OpenForm(no, TRUE, Loaded(members[no])), memberQuery'[c])
      BY <1>1, <1>2, OpenedForm
    <2>3. /\ memberForm' = [d \in Clerks |-> memberForm'[d]]
          /\ memberForm'[c] = OpenForm(no, TRUE, Loaded(members[no]))
          /\ \A d \in Clerks \ {c} : memberForm'[d] = memberForm[d]
      BY <2>1 DEF MemberInv
    <2>4. \A d \in Clerks : SoundForm(memberForm'[d], memberQuery'[d])
      BY <1>2, <2>2, <2>3 DEF MemberInv
    <2> QED BY <1>1, <1>2, <1>3, <2>3, <2>4 DEF MemberInv
  <1>5. CASE ~(/\ memberForm[c] # Null /\ memberForm[c].isEdit /\ memberForm[c].no = no)
    <2>1. memberForm' = memberForm
      BY <1>5 DEF ShowMember
    <2>2. SoundForm(memberForm[c], memberQuery'[c])
      BY <1>2, <1>5 DEF MemberInv, SoundForm
    <2>3. \A d \in Clerks : SoundForm(memberForm'[d], memberQuery'[d])
      BY <1>2, <2>1, <2>2 DEF MemberInv
    <2> QED BY <1>1, <1>2, <1>3, <2>1, <2>3 DEF MemberInv
  <1> QED BY <1>4, <1>5

(* A keyed entry.                                                          *)
LEMMA Types ==
  ASSUME MemberInv, NEW c \in Clerks, NEW entry, SoundText(entry, Columns), Typing(c, entry)
  PROVE  MemberInv'
  <1> DEFINE form == memberForm[c]
             text == Over(entry, form.text)
             new == [no |-> form.no, isEdit |-> form.isEdit,
                     text |-> text, typed |-> form.typed \cup DOMAIN entry]
  <1>1. /\ form # Null /\ members' = members /\ memberQuery' = memberQuery
        /\ memberForm' = [memberForm EXCEPT ![c].text = Over(entry, @),
                                            ![c].typed = @ \cup DOMAIN entry]
    BY DEF Typing
  <1>2. /\ form = [no |-> form.no, isEdit |-> form.isEdit, text |-> form.text,
                   typed |-> form.typed]
        /\ SoundText(form.text, Columns)
        /\ form.typed \subseteq DOMAIN form.text
    BY <1>1 DEF MemberInv, SoundForm
  <1> DEFINE mid == [no |-> form.no, isEdit |-> form.isEdit, text |-> text,
                     typed |-> form.typed]
  <1>3. memberForm' = [memberForm EXCEPT ![c] = new]
    <2>1. [form EXCEPT !.text = text] = mid
      BY <1>2
    <2>2. [mid EXCEPT !.typed = @ \cup DOMAIN entry] = new
      OBVIOUS
    <2>3. memberForm = [d \in Clerks |-> memberForm[d]]
      BY DEF MemberInv
    <2> DEFINE first == [memberForm EXCEPT ![c].text = Over(entry, @)]
    <2>4. first = [memberForm EXCEPT ![c] = mid]
      BY <2>1
    <2>5. memberForm' = [first EXCEPT ![c].typed = @ \cup DOMAIN entry]
      BY <1>1
    <2> HIDE DEF first, mid, new, text
    <2>6. first[c] = mid
      BY <2>3, <2>4
    <2>7. memberForm' = [first EXCEPT ![c] = new]
      BY <2>2, <2>5, <2>6
    <2> QED BY <2>3, <2>4, <2>7
  <1>4. /\ SoundText(text, Columns) /\ DOMAIN text = DOMAIN entry \cup DOMAIN form.text
        /\ \A f \in DOMAIN form.text \ DOMAIN entry : text[f] = form.text[f]
    <2> DEFINE old == form.text
    <2>1. SoundText(old, Columns)
      BY <1>2
    <2> HIDE DEF old
    <2>2. /\ SoundText(Over(entry, old), Columns)
          /\ DOMAIN Over(entry, old) = DOMAIN entry \cup DOMAIN old
          /\ \A f \in DOMAIN old \ DOMAIN entry : Over(entry, old)[f] = old[f]
      BY <2>1, OverText, OverEntries
    <2> QED BY <2>2 DEF old
  <1>5. /\ new = [no |-> new.no, isEdit |-> new.isEdit, text |-> new.text, typed |-> new.typed]
        /\ new.no = form.no /\ new.isEdit = form.isEdit /\ new.text = text
        /\ new.typed = form.typed \cup DOMAIN entry
    OBVIOUS
  <1>6. SoundForm(form, memberQuery[c])
    BY DEF MemberInv
  <1> HIDE DEF new, text
  <1>7. SoundForm(new, memberQuery[c])
    BY <1>1, <1>2, <1>4, <1>5, <1>6 DEF SoundForm
  <1> QED BY <1>1, <1>3, <1>7, FormFrame

(* One value keyed in some columns is a text.                              *)
LEMMA OneText ==
  ASSUME NEW columns, NEW some \in SUBSET columns, NEW v \in Values \cup {""}
  PROVE  SoundText([g \in some |-> v], columns)
  BY DEF SoundText

(* No form is sound.                                                       *)
LEMMA NoForm == \A query : SoundForm(Null, query)
  BY DEF SoundForm

(* What PUT writes over a member is a row, and the member was there.       *)
LEMMA Updated ==
  ASSUME MemberInv, NEW c \in Clerks, updateMember(c)
  PROVE  /\ memberForm[c] # Null /\ memberForm[c].no \in Numbers
         /\ members[memberForm[c].no] \in MemberRow
         /\ members' = [members EXCEPT ![memberForm[c].no] =
              Over(buildPayload(memberForm[c].text), members[memberForm[c].no])]
         /\ Over(buildPayload(memberForm[c].text), members[memberForm[c].no]) \in MemberRow
         /\ members[memberForm[c].no] # Null
         /\ memberForm[c].isEdit
  <1>1. /\ memberForm[c] # Null /\ memberForm[c].isEdit
        /\ SoundForm(memberForm[c], memberQuery[c])
    BY DEF updateMember, MemberInv
  <1>2. /\ memberForm[c].no \in Numbers /\ SoundText(memberForm[c].text, Columns)
        /\ memberQuery[c][memberForm[c].no] # Null
    BY <1>1 DEF SoundForm
  <1>3. members[memberForm[c].no] # Null /\ members[memberForm[c].no] \in MemberRow
    BY <1>2 DEF MemberInv
  <1>4. Over(buildPayload(memberForm[c].text), members[memberForm[c].no]) \in MemberRow
    BY <1>2, <1>3, Payload DEF MemberRow
  <1>5. members' = [members EXCEPT ![memberForm[c].no] =
              Over(buildPayload(memberForm[c].text), members[memberForm[c].no])]
    BY DEF updateMember
  <1> QED BY <1>1, <1>2, <1>3, <1>4, <1>5

(* The columns of a member before it is created.                           *)
Blank == [f \in Columns |-> Null]

(* What POST writes is a row, and no member had the number.                *)
LEMMA Created ==
  ASSUME MemberInv, NEW c \in Clerks, createMember(c)
  PROVE  /\ memberForm[c] # Null /\ memberForm[c].no \in Numbers
         /\ ~memberForm[c].isEdit /\ members[memberForm[c].no] = Null
         /\ members' = [members EXCEPT ![memberForm[c].no] =
              Over(buildPayload(memberForm[c].text), Blank)]
         /\ Over(buildPayload(memberForm[c].text), Blank) \in MemberRow
  <1>1. /\ memberForm[c] # Null /\ ~memberForm[c].isEdit /\ members[memberForm[c].no] = Null
        /\ SoundForm(memberForm[c], memberQuery[c])
    BY DEF createMember, MemberInv
  <1>2. /\ memberForm[c].no \in Numbers /\ SoundText(memberForm[c].text, Columns)
    BY <1>1 DEF SoundForm
  <1>3. Blank \in [Columns -> Column]
    BY DEF Blank, Column
  <1>4. Over(buildPayload(memberForm[c].text), Blank) \in MemberRow
    BY <1>2, <1>3, Payload DEF MemberRow
  <1>5. members' = [members EXCEPT ![memberForm[c].no] =
              Over(buildPayload(memberForm[c].text), Blank)]
    BY DEF createMember, Blank
  <1> QED BY <1>1, <1>2, <1>4, <1>5

(* The desk of the members keeps the invariant.                            *)
LEMMA MemberStep ==
  ASSUME MemberInv, CountInv, MemberDesk
  PROVE  MemberInv' /\ CountInv'
  <1>1. PICK c \in MemberClerks :
       \/ \E no \in Numbers : ShowMember(c, no) \/ EditMember(c, no) \/ NewMember(c, no)
       \/ \E v \in Values \cup {""} :
            handleStateChange(c, v) \/ \E f \in Columns : TypeMember(c, f, v)
       \/ CancelEdit(c) \/ updateMember(c) \/ createMember(c)
    BY DEF MemberDesk
  <1>2. c \in Clerks
    BY DEF MemberClerks
  <1>3. ASSUME NEW no \in Numbers, ShowMember(c, no) PROVE MemberInv' /\ CountInv'
    <2>1. MemberInv'
      BY <1>2, <1>3, Shows
    <2> QED BY <1>2, <1>3, <2>1, Counts DEF ShowMember
  <1>4. ASSUME NEW no \in Numbers, EditMember(c, no) PROVE MemberInv' /\ CountInv'
    <2>1. /\ memberQuery[c][no] # Null /\ memberQuery[c][no] \in MemberRow
      BY <1>2, <1>4 DEF EditMember, MemberInv
    <2>2. SoundForm(OpenForm(no, TRUE, Loaded(memberQuery[c][no])), memberQuery[c])
      BY <2>1, OpenedForm
    <2>3. MemberInv'
      BY <1>2, <1>4, <2>2, FormFrame DEF EditMember
    <2> QED BY <1>2, <1>4, <2>3, Counts DEF EditMember
  <1>5. ASSUME NEW no \in Numbers, NewMember(c, no) PROVE MemberInv' /\ CountInv'
    <2>1. MemberInv'
      BY <1>2, <1>5, NewForm, FormFrame DEF NewMember
    <2> QED BY <1>2, <1>5, <2>1, Counts DEF NewMember
  <1>6. ASSUME NEW v \in Values \cup {""}, handleStateChange(c, v)
        PROVE  MemberInv' /\ CountInv'
    <2>1. SoundText([f \in StateColumns |-> v], Columns)
      BY FormsAssumption, OneText
    <2>2. Typing(c, [f \in StateColumns |-> v])
      BY <1>6 DEF handleStateChange
    <2>3. CountInv'
      BY <1>2, <2>2, Counts DEF Typing
    <2> QED BY <1>2, <2>1, <2>2, <2>3, Types
  <1>7. ASSUME NEW v \in Values \cup {""}, NEW f \in Columns, TypeMember(c, f, v)
        PROVE  MemberInv' /\ CountInv'
    <2>1. SoundText([g \in {f} |-> v], Columns)
      BY OneText
    <2>2. Typing(c, [g \in {f} |-> v])
      BY <1>7 DEF TypeMember
    <2>3. CountInv'
      BY <1>2, <2>2, Counts DEF Typing
    <2> QED BY <1>2, <2>1, <2>2, <2>3, Types
  <1>8. CASE CancelEdit(c)
    <2>1. MemberInv'
      BY <1>2, <1>8, NoForm, FormFrame DEF CancelEdit, CloseForm
    <2> QED BY <1>2, <1>8, <2>1, Counts DEF CancelEdit
  <1>9. CASE updateMember(c)
    <2> DEFINE n == memberForm[c].no
               row == Over(buildPayload(memberForm[c].text), members[memberForm[c].no])
    <2>0. /\ n \in Numbers /\ members' = [members EXCEPT ![n] = row] /\ row \in MemberRow
          /\ members \in [Numbers -> MemberRow \cup {Null}]
      BY <1>2, <1>9, Updated DEF MemberInv
    <2> HIDE DEF n, row
    <2>1. /\ members' \in [Numbers -> MemberRow \cup {Null}]
          /\ \A no \in Numbers : members[no] # Null => members'[no] # Null
      BY <2>0, FormsAssumption
    <2>2. memberForm' = [memberForm EXCEPT ![c] = Null] /\ memberQuery' = memberQuery
      BY <1>9 DEF updateMember, CloseForm
    <2>3. CountInv'
      BY <1>2, <1>9, Counts DEF updateMember
    <2> QED BY <1>2, <2>1, <2>2, <2>3, NoForm, MembersFrame
  <1>10. CASE createMember(c)
    <2> DEFINE n == memberForm[c].no
               row == Over(buildPayload(memberForm[c].text), Blank)
    <2>0. /\ n \in Numbers /\ members' = [members EXCEPT ![n] = row] /\ row \in MemberRow
          /\ members \in [Numbers -> MemberRow \cup {Null}]
      BY <1>2, <1>10, Created DEF MemberInv
    <2> HIDE DEF n, row
    <2>1. /\ members' \in [Numbers -> MemberRow \cup {Null}]
          /\ \A no \in Numbers : members[no] # Null => members'[no] # Null
      BY <2>0, FormsAssumption
    <2>2. memberForm' = [memberForm EXCEPT ![c] = Null] /\ memberQuery' = memberQuery
      BY <1>10 DEF createMember, CloseForm
    <2>3. CountInv'
      BY <1>2, <1>10, Counts DEF createMember
    <2> QED BY <1>2, <2>1, <2>2, <2>3, NoForm, MembersFrame
  <1> QED BY <1>1, <1>3, <1>4, <1>5, <1>6, <1>7, <1>8, <1>9, <1>10

(***************************************************************************)
(* The page of the agreement.                                              *)
(***************************************************************************)
LEMMA ReasonFits ==
  ASSUME NEW row \in AgreementRow, NEW status \in AcctClassify
  PROVE  ReasonShown(row, status) \in ReasonsOf(status) \cup {""}
  BY DEF ReasonShown, ReasonsOf, AgreementRow, AcctClassify

(* A nominee that is loaded is shown whole.                                *)
LEMMA SlotFilled ==
  ASSUME NEW nominee \in NomineeRow \cup {Null}
  PROVE  /\ SoundText(SlotText(nominee), NomColumns)
         /\ SoundSlot(SlotText(nominee), {}, nominee)
  <1>1. CASE nominee = Null
    BY <1>1, NoText DEF SlotText, SoundSlot
  <1>2. CASE nominee # Null
    BY <1>2 DEF SlotText, SoundText, SoundSlot, NomineeRow, Column
  <1> QED BY <1>1, <1>2

(* The forms of a page that was loaded are sound.                          *)
LEMMA PageFilled ==
  ASSUME NEW row \in AgreementRow, NEW shown, shown = row \/ shown = Null
  PROVE  SoundPage(PageForm(row), shown)
  <1> DEFINE form == PageForm(row)
  <1>1. /\ form = [newStatus |-> form.newStatus, reasonCode |-> form.reasonCode,
                   nominees |-> form.nominees, typed |-> form.typed]
        /\ form.newStatus = row.acctClassify
        /\ form.reasonCode = ReasonShown(row, row.acctClassify)
        /\ form.nominees = [s \in Slots |-> SlotText(row.nominees[s])]
        /\ form.typed = [s \in Slots |-> {}]
    BY DEF PageForm
  <1>2. row.acctClassify \in AcctClassify
        /\ \A s \in Slots : row.nominees[s] \in NomineeRow \cup {Null}
    BY DEF AgreementRow
  <1> HIDE DEF form
  <1>3. /\ form.nominees = [s \in Slots |-> form.nominees[s]]
        /\ form.typed = [s \in Slots |-> form.typed[s]]
        /\ \A s \in Slots : form.nominees[s] = SlotText(row.nominees[s]) /\ form.typed[s] = {}
    BY <1>1
  <1>4. /\ form.reasonCode \in ReasonsOf(form.newStatus) \cup {""}
        /\ form.newStatus \in AcctClassify
    BY <1>1, <1>2, ReasonFits
  <1>5. \A s \in Slots :
          /\ SoundText(form.nominees[s], NomColumns)
          /\ SoundSlot(form.nominees[s], form.typed[s], row.nominees[s])
    BY <1>2, <1>3, SlotFilled
  <1>6. SoundPage(form, shown)
    BY <1>1, <1>3, <1>4, <1>5 DEF SoundPage
  <1> QED BY <1>6 DEF form

(* One clerk's page changes, or the agreement.                             *)
LEMMA PageFrame ==
  ASSUME AgmtInv, NEW c \in Clerks, agreement' \in AgreementRow,
         \A d \in Clerks \ {c} :
           agmtForm'[d] = agmtForm[d] /\ agmtQuery'[d] = agmtQuery[d] /\ statusReq'[d] = statusReq[d],
         agmtForm' = [d \in Clerks |-> agmtForm'[d]],
         statusReq' = [d \in Clerks |-> statusReq'[d]],
         agmtQuery' \in [Clerks -> AgreementRow \cup {Null}],
         SoundPage(agmtForm'[c], agmtQuery'[c]), SoundRequest(c, statusReq'[c])
  PROVE  AgmtInv'
  <1>1. \A d \in Clerks :
          SoundPage(agmtForm'[d], agmtQuery'[d]) /\ SoundRequest(d, statusReq'[d])
    BY DEF AgmtInv
  <1> QED BY <1>1 DEF AgmtInv

(* A status change.                                                        *)
LEMMA StatusWritten ==
  ASSUME AgmtInv, NEW c \in Clerks, changeAgreementStatus(c)
  PROVE  /\ statusReq[c] # Null /\ SoundRequest(c, statusReq[c])
         /\ agreement' \in AgreementRow
         /\ agreement'.acctClassify = statusReq[c].new
         /\ agreement'.nominees = agreement.nominees
         /\ agreement'.suCode = reasonData(statusReq[c].new, statusReq[c].reason)[1]
         /\ agreement'.canCode = reasonData(statusReq[c].new, statusReq[c].reason)[2]
  <1> DEFINE req == statusReq[c]
             one == reasonData(req.new, req.reason)[1]
             two == reasonData(req.new, req.reason)[2]
  <1>1. req # Null /\ SoundRequest(c, req)
        /\ agreement' = [agreement EXCEPT !.acctClassify = req.new, !.suCode = one, !.canCode = two]
    BY DEF AgmtInv, changeAgreementStatus
  <1>2. /\ req.new \in AcctClassify
        /\ req.new # "NA" => req.reason \in ReasonsOf(req.new)
    BY <1>1 DEF SoundRequest
  <1>3. one \in SuReasons \cup {Null} /\ two \in CanReasons \cup {Null}
    BY <1>2 DEF reasonData, ReasonsOf, AcctClassify
  <1>4. agreement \in AgreementRow
    BY DEF AgmtInv
  <1> HIDE DEF one, two
  <1>5. /\ agreement' \in AgreementRow /\ agreement'.acctClassify = req.new
        /\ agreement'.suCode = one /\ agreement'.canCode = two
        /\ agreement'.nominees = agreement.nominees
    BY <1>1, <1>2, <1>3, <1>4 DEF AgreementRow
  <1> QED BY <1>1, <1>5 DEF one, two

(* The nominees that are saved.                                            *)
Stored(s) ==
  IF agreement.nominees[s] = Null THEN [f \in NomColumns |-> Null] ELSE agreement.nominees[s]
(* What a save of the nominees writes in a slot.                           *)
Saved(c, s) == Over(buildPayload(agmtForm[c].nominees[s]), Stored(s))

(* A save of the nominees writes whole rows in the slots it was sent.      *)
LEMMA NomineesWritten ==
  ASSUME AgmtInv, NEW c \in Clerks, updateNominees(c)
  PROVE  /\ agreement' = [agreement EXCEPT !.nominees =
              [s \in Slots |-> IF s \in Sent(agmtForm[c].nominees) THEN Saved(c, s)
                               ELSE agreement.nominees[s]]]
         /\ \A s \in Slots : /\ Stored(s) \in [NomColumns -> Column]
                             /\ Saved(c, s) \in NomineeRow
                             /\ SoundText(agmtForm[c].nominees[s], NomColumns)
         /\ agreement' \in AgreementRow
  <1>1. agreement' = [agreement EXCEPT !.nominees =
              [s \in Slots |-> IF s \in Sent(agmtForm[c].nominees) THEN Saved(c, s)
                               ELSE agreement.nominees[s]]]
    BY DEF updateNominees, Saved, Stored
  <1>2. ASSUME NEW s \in Slots
        PROVE  /\ Stored(s) \in [NomColumns -> Column]
               /\ Saved(c, s) \in NomineeRow
               /\ SoundText(agmtForm[c].nominees[s], NomColumns)
               /\ agreement.nominees[s] \in NomineeRow \cup {Null}
    <2>1. agreement.nominees[s] \in NomineeRow \cup {Null}
      BY DEF AgmtInv, AgreementRow
    <2>2. Stored(s) \in [NomColumns -> Column]
      BY <2>1 DEF Stored, NomineeRow, Column
    <2>3. SoundText(agmtForm[c].nominees[s], NomColumns)
      BY DEF AgmtInv, SoundPage
    <2>4. Saved(c, s) \in NomineeRow
      BY <2>2, <2>3, Payload DEF Saved, NomineeRow
    <2> QED BY <2>1, <2>2, <2>3, <2>4
  <1> DEFINE new == [s \in Slots |-> IF s \in Sent(agmtForm[c].nominees) THEN Saved(c, s)
                                     ELSE agreement.nominees[s]]
  <1>3. new \in [Slots -> NomineeRow \cup {Null}]
    BY <1>2
  <1>4. agreement \in AgreementRow
    BY DEF AgmtInv
  <1> HIDE DEF new
  <1>5. [agreement EXCEPT !.nominees = new] \in AgreementRow
    BY <1>3, <1>4 DEF AgreementRow
  <1> QED BY <1>1, <1>2, <1>5 DEF new

(* A form with other nominees.                                             *)
LEMMA OtherNominees ==
  ASSUME NEW form, NEW slots,
         form = [newStatus |-> form.newStatus, reasonCode |-> form.reasonCode,
                 nominees |-> form.nominees, typed |-> form.typed]
  PROVE  [form EXCEPT !.nominees = slots] =
           [newStatus |-> form.newStatus, reasonCode |-> form.reasonCode,
            nominees |-> slots, typed |-> form.typed]
  OBVIOUS

(* A form in which something else was typed.                               *)
LEMMA OtherTyped ==
  ASSUME NEW form, NEW typed,
         form = [newStatus |-> form.newStatus, reasonCode |-> form.reasonCode,
                 nominees |-> form.nominees, typed |-> form.typed]
  PROVE  [form EXCEPT !.typed = typed] =
           [newStatus |-> form.newStatus, reasonCode |-> form.reasonCode,
            nominees |-> form.nominees, typed |-> typed]
  OBVIOUS

(* The page of the agreement keeps the invariant.                          *)
LEMMA AgreementStep ==
  ASSUME AgmtInv, CountInv, AgreementDesk
  PROVE  AgmtInv' /\ CountInv'
  <1>1. PICK c \in Clerks :
       \/ ShowAgreement(c) \/ AskStatus(c) \/ changeAgreementStatus(c) \/ updateNominees(c)
       \/ \E s \in AcctClassify : handleStatusChange(c, s)
       \/ \E r \in SuReasons \cup CanReasons : ChooseReason(c, r)
       \/ \E s \in Slots, f \in NomColumns, v \in Values \cup {""} : TypeNominee(c, s, f, v)
    BY DEF AgreementDesk
  <1> DEFINE form == agmtForm[c]
  <1>2. /\ SoundPage(form, agmtQuery[c]) /\ SoundRequest(c, statusReq[c])
        /\ agmtQuery[c] \in AgreementRow \cup {Null}
    BY DEF AgmtInv
  <1>3. form = [newStatus |-> form.newStatus, reasonCode |-> form.reasonCode,
                nominees |-> form.nominees, typed |-> form.typed]
    BY <1>2 DEF SoundPage
  <1>4. CASE ShowAgreement(c)
    <2>1. /\ agmtForm' = [agmtForm EXCEPT ![c] = PageForm(agreement)]
          /\ agmtQuery' = [agmtQuery EXCEPT ![c] = agreement]
          /\ agreement' = agreement /\ statusReq' = statusReq /\ agreement \in AgreementRow
      BY <1>4 DEF ShowAgreement, AgmtInv
    <2>2. SoundPage(PageForm(agreement), agreement)
      BY <2>1, PageFilled
    <2>3. AgmtInv'
      BY <1>2, <2>1, <2>2, PageFrame DEF AgmtInv
    <2> QED BY <1>4, <2>3, Counts DEF ShowAgreement
  <1>5. CASE AskStatus(c)
    <2> DEFINE req == [new |-> form.newStatus, reason |-> form.reasonCode,
                       old |-> agreement.acctClassify]
    <2>1. /\ statusReq' = [statusReq EXCEPT ![c] = req]
          /\ agreement' = agreement /\ agmtQuery' = agmtQuery /\ agmtForm' = agmtForm
          /\ form.newStatus # "NA" => form.reasonCode # ""
          /\ statusChangeAllowed(Dept[c], agreement.acctClassify, form.newStatus)
      BY <1>5 DEF AskStatus
    <2>2. req.new = form.newStatus /\ req.reason = form.reasonCode
          /\ req.old = agreement.acctClassify
      OBVIOUS
    <2> HIDE DEF req
    <2>3. SoundRequest(c, req)
      BY <1>2, <2>1, <2>2 DEF SoundRequest, SoundPage, statusChangeAllowed
    <2>4. AgmtInv'
      BY <1>2, <2>1, <2>3, PageFrame DEF AgmtInv
    <2> QED BY <1>5, <2>4, Counts DEF AskStatus
  <1>6. CASE changeAgreementStatus(c)
    <2>1. /\ statusReq' = [statusReq EXCEPT ![c] = Null]
          /\ agmtQuery' = agmtQuery /\ agmtForm' = agmtForm /\ agreement' \in AgreementRow
      BY <1>6, StatusWritten DEF changeAgreementStatus
    <2>2. SoundRequest(c, Null)
      BY DEF SoundRequest
    <2>3. AgmtInv'
      BY <1>2, <2>1, <2>2, PageFrame DEF AgmtInv
    <2> QED BY <1>6, <2>3, Counts DEF changeAgreementStatus
  <1>7. CASE updateNominees(c)
    <2>1. /\ agmtQuery' = agmtQuery /\ agmtForm' = agmtForm /\ statusReq' = statusReq
          /\ agreement' \in AgreementRow
      BY <1>7, NomineesWritten DEF updateNominees
    <2>2. AgmtInv'
      BY <1>2, <2>1, PageFrame DEF AgmtInv
    <2> QED BY <1>7, <2>2, Counts DEF updateNominees
  <1>8. ASSUME NEW s \in AcctClassify, handleStatusChange(c, s) PROVE AgmtInv' /\ CountInv'
    <2> DEFINE reason == ReasonShown(agmtQuery[c], s)
               new == [newStatus |-> s, reasonCode |-> reason, nominees |-> form.nominees,
                       typed |-> form.typed]
    <2>1. /\ agmtForm' = [agmtForm EXCEPT ![c].newStatus = s, ![c].reasonCode = reason]
          /\ agreement' = agreement /\ agmtQuery' = agmtQuery /\ statusReq' = statusReq
          /\ agmtQuery[c] \in AgreementRow
      BY <1>2, <1>8 DEF handleStatusChange, OnPage
    <2>2. reason \in ReasonsOf(s) \cup {""}
      BY <2>1, ReasonFits
    <2> DEFINE mid == [newStatus |-> s, reasonCode |-> form.reasonCode,
                       nominees |-> form.nominees, typed |-> form.typed]
    <2>3. agmtForm' = [agmtForm EXCEPT ![c] = new]
      <3>1. [form EXCEPT !.newStatus = s] = mid
        BY <1>3
      <3>2. [mid EXCEPT !.reasonCode = reason] = new
        OBVIOUS
      <3>3. agmtForm = [d \in Clerks |-> agmtForm[d]]
        BY DEF AgmtInv
      <3>4. [agmtForm EXCEPT ![c].newStatus = s] = [agmtForm EXCEPT ![c] = mid]
        BY <3>1
      <3>5. [agmtForm EXCEPT ![c] = mid][c] = mid
        BY <3>3
      <3>6. agmtForm' = [[agmtForm EXCEPT ![c].newStatus = s] EXCEPT ![c].reasonCode = reason]
        BY <2>1
      <3> HIDE DEF mid, new, reason
      <3> QED BY <3>2, <3>3, <3>4, <3>5, <3>6
    <2>4. /\ new = [newStatus |-> new.newStatus, reasonCode |-> new.reasonCode,
                    nominees |-> new.nominees, typed |-> new.typed]
          /\ new.newStatus = s /\ new.reasonCode = reason
          /\ new.nominees = form.nominees /\ new.typed = form.typed
      OBVIOUS
    <2> HIDE DEF new, reason
    <2>5. SoundPage(new, agmtQuery[c])
      BY <1>2, <2>2, <2>4 DEF SoundPage
    <2>6. AgmtInv'
      BY <1>2, <2>1, <2>3, <2>5, PageFrame DEF AgmtInv
    <2> QED BY <1>8, <2>6, Counts DEF handleStatusChange
  <1>9. ASSUME NEW r, ChooseReason(c, r) PROVE AgmtInv' /\ CountInv'
    <2> DEFINE new == [newStatus |-> form.newStatus, reasonCode |-> r,
                       nominees |-> form.nominees, typed |-> form.typed]
    <2>1. /\ agmtForm' = [agmtForm EXCEPT ![c].reasonCode = r]
          /\ agreement' = agreement /\ agmtQuery' = agmtQuery /\ statusReq' = statusReq
          /\ r \in ReasonsOf(form.newStatus)
      BY <1>9 DEF ChooseReason
    <2>2. agmtForm' = [agmtForm EXCEPT ![c] = new]
      <3>1. [form EXCEPT !.reasonCode = r] = new
        BY <1>3
      <3> QED BY <2>1, <3>1
    <2>3. /\ new = [newStatus |-> new.newStatus, reasonCode |-> new.reasonCode,
                    nominees |-> new.nominees, typed |-> new.typed]
          /\ new.newStatus = form.newStatus /\ new.reasonCode = r
          /\ new.nominees = form.nominees /\ new.typed = form.typed
      OBVIOUS
    <2> HIDE DEF new
    <2>4. SoundPage(new, agmtQuery[c])
      BY <1>2, <2>1, <2>3 DEF SoundPage
    <2>5. AgmtInv'
      BY <1>2, <2>1, <2>2, <2>4, PageFrame DEF AgmtInv
    <2> QED BY <1>9, <2>5, Counts DEF ChooseReason
  <1>10. ASSUME NEW s \in Slots, NEW f \in NomColumns, NEW v \in Values \cup {""},
                TypeNominee(c, s, f, v)
         PROVE  AgmtInv' /\ CountInv'
    <2> DEFINE text == Over([g \in {f} |-> v], form.nominees[s])
               slots == [form.nominees EXCEPT ![s] = text]
               marks == [form.typed EXCEPT ![s] = @ \cup {f}]
               new == [newStatus |-> form.newStatus, reasonCode |-> form.reasonCode,
                       nominees |-> slots, typed |-> marks]
    <2>1. /\ agmtForm' = [agmtForm EXCEPT ![c].nominees[s] = Over([g \in {f} |-> v], @),
                                          ![c].typed[s] = @ \cup {f}]
          /\ agreement' = agreement /\ agmtQuery' = agmtQuery /\ statusReq' = statusReq
      BY <1>10 DEF TypeNominee
    <2>2. agmtForm' = [agmtForm EXCEPT ![c] = new]
      <3> DEFINE mid == [newStatus |-> form.newStatus, reasonCode |-> form.reasonCode,
                         nominees |-> slots, typed |-> form.typed]
                 one == [agmtForm EXCEPT ![c].nominees[s] = text]
      <3>1. [form EXCEPT !.nominees = slots] = mid
        <4> HIDE DEF slots, form
        <4> QED BY <1>3, OtherNominees
      <3>2. [mid EXCEPT !.typed[s] = @ \cup {f}] = new
        <4>1. /\ mid = [newStatus |-> mid.newStatus, reasonCode |-> mid.reasonCode,
                        nominees |-> mid.nominees, typed |-> mid.typed]
              /\ mid.newStatus = form.newStatus /\ mid.reasonCode = form.reasonCode
              /\ mid.nominees = slots /\ mid.typed = form.typed
          OBVIOUS
        <4>2. [mid EXCEPT !.typed[s] = @ \cup {f}] = [mid EXCEPT !.typed = marks]
          BY <4>1
        <4> HIDE DEF mid, slots, marks, form
        <4>3. [mid EXCEPT !.typed = marks] =
                [newStatus |-> mid.newStatus, reasonCode |-> mid.reasonCode,
                 nominees |-> mid.nominees, typed |-> marks]
          BY <4>1, OtherTyped
        <4> QED BY <4>1, <4>2, <4>3
      <3>3. agmtForm = [d \in Clerks |-> agmtForm[d]]
        BY DEF AgmtInv
      <3>4. one = [agmtForm EXCEPT ![c] = mid]
        BY <3>1
      <3>5. agmtForm' = [one EXCEPT ![c].typed[s] = @ \cup {f}]
        BY <2>1
      <3> HIDE DEF one, mid, new
      <3>6. one[c] = mid
        BY <3>3, <3>4
      <3>7. agmtForm' = [one EXCEPT ![c] = new]
        BY <3>2, <3>5, <3>6
      <3> QED BY <3>3, <3>4, <3>7
    <2>3. SoundText([g \in {f} |-> v], NomColumns) /\ SoundText(form.nominees[s], NomColumns)
      BY <1>2, OneText DEF SoundPage
    <2>4. SoundText(text, NomColumns) /\ DOMAIN text = {f} \cup DOMAIN form.nominees[s]
      <3> DEFINE old == form.nominees[s]
                 one == [g \in {f} |-> v]
      <3>1. SoundText(one, NomColumns) /\ SoundText(old, NomColumns) /\ DOMAIN one = {f}
        BY <2>3
      <3> HIDE DEF old, one
      <3>2. SoundText(Over(one, old), NomColumns) /\ DOMAIN Over(one, old) = {f} \cup DOMAIN old
        BY <3>1, OverText, OverEntries
      <3> QED BY <3>2 DEF old, one
    <2>5. /\ new = [newStatus |-> new.newStatus, reasonCode |-> new.reasonCode,
                    nominees |-> new.nominees, typed |-> new.typed]
          /\ new.newStatus = form.newStatus /\ new.reasonCode = form.reasonCode
          /\ new.nominees = slots /\ new.typed = marks
      OBVIOUS
    <2>6. /\ slots = [t \in Slots |-> slots[t]] /\ slots[s] = text
          /\ marks = [t \in Slots |-> marks[t]] /\ marks[s] = form.typed[s] \cup {f}
          /\ \A t \in Slots \ {s} : slots[t] = form.nominees[t] /\ marks[t] = form.typed[t]
      BY <1>2 DEF SoundPage
    <2>10. ASSUME NEW nominee, SoundSlot(form.nominees[s], form.typed[s], nominee)
           PROVE  SoundSlot(text, marks[s], nominee)
      <3>1. \A g \in DOMAIN text \ {f} : text[g] = form.nominees[s][g]
        BY <2>4 DEF Over
      <3> HIDE DEF text, marks
      <3> QED BY <2>4, <2>6, <2>10, <3>1 DEF SoundSlot
    <2> HIDE DEF new, slots, text, marks
    <2>7. \A t \in Slots :
            /\ SoundText(slots[t], NomColumns)
            /\ agmtQuery[c] # Null => SoundSlot(slots[t], marks[t], agmtQuery[c].nominees[t])
      BY <1>2, <2>4, <2>6, <2>10 DEF SoundPage
    <2>8. SoundPage(new, agmtQuery[c])
      BY <1>2, <2>5, <2>6, <2>7 DEF SoundPage
    <2>9. AgmtInv'
      BY <1>2, <2>1, <2>2, <2>8, PageFrame DEF AgmtInv
    <2> QED BY <1>10, <2>9, Counts DEF TypeNominee
  <1> QED BY <1>1, <1>4, <1>5, <1>6, <1>7, <1>8, <1>9, <1>10

(***************************************************************************)
(* What a save keeps.                                                      *)
(***************************************************************************)
(* An update writes what was typed, and otherwise what the form was loaded *)
(* with or nothing.                                                        *)
LEMMA UpdateKeeps ==
  ASSUME MemberInv, NEW c \in Clerks, updateMember(c)
  PROVE  MembersKept(c)
  <1> DEFINE form == memberForm[c]
             no == form.no
             old == members[no]
             loaded == memberQuery[c][no]
             new == Over(buildPayload(form.text), old)
  <1>1. /\ form # Null /\ no \in Numbers /\ form.isEdit
        /\ members' = [members EXCEPT ![no] = new]
        /\ old # Null /\ old \in MemberRow
    BY Updated
  <1>2. /\ members'[no] = new /\ \A k \in Numbers \ {no} : members'[k] = members[k]
    BY <1>1 DEF MemberInv
  <1>3. /\ SoundText(form.text, Columns) /\ form.typed \subseteq DOMAIN form.text
        /\ loaded # Null /\ loaded \in MemberRow
        /\ \A f \in DOMAIN form.text \ form.typed :
             loaded[f] # Null /\ form.text[f] = loaded[f]
    BY <1>1 DEF MemberInv, SoundForm
  <1>4. /\ \A f \in Columns \cap DOMAIN form.text : new[f] = Displayed(form.text, f)
        /\ \A f \in Columns \ DOMAIN form.text : new[f] = old[f]
    BY <1>1, <1>3, Payload DEF MemberRow
  <1>5. ASSUME NEW f \in Columns PROVE Kept(form, loaded[f], f, old[f], new[f])
    <2>1. CASE f \in form.typed
      BY <1>3, <1>4, <2>1 DEF Kept
    <2>2. CASE f \in DOMAIN form.text \ form.typed
      <3>1. form.text[f] = loaded[f] /\ loaded[f] \in Values /\ loaded[f] # Null
        BY <1>3, <2>2 DEF MemberRow, Column
      <3>2. form.text[f] # ""
        BY <3>1, FormsAssumption
      <3>3. new[f] = loaded[f]
        BY <1>4, <2>2, <3>1, <3>2 DEF Displayed
      <3> QED BY <2>2, <3>1, <3>3 DEF Kept
    <2>3. CASE f \notin DOMAIN form.text
      BY <1>3, <1>4, <2>3 DEF Kept
    <2> QED BY <2>1, <2>2, <2>3
  <1> HIDE DEF new
  <1> QED BY <1>1, <1>2, <1>5 DEF MembersKept

(* A member that is created has what was typed and is empty otherwise.     *)
LEMMA CreateKeeps ==
  ASSUME MemberInv, NEW c \in Clerks, createMember(c)
  PROVE  MembersKept(c)
  <1> DEFINE form == memberForm[c]
             no == form.no
             new == Over(buildPayload(form.text), Blank)
  <1>1. /\ form # Null /\ no \in Numbers /\ ~form.isEdit
        /\ members' = [members EXCEPT ![no] = new]
        /\ members[no] = Null
    BY Created
  <1>2. /\ members'[no] = new /\ \A k \in Numbers \ {no} : members'[k] = members[k]
    BY <1>1 DEF MemberInv
  <1>3. /\ SoundText(form.text, Columns) /\ form.typed = DOMAIN form.text
    BY <1>1 DEF MemberInv, SoundForm
  <1>4. Blank \in [Columns -> Column] /\ \A f \in Columns : Blank[f] = Null
    BY DEF Blank, Column
  <1>5. /\ \A f \in Columns \cap DOMAIN form.text : new[f] = Displayed(form.text, f)
        /\ \A f \in Columns \ DOMAIN form.text : new[f] = Null
    BY <1>3, <1>4, Payload
  <1>6. \A f \in Columns : Kept(form, Null, f, Null, new[f])
    BY <1>3, <1>5 DEF Kept
  <1> HIDE DEF new
  <1> QED BY <1>1, <1>2, <1>6 DEF MembersKept

(* Only a save changes members, and it keeps what others saved.            *)
LEMMA MemberSaves ==
  ASSUME MemberInv, MemberDesk
  PROVE  /\ members' # members => memberForm[saver'] # Null /\ MembersKept(saver')
         /\ agreement' = agreement
  <1>1. PICK c \in MemberClerks :
       \/ \E no \in Numbers : ShowMember(c, no) \/ EditMember(c, no) \/ NewMember(c, no)
       \/ \E v \in Values \cup {""} :
            handleStateChange(c, v) \/ \E f \in Columns : TypeMember(c, f, v)
       \/ CancelEdit(c) \/ updateMember(c) \/ createMember(c)
    BY DEF MemberDesk
  <1>2. c \in Clerks /\ agreement' = agreement
    BY DEF MemberClerks, MemberDesk, agmtVars
  <1>3. CASE updateMember(c)
    BY <1>2, <1>3, Updated, UpdateKeeps DEF updateMember, Save
  <1>4. CASE createMember(c)
    BY <1>2, <1>4, Created, CreateKeeps DEF createMember, Save
  <1>5. CASE ~updateMember(c) /\ ~createMember(c)
    <2>1. members' = members
      BY <1>1, <1>5 DEF ShowMember, EditMember, NewMember, handleStateChange, TypeMember,
                        Typing, CancelEdit
    <2> QED BY <1>2, <2>1
  <1> QED BY <1>3, <1>4, <1>5

(* A column that was not typed in shows what the page was loaded with, and *)
(* has no entry if there was no nominee.                                   *)
LEMMA AsLoaded ==
  ASSUME NEW nominee \in NomineeRow \cup {Null}, NEW text, NEW typed,
         SoundSlot(text, typed, nominee), NEW f \in NomColumns, f \notin typed
  PROVE  /\ nominee # Null => f \in DOMAIN text /\ Displayed(text, f) = nominee[f]
         /\ nominee = Null => f \notin DOMAIN text
  <1>1. CASE nominee = Null
    BY <1>1 DEF SoundSlot
  <1>2. CASE nominee # Null
    <2>1. nominee[f] \in Values \cup {Null} /\ f \in DOMAIN text
      BY <1>2 DEF NomineeRow, Column, SoundSlot
    <2>2. SlotText(nominee) = [g \in NomColumns |-> IF nominee[g] = Null THEN "" ELSE nominee[g]]
      BY <1>2 DEF SlotText
    <2>3. text[f] = IF nominee[f] = Null THEN "" ELSE nominee[f]
      BY <2>1, <2>2 DEF SoundSlot
    <2>4. nominee[f] # Null => nominee[f] # ""
      BY <2>1, FormsAssumption
    <2> QED BY <1>2, <2>1, <2>3, <2>4 DEF Displayed
  <1> QED BY <1>1, <1>2

(* A slot that is saved has what was typed, and for the rest what the      *)
(* page was loaded with, or what is stored if there was no nominee.        *)
LEMMA NomineesKept ==
  ASSUME AgmtInv, NEW c \in Clerks, updateNominees(c)
  PROVE  /\ agmtQuery[c] # Null /\ \A s \in Slots : SlotKept(c, s)
         /\ [agreement' EXCEPT !.nominees = agreement.nominees] = agreement
  <1> DEFINE slots == agmtForm[c].nominees
             new == [s \in Slots |-> IF s \in Sent(slots) THEN Saved(c, s)
                                     ELSE agreement.nominees[s]]
  <1>1. /\ agreement' = [agreement EXCEPT !.nominees = new] /\ agmtQuery[c] # Null
        /\ agreement \in AgreementRow
    BY NomineesWritten DEF updateNominees, OnPage, AgmtInv
  <1>2. \A s \in Slots : new[s] = IF s \in Sent(slots) THEN Saved(c, s) ELSE agreement.nominees[s]
    OBVIOUS
  <1> HIDE DEF new
  <1>3. agreement'.nominees = new
        /\ [agreement' EXCEPT !.nominees = agreement.nominees] = agreement
    BY <1>1 DEF AgreementRow
  <1>4. ASSUME NEW s \in Slots PROVE SlotKept(c, s)
    <2>1. CASE NameOf(slots[s]) = ""
      <3>1. s \notin Sent(slots)
        BY <2>1 DEF Sent
      <3> QED BY <1>2, <1>3, <2>1, <3>1 DEF SlotKept
    <2>2. CASE NameOf(slots[s]) # ""
      <3>1. s \in Sent(slots)
        BY <2>2 DEF Sent
      <3>2. agreement'.nominees[s] = Saved(c, s)
        BY <1>2, <1>3, <3>1
      <3>3. /\ Stored(s) \in [NomColumns -> Column] /\ SoundText(slots[s], NomColumns)
        BY NomineesWritten
      <3>4. /\ \A f \in NomColumns \cap DOMAIN slots[s] :
                 Saved(c, s)[f] = Displayed(slots[s], f)
            /\ \A f \in NomColumns \ DOMAIN slots[s] : Saved(c, s)[f] = Stored(s)[f]
        BY <3>3, Payload DEF Saved
      <3>5. /\ agmtQuery[c].nominees[s] \in NomineeRow \cup {Null}
            /\ SoundSlot(slots[s], agmtForm[c].typed[s], agmtQuery[c].nominees[s])
        <4>1. agmtQuery[c] \in AgreementRow /\ SoundPage(agmtForm[c], agmtQuery[c])
          BY <1>1 DEF AgmtInv
        <4>2. agmtQuery[c].nominees[s] \in NomineeRow \cup {Null}
          BY <4>1 DEF AgreementRow
        <4> QED BY <1>1, <4>1, <4>2 DEF SoundPage
      <3>6. ASSUME NEW f \in NomColumns
            PROVE  Saved(c, s)[f] =
                     IF f \in agmtForm[c].typed[s] THEN Displayed(slots[s], f)
                     ELSE IF agmtQuery[c].nominees[s] # Null THEN agmtQuery[c].nominees[s][f]
                     ELSE IF agreement.nominees[s] # Null THEN agreement.nominees[s][f] ELSE Null
        <4>1. CASE f \in agmtForm[c].typed[s]
          <5>1. f \in DOMAIN slots[s]
            BY <3>5, <4>1 DEF SoundSlot
          <5> QED BY <3>4, <4>1, <5>1
        <4>2. CASE f \notin agmtForm[c].typed[s]
          <5>1. /\ agmtQuery[c].nominees[s] # Null =>
                     f \in DOMAIN slots[s]
                     /\ Displayed(slots[s], f) = agmtQuery[c].nominees[s][f]
                /\ agmtQuery[c].nominees[s] = Null => f \notin DOMAIN slots[s]
            BY <3>5, <4>2, AsLoaded
          <5>2. Stored(s)[f] = IF agreement.nominees[s] # Null
                               THEN agreement.nominees[s][f] ELSE Null
            BY DEF Stored
          <5> QED BY <3>4, <4>2, <5>1, <5>2
        <4> QED BY <4>1, <4>2
      <3> QED BY <2>2, <3>2, <3>6 DEF SlotKept
    <2> QED BY <2>1, <2>2
  <1> QED BY <1>1, <1>3, <1>4

(* A status is written with a reason of its own, within the authority of   *)
(* the department.                                                         *)
LEMMA StatusWrittenKept ==
  ASSUME AgmtInv, NEW c \in Clerks, changeAgreementStatus(c)
  PROVE  StatusKept(c)
  <1> DEFINE req == statusReq[c]
  <1>1. /\ SoundRequest(c, req) /\ req # Null
        /\ agreement'.acctClassify = req.new
        /\ agreement'.suCode = reasonData(req.new, req.reason)[1]
        /\ agreement'.canCode = reasonData(req.new, req.reason)[2]
    BY StatusWritten
  <1>2. /\ req.new \in AcctClassify
        /\ req.new # "NA" => req.reason \in ReasonsOf(req.new)
        /\ Dept[c] = "Credit" => "TM" \notin {req.new, req.old}
    BY <1>1 DEF SoundRequest
  <1> HIDE DEF req
  <1>3. CASE req.new = "NA"
    <2>1. agreement'.suCode = Null /\ agreement'.canCode = Null
      BY <1>1, <1>3 DEF reasonData
    <2> QED BY <1>1, <1>2, <1>3, <2>1 DEF StatusKept, req
  <1>4. CASE req.new = "SU"
    <2>1. agreement'.suCode = req.reason /\ agreement'.canCode = Null
      BY <1>1, <1>4 DEF reasonData
    <2>2. req.reason \in ReasonsOf(req.new)
      BY <1>2, <1>4
    <2> QED BY <1>1, <1>2, <1>4, <2>1, <2>2 DEF StatusKept, req
  <1>5. CASE req.new \in {"PT", "TM"}
    <2>1. agreement'.suCode = Null /\ agreement'.canCode = req.reason
      BY <1>1, <1>5 DEF reasonData
    <2>2. req.reason \in ReasonsOf(req.new)
      BY <1>2, <1>5
    <2> QED BY <1>1, <1>2, <1>5, <2>1, <2>2 DEF StatusKept, req
  <1>6. req.new \in {"NA", "SU", "PT", "TM"}
    BY <1>2 DEF AcctClassify
  <1> QED BY <1>3, <1>4, <1>5, <1>6

(* Only a save of nominees changes these, only a change of status the      *)
(* rest.                                                                   *)
LEMMA AgreementSaves ==
  ASSUME AgmtInv, AgreementDesk
  PROVE  /\ members' = members
         /\ agreement'.nominees # agreement.nominees =>
              \A s \in Slots : agmtQuery[saver'] # Null /\ SlotKept(saver', s)
         /\ [agreement' EXCEPT !.nominees = agreement.nominees] # agreement =>
              statusReq[saver'] # Null /\ StatusKept(saver')
  <1>1. PICK c \in Clerks :
       \/ ShowAgreement(c) \/ AskStatus(c) \/ changeAgreementStatus(c) \/ updateNominees(c)
       \/ \E s \in AcctClassify : handleStatusChange(c, s)
       \/ \E r \in SuReasons \cup CanReasons : ChooseReason(c, r)
       \/ \E s \in Slots, f \in NomColumns, v \in Values \cup {""} : TypeNominee(c, s, f, v)
    BY DEF AgreementDesk
  <1>2. members' = members /\ agreement \in AgreementRow
    BY DEF AgreementDesk, memberVars, AgmtInv
  <1>3. CASE updateNominees(c)
    <2>1. saver' = c
      BY <1>3 DEF updateNominees, Save
    <2> QED BY <1>2, <1>3, <2>1, NomineesKept
  <1>4. CASE changeAgreementStatus(c)
    <2>1. saver' = c
      BY <1>4 DEF changeAgreementStatus, Save
    <2> QED BY <1>2, <1>4, <2>1, StatusWritten, StatusWrittenKept
  <1>5. CASE ~updateNominees(c) /\ ~changeAgreementStatus(c)
    <2>1. agreement' = agreement
      BY <1>1, <1>5 DEF ShowAgreement, AskStatus, handleStatusChange, ChooseReason, TypeNominee
    <2>2. [agreement EXCEPT !.nominees = agreement.nominees] = agreement
      BY <1>2 DEF AgreementRow
    <2> QED BY <1>2, <2>1, <2>2
  <1> QED BY <1>3, <1>4, <1>5

(* Nothing is loaded, opened or saved at first.                            *)
LEMMA FormStart == FormInit => FormInv
  <1> SUFFICES ASSUME FormInit PROVE FormInv
    OBVIOUS
  <1>1. MemberInv
    <2>1. \A c \in Clerks : SoundForm(memberForm[c], memberQuery[c])
      BY DEF FormInit, SoundForm
    <2> QED BY <2>1, FormsAssumption DEF FormInit, MemberInv
  <1>2. AgmtInv
    <2>1. agreement = Agreement0 /\ agreement \in AgreementRow
      BY FormsAssumption DEF FormInit
    <2>2. SoundPage(PageForm(agreement), Null)
      BY <2>1, PageFilled
    <2>3. \A c \in Clerks : /\ agmtForm[c] = PageForm(agreement) /\ agmtQuery[c] = Null
                            /\ statusReq[c] = Null
      BY <2>1 DEF FormInit
    <2>4. \A c \in Clerks : SoundPage(agmtForm[c], agmtQuery[c]) /\ SoundRequest(c, statusReq[c])
      BY <2>2, <2>3 DEF SoundRequest
    <2> QED BY <2>1, <2>4 DEF FormInit, AgmtInv
  <1>3. CountInv
    <2>1. saves = 0 /\ keys = 0 /\ saver = Null
      BY DEF FormInit
    <2>2. 0 \in 0..MaxSaves /\ 0 \in 0..MaxKeys
      BY BoundsNat
    <2> QED BY <2>1, <2>2 DEF CountInv
  <1> QED BY <1>1, <1>2, <1>3 DEF FormInv

(* A step that leaves the members alone keeps their part,                  *)
LEMMA MembersSame ==
  ASSUME MemberInv, memberVars' = memberVars
  PROVE  MemberInv'
  <1>1. members' = members /\ memberQuery' = memberQuery /\ memberForm' = memberForm
    BY DEF memberVars
  <1>2. \A c \in Clerks : SoundForm(memberForm[c], memberQuery[c])
    BY DEF MemberInv
  <1>3. \A c \in Clerks : SoundForm(memberForm'[c], memberQuery'[c])
    BY <1>1, <1>2
  <1> QED BY <1>1, <1>3 DEF MemberInv

(* and one that leaves the agreement alone keeps its part.                 *)
LEMMA AgmtSame ==
  ASSUME AgmtInv, agmtVars' = agmtVars
  PROVE  AgmtInv'
  <1>1. /\ agreement' = agreement /\ agmtQuery' = agmtQuery /\ agmtForm' = agmtForm
        /\ statusReq' = statusReq
    BY DEF agmtVars
  <1>2. \A c \in Clerks : SoundPage(agmtForm[c], agmtQuery[c]) /\ SoundRequest(c, statusReq[c])
    BY DEF AgmtInv
  <1>3. \A c \in Clerks :
          SoundPage(agmtForm'[c], agmtQuery'[c]) /\ SoundRequest(c, statusReq'[c])
    BY <1>1, <1>2
  <1> QED BY <1>1, <1>3 DEF AgmtInv

(* Every step keeps the invariant of the forms.                            *)
LEMMA FormStep == FormInv /\ [Next]_vars => FormInv'
  <1> SUFFICES ASSUME FormInv, [Next]_vars PROVE FormInv'
    OBVIOUS
  <1>1. CASE MemberDesk
    <2>1. agmtVars' = agmtVars
      BY <1>1 DEF MemberDesk
    <2>2. AgmtInv'
      BY <2>1, AgmtSame DEF FormInv
    <2> QED BY <1>1, <2>2, MemberStep DEF FormInv
  <1>2. CASE AgreementDesk
    <2>1. memberVars' = memberVars
      BY <1>2 DEF AgreementDesk
    <2>2. MemberInv'
      BY <2>1, MembersSame DEF FormInv
    <2> QED BY <1>2, <2>2, AgreementStep DEF FormInv
  <1>3. CASE UNCHANGED formVars
    <2>1. memberVars' = memberVars /\ agmtVars' = agmtVars /\ CountInv'
      BY <1>3 DEF FormInv, CountInv, formVars, memberVars, agmtVars
    <2> QED BY <2>1, MembersSame, AgmtSame DEF FormInv
  <1> QED BY <1>1, <1>2, <1>3, FormDesk

(* It holds in every state.                                                *)
LEMMA FormInvariant == Spec => []FormInv
  <1>1. Init => FormInv
    BY FormDesk, FormStart
  <1> QED BY <1>1, FormStep, PTL DEF Spec

(* Saves from forms of any age, whoever saved meanwhile: the member form   *)
(* empties no column that another clerk filled and renames no member, the  *)
(* nominee form drops no nominee and takes a column that was not typed in  *)
(* back no further than its page, no status has the reason of another, and *)
(* Credit undoes no termination that its request was checked against.      *)
THEOREM FormsKeepOthers == Spec => SavesKeepOthers
  <1>1. FormInv /\ [Next]_vars =>
          [/\ members' # members => memberForm[saver'] # Null /\ MembersKept(saver')
           /\ agreement'.nominees # agreement.nominees =>
                \A s \in Slots : agmtQuery[saver'] # Null /\ SlotKept(saver', s)
           /\ [agreement' EXCEPT !.nominees = agreement.nominees] # agreement =>
                statusReq[saver'] # Null /\ StatusKept(saver')]_formVars
    <2> SUFFICES ASSUME FormInv, [Next]_vars, ~UNCHANGED formVars
        PROVE /\ members' # members => memberForm[saver'] # Null /\ MembersKept(saver')
              /\ agreement'.nominees # agreement.nominees =>
                   \A s \in Slots : agmtQuery[saver'] # Null /\ SlotKept(saver', s)
              /\ [agreement' EXCEPT !.nominees = agreement.nominees] # agreement =>
                   statusReq[saver'] # Null /\ StatusKept(saver')
      OBVIOUS
    <2>1. CASE MemberDesk
      <3>1. agreement \in AgreementRow
        BY DEF FormInv, AgmtInv
      <3>2. [agreement EXCEPT !.nominees = agreement.nominees] = agreement
        BY <3>1 DEF AgreementRow
      <3> QED BY <2>1, <3>2, MemberSaves DEF FormInv
    <2>2. CASE AgreementDesk
      BY <2>2, AgreementSaves DEF FormInv
    <2> QED BY <2>1, <2>2, FormDesk
  <1> QED BY <1>1, FormInvariant, PTL DEF Spec, SavesKeepOthers

(***************************************************************************)
(* Reports and cards.                                                      *)
(***************************************************************************)
(* The page of a report is one of the reports with a filter of its own.    *)
ReportInv ==
  /\ ReportTypeOK
  /\ screen = [report |-> screen.report, filter |-> screen.filter, preview |-> screen.preview]

(* A report that is opened.                                                *)
LEMMA PageOpened ==
  ASSUME NEW report \in ReportNames, NEW f \in Filters[report],
         screen' = OpenPage(report, f)
  PROVE  /\ screen'.report \in ReportNames /\ screen'.filter \in Filters[screen'.report]
         /\ screen' = [report |-> screen'.report, filter |-> screen'.filter,
                       preview |-> screen'.preview]
  BY DEF OpenPage

(* The first page is the report of expiries.                               *)
LEMMA ReportStart == ReportInit => ReportInv
  <1> SUFFICES ASSUME ReportInit PROVE ReportInv
    OBVIOUS
  <1>1. PICK f \in Filters["expiry"] : screen = OpenPage("expiry", f)
    BY DEF ReportInit
  <1>2. /\ screen.report = "expiry" /\ screen.filter = f
        /\ screen = [report |-> screen.report, filter |-> screen.filter,
                     preview |-> screen.preview]
    BY <1>1 DEF OpenPage
  <1>3. now \in ThisYear..(ThisYear + MaxYears) /\ changes \in 0..MaxChanges
    BY BoundsAssumption DEF ReportInit
  <1> QED BY <1>2, <1>3, AgreementsAssumption, SchemesAssumption
          DEF ReportInit, ReportInv, ReportTypeOK, ReportNames

(* Another filter is chosen for the report that is shown.                  *)
LEMMA SamePage ==
  ASSUME ReportInv, NEW f \in Filters[screen.report], NEW preview,
         screen' = [screen EXCEPT !.filter = f, !.preview = preview]
  PROVE  /\ screen'.report \in ReportNames /\ screen'.filter \in Filters[screen'.report]
         /\ screen' = [report |-> screen'.report, filter |-> screen'.filter,
                       preview |-> screen'.preview]
  <1>1. screen' = [report |-> screen.report, filter |-> f, preview |-> preview]
    BY DEF ReportInv
  <1>2. screen'.report = screen.report /\ screen'.filter = f /\ screen'.preview = preview
    BY <1>1
  <1> QED BY <1>1, <1>2 DEF ReportInv, ReportTypeOK

(* A preview is put on the page or taken from it.                          *)
LEMMA PreviewOnly ==
  ASSUME ReportInv, NEW preview, screen' = [screen EXCEPT !.preview = preview]
  PROVE  /\ screen'.report \in ReportNames /\ screen'.filter \in Filters[screen'.report]
         /\ screen' = [report |-> screen'.report, filter |-> screen'.filter,
                       preview |-> screen'.preview]
  <1>1. screen' = [report |-> screen.report, filter |-> screen.filter, preview |-> preview]
    BY DEF ReportInv
  <1>2. screen'.report = screen.report /\ screen'.filter = screen.filter
        /\ screen'.preview = preview
    BY <1>1
  <1> QED BY <1>1, <1>2 DEF ReportInv, ReportTypeOK

(* A change in the tables takes the preview from the page.                 *)
LEMMA OutdatedPage ==
  ASSUME ReportInv, Outdated
  PROVE  /\ screen'.report \in ReportNames /\ screen'.filter \in Filters[screen'.report]
         /\ screen' = [report |-> screen'.report, filter |-> screen'.filter,
                       preview |-> screen'.preview]
  <1>1. CASE screen.preview = None
    BY <1>1 DEF Outdated, ReportInv, ReportTypeOK
  <1>2. CASE screen.preview # None
    BY <1>2, PreviewOnly DEF Outdated
  <1> QED BY <1>1, <1>2

(* Reports and the changes they are to show keep the invariant.            *)
LEMMA ReportStep ==
  ASSUME ReportInv, ReportNext
  PROVE  ReportInv'
  <1>1. CASE Open
    BY <1>1, PageOpened DEF Open, db, ReportInv, ReportTypeOK
  <1>2. CASE Choose
    <2>1. PICK f, preview :
            /\ f \in Filters[screen.report]
            /\ screen' = [screen EXCEPT !.filter = f, !.preview = preview]
      BY <1>2 DEF Choose
    <2> QED BY <1>2, <2>1, SamePage DEF Choose, db, ReportInv, ReportTypeOK
  <1>3. CASE Apply
    BY <1>3, PreviewOnly DEF Apply, db, ReportInv, ReportTypeOK
  <1>4. CASE Download
    BY <1>4 DEF Download, db, ReportInv, ReportTypeOK
  <1>5. CASE ChangeStatus
    <2>1. PICK a \in Agreements, new \in Statuses :
       acct' = [acct EXCEPT ![a] =
         [acctClassify |-> new, changedIn |-> IF new = "NA" THEN None ELSE now]]
      BY <1>5 DEF ChangeStatus
    <2>2. now \in Nat
      BY BoundsAssumption DEF ReportInv, ReportTypeOK
    <2>3. [acctClassify |-> new, changedIn |-> IF new = "NA" THEN None ELSE now] \in AcctRow
      BY <2>2 DEF AcctRow
    <2>4. acct' \in [Agreements -> AcctRow]
      BY <2>1, <2>3 DEF ReportInv, ReportTypeOK
    <2>5. changes' \in 0..MaxChanges
      BY <1>5, BoundsAssumption DEF ChangeStatus, Change, ReportInv, ReportTypeOK
    <2>6. UNCHANGED <<scheme, claims, now>> /\ Outdated
      BY <1>5 DEF ChangeStatus, Change
    <2> QED BY <2>4, <2>5, <2>6, OutdatedPage DEF ReportInv, ReportTypeOK
  <1>6. CASE SaveScheme
    <2>1. scheme' \in [Agreements -> SchemeRow \cup {None}]
      BY <1>6 DEF SaveScheme, ReportInv, ReportTypeOK
    <2>2. changes' \in 0..MaxChanges
      BY <1>6, BoundsAssumption DEF SaveScheme, Change, ReportInv, ReportTypeOK
    <2>3. UNCHANGED <<acct, claims, now>> /\ Outdated
      BY <1>6 DEF SaveScheme, Change
    <2> QED BY <2>1, <2>2, <2>3, OutdatedPage DEF ReportInv, ReportTypeOK
  <1>7. CASE EditClaim
    <2>1. PICK k \in claims :
            \/ \E nd \in BOOLEAN : claims' = (claims \ {k}) \cup {[k EXCEPT !.ND = nd]}
            \/ claims' = claims \ {k}
      BY <1>7 DEF EditClaim
    <2>2. k \in ClaimRow
      BY DEF ReportInv, ReportTypeOK
    <2>3. \A nd \in BOOLEAN : [k EXCEPT !.ND = nd] \in ClaimRow
      BY <2>2 DEF ClaimRow
    <2>4. claims' \subseteq ClaimRow
      BY <2>1, <2>3 DEF ReportInv, ReportTypeOK
    <2>5. changes' \in 0..MaxChanges
      BY <1>7, BoundsAssumption DEF EditClaim, Change, ReportInv, ReportTypeOK
    <2>6. UNCHANGED <<acct, scheme, now>> /\ Outdated
      BY <1>7 DEF EditClaim, Change
    <2> QED BY <2>4, <2>5, <2>6, OutdatedPage DEF ReportInv, ReportTypeOK
  <1>8. CASE YearTurns
    <2>1. now' \in ThisYear..(ThisYear + MaxYears)
      BY <1>8, BoundsAssumption DEF YearTurns, ReportInv, ReportTypeOK
    <2>2. UNCHANGED <<acct, scheme, claims, changes>> /\ Outdated
      BY <1>8 DEF YearTurns
    <2> QED BY <2>1, <2>2, OutdatedPage DEF ReportInv, ReportTypeOK
  <1> QED BY <1>1, <1>2, <1>3, <1>4, <1>5, <1>6, <1>7, <1>8 DEF ReportNext

(* The days of the cards.                                                  *)
Days(y, m) ==
  CASE m = 2 -> IF Leap(y) THEN 29 ELSE 28
    [] m \in {4, 6, 9, 11} -> 30
    [] OTHER -> 31

(* A date is a number of eight digits.                                     *)
DateAt(y, m, k) == y * 10000 + m * 100 + k

(* Its digits are its year, month and day,                                 *)
LEMMA DateParts ==
  ASSUME NEW y \in Nat, NEW m \in 0..99, NEW k \in 0..99
  PROVE  LET date == DateAt(y, m, k)
         IN /\ date \in Nat /\ YearOf(date) = y /\ MonthOf(date) = m /\ date % 100 = k
  <1> DEFINE date == y * 10000 + m * 100 + k
  <1>1. date \in Nat /\ date \div 10000 = y
    OBVIOUS
  <1>2. date % 10000 = m * 100 + k
    OBVIOUS
  <1>3. date \div 100 = y * 100 + m /\ date % 100 = k
    OBVIOUS
  <1>4. (y * 100 + m) % 100 = m
    OBVIOUS
  <1> QED BY <1>1, <1>2, <1>3, <1>4 DEF YearOf, MonthOf, MonthDay, DateAt

(* and its halves the day of the year and the month.                       *)
LEMMA DateHalves ==
  ASSUME NEW y \in Nat, NEW m \in 0..99, NEW k \in 0..99
  PROVE  /\ MonthDay(DateAt(y, m, k)) = m * 100 + k
         /\ DateAt(y, m, k) \div 100 = y * 100 + m
  <1>1. (y * 10000 + m * 100 + k) % 10000 = m * 100 + k
    OBVIOUS
  <1>2. (y * 10000 + m * 100 + k) \div 100 = y * 100 + m
    OBVIOUS
  <1> QED BY <1>1, <1>2 DEF MonthDay, DateAt

(* A month has 28 to 31 days, December 31.                                 *)
LEMMA DaysRange == \A y, m : Days(y, m) \in 28..31 /\ (m = 12 => Days(y, m) = 31)
  BY DEF Days

(* A date is made of its parts,                                            *)
LEMMA DateOfParts ==
  ASSUME NEW date, IsDate(date)
  PROVE  LET y == YearOf(date)
             m == MonthOf(date)
             k == date % 100
         IN /\ date \in Nat /\ y \in Nat /\ m \in 1..12 /\ k \in 1..31
            /\ k <= Days(y, m) /\ LastOfMonth(date) = Days(y, m)
            /\ date = DateAt(y, m, k)
  <1>1. date \in Nat /\ MonthOf(date) \in 1..12 /\ date % 100 \in 1..LastOfMonth(date)
    BY DEF IsDate
  <1>2. LastOfMonth(date) = Days(YearOf(date), MonthOf(date))
    BY DEF LastOfMonth, Days
  <1>3. Days(YearOf(date), MonthOf(date)) \in 28..31
    BY DaysRange
  <1>4. YearOf(date) \in Nat
    BY <1>1 DEF YearOf
  <1>5. date = YearOf(date) * 10000 + MonthOf(date) * 100 + (date % 100)
    BY <1>1 DEF YearOf, MonthOf
  <1>6. date % 100 \in 1..31 /\ date % 100 <= Days(YearOf(date), MonthOf(date))
    BY <1>1, <1>2, <1>3
  <1> QED BY <1>1, <1>2, <1>4, <1>5, <1>6 DEF DateAt

(* and parts that fit make a date.                                         *)
LEMMA DateFromParts ==
  ASSUME NEW y \in Nat, NEW m \in 1..12, NEW k \in 1..Days(y, m)
  PROVE  IsDate(DateAt(y, m, k))
  <1> DEFINE d == DateAt(y, m, k)
  <1>1. Days(y, m) \in 28..31
    BY DaysRange
  <1>2. k \in 0..99 /\ m \in 0..99
    BY <1>1
  <1>3. d \in Nat /\ YearOf(d) = y /\ MonthOf(d) = m /\ d % 100 = k
    BY <1>2, DateParts
  <1> HIDE DEF d
  <1>4. LastOfMonth(d) = Days(y, m)
    BY <1>3 DEF LastOfMonth, Days
  <1>5. IsDate(d)
    BY <1>3, <1>4 DEF IsDate
  <1> QED BY <1>5 DEF d

(* The day after is the next date, so that no day is passed over.          *)
LEMMA NextDate ==
  ASSUME NEW date, IsDate(date)
  PROVE  /\ IsDate(DayAfter(date)) /\ date < DayAfter(date)
         /\ \A later : IsDate(later) /\ date < later => DayAfter(date) <= later
  <1> DEFINE y == YearOf(date)
             m == MonthOf(date)
             k == date % 100
             last == Days(y, m)
  <1>1. /\ date \in Nat /\ y \in Nat /\ m \in 1..12 /\ k \in 1..31 /\ k <= last
        /\ LastOfMonth(date) = last /\ date = DateAt(y, m, k)
    BY DateOfParts
  <1>2. last \in 28..31 /\ (m = 12 => last = 31)
    BY DaysRange
  <1> DEFINE half == MonthDay(date)
             newYear == (y + 1) * 10000 + 101
             newMonth == (date \div 100 + 1) * 100 + 1
  <1>3. DayAfter(date) = CASE k < LastOfMonth(date) -> date + 1
                           [] half = 1231 -> newYear
                           [] OTHER -> newMonth
    BY DEF DayAfter
  <1> HIDE DEF y, m, k, last, half, newYear, newMonth
  <1>4. MonthDay(date) = m * 100 + k /\ date \div 100 = y * 100 + m
    <2>1. y \in Nat /\ m \in 0..99 /\ k \in 0..99
      BY <1>1
    <2>2. /\ MonthDay(DateAt(y, m, k)) = m * 100 + k
          /\ DateAt(y, m, k) \div 100 = y * 100 + m
      BY <2>1, DateHalves
    <2> QED BY <1>1, <2>2
  <1>5. DayAfter(date) = IF k < last THEN date + 1
                          ELSE IF half = 1231 THEN newYear ELSE newMonth
    <2>1. k < last => half # 1231
      BY <1>1, <1>2, <1>4 DEF half
    <2>2. CASE k < last
      BY <1>1, <1>3, <2>1, <2>2
    <2>3. CASE ~(k < last)
      BY <1>1, <1>3, <2>3
    <2> QED BY <2>2, <2>3
  <1>6. date = y * 10000 + m * 100 + k
    BY <1>1 DEF DateAt
  <1>7. ASSUME NEW later, IsDate(later)
        PROVE  \E yy \in Nat, mm \in 1..12, kk \in 1..31 :
                 later = DateAt(yy, mm, kk) /\ kk <= Days(yy, mm)
    <2> DEFINE yy == YearOf(later)
               mm == MonthOf(later)
               kk == later % 100
    <2>1. /\ yy \in Nat /\ mm \in 1..12 /\ kk \in 1..31
          /\ later = DateAt(yy, mm, kk) /\ kk <= Days(yy, mm)
      BY <1>7, DateOfParts
    <2> HIDE DEF yy, mm, kk
    <2> QED BY <2>1
  <1>8. CASE k < last
    <2>1. DayAfter(date) = date + 1
      BY <1>1, <1>5, <1>8
    <2>2. DayAfter(date) = DateAt(y, m, k + 1)
      BY <1>1, <1>6, <2>1 DEF DateAt
    <2>3. k + 1 \in 1..Days(y, m)
      BY <1>1, <1>2, <1>8 DEF last
    <2>4. IsDate(DayAfter(date))
      BY <1>1, <2>2, <2>3, DateFromParts
    <2>5. ASSUME NEW later, IsDate(later), date < later PROVE DayAfter(date) <= later
      <3>1. later \in Nat
        BY <2>5 DEF IsDate
      <3> QED BY <1>1, <2>1, <2>5, <3>1
    <2> QED BY <1>1, <2>1, <2>4, <2>5
  <1>9. CASE k = last /\ m = 12
    <2>1. k = 31 /\ MonthDay(date) = 1231
      BY <1>2, <1>4, <1>9
    <2>2. DayAfter(date) = (y + 1) * 10000 + 1 * 100 + 1
      BY <1>1, <1>2, <1>5, <1>9, <2>1 DEF half, newYear
    <2>3. y + 1 \in Nat /\ 1 \in 1..12 /\ 1 \in 1..Days(y + 1, 1)
      BY <1>1, DaysRange
    <2>4. IsDate(DateAt(y + 1, 1, 1))
      BY <2>3, DateFromParts
    <2>5. IsDate(DayAfter(date))
      BY <2>2, <2>4 DEF DateAt
    <2>6. date = y * 10000 + 1231
      BY <1>1, <1>6, <1>9, <2>1
    <2>7. ASSUME NEW later, IsDate(later), date < later PROVE DayAfter(date) <= later
      <3>0. PICK yy \in Nat, mm \in 1..12, kk \in 1..31 : later = DateAt(yy, mm, kk)
        BY <1>7, <2>7
      <3>1. later = yy * 10000 + mm * 100 + kk
        BY <3>0 DEF DateAt
      <3>2. y * 10000 + 1231 < yy * 10000 + mm * 100 + kk
        BY <1>1, <2>7, <2>6, <3>1
      <3>3. yy >= y + 1
        BY <1>1, <3>2
      <3> QED BY <1>1, <2>2, <3>1, <3>3
    <2>8. date < DayAfter(date)
      BY <1>1, <1>6, <1>9, <2>1, <2>2
    <2> QED BY <2>5, <2>7, <2>8
  <1>10. CASE k = last /\ m < 12
    <2>1. MonthDay(date) # 1231
      BY <1>1, <1>4, <1>10
    <2>2. DayAfter(date) = y * 10000 + (m + 1) * 100 + 1
      BY <1>1, <1>2, <1>5, <1>4, <1>10, <2>1 DEF half, newMonth
    <2>3. m + 1 \in 1..12 /\ 1 \in 1..Days(y, m + 1)
      BY <1>1, <1>10, DaysRange
    <2>4. IsDate(DateAt(y, m + 1, 1))
      BY <1>1, <2>3, DateFromParts
    <2>5. IsDate(DayAfter(date))
      BY <2>2, <2>4 DEF DateAt
    <2>6. ASSUME NEW later, IsDate(later), date < later PROVE DayAfter(date) <= later
      <3>0. PICK yy \in Nat, mm \in 1..12, kk \in 1..31 :
              later = DateAt(yy, mm, kk) /\ kk <= Days(yy, mm)
        BY <1>7, <2>6
      <3>1. later = yy * 10000 + mm * 100 + kk /\ kk <= Days(yy, mm)
        BY <3>0 DEF DateAt
      <3>2. y * 10000 + m * 100 + k < yy * 10000 + mm * 100 + kk
        BY <1>6, <2>6, <3>1
      <3>3. yy = y /\ mm = m => kk <= k
        BY <1>1, <1>10, <3>1 DEF last
      <3>4. yy > y \/ (yy = y /\ mm > m)
        BY <1>1, <3>2, <3>3
      <3> QED BY <1>1, <1>10, <2>2, <3>1, <3>4
    <2>7. date < DayAfter(date)
      BY <1>1, <1>6, <1>10, <2>2
    <2> QED BY <2>5, <2>6, <2>7
  <1> QED BY <1>1, <1>2, <1>8, <1>9, <1>10

(* Today is a date.                                                        *)
EntitlementInv == EntitlementTypeOK /\ IsDate(today)

(* The first day is a date.                                                *)
LEMMA EntitlementStart == EntitlementInit => EntitlementInv
  BY DaysAssumption DEF EntitlementInit, EntitlementInv, EntitlementTypeOK, IsDate

(* The card and the days keep the invariant.                               *)
LEMMA EntitlementStep ==
  ASSUME EntitlementInv, EntitlementNext
  PROVE  EntitlementInv'
  <1>1. CASE NextDay
    <2>1. today < LastDay /\ today' = DayAfter(today) /\ page' = None
      BY <1>1 DEF NextDay
    <2>2. /\ IsDate(today') /\ today' <= LastDay
      BY <2>1, NextDate, DaysAssumption DEF EntitlementInv
    <2>3. today < today'
      BY <2>1, NextDate DEF EntitlementInv
    <2> QED BY <2>1, <2>2, <2>3, DaysAssumption DEF EntitlementInv, EntitlementTypeOK, IsDate
  <1>2. ASSUME NEW a \in Agreements, OpenAgreement(a) PROVE EntitlementInv'
    <2>1. page' = [agmt |-> a, card |-> Card(a)] /\ today' = today
      BY <1>2 DEF OpenAgreement
    <2>2. page'.agmt = a
      BY <2>1
    <2> QED BY <2>1, <2>2 DEF EntitlementInv, EntitlementTypeOK
  <1> QED BY <1>1, <1>2 DEF EntitlementNext

(***************************************************************************)
(* The whole desk.                                                         *)
(***************************************************************************)
(* The reports and the cards at first.                                     *)
LEMMA DeskStart == Init => ReportInv /\ EntitlementInv
  BY ReportStart, EntitlementStart DEF Init

(* Every step keeps their invariants.                                      *)
LEMMA DeskStep == ReportInv /\ EntitlementInv /\ [Next]_vars => ReportInv' /\ EntitlementInv'
  <1> SUFFICES ASSUME ReportInv, EntitlementInv, [Next]_vars PROVE ReportInv' /\ EntitlementInv'
    OBVIOUS
  <1>1. (ReportNext \/ UNCHANGED reportVars) /\ (EntitlementNext \/ UNCHANGED cardVars)
    <2>1. CASE Next
      BY <2>1 DEF Next
    <2>2. CASE UNCHANGED vars
      BY <2>2 DEF vars
    <2> QED BY <2>1, <2>2
  <1>2. UNCHANGED reportVars => ReportInv'
    BY DEF reportVars, db, ReportInv, ReportTypeOK
  <1>3. UNCHANGED cardVars => EntitlementInv'
    BY DEF cardVars, EntitlementInv, EntitlementTypeOK, IsDate, MonthOf, LastOfMonth, YearOf
  <1> QED BY <1>1, <1>2, <1>3, ReportStep, EntitlementStep

(* What is invariant of the forms gives their types.                       *)
LEMMA FormTypes == FormInv => FormTypeOK
  <1> SUFFICES ASSUME FormInv PROVE FormTypeOK
    OBVIOUS
  <1>1. ASSUME NEW c \in Clerks, memberForm[c] # Null
        PROVE  memberForm[c].text \in UNION {[D -> Values \cup {""}] : D \in SUBSET Columns}
    <2> DEFINE text == memberForm[c].text
    <2>1. DOMAIN text \in SUBSET Columns /\ text \in [DOMAIN text -> Values \cup {""}]
      BY <1>1 DEF FormInv, MemberInv, SoundForm, SoundText
    <2> HIDE DEF text
    <2>2. text \in UNION {[D -> Values \cup {""}] : D \in SUBSET Columns}
      BY <2>1
    <2> QED BY <2>2 DEF text
  <1> QED BY <1>1 DEF FormInv, MemberInv, AgmtInv, CountInv, FormTypeOK

(* Every row that a save of any form writes has the type of its table, the *)
(* bounds on saves and keys hold, a report has a filter of its own, the    *)
(* days of the cards are dates that never pass the last, and the pages of  *)
(* lists are typed.                                                        *)
THEOREM FrontDeskTypeCorrect == Spec => []TypeOK
  <1>1. Spec => [](ReportInv /\ EntitlementInv)
    BY DeskStart, DeskStep, PTL DEF Spec
  <1>2. ReportInv /\ EntitlementInv /\ FormInv /\ ListTypeOK => TypeOK
    BY FormTypes DEF ReportInv, EntitlementInv, TypeOK
  <1> QED BY <1>1, <1>2, FormInvariant, ListTypeCorrect, PTL

(***************************************************************************)
(* Sums.  SumFunctionOnSet chooses a table with the sum of every subset;   *)
(* there is one, and no two.  A smallest counterexample takes the place of *)
(* induction.                                                              *)
(***************************************************************************)
LEMMA SmallestSubset ==
  ASSUME NEW S, IsFiniteSet(S), NEW U, U \subseteq SUBSET S, U # {}
  PROVE  \E T \in U : \A V \in U : ~(V \subseteq T /\ V # T)
  <1>1. IsWellFoundedOn(StrictSubsetOrdering(S), FiniteSubsetsOf(S))
    BY FS_StrictSubsetOrderingWellFounded
  <1>2. U \subseteq FiniteSubsetsOf(S)
    BY FS_Subset DEF FiniteSubsetsOf
  <1>3. PICK T \in U : \A V \in U : ~(<<V, T>> \in StrictSubsetOrdering(S))
    BY <1>1, <1>2, WFMin
  <1> QED BY <1>3 DEF StrictSubsetOrdering

Pick(T) == CHOOSE x \in T : TRUE

Adds(f, sums, S) ==
  sums = [T \in SUBSET S |-> IF T = {} THEN 0 ELSE f[Pick(T)] + sums[T \ {Pick(T)}]]

Table(f, S) == CHOOSE sums : Adds(f, sums, S)

(* A fold over a set is the entry of that set in its table of partial    *)
(* sums.                                                                 *)
LEMMA SumIsTable ==
  ASSUME NEW f, NEW S
  PROVE  SumFunctionOnSet(f, S) = Table(f, S)[S]
  BY DEF SumFunctionOnSet, FoldFunctionOnSet, MapThenFoldSet, Table, Adds, Pick

(* Two tables that add up the same function hold the same sums. A set on *)
(* which they differ, as small as possible, would be its picked element  *)
(* and a smaller set on which they agree.                                *)
LEMMA TablesAgree ==
  ASSUME NEW f, NEW S, IsFiniteSet(S), NEW R \in SUBSET S, NEW sums, Adds(f, sums, S),
         NEW other, Adds(f, other, R)
  PROVE  \A T \in SUBSET R : sums[T] = other[T]
  <1> DEFINE Wrong == {T \in SUBSET R : sums[T] # other[T]}
  <1> SUFFICES ASSUME Wrong # {} PROVE FALSE
    OBVIOUS
  <1>1. IsFiniteSet(R) /\ Wrong \subseteq SUBSET R
    BY FS_Subset
  <1> HIDE DEF Wrong
  <1>2. PICK T \in Wrong : \A V \in Wrong : ~(V \subseteq T /\ V # T)
    BY <1>1, SmallestSubset
  <1> USE DEF Wrong
  <1>3. /\ sums[T] = IF T = {} THEN 0 ELSE f[Pick(T)] + sums[T \ {Pick(T)}]
        /\ other[T] = IF T = {} THEN 0 ELSE f[Pick(T)] + other[T \ {Pick(T)}]
    <2>1. T \in SUBSET R /\ T \in SUBSET S
      OBVIOUS
    <2> QED BY <2>1 DEF Adds
  <1>4. CASE T = {}
    BY <1>3, <1>4
  <1>5. CASE T # {}
    <2>1. Pick(T) \in T
      BY <1>5 DEF Pick
    <2>2. T \ {Pick(T)} \in SUBSET R /\ T \ {Pick(T)} \notin Wrong
      BY <1>2, <2>1
    <2> QED BY <1>3, <1>5, <2>2
  <1> QED BY <1>4, <1>5

(* The table that the fold chooses does add up: every finite set has     *)
(* one.                                                                  *)
LEMMA TableExists ==
  ASSUME NEW f, NEW S, IsFiniteSet(S)
  PROVE  Adds(f, Table(f, S), S)
  <1> DEFINE Wrong == {T \in SUBSET S : ~Adds(f, Table(f, T), T)}
  <1> SUFFICES ASSUME Wrong # {} PROVE FALSE
    OBVIOUS
  <1>1. Wrong \subseteq SUBSET S
    OBVIOUS
  <1> HIDE DEF Wrong
  <1>2. PICK T \in Wrong : \A V \in Wrong : ~(V \subseteq T /\ V # T)
    BY <1>1, SmallestSubset
  <1>3. \A V \in SUBSET T : V # T => IsFiniteSet(V) /\ Adds(f, Table(f, V), V)
    BY <1>2, FS_Subset DEF Wrong
  <1> DEFINE value(V) == Table(f, V)[V]
             sums == [V \in SUBSET T |-> IF V = {} THEN 0 ELSE f[Pick(V)] + value(V \ {Pick(V)})]
  <1>4. \A V \in SUBSET T : V # T => value(V) = sums[V]
    <2> SUFFICES ASSUME NEW V \in SUBSET T, V # T PROVE value(V) = sums[V]
      OBVIOUS
    <2>1. Table(f, V)[V] = IF V = {} THEN 0 ELSE f[Pick(V)] + Table(f, V)[V \ {Pick(V)}]
      <3> HIDE DEF sums
      <3>1. Adds(f, Table(f, V), V)
        BY <1>3
      <3> QED BY <3>1 DEF Adds
    <2>2. CASE V = {}
      BY <2>1, <2>2
    <2>3. CASE V # {}
      <3>1. V \ {Pick(V)} \in SUBSET V /\ V \ {Pick(V)} \in SUBSET T /\ V \ {Pick(V)} # T
        BY DEF Pick
      <3>2. Adds(f, Table(f, V \ {Pick(V)}), V \ {Pick(V)}) /\ IsFiniteSet(V)
        BY <1>3, <3>1
      <3>3. Adds(f, Table(f, V), V)
        BY <1>3
      <3>4. Table(f, V)[V \ {Pick(V)}] = value(V \ {Pick(V)})
        <4> HIDE DEF sums
        <4> QED BY <3>1, <3>2, <3>3, TablesAgree
      <3> QED BY <2>1, <2>3, <3>4
    <2> QED BY <2>2, <2>3
  <1>5. Adds(f, sums, T)
    <2>1. \A V \in SUBSET T : V # {} =>
            V \ {Pick(V)} \in SUBSET T /\ V \ {Pick(V)} # T
      BY DEF Pick
    <2> HIDE DEF value
    <2>2. \A V \in SUBSET T : V # {} => value(V \ {Pick(V)}) = sums[V \ {Pick(V)}]
      BY <1>4, <2>1
    <2> QED BY <2>2 DEF Adds
  <1>6. Adds(f, Table(f, T), T)
    <2> HIDE DEF sums
    <2> QED BY <1>5 DEF Table
  <1> QED BY <1>2, <1>6 DEF Wrong

(* A sum is the value of one element plus the sum over the others.       *)
LEMMA SumUnfold ==
  ASSUME NEW f, NEW S, IsFiniteSet(S)
  PROVE  SumFunctionOnSet(f, S) =
           IF S = {} THEN 0 ELSE f[Pick(S)] + SumFunctionOnSet(f, S \ {Pick(S)})
  <1>1. Adds(f, Table(f, S), S)
    BY TableExists
  <1>2. Table(f, S)[S] = IF S = {} THEN 0 ELSE f[Pick(S)] + Table(f, S)[S \ {Pick(S)}]
    BY <1>1 DEF Adds
  <1>3. S \ {Pick(S)} \in SUBSET S /\ IsFiniteSet(S \ {Pick(S)})
    BY FS_Subset
  <1>4. Adds(f, Table(f, S \ {Pick(S)}), S \ {Pick(S)})
    BY <1>3, TableExists
  <1>5. Table(f, S)[S \ {Pick(S)}] = Table(f, S \ {Pick(S)})[S \ {Pick(S)}]
    <2> DEFINE R == S \ {Pick(S)}
    <2>1. R \in SUBSET S /\ Adds(f, Table(f, R), R)
      BY <1>3, <1>4
    <2> HIDE DEF R
    <2>2. \A T \in SUBSET R : Table(f, S)[T] = Table(f, R)[T]
      BY <1>1, <2>1, TablesAgree
    <2>3. Table(f, S)[R] = Table(f, R)[R]
      BY <2>2
    <2> QED BY <2>3 DEF R
  <1> QED BY <1>2, <1>5, SumIsTable

(* Integers add up to an integer and natural numbers to a natural        *)
(* number.                                                               *)
LEMMA SumInt ==
  ASSUME NEW f, NEW S, IsFiniteSet(S), \A x \in S : f[x] \in Int
  PROVE  /\ SumFunctionOnSet(f, S) \in Int
         /\ (\A x \in S : f[x] \in Nat) => SumFunctionOnSet(f, S) \in Nat
  <1> DEFINE Right(T) == /\ SumFunctionOnSet(f, T) \in Int
                         /\ (\A x \in S : f[x] \in Nat) => SumFunctionOnSet(f, T) \in Nat
             Wrong == {T \in SUBSET S : ~Right(T)}
  <1> SUFFICES ASSUME Wrong # {} PROVE FALSE
    OBVIOUS
  <1>1. Wrong \subseteq SUBSET S
    OBVIOUS
  <1> HIDE DEF Wrong
  <1>2. PICK T \in Wrong : \A V \in Wrong : ~(V \subseteq T /\ V # T)
    BY <1>1, SmallestSubset
  <1>3. T \in SUBSET S /\ IsFiniteSet(T)
    BY <1>2, FS_Subset DEF Wrong
  <1>4. T = {} \/ (Pick(T) \in T /\ T \ {Pick(T)} \in SUBSET S /\ Right(T \ {Pick(T)}))
    <2> HIDE DEF Right
    <2>1. T # {} => Pick(T) \in T
      BY DEF Pick
    <2> QED BY <1>2, <1>3, <2>1 DEF Wrong
  <1>5. Right(T)
    <2>1. SumFunctionOnSet(f, T) =
            IF T = {} THEN 0 ELSE f[Pick(T)] + SumFunctionOnSet(f, T \ {Pick(T)})
      BY <1>3, SumUnfold
    <2>2. CASE T = {}
      BY <2>1, <2>2
    <2>3. CASE T # {}
      <3>1. Pick(T) \in S
        BY <1>3, <1>4, <2>3
      <3> QED BY <1>4, <2>1, <2>3, <3>1
    <2> QED BY <2>2, <2>3
  <1> QED BY <1>2, <1>5 DEF Wrong

(* Any element may be added last.                                          *)
LEMMA SumRemove ==
  ASSUME NEW f, NEW S, IsFiniteSet(S), \A x \in S : f[x] \in Int, NEW e \in S
  PROVE  SumFunctionOnSet(f, S) = f[e] + SumFunctionOnSet(f, S \ {e})
  <1> DEFINE Sum(T) == SumFunctionOnSet(f, T)
             Right(T) == \A x \in T : Sum(T) = f[x] + Sum(T \ {x})
             Wrong == {T \in SUBSET S : ~Right(T)}
  <1> SUFFICES ASSUME Wrong # {} PROVE FALSE
    OBVIOUS
  <1>1. Wrong \subseteq SUBSET S
    OBVIOUS
  <1> HIDE DEF Wrong
  <1>2. PICK T \in Wrong : \A V \in Wrong : ~(V \subseteq T /\ V # T)
    BY <1>1, SmallestSubset
  <1>3. T \in SUBSET S /\ IsFiniteSet(T)
    BY <1>2, FS_Subset DEF Wrong
  <1>4. \A V \in SUBSET T : Sum(V) \in Int /\ (V # T => Right(V))
    <2> TAKE V \in SUBSET T
    <2>1. IsFiniteSet(V) /\ V \in SUBSET S
      BY <1>3, FS_Subset
    <2>2. Sum(V) \in Int
      BY <2>1, SumInt
    <2>3. V # T => Right(V)
      <3> HIDE DEF Right
      <3> QED BY <1>2, <2>1 DEF Wrong
    <2> QED BY <2>2, <2>3
  <1>5. Right(T)
    <2> SUFFICES ASSUME NEW x \in T PROVE Sum(T) = f[x] + Sum(T \ {x})
      OBVIOUS
    <2> DEFINE p == Pick(T)
    <2>1. p \in T
      BY DEF Pick
    <2>2. Sum(T) = f[p] + Sum(T \ {p})
      BY <1>3, SumUnfold
    <2> HIDE DEF p, Sum
    <2>3. CASE x # p
      <3>1. Sum(T \ {p}) = f[x] + Sum((T \ {p}) \ {x})
        BY <1>4, <2>1, <2>3
      <3>2. Sum(T \ {x}) = f[p] + Sum((T \ {x}) \ {p})
        BY <1>4, <2>1, <2>3
      <3>3. Sum((T \ {p}) \ {x}) = Sum((T \ {x}) \ {p})
        <4>1. (T \ {p}) \ {x} = (T \ {x}) \ {p}
          OBVIOUS
        <4> QED BY Zenon, <4>1
      <3>4. Sum((T \ {x}) \ {p}) \in Int
        BY <1>4
      <3>5. f[p] \in Int /\ f[x] \in Int
        BY <1>3, <2>1
      <3> QED BY <2>2, <3>1, <3>2, <3>3, <3>4, <3>5
    <2> QED BY <2>2, <2>3
  <1> QED BY <1>2, <1>5 DEF Wrong

(* Nothing adds up to zero.                                              *)
LEMMA SumEmpty == \A f : SumFunctionOnSet(f, {}) = 0
  BY FS_EmptySet, SumUnfold

(* A table that adds an element of each subset to the rest holds the sums. *)
AddsUp(f, sums, S) ==
  /\ sums[{}] = 0
  /\ \A T \in SUBSET S : T # {} => \E x \in T : sums[T] = f[x] + sums[T \ {x}]

(* Whatever grows by f[x] with every element x, in any order, is the sum *)
(* of f.                                                                 *)
LEMMA SumIs ==
  ASSUME NEW f, NEW S, IsFiniteSet(S), \A x \in S : f[x] \in Int,
         NEW sums, AddsUp(f, sums, S)
  PROVE  SumFunctionOnSet(f, S) = sums[S]
  <1> DEFINE Right(T) == SumFunctionOnSet(f, T) = sums[T]
             Wrong == {T \in SUBSET S : ~Right(T)}
  <1> SUFFICES ASSUME Wrong # {} PROVE FALSE
    OBVIOUS
  <1>1. Wrong \subseteq SUBSET S
    OBVIOUS
  <1> HIDE DEF Wrong
  <1>2. PICK T \in Wrong : \A V \in Wrong : ~(V \subseteq T /\ V # T)
    BY <1>1, SmallestSubset
  <1>3. T \in SUBSET S /\ IsFiniteSet(T)
    BY <1>2, FS_Subset DEF Wrong
  <1>4. CASE T = {}
    BY <1>2, <1>4, SumEmpty DEF Wrong, AddsUp
  <1>5. CASE T # {}
    <2>1. PICK x \in T : sums[T] = f[x] + sums[T \ {x}]
      BY <1>3, <1>5 DEF AddsUp
    <2>2. SumFunctionOnSet(f, T) = f[x] + SumFunctionOnSet(f, T \ {x})
      BY <1>3, SumRemove
    <2>3. Right(T \ {x})
      <3> HIDE DEF Right
      <3> QED BY <1>2, <1>3 DEF Wrong
    <2>4. Right(T)
      BY <2>1, <2>2, <2>3
    <2> QED BY <1>2, <2>4 DEF Wrong
  <1> QED BY <1>4, <1>5

(* Functions that agree on a set have the same sum over it.              *)
LEMMA SumEqual ==
  ASSUME NEW f, NEW g, NEW S, IsFiniteSet(S), \A x \in S : f[x] \in Int /\ f[x] = g[x]
  PROVE  SumFunctionOnSet(f, S) = SumFunctionOnSet(g, S)
  <1> DEFINE sums == [T \in SUBSET S |-> SumFunctionOnSet(g, T)]
  <1>1. sums[{}] = 0
    BY SumEmpty
  <1>2. \A T \in SUBSET S : T # {} => \E x \in T : sums[T] = f[x] + sums[T \ {x}]
    <2> SUFFICES ASSUME NEW T \in SUBSET S, T # {}
                 PROVE  \E x \in T : sums[T] = f[x] + sums[T \ {x}]
      OBVIOUS
    <2>1. PICK x \in T : TRUE
      OBVIOUS
    <2>2. IsFiniteSet(T)
      BY FS_Subset
    <2>3. SumFunctionOnSet(g, T) = g[x] + SumFunctionOnSet(g, T \ {x})
      BY <2>2, SumRemove
    <2> QED BY <2>3
  <1>3. SumFunctionOnSet(g, S) = sums[S]
    OBVIOUS
  <1> HIDE DEF sums
  <1>4. AddsUp(f, sums, S)
    BY <1>1, <1>2 DEF AddsUp
  <1>5. \A x \in S : f[x] \in Int
    OBVIOUS
  <1>6. SumFunctionOnSet(f, S) = sums[S]
    BY <1>4, <1>5, SumIs
  <1> QED BY <1>3, <1>6

(* The sum over two sets that share nothing is the sum of their sums.    *)
LEMMA SumUnion ==
  ASSUME NEW f, NEW S, NEW R, IsFiniteSet(S), IsFiniteSet(R), S \cap R = {},
         \A x \in S \cup R : f[x] \in Int
  PROVE  SumFunctionOnSet(f, S \cup R) = SumFunctionOnSet(f, S) + SumFunctionOnSet(f, R)
  <1> DEFINE Sum(T) == SumFunctionOnSet(f, T)
             sums == [T \in SUBSET R |-> Sum(S \cup T) - Sum(S)]
  <1>1. \A T \in SUBSET R : IsFiniteSet(S \cup T) /\ Sum(S \cup T) \in Int /\ Sum(T) \in Int
    <2> TAKE T \in SUBSET R
    <2>1. IsFiniteSet(T) /\ IsFiniteSet(S \cup T)
      BY FS_Subset, FS_Union
    <2> QED BY <2>1, SumInt
  <1>2. Sum(S) \in Int
    BY SumInt
  <1>3. sums[{}] = 0
    <2>1. S \cup {} = S
      OBVIOUS
    <2> HIDE DEF Sum
    <2> QED BY <1>2, <2>1
  <1>4. \A T \in SUBSET R : T # {} => \E x \in T : sums[T] = f[x] + sums[T \ {x}]
    <2> SUFFICES ASSUME NEW T \in SUBSET R, T # {}
                 PROVE  \E x \in T : sums[T] = f[x] + sums[T \ {x}]
      OBVIOUS
    <2>1. PICK x \in T : TRUE
      OBVIOUS
    <2>2. Sum(S \cup T) = f[x] + Sum((S \cup T) \ {x})
      <3> DEFINE all == S \cup T
      <3>1. x \in all /\ \A y \in all : f[y] \in Int
        OBVIOUS
      <3>2. IsFiniteSet(all)
        BY <1>1
      <3> HIDE DEF all
      <3>3. Sum(all) = f[x] + Sum(all \ {x})
        BY <3>1, <3>2, SumRemove
      <3> QED BY <3>3 DEF all
    <2>3. Sum((S \cup T) \ {x}) = Sum(S \cup (T \ {x}))
      <3>1. (S \cup T) \ {x} = S \cup (T \ {x})
        OBVIOUS
      <3> QED BY Zenon, <3>1
    <2>4. T \ {x} \in SUBSET R /\ f[x] \in Int
      OBVIOUS
    <2>5. sums[T] = Sum(S \cup T) - Sum(S) /\ sums[T \ {x}] = Sum(S \cup (T \ {x})) - Sum(S)
      BY Zenon, <2>4
    <2>6. Sum(S \cup (T \ {x})) \in Int
      BY <1>1, <2>4
    <2> HIDE DEF Sum, sums
    <2>7. sums[T] = f[x] + sums[T \ {x}]
      BY <1>2, <2>2, <2>3, <2>4, <2>5, <2>6
    <2> QED BY <2>7
  <1>5. sums[R] = Sum(S \cup R) - Sum(S)
    BY Zenon
  <1>6. Sum(R) = sums[R]
    <2> HIDE DEF sums
    <2>1. AddsUp(f, sums, R)
      BY <1>3, <1>4 DEF AddsUp
    <2>2. \A x \in R : f[x] \in Int
      OBVIOUS
    <2> QED BY <2>1, <2>2, SumIs
  <1> HIDE DEF sums, Sum
  <1>7. Sum(S \cup R) \in Int
    BY <1>1
  <1>8. Sum(S \cup R) = Sum(S) + Sum(R)
    BY <1>2, <1>5, <1>6, <1>7
  <1> QED BY <1>8 DEF Sum

(* A function takes finitely many values on a finite set.                *)
LEMMA FiniteImage ==
  ASSUME NEW h, NEW S, IsFiniteSet(S)
  PROVE  \A T \in SUBSET S : IsFiniteSet({h[x] : x \in T})
  <1> TAKE T \in SUBSET S
  <1> DEFINE image == {h[x] : x \in T}
             onto == [x \in T |-> h[x]]
  <1>1. IsFiniteSet(T)
    BY FS_Subset
  <1>2. onto \in Surjection(T, image)
    BY DEF Surjection
  <1> HIDE DEF onto, image
  <1>3. IsFiniteSet(image)
    BY <1>1, <1>2, FS_Surjection
  <1> QED BY <1>3 DEF image

(* The sum over the elements that h takes S to.                            *)
LEMMA SumReindex ==
  ASSUME NEW f, NEW g, NEW h, NEW S, IsFiniteSet(S),
         \A x \in S : f[x] \in Int /\ f[x] = g[h[x]],
         \A x, y \in S : h[x] = h[y] => x = y
  PROVE  SumFunctionOnSet(f, S) = SumFunctionOnSet(g, {h[x] : x \in S})
  <1> DEFINE sums == [T \in SUBSET S |-> SumFunctionOnSet(g, {h[x] : x \in T})]
  <1>1. sums[{}] = 0
    <2>1. {h[x] : x \in {}} = {}
      OBVIOUS
    <2> QED BY <2>1, SumEmpty
  <1>2. \A T \in SUBSET S : T # {} => \E x \in T : sums[T] = f[x] + sums[T \ {x}]
    <2> SUFFICES ASSUME NEW T \in SUBSET S, T # {}
                 PROVE  \E x \in T : sums[T] = f[x] + sums[T \ {x}]
      OBVIOUS
    <2>1. PICK x \in T : TRUE
      OBVIOUS
    <2> DEFINE R == {h[y] : y \in T}
    <2>2. IsFiniteSet(T) /\ IsFiniteSet(R)
      BY FS_Subset, FiniteImage
    <2>3. h[x] \in R /\ \A y \in R : g[y] \in Int
      OBVIOUS
    <2>4. R \ {h[x]} = {h[y] : y \in T \ {x}}
      OBVIOUS
    <2> HIDE DEF R
    <2>5. SumFunctionOnSet(g, R) = g[h[x]] + SumFunctionOnSet(g, R \ {h[x]})
      BY <2>2, <2>3, SumRemove
    <2> QED BY <2>4, <2>5 DEF R
  <1>3. SumFunctionOnSet(g, {h[x] : x \in S}) = sums[S]
    OBVIOUS
  <1> HIDE DEF sums
  <1>4. AddsUp(f, sums, S)
    BY <1>1, <1>2 DEF AddsUp
  <1>5. \A x \in S : f[x] \in Int
    OBVIOUS
  <1>6. SumFunctionOnSet(f, S) = sums[S]
    BY <1>4, <1>5, SumIs
  <1> QED BY <1>3, <1>6

(* The elements of A counted by what k says of them.                       *)
LEMMA SumCounts ==
  ASSUME NEW f, NEW k, NEW A, IsFiniteSet(A), NEW S, IsFiniteSet(S),
         \A y \in S : f[y] = Cardinality({a \in A : k[a] = y})
  PROVE  SumFunctionOnSet(f, S) = Cardinality({a \in A : k[a] \in S})
  <1> DEFINE fibre(y) == {a \in A : k[a] = y}
             over(T) == {a \in A : k[a] \in T}
             sums == [T \in SUBSET S |-> Cardinality(over(T))]
  <1>1. ASSUME NEW y PROVE IsFiniteSet(fibre(y)) /\ Cardinality(fibre(y)) \in Nat
    <2>1. fibre(y) \subseteq A
      OBVIOUS
    <2> QED BY <2>1, FS_Subset, FS_CardinalityType
  <1>2. sums[{}] = 0
    <2>1. over({}) = {}
      OBVIOUS
    <2> QED BY <2>1, FS_EmptySet
  <1>3. \A T \in SUBSET S : T # {} => \E y \in T : sums[T] = f[y] + sums[T \ {y}]
    <2> SUFFICES ASSUME NEW T \in SUBSET S, T # {}
                 PROVE  \E y \in T : sums[T] = f[y] + sums[T \ {y}]
      OBVIOUS
    <2>1. PICK y \in T : TRUE
      OBVIOUS
    <2>2. over(T) = fibre(y) \cup over(T \ {y}) /\ fibre(y) \cap over(T \ {y}) = {}
      OBVIOUS
    <2>3. IsFiniteSet(over(T \ {y})) /\ Cardinality(over(T \ {y})) \in Nat
      <3>1. over(T \ {y}) \subseteq A
        OBVIOUS
      <3> QED BY <3>1, FS_Subset, FS_CardinalityType
    <2>4. Cardinality(fibre(y) \cap over(T \ {y})) = 0
      BY <2>2, FS_EmptySet
    <2> HIDE DEF fibre, over
    <2>5. Cardinality(over(T)) = Cardinality(fibre(y)) + Cardinality(over(T \ {y}))
      <3>1. IsFiniteSet(fibre(y)) /\ Cardinality(fibre(y)) \in Nat
        BY <1>1
      <3>2. Cardinality(fibre(y) \cup over(T \ {y})) =
              Cardinality(fibre(y)) + Cardinality(over(T \ {y}))
                - Cardinality(fibre(y) \cap over(T \ {y}))
        BY <2>3, <3>1, FS_Union
      <3>3. Cardinality(over(T)) = Cardinality(fibre(y) \cup over(T \ {y}))
        BY Zenon, <2>2
      <3> QED BY <2>3, <2>4, <3>1, <3>2, <3>3
    <2>6. f[y] = Cardinality(fibre(y))
      BY DEF fibre
    <2> QED BY <2>5, <2>6
  <1>4. sums[S] = Cardinality(over(S))
    OBVIOUS
  <1>5. \A y \in S : f[y] \in Int
    <2>1. \A y \in S : f[y] = Cardinality(fibre(y)) /\ Cardinality(fibre(y)) \in Nat
      BY Zenon, <1>1
    <2> HIDE DEF fibre
    <2> QED BY <2>1
  <1> HIDE DEF sums
  <1>6. AddsUp(f, sums, S)
    BY <1>2, <1>3 DEF AddsUp
  <1>7. SumFunctionOnSet(f, S) = sums[S]
    BY <1>5, <1>6, SumIs
  <1> QED BY <1>4, <1>7

(* Of naturals, each is no more than the sum, and of a subset no more.     *)
LEMMA SumBounds ==
  ASSUME NEW f, NEW S, IsFiniteSet(S), \A x \in S : f[x] \in Nat, NEW R \in SUBSET S
  PROVE  /\ SumFunctionOnSet(f, R) \in Nat /\ SumFunctionOnSet(f, S) \in Nat
         /\ SumFunctionOnSet(f, R) <= SumFunctionOnSet(f, S)
  <1>1. IsFiniteSet(R) /\ IsFiniteSet(S \ R)
    BY FS_Subset
  <1>2. SumFunctionOnSet(f, R) \in Nat /\ SumFunctionOnSet(f, S) \in Nat
    BY <1>1, SumInt
  <1>3. SumFunctionOnSet(f, S \ R) \in Nat
    BY <1>1, SumInt
  <1>4. R \cup (S \ R) = S /\ R \cap (S \ R) = {}
    OBVIOUS
  <1>5. SumFunctionOnSet(f, S) = SumFunctionOnSet(f, R) + SumFunctionOnSet(f, S \ R)
    BY <1>1, <1>4, SumUnion
  <1> QED BY <1>2, <1>3, <1>5

(* A finite set of integers that is not empty has a greatest.              *)
Has(T) == \E m \in T : \A x \in T : m >= x

(* A finite set of integers that is not empty has a greatest element.    *)
LEMMA HasGreatest ==
  ASSUME NEW S, IsFiniteSet(S), \A x \in S : x \in Int
  PROVE  \A T \in SUBSET S : T # {} => Has(T)
  <1> DEFINE Wrong == {T \in SUBSET S : T # {} /\ ~Has(T)}
  <1> SUFFICES ASSUME Wrong # {} PROVE FALSE
    OBVIOUS
  <1>1. Wrong \subseteq SUBSET S
    OBVIOUS
  <1> HIDE DEF Wrong
  <1>2. PICK T \in Wrong : \A V \in Wrong : ~(V \subseteq T /\ V # T)
    BY <1>1, SmallestSubset
  <1>3. T \in SUBSET S /\ T # {} /\ ~Has(T)
    BY <1>2 DEF Wrong
  <1>4. PICK e \in T : TRUE
    BY <1>3
  <1>5. CASE T = {e}
    <2>1. Has(T)
      BY <1>3, <1>5 DEF Has
    <2> QED BY <1>3, <2>1
  <1>6. CASE T # {e}
    <2>1. T \ {e} \in SUBSET S /\ T \ {e} # {} /\ T \ {e} # T /\ T \ {e} \subseteq T
      BY <1>3, <1>6
    <2>2. Has(T \ {e})
      BY <1>2, <2>1 DEF Wrong
    <2>3. PICK m \in T \ {e} : \A x \in T \ {e} : m >= x
      BY <2>2 DEF Has
    <2>4. m \in Int /\ e \in Int /\ \A x \in T : x \in Int
      BY <1>3
    <2>5. Has(T)
      <3>1. CASE m >= e
        BY <2>3, <2>4, <3>1 DEF Has
      <3>2. CASE e >= m
        BY <2>3, <2>4, <3>2 DEF Has
      <3> QED BY <2>4, <3>1, <3>2
    <2> QED BY <1>3, <2>5
  <1> QED BY <1>5, <1>6

(* Max picks an element that no other exceeds.                           *)
LEMMA MaxOf ==
  ASSUME NEW S, IsFiniteSet(S), \A x \in S : x \in Int, S # {}
  PROVE  Max(S) \in S /\ \A x \in S : Max(S) >= x
  <1>1. Has(S)
    BY HasGreatest
  <1> QED BY <1>1 DEF Has, Max

(* The half of a date that is its day of the year.                         *)
LEMMA MonthDays ==
  ASSUME NEW date, IsDate(date)
  PROVE  /\ YearOf(date) \in Nat /\ MonthDay(date) \in 101..1231
         /\ date = YearOf(date) * 10000 + MonthDay(date)
         /\ MonthDay(date) \notin 230..300
         /\ MonthDay(date) = 229 => Leap(YearOf(date))
  <1> DEFINE y == YearOf(date)
             m == MonthOf(date)
             k == date % 100
  <1>1. /\ y \in Nat /\ m \in 1..12 /\ k \in 1..31
        /\ k <= Days(y, m) /\ date = DateAt(y, m, k)
    BY DateOfParts
  <1>2. m = 2 => k <= 29 /\ (k = 29 => Leap(y))
    BY <1>1 DEF Days
  <1> HIDE DEF y, m, k
  <1>3. MonthDay(date) = m * 100 + k
    <2>1. y \in Nat /\ m \in 0..99 /\ k \in 0..99
      BY <1>1
    <2>2. (y * 10000 + m * 100 + k) % 10000 = m * 100 + k
      BY <2>1
    <2> QED BY <1>1, <2>2 DEF MonthDay, DateAt
  <1> QED BY <1>1, <1>2, <1>3 DEF DateAt, y

(* The same day n years on.                                                *)
SameDay(y, md, n) == (y + n) * 10000 + (IF md = 229 /\ ~Leap(y + n) THEN 301 ELSE md)

(* addYears moves a date on by whole years and keeps its month and day.  *)
LEMMA YearsOn ==
  ASSUME NEW date, IsDate(date), NEW n \in Int
  PROVE  addYears(date, n) = SameDay(YearOf(date), MonthDay(date), n)
  <1> DEFINE y == YearOf(date)
             md == MonthDay(date)
             d == date + 10000 * n
  <1>1. y \in Nat /\ md \in 101..1231 /\ date = y * 10000 + md
    BY MonthDays
  <1> HIDE DEF y, md
  <1>2. d = (y + n) * 10000 + md
    BY <1>1
  <1>3. d % 10000 = md /\ d \div 10000 = y + n
    BY <1>1, <1>2
  <1> HIDE DEF d
  <1>4. addYears(date, n) = SameDay(y, md, n)
    BY <1>2, <1>3 DEF addYears, YearOf, d, SameDay
  <1> QED BY <1>4 DEF y, md

(* The numbers from 1 to n are finitely many.                            *)
LEMMA FiniteTo == \A n \in Nat : IsFiniteSet(1..n)
  BY FS_Interval

(* What was used is what the file has of a year, and nothing if it has no  *)
(* column of it.                                                           *)
UsedOf(a, s) == IF s \in DOMAIN NightsFile[a] THEN NightsFile[a][s].nightsUsed ELSE 0

(* The nights the report finds used in a year are those the usage file   *)
(* holds.                                                                *)
LEMMA UsedIsFiled ==
  ASSUME NEW a \in Agreements, NEW s
  PROVE  usedBySeq(a, s).nightsUsed = UsedOf(a, s) /\ UsedOf(a, s) \in Nat
  <1>1. NightsFile[a] \in Seq(Usage)
    BY UsageAssumption
  <1>2. s \in DOMAIN NightsFile[a] => NightsFile[a][s].nightsUsed \in Nat
    <2>1. s \in DOMAIN NightsFile[a] => NightsFile[a][s] \in Usage
      BY <1>1
    <2> QED BY <2>1 DEF Usage
  <1>3. usedBySeq(a, s) =
          IF s \in DOMAIN NightsFile[a] THEN NightsFile[a][s] ELSE Unused
    BY DEF usedBySeq, bookingEntitlement
  <1>4. Unused.nightsUsed = 0
    BY DEF Unused
  <1> QED BY <1>2, <1>3, <1>4 DEF UsedOf

(* The nights owed of a year.                                              *)
OwedOf(a, s) == AtLeastZero(7 - UsedOf(a, s))

(* What is owed over some years is the sum of what is owed in each of    *)
(* them.                                                                 *)
LEMMA OwedIsSum ==
  ASSUME NEW a \in Agreements, NEW years, IsFiniteSet(years), NEW R \in SUBSET years
  PROVE  Owed(a, R) = SumFunctionOnSet([s \in years |-> OwedOf(a, s)], R)
  <1> DEFINE f == [s \in R |-> IF UsedOf(a, s) < 7 THEN 7 - UsedOf(a, s) ELSE 0]
             g == [s \in years |-> OwedOf(a, s)]
  <1>1. Owed(a, R) = SumFunctionOnSet(f, R)
    BY DEF Owed, UsedOf, SumFunction
  <1>2. \A s \in R : f[s] \in Int /\ f[s] = g[s]
    <2> TAKE s \in R
    <2>1. UsedOf(a, s) \in Nat
      BY UsedIsFiled
    <2>2. f[s] = (IF UsedOf(a, s) < 7 THEN 7 - UsedOf(a, s) ELSE 0) /\ g[s] = OwedOf(a, s)
      OBVIOUS
    <2> HIDE DEF f, g
    <2> QED BY <2>1, <2>2 DEF OwedOf, AtLeastZero
  <1>3. IsFiniteSet(R)
    BY FS_Subset
  <1> HIDE DEF f, g
  <1>4. SumFunctionOnSet(f, R) = SumFunctionOnSet(g, R)
    BY <1>2, <1>3, SumEqual
  <1> QED BY <1>1, <1>4 DEF g

(* The card of a full term.  n counts the anniversaries behind us.         *)
LEMMA NightsOnCard ==
  ASSUME IsDate(today), NEW a \in Agreements, NEW full,
         full = addYears(Agmt[a].agreementDate, Agmt[a].termYears),
         Agmt[a].endDate \in {None, full},
         MonthDay(full) = MonthDay(Agmt[a].agreementDate),
         ~LeapDayBefore(full), Agmt[a].coCode \in {"03", "15"},
         EntitlementBalance(a) # None
  PROVE  NightsAccounted(a, EntitlementBalance(a))
  <1> DEFINE card == EntitlementBalance(a)
             date == Agmt[a].agreementDate
             last == Agmt[a].termYears
             md == MonthDay(date)
             y0 == YearOf(date)
             ty == YearOf(today)
             tmd == MonthDay(today)
             n == accrueIdx(a)
  <1>1. /\ y0 \in Nat /\ md \in 101..1231 /\ date = y0 * 10000 + md
        /\ md \notin 230..300
    BY DatesAssumption, MonthDays
  <1>2. /\ ty \in Nat /\ tmd \in 101..1231 /\ today = ty * 10000 + tmd
        /\ tmd \notin 230..300 /\ (tmd = 229 => Leap(ty))
    BY MonthDays
  <1>3. last \in Nat
    BY AgreementsAssumption DEF AgmtRow
  <1>4. full = (y0 + last) * 10000 + md /\ (md = 229 => Leap(y0 + last))
    <2>1. full = addYears(date, last) /\ full % 10000 = md
      BY DEF MonthDay
    <2>2. addYears(date, last) =
            (y0 + last) * 10000 + (IF md = 229 /\ ~Leap(y0 + last) THEN 301 ELSE md)
      <3>1. addYears(date, last) = SameDay(y0, md, last)
        BY <1>3, DatesAssumption, YearsOn
      <3> QED BY <3>1 DEF SameDay
    <2> HIDE DEF y0, last, md, date
    <2>3. CASE md = 229 /\ ~Leap(y0 + last)
      <3>1. full = (y0 + last) * 10000 + 301
        BY <2>1, <2>2, <2>3
      <3>2. full % 10000 = 301
        BY <1>1, <1>3, <3>1
      <3> QED BY <2>1, <2>3, <3>2
    <2> QED BY <2>1, <2>2, <2>3
  <1>5. computeExpiry(a) = full
    BY DEF computeExpiry
  <1>6. n = IF tmd >= md THEN ty - y0 ELSE ty - y0 - 1
    <2>1. Passed(a) <=> tmd >= md
      BY <1>5 DEF Passed
    <2> QED BY <1>1, <1>2, <2>1 DEF accrueIdx
  <1>7. n \in Int
    BY <1>1, <1>2, <1>6
  <1> DEFINE col(i) == EntitlementColumn(a, i)
             seq(i) == n + i - 1
             ended(i) == i > 1 /\ full <= addYears(today, i - 2)
             lost == {s \in 1..last : s <= n - 1}
  <1>8. /\ card.columns = [i \in 1..7 |-> col(i)]
        /\ card.forfeitedNights = SumFunction([s \in lost |-> OwedOf(a, s)])
    BY UsedIsFiled DEF EntitlementBalance, OwedOf
  <1>9. ASSUME NEW i \in 1..7
        PROVE  /\ card.columns[i] = col(i) /\ col(i).year = y0 + seq(i) - 1
               /\ col(i).nights = IF ended(i) THEN 0 ELSE OwedOf(a, seq(i))
    BY <1>5, <1>8, UsedIsFiled DEF EntitlementColumn, OwedOf
  <1> HIDE DEF card, date, last, md, y0, ty, tmd, n, col
  <1>10. ASSUME NEW i \in 1..7, i > 1
         PROVE  ended(i) <=> seq(i) > last
    <2> DEFINE j == i - 2
    <2>1. j \in 0..5
      BY <1>10
    <2>2. addYears(today, j) =
            (ty + j) * 10000 + (IF tmd = 229 /\ ~Leap(ty + j) THEN 301 ELSE tmd)
      <3> HIDE DEF j
      <3>1. j \in Int
        BY <2>1
      <3>2. addYears(today, j) = SameDay(ty, tmd, j)
        BY <3>1, YearsOn DEF ty, tmd
      <3> QED BY <3>2 DEF SameDay
    <2> HIDE DEF j
    <2>3. seq(i) = n + j + 1
      BY <1>7, <1>10 DEF j
    <2>4. ended(i) <=> full <= addYears(today, j)
      BY <1>10 DEF j
    <2>5. CASE tmd = 229 /\ ~Leap(ty + j)
      <3>1. addYears(today, j) = (ty + j) * 10000 + 301
        BY <2>2, <2>5
      <3>2. j # 0
        BY <1>2, <2>5
      <3>3. md = 301 => addYears(today, j) # full
        <4> SUFFICES ASSUME md = 301, addYears(today, j) = full PROVE FALSE
          OBVIOUS
        <4>1. MonthDay(full) = 301 /\ MonthDay(today) = 229 /\ j \in 1..5
          BY <2>1, <2>5, <3>2 DEF md, tmd, date
        <4> QED BY <4>1 DEF LeapDayBefore
      <3> QED BY <1>1, <1>2, <1>3, <1>4, <1>6, <2>1, <2>3, <2>4, <2>5, <3>1, <3>3
    <2>6. CASE ~(tmd = 229 /\ ~Leap(ty + j))
      <3>1. addYears(today, j) = (ty + j) * 10000 + tmd
        BY <2>2, <2>6
      <3> QED BY <1>1, <1>2, <1>3, <1>4, <1>6, <2>1, <2>3, <2>4, <3>1
    <2> QED BY <2>5, <2>6
  <1> DEFINE seqOf(i) == card.columns[i].year - y0 + 1
             shown == {i \in 1..7 : seqOf(i) \in 1..last}
  <1>11. \A i \in 1..7 : seqOf(i) = seq(i)
    BY <1>1, <1>7, <1>9
  <1> HIDE DEF ended, seqOf
  <1>12. \A i \in shown : card.columns[i].nights = OwedOf(a, seq(i))
    <2> TAKE i \in shown
    <2>1. i \in 1..7 /\ seq(i) \in 1..last
      BY <1>11
    <2>2. ~ended(i)
      <3>1. CASE i > 1
        BY <1>3, <1>10, <2>1, <3>1
      <3>2. CASE ~(i > 1)
        BY <3>2 DEF ended
      <3> QED BY <3>1, <3>2
    <2> QED BY <1>9, <2>1, <2>2
  <1>13. \A i \in 2..7 : seqOf(i) > last => card.columns[i].nights = 0
    <2> TAKE i \in 2..7
    <2>1. i \in 1..7 /\ i > 1
      OBVIOUS
    <2> QED BY <1>9, <1>10, <1>11, <2>1
  <1>14. addYears(date, seqOf(2) - 1) <= today /\ today < addYears(date, seqOf(2))
    <2>1. seqOf(2) = n + 1
      BY <1>7, <1>11
    <2>2. /\ addYears(date, n) = (y0 + n) * 10000 + (IF md = 229 /\ ~Leap(y0 + n) THEN 301 ELSE md)
          /\ addYears(date, n + 1) =
               (y0 + (n + 1)) * 10000 + (IF md = 229 /\ ~Leap(y0 + (n + 1)) THEN 301 ELSE md)
      <3>1. \A k \in Int : addYears(date, k) =
              (y0 + k) * 10000 + (IF md = 229 /\ ~Leap(y0 + k) THEN 301 ELSE md)
        <4>1. IsDate(date)
          BY DatesAssumption DEF date
        <4>2. \A k \in Int : addYears(date, k) = SameDay(y0, md, k)
          BY <4>1, YearsOn DEF y0, md
        <4> QED BY <4>2 DEF SameDay
      <3> QED BY <1>7, <3>1
    <2>3. n + 1 - 1 = n
      BY <1>7
    <2>4. addYears(date, n) <= today
      <3>1. CASE tmd >= md
        <4>1. n = ty - y0 /\ y0 + n = ty
          BY <1>1, <1>2, <1>6, <3>1
        <4> QED BY <1>1, <1>2, <2>2, <3>1, <4>1
      <3>2. CASE ~(tmd >= md)
        <4>1. y0 + n = ty - 1
          BY <1>1, <1>2, <1>6, <3>2
        <4> QED BY <1>1, <1>2, <2>2, <4>1
      <3> QED BY <3>1, <3>2
    <2>5. today < addYears(date, n + 1)
      <3>1. CASE tmd >= md
        <4>1. y0 + (n + 1) = ty + 1
          BY <1>1, <1>2, <1>6, <3>1
        <4> QED BY <1>1, <1>2, <2>2, <4>1
      <3>2. CASE ~(tmd >= md)
        <4>1. y0 + (n + 1) = ty
          BY <1>1, <1>2, <1>6, <3>2
        <4> QED BY <1>1, <1>2, <2>2, <3>2, <4>1
      <3> QED BY <3>1, <3>2
    <2>6. addYears(date, seqOf(2) - 1) = addYears(date, n)
      <3>1. seqOf(2) - 1 = n
        BY <1>7, <2>1
      <3> QED BY Zenon, <3>1
    <2>7. addYears(date, seqOf(2)) = addYears(date, n + 1)
      BY <2>1
    <2> QED BY Zenon, <2>4, <2>5, <2>6, <2>7
  <1> DEFINE years == 1..last
             owed == [s \in years |-> OwedOf(a, s)]
             Sum(R) == SumFunctionOnSet(owed, R)
             visible == {s \in years : s >= n /\ s <= n + 6}
             later == {s \in years : s > seqOf(7)}
  <1>15. IsFiniteSet(years) /\ \A R \in SUBSET years : IsFiniteSet(R)
    <2>1. 1 \in Int /\ last \in Int
      BY <1>3
    <2>2. IsFiniteSet(years)
      BY <2>1, FS_Interval
    <2> HIDE DEF years
    <2> QED BY <2>2, FS_Subset
  <1>16. \A s \in years : OwedOf(a, s) \in Int /\ owed[s] = OwedOf(a, s)
    <2> TAKE s \in years
    <2>1. UsedOf(a, s) \in Nat
      BY UsedIsFiled
    <2> QED BY <2>1 DEF OwedOf, AtLeastZero
  <1>17. \A R \in SUBSET years : Owed(a, R) = Sum(R)
    BY <1>15, OwedIsSum
  <1>18. SumFunction([s \in lost |-> OwedOf(a, s)]) = Sum(lost)
    <2> DEFINE f == [s \in lost |-> OwedOf(a, s)]
    <2>1. SumFunction(f) = SumFunctionOnSet(f, lost)
      BY DEF SumFunction
    <2>2. lost \in SUBSET years
      OBVIOUS
    <2>3. \A s \in lost : f[s] \in Int /\ f[s] = owed[s]
      BY <1>16
    <2> HIDE DEF f, owed, lost
    <2>4. SumFunctionOnSet(f, lost) = SumFunctionOnSet(owed, lost)
      BY <1>15, <2>2, <2>3, SumEqual
    <2> QED BY <2>1, <2>4 DEF f
  <1>19. SumFunction([i \in shown |-> card.columns[i].nights]) = Sum(visible)
    <2> DEFINE f == [i \in shown |-> card.columns[i].nights]
               h == [i \in shown |-> seq(i)]
    <2>1. SumFunction(f) = SumFunctionOnSet(f, shown)
      BY DEF SumFunction
    <2>2. IsFiniteSet(shown)
      <3>1. IsFiniteSet(1..7)
        BY FiniteTo
      <3>2. shown \subseteq 1..7
        OBVIOUS
      <3> HIDE DEF shown
      <3> QED BY <3>1, <3>2, FS_Subset
    <2>3. \A i \in shown : f[i] \in Int /\ f[i] = owed[h[i]]
      BY <1>11, <1>12, <1>16
    <2>4. \A i, k \in shown : h[i] = h[k] => i = k
      BY <1>7
    <2>5. {h[i] : i \in shown} = visible
      <3>1. \A i \in shown : h[i] \in visible
        BY <1>3, <1>7, <1>11
      <3>2. \A s \in visible : s - n + 1 \in shown /\ h[s - n + 1] = s
        BY <1>3, <1>7, <1>11
      <3> HIDE DEF h, shown, visible
      <3> QED BY <3>1, <3>2
    <2> HIDE DEF f, h, owed, shown, visible
    <2>6. SumFunctionOnSet(f, shown) = SumFunctionOnSet(owed, {h[i] : i \in shown})
      BY <2>2, <2>3, <2>4, SumReindex
    <2> QED BY <2>1, <2>5, <2>6 DEF f
  <1>20. \A i \in shown : card.columns[i].nights = Owed(a, {seqOf(i)})
    <2> TAKE i \in shown
    <2> DEFINE s == seq(i)
    <2>1. s \in years /\ seqOf(i) = s /\ {s} \in SUBSET years
      BY <1>11
    <2> HIDE DEF s, owed, years
    <2>2. \A x \in {s} : owed[x] \in Int
      BY <1>16, <2>1
    <2>3. IsFiniteSet({s}) /\ {s} \ {s} = {}
      BY FS_Singleton
    <2>4. Sum({s}) = owed[s] + Sum({s} \ {s})
      BY <2>2, <2>3, SumRemove
    <2>5. Sum({s} \ {s}) = 0
      BY <2>3, SumEmpty
    <2>6. Sum({s}) = OwedOf(a, s)
      BY <1>16, <2>1, <2>4, <2>5
    <2> QED BY <1>12, <1>17, <2>1, <2>6 DEF s
  <1>21. Sum(lost) + Sum(visible) + Sum(later) = Sum(years)
    <2>1. seqOf(7) = n + 6
      BY <1>7, <1>11
    <2>2. /\ lost \in SUBSET years /\ visible \in SUBSET years /\ later \in SUBSET years
          /\ lost \cap visible = {} /\ (lost \cup visible) \cap later = {}
          /\ (lost \cup visible) \cup later = years
      BY <1>7, <2>1
    <2>3. \A s \in years : owed[s] \in Int
      BY <1>16
    <2> HIDE DEF lost, visible, later, owed, years
    <2>4. Sum(lost \cup visible) = Sum(lost) + Sum(visible)
      <3>1. \A s \in lost \cup visible : owed[s] \in Int
        BY <2>2, <2>3
      <3> QED BY <1>15, <2>2, <3>1, SumUnion
    <2>5. Sum((lost \cup visible) \cup later) = Sum(lost \cup visible) + Sum(later)
      <3> DEFINE both == lost \cup visible
      <3>1. both \in SUBSET years /\ both \cap later = {} /\ \A s \in both \cup later : owed[s] \in Int
        BY <2>2, <2>3
      <3> HIDE DEF both
      <3>2. Sum(both \cup later) = Sum(both) + Sum(later)
        BY <1>15, <2>2, <3>1, SumUnion
      <3> QED BY <3>2 DEF both
    <2>6. Sum((lost \cup visible) \cup later) = Sum(years)
      BY Zenon, <2>2
    <2> QED BY <2>4, <2>5, <2>6
  <1>22. later \in SUBSET years /\ years \in SUBSET years
    OBVIOUS
  <1>23. /\ \A i \in shown : card.columns[i].nights = Owed(a, {seqOf(i)})
         /\ \A i \in 2..7 : seqOf(i) > last => card.columns[i].nights = 0
         /\ card.forfeitedNights + SumFunction([i \in shown |-> card.columns[i].nights])
              + Owed(a, later) = Owed(a, years)
         /\ addYears(date, seqOf(2) - 1) <= today /\ today < addYears(date, seqOf(2))
    <2>1. Owed(a, later) = Sum(later) /\ Owed(a, years) = Sum(years)
      BY <1>17, <1>22
    <2>2. card.forfeitedNights = Sum(lost)
      BY <1>8, <1>18
    <2> HIDE DEF Sum, lost, later, visible, shown
    <2> QED BY <1>13, <1>14, <1>19, <1>20, <1>21, <2>1, <2>2
  <1> QED BY <1>23 DEF NightsAccounted, TermYears, seqOf, card, date, last, y0

(* The points of a card.                                                   *)
LEMMA PointsOnCard ==
  ASSUME NEW a \in Agreements, today \in Nat, cpEntitlementBalance(a) # None
  PROVE  PointsAccounted(a, cpEntitlementBalance(a))
  <1> DEFINE card == cpEntitlementBalance(a)
             rows == PointsFile[a]
             begun == {r \in rows : r.useYear <= today}
             yearsBegun == {YearOf(r.useYear) : r \in begun}
             refYear == Max(yearsBegun)
             byYear(y) == {r \in rows : YearOf(r.useYear) = y}
             ref == CHOOSE r \in byYear(refYear) : TRUE
             prior == CHOOSE r \in byYear(refYear - 1) : TRUE
             accrued == IF byYear(refYear - 1) = {} THEN None
                        ELSE Min({prior.balPts, ref.totalPts \div 2 - prior.acrusePts})
             carried == IF accrued = None THEN 0 ELSE accrued
             older == {r \in rows : YearOf(r.useYear) <= refYear - 1}
             recent == {r \in rows : YearOf(r.useYear) >= refYear}
             bal == [r \in rows |-> r.balPts]
             Sum(R) == SumFunctionOnSet(bal, R)
             Balances(R) == SumFunction([r \in R |-> r.balPts])
  <1>1. IsFiniteSet(rows) /\ rows \subseteq Points
    BY UsageAssumption DEF cpBookingEntitlement
  <1>2. \A r \in rows : /\ r.useYear \in Nat /\ YearOf(r.useYear) \in Int /\ r.balPts \in Nat
                        /\ r.totalPts \in Nat /\ r.acrusePts \in Nat
    <2> TAKE r \in rows
    <2>1. /\ r.useYear \in Nat /\ r.balPts \in Nat
          /\ r.totalPts \in Nat /\ r.acrusePts \in Nat
      BY <1>1 DEF Points
    <2> QED BY <2>1 DEF YearOf
  <1>3. /\ begun # {} /\ card.columns[2].year = refYear + 2 - 2
        /\ card.columns[1].bal = accrued
        /\ card.forfeitedPts = AtLeastZero(SumFunction([r \in older |-> r.balPts]) - carried)
    <2> DEFINE lookup(y) == IF byYear(y) = {} THEN None
                            ELSE (CHOOSE r \in byYear(y) : TRUE).balPts
               columns == [i \in 1..7 |-> [year |-> refYear + i - 2,
                             bal |-> IF i = 1 THEN accrued ELSE lookup(refYear + i - 2)]]
               lost == AtLeastZero(SumFunction([r \in older |-> r.balPts]) - carried)
    <2>1. card = IF Agmt[a].coCode # "02" \/ acct[a].acctClassify = "TM" \/ begun = {} THEN None
                 ELSE [columns |-> columns, forfeitedPts |-> lost]
      BY DEF cpEntitlementBalance, cpBookingEntitlement
    <2>2. columns[2].year = refYear + 2 - 2 /\ columns[1].bal = accrued
      <3> HIDE DEF refYear, accrued, lookup
      <3> QED OBVIOUS
    <2> HIDE DEF columns, lost, begun
    <2>3. begun # {} /\ card = [columns |-> columns, forfeitedPts |-> lost]
      BY <2>1
    <2>4. card.columns = columns /\ card.forfeitedPts = lost
      BY <2>3
    <2> QED BY <2>2, <2>3, <2>4 DEF lost
  <1> HIDE DEF card
  <1>4. refYear \in yearsBegun /\ \A y \in yearsBegun : refYear >= y
    <2>1. IsFiniteSet(yearsBegun)
      <3> DEFINE h == [r \in rows |-> YearOf(r.useYear)]
      <3>1. yearsBegun = {h[r] : r \in begun}
        OBVIOUS
      <3>2. begun \in SUBSET rows
        OBVIOUS
      <3> HIDE DEF h, begun, rows
      <3> QED BY <1>1, <3>1, <3>2, FiniteImage
    <2>2. yearsBegun # {} /\ \A y \in yearsBegun : y \in Int
      BY <1>2, <1>3
    <2> HIDE DEF yearsBegun
    <2> QED BY <2>1, <2>2, MaxOf
  <1> HIDE DEF refYear
  <1>5. refYear \in Int /\ byYear(refYear) # {}
    BY <1>2, <1>4
  <1>6. \A R \in SUBSET rows : IsFiniteSet(R) /\ Balances(R) = Sum(R) /\ Sum(R) \in Nat
    <2> TAKE R \in SUBSET rows
    <2> DEFINE f == [r \in R |-> r.balPts]
    <2>1. IsFiniteSet(R)
      BY <1>1, FS_Subset
    <2>2. \A r \in R : f[r] \in Int /\ f[r] = bal[r] /\ bal[r] \in Nat
      BY <1>2
    <2>3. Balances(R) = SumFunctionOnSet(f, R)
      BY DEF SumFunction
    <2> HIDE DEF f, bal
    <2>4. SumFunctionOnSet(f, R) = Sum(R)
      BY <2>1, <2>2, SumEqual
    <2>5. Sum(R) \in Nat
      BY <2>1, <2>2, SumInt
    <2> QED BY <2>1, <2>3, <2>4, <2>5
  <1>7. /\ older \in SUBSET rows /\ recent \in SUBSET rows
        /\ older \cap recent = {} /\ older \cup recent = rows
    BY <1>2, <1>5
  <1>8. \A r \in rows : bal[r] \in Int /\ bal[r] = r.balPts
    BY <1>2
  <1>9. Sum(rows) = Sum(older) + Sum(recent)
    <2>1. \A r \in older \cup recent : bal[r] \in Int
      BY <1>7, <1>8
    <2>2. IsFiniteSet(older) /\ IsFiniteSet(recent)
      BY <1>6, <1>7
    <2> HIDE DEF older, recent, bal, rows
    <2>3. Sum(older \cup recent) = Sum(older) + Sum(recent)
      BY <1>7, <2>1, <2>2, SumUnion
    <2>4. Sum(older \cup recent) = Sum(rows)
      BY Zenon, <1>7
    <2> QED BY <2>3, <2>4
  <1>10. carried \in Int /\ carried <= Sum(older)
    <2>1. Sum(older) \in Nat
      BY <1>6, <1>7
    <2>2. CASE accrued = None
      BY <2>1, <2>2
    <2>3. CASE accrued # None
      <3>1. byYear(refYear - 1) # {}
        BY <2>3
      <3>2. prior \in byYear(refYear - 1) /\ ref \in byYear(refYear)
        BY <1>5, <3>1
      <3>3. prior \in rows /\ ref \in rows /\ prior \in older
        BY <1>5, <3>2
      <3> DEFINE x == prior.balPts
                 y == ref.totalPts \div 2 - prior.acrusePts
      <3>4. x \in Nat /\ y \in Int
        BY <1>2, <3>3
      <3>5. Min({x, y}) \in Int /\ Min({x, y}) <= x
        <4> HIDE DEF x, y
        <4>1. \E m \in {x, y} : \A k \in {x, y} : m <= k
          BY <3>4
        <4>2. Min({x, y}) \in {x, y} /\ \A k \in {x, y} : Min({x, y}) <= k
          BY <4>1 DEF Min
        <4> QED BY <3>4, <4>2
      <3>6. x <= Sum(older)
        <4> DEFINE p == prior
        <4>1. IsFiniteSet(older) /\ \A r \in older : bal[r] \in Nat
          BY <1>2, <1>6, <1>7
        <4>2. bal[p] = x /\ p \in older /\ older \ {p} \in SUBSET rows
          BY <1>7, <1>8, <3>3
        <4> HIDE DEF p, bal, older, x, rows
        <4>3. Sum(older) = bal[p] + Sum(older \ {p})
          BY <4>1, <4>2, SumRemove
        <4>4. Sum(older \ {p}) \in Nat
          BY <1>6, <4>2
        <4> QED BY <2>1, <3>4, <4>2, <4>3, <4>4
      <3>7. carried = Min({x, y})
        BY <2>3, <3>1
      <3> HIDE DEF x, y, carried, accrued, older
      <3> QED BY <2>1, <3>4, <3>5, <3>6, <3>7
    <2> QED BY <2>2, <2>3
  <1>11. card.forfeitedPts + carried + Balances(recent) = Balances(rows)
    <2>1. card.forfeitedPts = AtLeastZero(Balances(older) - carried)
      BY <1>3
    <2>2. Balances(older) = Sum(older) /\ Balances(recent) = Sum(recent) /\ Balances(rows) = Sum(rows)
      BY <1>6, <1>7
    <2>3. Sum(older) \in Nat /\ Sum(recent) \in Nat
      BY <1>6, <1>7
    <2> HIDE DEF Balances, Sum, carried, older, recent, rows
    <2> QED BY <1>9, <1>10, <2>1, <2>2, <2>3 DEF AtLeastZero
  <1>12. card.columns[2].year = refYear
    BY <1>3, <1>5
  <1>13. \A r \in rows : r.useYear <= today => YearOf(r.useYear) <= refYear
    BY <1>2, <1>4
  <1>14. carried = IF card.columns[1].bal = None THEN 0 ELSE card.columns[1].bal
    BY <1>3
  <1>15. recent = {r \in PointsFile[a] : YearOf(r.useYear) >= card.columns[2].year}
    BY <1>12
  <1> HIDE DEF carried, recent
  <1> QED BY <1>11, <1>12, <1>13, <1>14, <1>15 DEF PointsAccounted, card

(* What is on the page is the card of the day.                             *)
CardInv ==
  /\ EntitlementInv
  /\ page # None =>
       desk = "card" /\ \E a \in Agreements : page = [agmt |-> a, card |-> Card(a)]

(* A card built from the rows of the day accounts for all of its nights  *)
(* or points.                                                            *)
LEMMA CardsAreAccounted == CardInv => EntitlementAccounted
  <1> SUFFICES ASSUME CardInv, page # None, page.card # None
               PROVE  LET a == page.agmt
                          full == addYears(Agmt[a].agreementDate, Agmt[a].termYears)
                      IN IF Agmt[a].coCode = "02" THEN PointsAccounted(a, page.card)
                         ELSE /\ Agmt[a].endDate \in {None, full}
                              /\ MonthDay(full) = MonthDay(Agmt[a].agreementDate)
                              /\ ~LeapDayBefore(full)
                              => NightsAccounted(a, page.card)
    BY DEF EntitlementAccounted
  <1> DEFINE a == page.agmt
             full == addYears(Agmt[a].agreementDate, Agmt[a].termYears)
  <1>1. /\ a \in Agreements /\ IsDate(today) /\ today \in Nat
        /\ page.card = Card(a) /\ Card(a) # None
    <2>1. PICK b \in Agreements : page = [agmt |-> b, card |-> Card(b)]
      BY DEF CardInv
    <2>2. a = b /\ page.card = Card(b)
      BY <2>1
    <2> QED BY <2>2 DEF CardInv, EntitlementInv, IsDate
  <1> HIDE DEF a
  <1>2. CASE Agmt[a].coCode = "02"
    <2>1. Card(a) = cpEntitlementBalance(a)
      BY <1>2 DEF Card
    <2>2. PointsAccounted(a, Card(a))
      BY <1>1, <2>1, PointsOnCard
    <2> QED BY <1>1, <1>2, <2>2 DEF a
  <1>3. CASE Agmt[a].coCode # "02"
    <2>1. Agmt[a].coCode \in {"03", "15"} /\ Card(a) = EntitlementBalance(a)
      BY <1>1, <1>3 DEF Card
    <2>2. ASSUME Agmt[a].endDate \in {None, full},
                 MonthDay(full) = MonthDay(Agmt[a].agreementDate), ~LeapDayBefore(full)
          PROVE  NightsAccounted(a, Card(a))
      BY <1>1, <2>1, <2>2, NightsOnCard
    <2> QED BY <1>1, <1>3, <2>2 DEF a
  <1> QED BY <1>2, <1>3

(* A card shows what it did as long as status and day are the same.        *)
LEMMA SameCard ==
  ASSUME acct' = acct, today' = today, NEW a
  PROVE  Card(a)' = Card(a)
  <1>1. \A b : accrueIdx(b)' = accrueIdx(b)
    BY DEF accrueIdx, Passed
  <1>2. \A b, i : EntitlementColumn(b, i)' = EntitlementColumn(b, i)
    BY <1>1 DEF EntitlementColumn
  <1>3. EntitlementBalance(a)' = EntitlementBalance(a)
    BY <1>1, <1>2 DEF EntitlementBalance
  <1>4. cpEntitlementBalance(a)' = cpEntitlementBalance(a)
    BY DEF cpEntitlementBalance
  <1> QED BY <1>3, <1>4 DEF Card

(* At first no agreement is open.                                        *)
LEMMA CardStart == Init => CardInv
  BY EntitlementStart DEF Init, EntitlementInit, CardInv

(* A page that is open shows the card of the day, and the next day       *)
(* closes it.                                                            *)
LEMMA CardStep ==
  ASSUME CardInv, [Next]_vars, EntitlementInv'
  PROVE  CardInv'
  <1> SUFFICES ASSUME page' # None
               PROVE  /\ desk' = "card"
                      /\ \E a \in Agreements : page' = [agmt |-> a, card |-> Card(a)']
    BY DEF CardInv
  <1>1. CASE desk = "card" /\ EntitlementNext /\ UNCHANGED <<reportVars, desk>>
    <2>1. PICK a \in Agreements : OpenAgreement(a)
      BY <1>1 DEF EntitlementNext, NextDay
    <2>2. page' = [agmt |-> a, card |-> Card(a)] /\ acct' = acct /\ today' = today
      BY <1>1, <2>1 DEF OpenAgreement, reportVars
    <2>3. Card(a)' = Card(a)
      BY <2>2, SameCard
    <2> QED BY <1>1, <2>2, <2>3
  <1>2. CASE UNCHANGED <<cardVars, desk>> /\ (acct' = acct \/ desk = "reports")
    <2>1. page' = page /\ page # None /\ today' = today /\ desk' = desk
      BY <1>2 DEF cardVars
    <2>2. PICK a \in Agreements : page = [agmt |-> a, card |-> Card(a)]
      BY <2>1 DEF CardInv
    <2>3. desk = "card" /\ acct' = acct
      BY <1>2, <2>1 DEF CardInv
    <2>4. Card(a)' = Card(a)
      BY <2>1, <2>3, SameCard
    <2> QED BY <2>1, <2>2, <2>3, <2>4
  <1>3. \/ desk = "card" /\ EntitlementNext /\ UNCHANGED <<reportVars, desk>>
        \/ UNCHANGED <<cardVars, desk>> /\ (acct' = acct \/ desk = "reports")
    BY DEF Next, vars, reportVars
  <1> QED BY <1>1, <1>2, <1>3

(***************************************************************************)
(* Rows in order.                                                          *)
(***************************************************************************)
(* A place for every element of a finite set that has a key: each element  *)
(* is on one, and none is before one with a smaller key.                   *)
Keyed(S, key) == IsFiniteSet(S) /\ \A a \in S : a \in Int /\ key[a] \in Int

(* SortedBy lists every element of a finite set once, by the value of    *)
(* its key.                                                              *)
LEMMA RowsInOrder ==
  ASSUME NEW S, NEW key, Keyed(S, key)
  PROVE  LET sorted == SortedBy(S, key)
             n == Cardinality(S)
         IN /\ n \in Nat /\ DOMAIN sorted = 1..n
            /\ sorted \in Seq(S) /\ Len(sorted) = n
            /\ \A i \in 1..n : sorted[i] \in S
            /\ \A a \in S : \E i \in 1..n : sorted[i] = a
            /\ \A i, j \in 1..n : sorted[i] = sorted[j] => i = j
            /\ \A i, j \in 1..n : i <= j => key[sorted[i]] <= key[sorted[j]]
  <1> DEFINE sorted == SortedBy(S, key)
             n == Cardinality(S)
             before(a) == {b \in S : Before(key, b, a)}
             rank == [a \in S |-> Cardinality(before(a))]
             places == {rank[a] : a \in S}
  <1>1. IsFiniteSet(S) /\ n \in Nat /\ \A a \in S : a \in Int /\ key[a] \in Int
    BY FS_CardinalityType DEF Keyed
  <1>2. \A a \in S : /\ before(a) \subseteq S /\ IsFiniteSet(before(a))
                     /\ Cardinality(before(a)) \in Nat /\ a \notin before(a)
    <2> TAKE a \in S
    <2>1. before(a) \subseteq S
      OBVIOUS
    <2>2. IsFiniteSet(before(a)) /\ Cardinality(before(a)) \in Nat
      BY <1>1, <2>1, FS_Subset, FS_CardinalityType
    <2>3. a \notin before(a)
      BY <1>1 DEF Before
    <2> QED BY <2>1, <2>2, <2>3
  <1>14. \A a \in S : rank[a] \in Nat
    BY <1>2
  <1>3. \A a, b \in S : Before(key, a, b) => rank[a] < rank[b]
    <2> SUFFICES ASSUME NEW a \in S, NEW b \in S, Before(key, a, b) PROVE rank[a] < rank[b]
      OBVIOUS
    <2>1. before(a) \subseteq before(b) /\ a \in before(b) /\ a \notin before(a)
      BY <1>1 DEF Before
    <2>2. before(a) # before(b) /\ IsFiniteSet(before(b))
      BY <1>2, <2>1
    <2> DEFINE x == before(a)
               y == before(b)
    <2> HIDE DEF x, y
    <2>3. x \subseteq y /\ x # y /\ IsFiniteSet(y)
      BY <2>1, <2>2 DEF x, y
    <2>4. Cardinality(x) <= Cardinality(y) /\ Cardinality(x) # Cardinality(y)
      BY <2>3, FS_Subset
    <2>5. rank[a] = Cardinality(x) /\ rank[b] = Cardinality(y)
      BY DEF x, y
    <2>6. rank[a] \in Nat /\ rank[b] \in Nat
      BY <1>14
    <2> HIDE DEF rank
    <2> QED BY <2>4, <2>5, <2>6
  <1>4. \A a, b \in S : a # b => Before(key, a, b) \/ Before(key, b, a)
    BY <1>1 DEF Before
  <1>5. \A a, b \in S : rank[a] = rank[b] => a = b
    <2> HIDE DEF rank
    <2> SUFFICES ASSUME NEW a \in S, NEW b \in S, rank[a] = rank[b], a # b PROVE FALSE
      OBVIOUS
    <2>1. rank[a] < rank[b] \/ rank[b] < rank[a]
      BY <1>3, <1>4
    <2> QED BY <1>14, <2>1
  <1>6. \A a \in S : rank[a] < n
    <2> TAKE a \in S
    <2> DEFINE x == before(a)
    <2>1. x \subseteq S /\ x # S
      BY <1>2
    <2>2. rank[a] = Cardinality(x)
      OBVIOUS
    <2> HIDE DEF x
    <2>3. Cardinality(x) <= Cardinality(S) /\ Cardinality(x) # Cardinality(S)
      BY <1>1, <2>1, FS_Subset
    <2> QED BY <1>1, <1>2, <2>2, <2>3
  <1>7. places = 0..(n - 1)
    <2> DEFINE all == 0..(n - 1)
    <2>1. places \subseteq all
      <3> HIDE DEF rank, n
      <3> QED BY <1>1, <1>14, <1>6
    <2>2. IsFiniteSet(all) /\ Cardinality(all) = n
      <3>1. 0 \in Int /\ n - 1 \in Int
        BY <1>1
      <3>2. IsFiniteSet(all) /\ Cardinality(all) = IF 0 > n - 1 THEN 0 ELSE n - 1 - 0 + 1
        BY <3>1, FS_Interval
      <3> QED BY <1>1, <3>2
    <2>3. Cardinality(places) = n
      <3> DEFINE into == [a \in S |-> rank[a]]
      <3>1. into \in Bijection(S, places)
        <4> HIDE DEF rank
        <4> QED BY <1>5 DEF Bijection, Injection, Surjection, IsInjective
      <3> HIDE DEF into, places
      <3>2. \E f : f \in Bijection(S, places)
        BY <3>1
      <3>3. IsFiniteSet(places) /\ Cardinality(S) = Cardinality(places)
        BY <1>1, <3>1, FS_Bijection DEF ExistsBijection
      <3> QED BY <3>3
    <2> HIDE DEF places, all
    <2>4. places = all
      BY <2>1, <2>2, <2>3, FS_Subset
    <2> QED BY <2>4 DEF all
  <1>8. DOMAIN sorted = 1..n
    BY DEF SortedBy
  <1>9. \A i \in 1..n : sorted[i] \in S /\ rank[sorted[i]] = i - 1
    <2> TAKE i \in 1..n
    <2>1. i - 1 \in 0..(n - 1)
      BY <1>1
    <2>2. \E a \in S : rank[a] = i - 1
      <3> HIDE DEF rank
      <3> QED BY <1>7, <2>1
    <2>3. sorted[i] = CHOOSE a \in S : rank[a] = i - 1
      BY DEF SortedBy
    <2> HIDE DEF sorted, rank
    <2> QED BY <2>2, <2>3
  <1> HIDE DEF sorted, rank, places, n
  <1>10. \A a \in S : rank[a] + 1 \in 1..n /\ sorted[rank[a] + 1] = a
    <2> TAKE a \in S
    <2>1. rank[a] + 1 \in 1..n
      BY <1>1, <1>14, <1>6
    <2> DEFINE i == rank[a] + 1
    <2>2. sorted[i] \in S /\ rank[sorted[i]] = i - 1
      BY <1>9, <2>1
    <2>3. i - 1 = rank[a]
      BY <1>14
    <2> QED BY <1>5, <2>1, <2>2, <2>3
  <1>11. \A i, j \in 1..n : sorted[i] = sorted[j] => i = j
    BY <1>9
  <1>12. \A i, j \in 1..n : i <= j => key[sorted[i]] <= key[sorted[j]]
    <2> SUFFICES ASSUME NEW i \in 1..n, NEW j \in 1..n, i <= j
                 PROVE  key[sorted[i]] <= key[sorted[j]]
      OBVIOUS
    <2> DEFINE a == sorted[i]
               b == sorted[j]
    <2>1. a \in S /\ b \in S /\ rank[a] = i - 1 /\ rank[b] = j - 1
      BY <1>9
    <2>2. ~Before(key, b, a)
      BY <1>3, <2>1
    <2> QED BY <1>1, <2>1, <2>2 DEF Before
  <1>13. sorted \in Seq(S) /\ Len(sorted) = n
    <2>1. sorted \in [1..n -> S]
      BY <1>8, <1>9 DEF sorted, SortedBy, n
    <2> QED BY <1>1, <2>1
  <1> QED BY <1>1, <1>8, <1>9, <1>10, <1>11, <1>12, <1>13 DEF sorted, n

(* A set is no larger than one it can be mapped into one to one, and of    *)
(* one size with one it is mapped onto.                                    *)
LEMMA MapsInto ==
  ASSUME NEW S, NEW R, IsFiniteSet(R), NEW h, \A x \in S : h[x] \in R,
         \A x, y \in S : h[x] = h[y] => x = y
  PROVE  /\ IsFiniteSet(S) /\ Cardinality(S) <= Cardinality(R)
         /\ (\A y \in R : \E x \in S : h[x] = y) => Cardinality(S) = Cardinality(R)
  <1> DEFINE f == [x \in S |-> h[x]]
  <1>1. f \in Injection(S, R)
    BY DEF Injection, IsInjective
  <1>2. IsFiniteSet(S) /\ Cardinality(S) <= Cardinality(R)
    <2> HIDE DEF f
    <2> QED BY <1>1, FS_Injection
  <1>3. ASSUME \A y \in R : \E x \in S : h[x] = y PROVE Cardinality(S) = Cardinality(R)
    <2>1. f \in Bijection(S, R)
      BY <1>1, <1>3 DEF Bijection, Injection, IsInjective, Surjection
    <2> HIDE DEF f
    <2> QED BY <1>2, <2>1, FS_Bijection DEF ExistsBijection
  <1> QED BY <1>2, <1>3

(* Two sets with nothing in common, and four.                              *)
LEMMA CountTwo ==
  ASSUME NEW S, NEW R, IsFiniteSet(S), IsFiniteSet(R), S \cap R = {}
  PROVE  /\ IsFiniteSet(S \cup R)
         /\ Cardinality(S) \in Nat /\ Cardinality(R) \in Nat
         /\ Cardinality(S \cup R) = Cardinality(S) + Cardinality(R)
  <1>1. Cardinality(S \cap R) = 0
    BY FS_EmptySet
  <1>2. Cardinality(S) \in Nat /\ Cardinality(R) \in Nat
    BY FS_CardinalityType
  <1>3. /\ IsFiniteSet(S \cup R)
        /\ Cardinality(S \cup R) = Cardinality(S) + Cardinality(R) - Cardinality(S \cap R)
    BY FS_Union
  <1> QED BY <1>1, <1>2, <1>3

(***************************************************************************)
(* Companies, statuses and years of expiry.                                *)
(***************************************************************************)
LHC == OfCompany("LHC")
CP == OfCompany("CP")
Reported == LHC \cup CP
Years(A) == {ExpiryYear(a) : a \in A}

(* Those of A that end in one of the years.                                *)
Ending(A, years) == {a \in A : ExpiryYear(a) \in years}

(* LHC holds the agreements of companies 03 and 15, CP those of 02: no   *)
(* agreement is in both.                                                 *)
LEMMA CompaniesApart ==
  /\ LHC = {a \in Agreements : Agmt[a].coCode \in {"03", "15"}}
  /\ CP = {a \in Agreements : Agmt[a].coCode = "02"}
  /\ LHC \cap CP = {} /\ Reported \subseteq Agreements
  /\ Reported = {a \in Agreements : Agmt[a].coCode \in CoCodes}
  /\ \A company : OfCompany(company) \subseteq Agreements
  BY DEF LHC, CP, Reported, OfCompany, CoCodes

(* No company chosen means all of them.                                  *)
LEMMA AllCompanies == OfCompany("") = Agreements
  BY DEF OfCompany

(* An agreement has one status, so that the status groups share none and *)
(* make up the live ones.                                                *)
LEMMA StatusesApart ==
  ASSUME ReportInv
  PROVE  /\ \A s : With(s) \subseteq Agreements
         /\ With({"NA"}) \cap With({"SU", "PT"}) = {} /\ With({"SU"}) \cap With({"PT"}) = {}
         /\ With({"SU"}) \cup With({"PT"}) = With({"SU", "PT"})
         /\ With({"NA"}) \cup With({"SU", "PT"}) = Live
         /\ With({"NA"}) \subseteq Live /\ With({"SU", "PT"}) \subseteq Live
         /\ Live = Agreements \ With({"TM"})
         /\ With(Statuses) = Agreements
  <1>1. \A a \in Agreements : acct[a].acctClassify \in Statuses
    BY DEF ReportInv, ReportTypeOK, AcctRow
  <1> QED BY <1>1 DEF With, Live, Statuses

(* The year of an expiry is the year of its date.                          *)
LEMMA ExpiryDates ==
  ASSUME NEW a \in Agreements
  PROVE  /\ computeExpiry(a) \in Int /\ ExpiryYear(a) \in Int
         /\ YearOf(computeExpiry(a)) = ExpiryYear(a)
  <1> DEFINE date == Agmt[a].agreementDate
             last == Agmt[a].termYears
  <1>1. IsDate(date) /\ last \in Nat /\ (Agmt[a].endDate # None => Agmt[a].endDate \in Nat)
    BY AgreementsAssumption, DatesAssumption DEF AgmtRow
  <1>2. CASE Agmt[a].endDate # None
    BY <1>1, <1>2 DEF computeExpiry, ExpiryYear, YearOf
  <1>3. CASE Agmt[a].endDate = None
    <2> DEFINE y == YearOf(date)
               md == MonthDay(date)
               expiry == addYears(date, last)
    <2>1. y \in Nat /\ md \in 101..1231
      BY <1>1, MonthDays
    <2>2. expiry = SameDay(y, md, last)
      BY <1>1, YearsOn
    <2>3. computeExpiry(a) = expiry /\ ExpiryYear(a) = y + last
      BY <1>3 DEF computeExpiry, ExpiryYear
    <2> HIDE DEF y, md, last, expiry
    <2>4. expiry = (y + last) * 10000 + (IF md = 229 /\ ~Leap(y + last) THEN 301 ELSE md)
      BY <2>2 DEF SameDay
    <2>5. PICK k \in 101..1231 : expiry = (y + last) * 10000 + k
      BY <2>1, <2>4
    <2> DEFINE m == y + last
    <2>6. m \in Int /\ expiry = m * 10000 + k
      BY <1>1, <2>1, <2>5 DEF last
    <2> HIDE DEF m
    <2>7. expiry \in Int /\ expiry \div 10000 = m
      BY <2>6
    <2> QED BY <2>3, <2>6, <2>7 DEF YearOf, m
  <1> QED BY <1>2, <1>3

(* The agreements ending in some years are finitely many, and every      *)
(* agreement ends in one of its years.                                   *)
LEMMA EndingIsFinite ==
  ASSUME NEW A \in SUBSET Agreements, NEW years
  PROVE  /\ IsFiniteSet(A) /\ IsFiniteSet(Ending(A, years))
         /\ Ending(A, years) \subseteq Agreements
         /\ Cardinality(Ending(A, years)) \in Nat
         /\ IsFiniteSet(Years(A)) /\ Ending(A, Years(A)) = A
  <1>1. IsFiniteSet(A)
    BY AgreementsAssumption, FS_Subset
  <1>2. Ending(A, years) \subseteq A
    BY DEF Ending
  <1>3. IsFiniteSet(Ending(A, years))
    BY <1>1, <1>2, FS_Subset
  <1>4. IsFiniteSet(Years(A))
    <2> DEFINE h == [a \in Agreements |-> ExpiryYear(a)]
    <2>1. Years(A) = {h[a] : a \in A} /\ IsFiniteSet(Agreements)
      BY AgreementsAssumption DEF Years
    <2> HIDE DEF h
    <2> QED BY <2>1, FiniteImage
  <1>5. Ending(A, Years(A)) = A
    BY DEF Ending, Years
  <1> QED BY <1>1, <1>2, <1>3, <1>4, <1>5, FS_CardinalityType

(* Two parts with nothing in common are counted together.                  *)
LEMMA EndingParts ==
  ASSUME NEW A \in SUBSET Agreements, NEW B \in SUBSET Agreements, A \cap B = {}, NEW years
  PROVE  Cardinality(Ending(A \cup B, years)) =
           Cardinality(Ending(A, years)) + Cardinality(Ending(B, years))
  <1>1. /\ Ending(A \cup B, years) = Ending(A, years) \cup Ending(B, years)
        /\ Ending(A, years) \cap Ending(B, years) = {}
    BY DEF Ending
  <1>2. IsFiniteSet(Ending(A, years)) /\ IsFiniteSet(Ending(B, years))
    BY EndingIsFinite
  <1>3. Cardinality(Ending(A, years) \cup Ending(B, years)) =
           Cardinality(Ending(A, years)) + Cardinality(Ending(B, years))
    BY <1>1, <1>2, CountTwo
  <1> QED BY Zenon, <1>1, <1>3

(* A sum over the years counts those that end in them.                     *)
LEMMA EndingSum ==
  ASSUME NEW A \in SUBSET Agreements, NEW years, IsFiniteSet(years), NEW f,
         DOMAIN f = years, \A y \in years : f[y] = Cardinality(Ending(A, {y}))
  PROVE  SumFunction(f) = Cardinality(Ending(A, years))
  <1> DEFINE k == [a \in Agreements |-> ExpiryYear(a)]
  <1>1. \A Y : {a \in A : k[a] \in Y} = Ending(A, Y)
    BY DEF Ending
  <1>2. \A y : {a \in A : k[a] = y} = Ending(A, {y})
    BY DEF Ending
  <1>3. IsFiniteSet(A)
    BY EndingIsFinite
  <1>4. SumFunction(f) = SumFunctionOnSet(f, years)
    BY DEF SumFunction
  <1> HIDE DEF k
  <1>5. \A y \in years : f[y] = Cardinality({a \in A : k[a] = y})
    BY Zenon, <1>2
  <1>6. SumFunctionOnSet(f, years) = Cardinality({a \in A : k[a] \in years})
    BY <1>3, <1>5, SumCounts
  <1> QED BY Zenon, <1>1, <1>4, <1>6

(***************************************************************************)
(* The management report and the summary.                                  *)
(***************************************************************************)
LEMMA ExpiryRows ==
  LET rows == ExpiryReport.rows
      N(A, statuses, years) == Cardinality(Ending(A \cap With(statuses), years))
  IN /\ DOMAIN rows = Years(Live)
     /\ \A y \in Years(Live) :
          /\ rows[y].lhcNa = N(LHC, {"NA"}, {y}) /\ rows[y].lhcNonNa = N(LHC, {"SU", "PT"}, {y})
          /\ rows[y].cpNa = N(CP, {"NA"}, {y}) /\ rows[y].cpNonNa = N(CP, {"SU", "PT"}, {y})
          /\ rows[y].cumNa = N(Reported, {"NA"}, {z \in Years(Live) : z <= y})
          /\ rows[y].cumNonNa = N(Reported, {"SU", "PT"}, {z \in Years(Live) : z <= y})
     /\ ExpiryReport.total =
          SumFunction([y \in DOMAIN rows |->
            rows[y].lhcNa + rows[y].lhcNonNa + rows[y].cpNa + rows[y].cpNonNa])
  BY DEF ExpiryReport, Total, Ending, Years, LHC, CP, Reported

(* The cells of a summary row count the agreements of that company,      *)
(* status and year.                                                      *)
LEMMA SummaryRows ==
  ASSUME NEW company
  PROVE  LET r == SummaryReport(company)
             agmts == OfCompany(company) \cap Live
             N(statuses, y) == Cardinality(Ending(agmts \cap With(statuses), {y}))
         IN /\ DOMAIN r.rows = Years(agmts)
            /\ \A y \in Years(agmts) :
                 /\ r.rows[y].naRa = N({"NA"}, y)
                 /\ r.rows[y].suLe3 =
                      Cardinality(Ending({a \in agmts \cap With({"SU"}) : UpToThree(a)}, {y}))
                 /\ r.rows[y].suGt3 =
                      Cardinality(Ending({a \in agmts \cap With({"SU"}) : ~UpToThree(a)}, {y}))
                 /\ r.rows[y].ptLe3 =
                      Cardinality(Ending({a \in agmts \cap With({"PT"}) : UpToThree(a)}, {y}))
                 /\ r.rows[y].ptGt3 =
                      Cardinality(Ending({a \in agmts \cap With({"PT"}) : ~UpToThree(a)}, {y}))
  BY DEF SummaryReport, Ending, Years

(* The counts of a company with some of the statuses.                      *)
Count(A, statuses, years) == Cardinality(Ending(A \cap With(statuses), years))

(* Live agreements are the active ones (NA) and those in SU or PT, for   *)
(* any years they end in.                                                *)
LEMMA CountParts ==
  ASSUME ReportInv, NEW A \in SUBSET Agreements, NEW years
  PROVE  /\ Count(A, {"NA"}, years) \in Nat /\ Count(A, {"SU", "PT"}, years) \in Nat
         /\ Cardinality(Ending(A \cap Live, years)) =
              Count(A, {"NA"}, years) + Count(A, {"SU", "PT"}, years)
  <1> DEFINE B == A \cap With({"NA"})
             C == A \cap With({"SU", "PT"})
  <1>1. B \in SUBSET Agreements /\ C \in SUBSET Agreements /\ B \cap C = {}
    BY StatusesApart
  <1>2. B \cup C = A \cap Live
    BY StatusesApart
  <1> HIDE DEF B, C
  <1>3. Cardinality(Ending(B \cup C, years)) =
          Cardinality(Ending(B, years)) + Cardinality(Ending(C, years))
    BY <1>1, EndingParts
  <1>4. Cardinality(Ending(B, years)) \in Nat /\ Cardinality(Ending(C, years)) \in Nat
    BY <1>1, EndingIsFinite
  <1>5. Cardinality(Ending(B \cup C, years)) = Cardinality(Ending(A \cap Live, years))
    BY Zenon, <1>2
  <1> QED BY <1>3, <1>4, <1>5 DEF B, C, Count

(* Both companies together.                                                *)
LEMMA CountReported ==
  ASSUME NEW statuses, NEW years
  PROVE  /\ Count(LHC, statuses, years) \in Nat /\ Count(CP, statuses, years) \in Nat
         /\ Count(Reported, statuses, years) = Count(LHC, statuses, years) + Count(CP, statuses, years)
  <1> DEFINE B == LHC \cap With(statuses)
             C == CP \cap With(statuses)
  <1>1. B \in SUBSET Agreements /\ C \in SUBSET Agreements /\ B \cap C = {}
    BY CompaniesApart DEF With
  <1>2. B \cup C = Reported \cap With(statuses)
    BY DEF Reported
  <1> HIDE DEF B, C
  <1>3. Cardinality(Ending(B \cup C, years)) =
          Cardinality(Ending(B, years)) + Cardinality(Ending(C, years))
    BY <1>1, EndingParts
  <1>4. Cardinality(Ending(B, years)) \in Nat /\ Cardinality(Ending(C, years)) \in Nat
    BY <1>1, EndingIsFinite
  <1>5. Cardinality(Ending(B \cup C, years)) = Count(Reported, statuses, years)
    BY Zenon, <1>2 DEF Count
  <1> QED BY <1>3, <1>4, <1>5 DEF B, C, Count

(* The years of a status in two halves, of two statuses in four.           *)
LEMMA CountHalves ==
  ASSUME NEW A \in SUBSET Agreements, NEW statuses, NEW years
  PROVE  Count(A, statuses, years) =
           Cardinality(Ending({a \in A \cap With(statuses) : UpToThree(a)}, years))
           + Cardinality(Ending({a \in A \cap With(statuses) : ~UpToThree(a)}, years))
  <1> DEFINE B == {a \in A \cap With(statuses) : UpToThree(a)}
             C == {a \in A \cap With(statuses) : ~UpToThree(a)}
  <1>1. B \in SUBSET Agreements /\ C \in SUBSET Agreements /\ B \cap C = {}
    OBVIOUS
  <1>2. B \cup C = A \cap With(statuses)
    OBVIOUS
  <1> HIDE DEF B, C
  <1>3. Cardinality(Ending(B \cup C, years)) =
          Cardinality(Ending(B, years)) + Cardinality(Ending(C, years))
    BY <1>1, EndingParts
  <1>4. Cardinality(Ending(B \cup C, years)) = Count(A, statuses, years)
    BY Zenon, <1>2 DEF Count
  <1> QED BY <1>3, <1>4 DEF B, C

(* The agreements in SU or PT are spread over four cells, by status and  *)
(* by the years they have been in it.                                    *)
LEMMA CountFour ==
  ASSUME ReportInv, NEW A \in SUBSET Agreements, NEW years
  PROVE  LET N(s, some(_)) == Cardinality(Ending({a \in A \cap With({s}) : some(a)}, years))
         IN Count(A, {"SU", "PT"}, years) =
              N("SU", LAMBDA a : UpToThree(a)) + N("SU", LAMBDA a : ~UpToThree(a))
              + N("PT", LAMBDA a : UpToThree(a)) + N("PT", LAMBDA a : ~UpToThree(a))
  <1> DEFINE B == A \cap With({"SU"})
             C == A \cap With({"PT"})
  <1>1. B \in SUBSET Agreements /\ C \in SUBSET Agreements /\ B \cap C = {}
    BY StatusesApart
  <1>2. B \cup C = A \cap With({"SU", "PT"})
    BY StatusesApart
  <1> HIDE DEF B, C
  <1>3. Cardinality(Ending(B \cup C, years)) =
          Cardinality(Ending(B, years)) + Cardinality(Ending(C, years))
    BY <1>1, EndingParts
  <1>4. Cardinality(Ending(B \cup C, years)) = Count(A, {"SU", "PT"}, years)
    BY Zenon, <1>2 DEF Count
  <1> DEFINE P(s) == {a \in A \cap With({s}) : UpToThree(a)}
             Q(s) == {a \in A \cap With({s}) : ~UpToThree(a)}
  <1>5. \A s : Count(A, {s}, years) = Cardinality(Ending(P(s), years)) + Cardinality(Ending(Q(s), years))
    <2> TAKE s
    <2> QED BY CountHalves
  <1>6. \A s : /\ Cardinality(Ending(P(s), years)) \in Nat
               /\ Cardinality(Ending(Q(s), years)) \in Nat
    <2> TAKE s
    <2> DEFINE p == P(s)
               q == Q(s)
    <2>1. p \in SUBSET Agreements /\ q \in SUBSET Agreements
      OBVIOUS
    <2> HIDE DEF p, q
    <2>2. Cardinality(Ending(p, years)) \in Nat /\ Cardinality(Ending(q, years)) \in Nat
      BY <2>1, EndingIsFinite
    <2> QED BY <2>2 DEF p, q
  <1>7. /\ Count(A, {"SU"}, years) = Cardinality(Ending(B, years))
        /\ Count(A, {"PT"}, years) = Cardinality(Ending(C, years))
    BY DEF Count, B, C
  <1> DEFINE p(s) == Cardinality(Ending(P(s), years))
             q(s) == Cardinality(Ending(Q(s), years))
  <1>8. /\ p("SU") \in Nat /\ q("SU") \in Nat /\ p("PT") \in Nat /\ q("PT") \in Nat
        /\ Count(A, {"SU"}, years) = p("SU") + q("SU") /\ Count(A, {"PT"}, years) = p("PT") + q("PT")
    BY <1>5, <1>6
  <1>9. Count(A, {"SU", "PT"}, years) = Count(A, {"SU"}, years) + Count(A, {"PT"}, years)
    BY <1>3, <1>4, <1>7
  <1> HIDE DEF p, q
  <1>10. Count(A, {"SU", "PT"}, years) = p("SU") + q("SU") + p("PT") + q("PT")
    BY <1>8, <1>9
  <1> QED BY <1>10 DEF p, q

(* No agreement is counted in a year in which none ends.                   *)
LEMMA CountNone ==
  ASSUME NEW A \in SUBSET Agreements, NEW statuses, NEW y,
         \A a \in A \cap With(statuses) : ExpiryYear(a) # y
  PROVE  Count(A, statuses, {y}) = 0
  <1>1. Ending(A \cap With(statuses), {y}) = {}
    BY DEF Ending
  <1> QED BY <1>1, FS_EmptySet DEF Count

(* What a company has in the summary.                                      *)
SummaryIs(company, year, e) ==
  LET r == SummaryReport(company).rows
      s == r[year]
  IN e = IF year \in DOMAIN r
         THEN <<s.naRa, s.suLe3 + s.suGt3 + s.ptLe3 + s.ptGt3>> ELSE <<0, 0>>

(* A year of the summary counts the active agreements and those in SU or *)
(* PT that end in it, and a year without a row has none.                 *)
LEMMA SummaryCounts ==
  ASSUME ReportInv, NEW company, NEW year
  PROVE  SummaryIs(company, year, <<Count(OfCompany(company), {"NA"}, {year}),
                                    Count(OfCompany(company), {"SU", "PT"}, {year})>>)
  <1> DEFINE A == OfCompany(company)
             r == SummaryReport(company).rows
             s == r[year]
  <1>1. A \in SUBSET Agreements /\ A \cap Live \in SUBSET Agreements
    BY CompaniesApart
  <1>2. With({"NA"}) \subseteq Live /\ With({"SU", "PT"}) \subseteq Live
        /\ With({"SU"}) \subseteq Live /\ With({"PT"}) \subseteq Live
    BY StatusesApart
  <1>3. CASE year \in Years(A \cap Live)
    <2>1. /\ year \in DOMAIN r /\ s.naRa = Count(A \cap Live, {"NA"}, {year})
          /\ s.suLe3 = Cardinality(Ending({a \in (A \cap Live) \cap With({"SU"}) : UpToThree(a)}, {year}))
          /\ s.suGt3 = Cardinality(Ending({a \in (A \cap Live) \cap With({"SU"}) : ~UpToThree(a)}, {year}))
          /\ s.ptLe3 = Cardinality(Ending({a \in (A \cap Live) \cap With({"PT"}) : UpToThree(a)}, {year}))
          /\ s.ptGt3 = Cardinality(Ending({a \in (A \cap Live) \cap With({"PT"}) : ~UpToThree(a)}, {year}))
      BY <1>3, SummaryRows DEF Count
    <2> HIDE DEF A, r
    <2>2. Count(A \cap Live, {"SU", "PT"}, {year}) = s.suLe3 + s.suGt3 + s.ptLe3 + s.ptGt3
      <3> DEFINE B == A \cap Live
      <3>1. B \in SUBSET Agreements
        BY <1>1
      <3> HIDE DEF B
      <3>2. Count(B, {"SU", "PT"}, {year}) =
              Cardinality(Ending({a \in B \cap With({"SU"}) : UpToThree(a)}, {year}))
              + Cardinality(Ending({a \in B \cap With({"SU"}) : ~UpToThree(a)}, {year}))
              + Cardinality(Ending({a \in B \cap With({"PT"}) : UpToThree(a)}, {year}))
              + Cardinality(Ending({a \in B \cap With({"PT"}) : ~UpToThree(a)}, {year}))
        BY <3>1, CountFour
      <3> QED BY <2>1, <3>2 DEF B
    <2>3. /\ (A \cap Live) \cap With({"NA"}) = A \cap With({"NA"})
          /\ (A \cap Live) \cap With({"SU", "PT"}) = A \cap With({"SU", "PT"})
      BY <1>2
    <2>4. /\ Count(A \cap Live, {"NA"}, {year}) = Count(A, {"NA"}, {year})
          /\ Count(A \cap Live, {"SU", "PT"}, {year}) = Count(A, {"SU", "PT"}, {year})
      BY Zenon, <2>3 DEF Count
    <2> QED BY <2>1, <2>2, <2>4 DEF SummaryIs, A, r
  <1>4. CASE year \notin Years(A \cap Live)
    <2>1. year \notin DOMAIN r
      BY <1>4, SummaryRows
    <2>2. /\ \A a \in A \cap With({"NA"}) : ExpiryYear(a) # year
          /\ \A a \in A \cap With({"SU", "PT"}) : ExpiryYear(a) # year
      BY <1>2, <1>4 DEF Years
    <2>3. Count(A, {"NA"}, {year}) = 0 /\ Count(A, {"SU", "PT"}, {year}) = 0
      BY <1>1, <2>2, CountNone
    <2> QED BY <2>1, <2>3 DEF SummaryIs
  <1> QED BY <1>3, <1>4

(* The rows of the management report in these counts.                      *)
LEMMA ExpiryCounts ==
  LET rows == ExpiryReport.rows
  IN /\ DOMAIN rows = Years(Live)
     /\ \A y \in Years(Live) :
          /\ rows[y].lhcNa = Count(LHC, {"NA"}, {y})
          /\ rows[y].lhcNonNa = Count(LHC, {"SU", "PT"}, {y})
          /\ rows[y].cpNa = Count(CP, {"NA"}, {y})
          /\ rows[y].cpNonNa = Count(CP, {"SU", "PT"}, {y})
          /\ rows[y].cumNa = Count(Reported, {"NA"}, {z \in Years(Live) : z <= y})
          /\ rows[y].cumNonNa = Count(Reported, {"SU", "PT"}, {z \in Years(Live) : z <= y})
  BY ExpiryRows DEF Count

(* The summary of a company is the part of it in the management report.    *)
LEMMA ExpiryMeetsSummary ==
  ASSUME ReportInv, NEW company \in {"LHC", "CP"},
         NEW year \in DOMAIN ExpiryReport.rows \cup DOMAIN SummaryReport(company).rows
  PROVE  LET e == ExpiryReport.rows[year]
         IN /\ year \in DOMAIN ExpiryReport.rows
            /\ SummaryIs(company, year,
                 IF company = "LHC" THEN <<e.lhcNa, e.lhcNonNa>> ELSE <<e.cpNa, e.cpNonNa>>)
  <1>1. year \in Years(Live)
    <2>1. DOMAIN ExpiryReport.rows = Years(Live)
      BY ExpiryCounts
    <2>2. DOMAIN SummaryReport(company).rows = Years(OfCompany(company) \cap Live)
      BY SummaryRows
    <2>3. Years(OfCompany(company) \cap Live) \subseteq Years(Live)
      BY DEF Years
    <2> QED BY <2>1, <2>2, <2>3
  <1>2. SummaryIs(company, year, <<Count(OfCompany(company), {"NA"}, {year}),
                                   Count(OfCompany(company), {"SU", "PT"}, {year})>>)
    BY SummaryCounts
  <1>3. CASE company = "LHC"
    <2>1. /\ ExpiryReport.rows[year].lhcNa = Count(OfCompany(company), {"NA"}, {year})
          /\ ExpiryReport.rows[year].lhcNonNa = Count(OfCompany(company), {"SU", "PT"}, {year})
      BY <1>1, <1>3, ExpiryCounts DEF LHC
    <2> QED BY <1>1, <1>2, <1>3, <2>1, ExpiryCounts
  <1>4. CASE company = "CP"
    <2>1. /\ ExpiryReport.rows[year].cpNa = Count(OfCompany(company), {"NA"}, {year})
          /\ ExpiryReport.rows[year].cpNonNa = Count(OfCompany(company), {"SU", "PT"}, {year})
      BY <1>1, <1>4, ExpiryCounts DEF CP
    <2> QED BY <1>1, <1>2, <1>4, <2>1, ExpiryCounts
  <1> QED BY <1>3, <1>4

(* A column that has the count of every year in which some of them end.    *)
ColumnOf(f, A, statuses, years) ==
  /\ DOMAIN f = years /\ \A a \in A \cap With(statuses) : ExpiryYear(a) \in years
  /\ \A y \in years : f[y] = Count(A, statuses, {y})

(* It adds up to all that are counted in it.                               *)
LEMMA ColumnCounts ==
  ASSUME NEW A \in SUBSET Agreements, NEW statuses, NEW years, IsFiniteSet(years),
         NEW f, ColumnOf(f, A, statuses, years)
  PROVE  SumFunction(f) = Cardinality(A \cap With(statuses))
  <1> DEFINE B == A \cap With(statuses)
  <1>1. B \in SUBSET Agreements /\ Ending(B, years) = B
    BY DEF Ending, ColumnOf
  <1>2. DOMAIN f = years /\ \A y \in years : f[y] = Cardinality(Ending(B, {y}))
    BY DEF Count, ColumnOf
  <1> HIDE DEF B
  <1>3. SumFunction(f) = Cardinality(Ending(B, years))
    BY <1>1, <1>2, EndingSum
  <1>4. Cardinality(Ending(B, years)) = Cardinality(B)
    BY Zenon, <1>1
  <1> QED BY <1>3, <1>4 DEF B

(* A table without entries is the empty one.                               *)
LEMMA NoEntries ==
  ASSUME NEW f, f = [x \in DOMAIN f |-> f[x]], DOMAIN f = {}
  PROVE  f = <<>>
  <1>1. DOMAIN <<>> = {} /\ <<>> = [x \in DOMAIN <<>> |-> <<>>[x]]
    OBVIOUS
  <1> QED BY <1>1

(* The last line is cumulative over all years.                             *)
LEMMA LastLine ==
  ASSUME ReportInv, ExpiryReport.rows # <<>>
  PROVE  LET rows == ExpiryReport.rows
             sums == ColumnTotals(rows, ExpiryColumns)
             cum == Cumulative(rows[Max(DOMAIN rows)])
         IN /\ cum = <<sums.lhcNa + sums.cpNa, sums.lhcNonNa + sums.cpNonNa>>
            /\ cum[1] + cum[2] = ExpiryReport.total
  <1> DEFINE rows == ExpiryReport.rows
             years == Years(Live)
             last == Max(years)
             upTo == {z \in years : z <= last}
             N(A, s) == Cardinality(A \cap With(s))
             column(c) == [y \in years |-> rows[y][c]]
             all == [y \in years |-> rows[y].lhcNa + rows[y].lhcNonNa + rows[y].cpNa + rows[y].cpNonNa]
  <1>1. DOMAIN rows = years
    BY ExpiryCounts
  <1>2. Live \in SUBSET Agreements /\ IsFiniteSet(years)
    <2>1. Live \in SUBSET Agreements
      BY StatusesApart
    <2> QED BY <2>1, EndingIsFinite
  <1>3. years # {}
    <2> SUFFICES ASSUME years = {} PROVE FALSE
      OBVIOUS
    <2>1. rows = [y \in DOMAIN rows |-> rows[y]]
      BY DEF ExpiryReport
    <2> HIDE DEF rows, years
    <2>2. rows = <<>>
      BY <1>1, <2>1, NoEntries
    <2> QED BY <2>2 DEF rows
  <1>4. last \in years /\ \A y \in years : last >= y
    <2>1. \A y \in years : y \in Int
      BY <1>2, ExpiryDates DEF Years
    <2> HIDE DEF years
    <2> QED BY <1>2, <1>3, <2>1, MaxOf
  <1>5. upTo = years
    BY <1>2, <1>4, ExpiryDates DEF Years
  <1>6. /\ With({"NA"}) \subseteq Live /\ With({"SU", "PT"}) \subseteq Live
        /\ LHC \in SUBSET Agreements /\ CP \in SUBSET Agreements /\ Reported \in SUBSET Agreements
    BY StatusesApart, CompaniesApart DEF Reported
  <1>7. ASSUME NEW A \in SUBSET Agreements, NEW s \in {{"NA"}, {"SU", "PT"}}
        PROVE  /\ \A a \in A \cap With(s) : ExpiryYear(a) \in years
               /\ Count(A, s, years) = N(A, s)
    <2>1. \A a \in A \cap With(s) : ExpiryYear(a) \in years
      BY <1>6 DEF Years
    <2>2. Ending(A \cap With(s), years) = A \cap With(s)
      BY <2>1 DEF Ending
    <2> HIDE DEF years
    <2>3. Count(A, s, years) = N(A, s)
      BY Zenon, <2>2 DEF Count
    <2> QED BY <2>1, <2>3
  <1> HIDE DEF upTo, last
  <1>8. /\ SumFunction(column("lhcNa")) = N(LHC, {"NA"})
        /\ SumFunction(column("lhcNonNa")) = N(LHC, {"SU", "PT"})
        /\ SumFunction(column("cpNa")) = N(CP, {"NA"})
        /\ SumFunction(column("cpNonNa")) = N(CP, {"SU", "PT"})
    <2> DEFINE f1 == column("lhcNa")
               f2 == column("lhcNonNa")
               f3 == column("cpNa")
               f4 == column("cpNonNa")
    <2>1. /\ ColumnOf(f1, LHC, {"NA"}, years) /\ ColumnOf(f2, LHC, {"SU", "PT"}, years)
          /\ ColumnOf(f3, CP, {"NA"}, years) /\ ColumnOf(f4, CP, {"SU", "PT"}, years)
      <3> HIDE DEF rows
      <3>1. \A y \in years : /\ rows[y].lhcNa = Count(LHC, {"NA"}, {y})
                             /\ rows[y].lhcNonNa = Count(LHC, {"SU", "PT"}, {y})
                             /\ rows[y].cpNa = Count(CP, {"NA"}, {y})
                             /\ rows[y].cpNonNa = Count(CP, {"SU", "PT"}, {y})
        BY ExpiryCounts DEF rows
      <3> QED BY <1>6, <1>7, <3>1 DEF ColumnOf
    <2> HIDE DEF f1, f2, f3, f4, years
    <2>2. SumFunction(f1) = N(LHC, {"NA"})
      BY <1>2, <1>6, <2>1, ColumnCounts
    <2>3. SumFunction(f2) = N(LHC, {"SU", "PT"})
      BY <1>2, <1>6, <2>1, ColumnCounts
    <2>4. SumFunction(f3) = N(CP, {"NA"})
      BY <1>2, <1>6, <2>1, ColumnCounts
    <2>5. SumFunction(f4) = N(CP, {"SU", "PT"})
      BY <1>2, <1>6, <2>1, ColumnCounts
    <2> QED BY <2>2, <2>3, <2>4, <2>5 DEF f1, f2, f3, f4
  <1>9. LET sums == ColumnTotals(rows, ExpiryColumns)
        IN /\ sums.lhcNa = N(LHC, {"NA"}) /\ sums.lhcNonNa = N(LHC, {"SU", "PT"})
           /\ sums.cpNa = N(CP, {"NA"}) /\ sums.cpNonNa = N(CP, {"SU", "PT"})
    <2> HIDE DEF rows, N, years
    <2>1. \A c \in ExpiryColumns : ColumnTotals(rows, ExpiryColumns)[c] = SumFunction(column(c))
      BY <1>1 DEF ColumnTotals, Total
    <2> HIDE DEF column
    <2>2. {"lhcNa", "lhcNonNa", "cpNa", "cpNonNa"} = ExpiryColumns
      BY DEF ExpiryColumns
    <2> QED BY <1>8, <2>1, <2>2
  <1>10. /\ rows[last].cumNa = N(Reported, {"NA"})
         /\ rows[last].cumNonNa = N(Reported, {"SU", "PT"})
    <2>1. /\ rows[last].cumNa = Count(Reported, {"NA"}, upTo)
          /\ rows[last].cumNonNa = Count(Reported, {"SU", "PT"}, upTo)
      BY <1>4, ExpiryCounts DEF upTo
    <2>2. /\ Count(Reported, {"NA"}, upTo) = Count(Reported, {"NA"}, years)
          /\ Count(Reported, {"SU", "PT"}, upTo) = Count(Reported, {"SU", "PT"}, years)
      BY Zenon, <1>5
    <2> HIDE DEF years, rows, N
    <2> QED BY <1>6, <1>7, <2>1, <2>2
  <1>11. \A s \in {{"NA"}, {"SU", "PT"}} :
           /\ N(LHC, s) \in Nat /\ N(CP, s) \in Nat /\ N(Reported, s) = N(LHC, s) + N(CP, s)
    <2> TAKE s \in {{"NA"}, {"SU", "PT"}}
    <2>1. /\ N(LHC, s) = Count(LHC, s, years) /\ N(CP, s) = Count(CP, s, years)
          /\ N(Reported, s) = Count(Reported, s, years)
      BY <1>6, <1>7
    <2> HIDE DEF N, years
    <2> QED BY <2>1, CountReported
  <1>12. ExpiryReport.total = N(Reported, {"NA"}) + N(Reported, {"SU", "PT"})
    <2> DEFINE B == Reported \cap Live
    <2>1. \A y \in years : all[y] = Cardinality(Ending(B, {y}))
      <3> TAKE y \in years
      <3>1. all[y] = Count(LHC, {"NA"}, {y}) + Count(LHC, {"SU", "PT"}, {y})
                     + Count(CP, {"NA"}, {y}) + Count(CP, {"SU", "PT"}, {y})
        BY ExpiryCounts
      <3>2. Cardinality(Ending(B, {y})) = Count(Reported, {"NA"}, {y}) + Count(Reported, {"SU", "PT"}, {y})
        BY <1>6, CountParts
      <3> DEFINE C(A, s) == Count(A, s, {y})
      <3>3. \A s : C(LHC, s) \in Nat /\ C(CP, s) \in Nat /\ C(Reported, s) = C(LHC, s) + C(CP, s)
        BY CountReported
      <3>4. /\ C(LHC, {"NA"}) \in Nat /\ C(CP, {"NA"}) \in Nat
            /\ C(LHC, {"SU", "PT"}) \in Nat /\ C(CP, {"SU", "PT"}) \in Nat
            /\ C(Reported, {"NA"}) = C(LHC, {"NA"}) + C(CP, {"NA"})
            /\ C(Reported, {"SU", "PT"}) = C(LHC, {"SU", "PT"}) + C(CP, {"SU", "PT"})
        BY <3>3
      <3>5. /\ all[y] = C(LHC, {"NA"}) + C(LHC, {"SU", "PT"}) + C(CP, {"NA"}) + C(CP, {"SU", "PT"})
            /\ Cardinality(Ending(B, {y})) = C(Reported, {"NA"}) + C(Reported, {"SU", "PT"})
        BY <3>1, <3>2
      <3> HIDE DEF all, B, C
      <3> QED BY <3>4, <3>5
    <2>2. B \in SUBSET Agreements /\ DOMAIN all = years
      BY <1>6
    <2>3. ExpiryReport.total = SumFunction(all)
      BY <1>1, ExpiryRows
    <2>4. Cardinality(Ending(B, years)) = Count(Reported, {"NA"}, years) + Count(Reported, {"SU", "PT"}, years)
      BY <1>6, CountParts
    <2> HIDE DEF all, B, years, N
    <2>5. SumFunction(all) = Cardinality(Ending(B, years))
      BY <1>2, <2>1, <2>2, EndingSum
    <2> QED BY <1>6, <1>7, <2>3, <2>4, <2>5
  <1>13. /\ N(LHC, {"NA"}) \in Nat /\ N(CP, {"NA"}) \in Nat
         /\ N(Reported, {"NA"}) = N(LHC, {"NA"}) + N(CP, {"NA"})
         /\ N(Reported, {"SU", "PT"}) = N(LHC, {"SU", "PT"}) + N(CP, {"SU", "PT"})
    BY <1>11
  <1> HIDE DEF N, rows
  <1>14. Cumulative(rows[last]) = <<N(Reported, {"NA"}), N(Reported, {"SU", "PT"})>>
    BY <1>10 DEF Cumulative
  <1> QED BY <1>1, <1>9, <1>12, <1>13, <1>14 DEF rows, last

(***************************************************************************)
(* Reports that list agreements.                                           *)
(***************************************************************************)
(* A line for each of a set: at says whose line it is.                     *)
OneEach(at, S) ==
  LET n == Cardinality(S)
  IN /\ IsFiniteSet(S) /\ n \in Nat /\ DOMAIN at = 1..n
     /\ \A i \in 1..n : at[i] \in S
     /\ \A a \in S : \E i \in 1..n : at[i] = a
     /\ \A i, j \in 1..n : at[i] = at[j] => i = j

(* The sorted rows are one for each element.                             *)
LEMMA SortedOneEach ==
  ASSUME NEW S, NEW key, Keyed(S, key)
  PROVE  OneEach(SortedBy(S, key), S)
  <1>1. IsFiniteSet(S)
    BY DEF Keyed
  <1> QED BY <1>1, RowsInOrder DEF OneEach

(* Lines of some of them are no more than these, and as many if there is   *)
(* a line of every one.                                                    *)
LEMMA LinesCounted ==
  ASSUME NEW at, NEW S, OneEach(at, S), NEW T \in SUBSET S, NEW I \in SUBSET (DOMAIN at),
         \A i \in I : at[i] \in T
  PROVE  /\ IsFiniteSet(T) /\ Cardinality(I) \in Nat /\ Cardinality(T) \in Nat
         /\ Cardinality(I) <= Cardinality(T)
         /\ (\A i \in DOMAIN at : at[i] \in T => i \in I) => Cardinality(I) = Cardinality(T)
  <1>1. IsFiniteSet(T)
    BY FS_Subset DEF OneEach
  <1>2. \A i, j \in I : at[i] = at[j] => i = j
    BY DEF OneEach
  <1>3. IsFiniteSet(I) /\ Cardinality(I) <= Cardinality(T)
    BY <1>1, <1>2, MapsInto
  <1>4. ASSUME \A i \in DOMAIN at : at[i] \in T => i \in I
        PROVE  Cardinality(I) = Cardinality(T)
    <2>1. \A y \in T : \E i \in I : at[i] = y
      BY <1>4 DEF OneEach
    <2> QED BY <1>1, <1>2, <2>1, MapsInto
  <1> QED BY <1>1, <1>3, <1>4, FS_CardinalityType

(* A table of n lines is a sequence.                                       *)
LEMMA TableIsSeq ==
  ASSUME NEW n \in Nat, NEW rows, rows = [i \in 1..n |-> rows[i]]
  PROVE  \E S : rows \in Seq(S) /\ Len(rows) = n
  <1> DEFINE S == {rows[i] : i \in 1..n}
  <1>1. rows \in [1..n -> S]
    OBVIOUS
  <1> HIDE DEF S
  <1>2. rows \in Seq(S) /\ Len(rows) = n
    BY <1>1
  <1> QED BY <1>2

(* The first lines of others.                                              *)
FirstOf(part, rows) ==
  \E k \in Nat : /\ k <= Len(rows) /\ DOMAIN part = 1..k
                 /\ \A i \in 1..k : part[i] = rows[i]

(* The rows shown on screen are the first of the rows of the file.       *)
LEMMA FirstRows ==
  ASSUME NEW S, NEW rows \in Seq(S)
  PROVE  /\ FirstOf(rows, rows) /\ FirstOf(Shown(rows), rows)
         /\ IsPrefix(rows, rows) /\ IsPrefix(Shown(rows), rows)
  <1>1. /\ Len(rows) \in Nat /\ DOMAIN rows = 1..Len(rows)
        /\ IsPrefix(rows, rows)
    BY DEF IsPrefix
  <1> DEFINE k == IF Len(rows) < PreviewLimit THEN Len(rows) ELSE PreviewLimit
             part == SubSeq(rows, 1, k)
  <1>2. k \in Nat /\ k <= Len(rows) /\ Shown(rows) = part
    BY <1>1, BoundsAssumption DEF Shown
  <1> HIDE DEF k
  <1>3. /\ DOMAIN part = 1..k /\ Len(part) = k
        /\ \A i \in 1..k : part[i] = rows[i]
    BY <1>1, <1>2
  <1>4. FirstOf(part, rows) /\ FirstOf(rows, rows)
    <2>1. Len(rows) <= Len(rows) /\ \A i \in 1..Len(rows) : rows[i] = rows[i]
      BY <1>1
    <2> HIDE DEF part
    <2> QED BY Zenon, <1>1, <1>2, <1>3, <2>1 DEF FirstOf
  <1>5. SubSeq(part, 1, k) = SubSeq(rows, 1, k)
    <2>1. part \in Seq(S)
      BY <1>1, <1>2
    <2> QED BY <1>2, <1>3, <2>1
  <1>6. IsPrefix(part, rows)
    BY <1>2, <1>3, <1>5 DEF IsPrefix
  <1> QED BY <1>1, <1>2, <1>4, <1>6

(* The expiring members of a month, and what they are listed by.           *)
ExpiringKey(period) ==
  [a \in Expiring(period) |-> CompanyRank(a) * 100000000 + computeExpiry(a)]
ExpiringOrder(period) == SortedBy(Expiring(period), ExpiringKey(period))

(* The agreements of an expiring period end in its year, and the key of  *)
(* the report orders them by company and by expiry.                      *)
LEMMA ExpiringSet ==
  ASSUME ReportInv, NEW period
  PROVE  /\ Expiring(period) \in SUBSET Live /\ Live \in SUBSET Agreements
         /\ \A a \in Expiring(period) :
              /\ CompanyRank(a) \in 0..3 /\ computeExpiry(a) \in Int
              /\ computeExpiry(a) \div 10000 = period[2] /\ ExpiryYear(a) = period[2]
              /\ ExpiringKey(period)[a] = CompanyRank(a) * 100000000 + computeExpiry(a)
         /\ Keyed(Expiring(period), ExpiringKey(period))
  <1>1. Live = Agreements \ With({"TM"}) /\ Expiring(period) \in SUBSET Live
        /\ Live \in SUBSET Agreements
    BY StatusesApart DEF Expiring
  <1>2. \A a \in Expiring(period) :
          /\ CompanyRank(a) \in 0..3 /\ computeExpiry(a) \in Int
          /\ YearOf(computeExpiry(a)) = period[2] /\ ExpiryYear(a) = period[2]
    <2> TAKE a \in Expiring(period)
    <2>1. a \in Agreements
      BY <1>1
    <2>2. CompanyRank(a) \in 0..3
      BY DEF CompanyRank
    <2>3. <<MonthOf(computeExpiry(a)), YearOf(computeExpiry(a))>> = period
      BY DEF Expiring
    <2>4. period[2] = YearOf(computeExpiry(a))
      BY <2>3
    <2> QED BY <2>1, <2>2, <2>4, ExpiryDates
  <1>3. \A a \in Expiring(period) :
          /\ ExpiringKey(period)[a] = CompanyRank(a) * 100000000 + computeExpiry(a)
          /\ computeExpiry(a) \div 10000 = period[2]
    BY <1>2 DEF ExpiringKey, YearOf
  <1>4. IsFiniteSet(Expiring(period)) /\ \A a \in Expiring(period) : a \in Int
    <2>1. Expiring(period) \subseteq Agreements /\ Agreements \subseteq Nat
      BY <1>1, AgreementsAssumption
    <2>2. IsFiniteSet(Expiring(period))
      BY <2>1, AgreementsAssumption, FS_Subset
    <2>3. \A a \in Expiring(period) : a \in Nat
      BY <2>1
    <2> QED BY <2>2, <2>3
  <1>5. Keyed(Expiring(period), ExpiringKey(period))
    BY <1>2, <1>3, <1>4 DEF Keyed
  <1> QED BY <1>1, <1>2, <1>3, <1>5

(* The expiring report has a row for each agreement that expires in its  *)
(* period.                                                               *)
LEMMA ExpiringRows ==
  ASSUME ReportInv, NEW period
  PROVE  LET rows == ExpiringReport(period).rows
             at == ExpiringOrder(period)
         IN /\ OneEach(at, Expiring(period))
            /\ rows = [i \in DOMAIN at |-> [agmt |-> at[i], coCode |-> Agmt[at[i]].coCode,
                                            acctClassify |-> acct[at[i]].acctClassify]]
            /\ ExpiringReport(period).total = Len(rows)
            /\ \E S : rows \in Seq(S) /\ Len(rows) = Cardinality(Expiring(period))
  <1> DEFINE rows == ExpiringReport(period).rows
             at == ExpiringOrder(period)
  <1>1. OneEach(at, Expiring(period))
    BY ExpiringSet, SortedOneEach DEF ExpiringOrder
  <1>2. rows = [i \in DOMAIN at |-> [agmt |-> at[i], coCode |-> Agmt[at[i]].coCode,
                                     acctClassify |-> acct[at[i]].acctClassify]]
        /\ ExpiringReport(period).total = Len(rows)
    <2> DEFINE lines == [i \in DOMAIN at |-> [agmt |-> at[i], coCode |-> Agmt[at[i]].coCode,
                                              acctClassify |-> acct[at[i]].acctClassify]]
    <2>1. ExpiringReport(period) = Listing(lines)
      BY DEF ExpiringReport, ExpiringOrder, ExpiringKey, Lines
    <2> HIDE DEF lines
    <2>2. Listing(lines).rows = lines /\ Listing(lines).total = Len(lines)
      BY DEF Listing
    <2> QED BY <2>1, <2>2 DEF lines
  <1> HIDE DEF rows, at
  <1>3. LET n == Cardinality(Expiring(period))
        IN n \in Nat /\ rows = [i \in 1..n |-> rows[i]]
    BY <1>1, <1>2 DEF OneEach
  <1>4. \E S : rows \in Seq(S) /\ Len(rows) = Cardinality(Expiring(period))
    BY <1>3, TableIsSeq
  <1> QED BY <1>1, <1>2, <1>4 DEF rows, at

(* The listed of the two companies end in the year, active or not.         *)
ListedOf(rows, active) ==
  Cardinality({i \in DOMAIN rows : /\ rows[i].coCode \in CoCodes
                                   /\ (rows[i].acctClassify = "NA") = active})

(* The rows of an expiring report, all or the first of them, are no more *)
(* than the agreements that end in its year.                             *)
LEMMA ListedEnd ==
  ASSUME ReportInv, NEW period, NEW part, FirstOf(part, ExpiringReport(period).rows),
         NEW active \in BOOLEAN, NEW statuses,
         active => statuses = {"NA"}, ~active => statuses = {"SU", "PT"}
  PROVE  /\ ListedOf(part, active) \in Nat
         /\ ListedOf(part, active) <= Count(Reported, statuses, {period[2]})
         /\ ListedOf(part, active) > 0 => period[2] \in Years(Live)
  <1> DEFINE rows == ExpiringReport(period).rows
             at == ExpiringOrder(period)
             listed == {i \in DOMAIN part : /\ part[i].coCode \in CoCodes
                                            /\ (part[i].acctClassify = "NA") = active}
             T == Ending(Reported \cap With(statuses), {period[2]}) \cap Expiring(period)
  <1>1. /\ OneEach(at, Expiring(period))
        /\ rows = [i \in DOMAIN at |-> [agmt |-> at[i], coCode |-> Agmt[at[i]].coCode,
                                        acctClassify |-> acct[at[i]].acctClassify]]
        /\ Len(rows) = Cardinality(Expiring(period))
    BY ExpiringRows
  <1> HIDE DEF rows, at
  <1>2. DOMAIN part \subseteq DOMAIN at /\ \A i \in DOMAIN part : part[i] = rows[i]
    <2> DEFINE n == Cardinality(Expiring(period))
    <2>1. n \in Nat /\ DOMAIN at = 1..n /\ Len(rows) = n
      BY <1>1 DEF OneEach
    <2>2. PICK k \in Nat : /\ k <= Len(rows) /\ DOMAIN part = 1..k
                           /\ \A i \in 1..k : part[i] = rows[i]
      BY DEF FirstOf, rows
    <2> HIDE DEF n
    <2>3. 1..k \subseteq 1..n
      BY <2>1, <2>2
    <2> QED BY <2>1, <2>2, <2>3
  <1>3. \A i \in DOMAIN part :
          /\ at[i] \in Expiring(period) /\ part[i].coCode = Agmt[at[i]].coCode
          /\ part[i].acctClassify = acct[at[i]].acctClassify
    BY <1>1, <1>2 DEF OneEach
  <1>4. \A a \in Agreements : acct[a].acctClassify \in Statuses
    BY DEF ReportInv, ReportTypeOK, AcctRow
  <1>5. ASSUME NEW i \in listed PROVE at[i] \in T
    <2> DEFINE a == at[i]
    <2>1. /\ a \in Expiring(period) /\ Agmt[a].coCode \in CoCodes
          /\ (acct[a].acctClassify = "NA") = active
      BY <1>3
    <2> HIDE DEF a
    <2>2. a \in Agreements /\ a \in Live /\ ExpiryYear(a) = period[2]
      BY <2>1, ExpiringSet
    <2>3. a \in Reported /\ a \in With(statuses)
      BY <1>4, <2>1, <2>2, CompaniesApart DEF With, Live, Statuses
    <2> QED BY <2>1, <2>2, <2>3 DEF Ending, a
  <1>6. T \in SUBSET Expiring(period) /\ listed \in SUBSET (DOMAIN at)
    BY <1>2
  <1> HIDE DEF T, listed
  <1>7. /\ Cardinality(listed) \in Nat /\ Cardinality(T) \in Nat
        /\ Cardinality(listed) <= Cardinality(T)
    BY <1>1, <1>5, <1>6, LinesCounted
  <1>8. Cardinality(T) <= Count(Reported, statuses, {period[2]})
        /\ Count(Reported, statuses, {period[2]}) \in Nat
    <2> DEFINE B == Reported \cap With(statuses)
               E == Ending(B, {period[2]})
    <2>1. B \in SUBSET Agreements
      BY CompaniesApart
    <2> HIDE DEF B
    <2>2. IsFiniteSet(E) /\ Cardinality(E) \in Nat
      BY <2>1, EndingIsFinite
    <2>3. T \subseteq E
      BY DEF T, B
    <2> HIDE DEF E
    <2>4. Cardinality(T) <= Cardinality(E)
      BY <2>2, <2>3, FS_Subset
    <2> QED BY <2>2, <2>4 DEF E, B, Count
  <1>9. Cardinality(listed) > 0 => period[2] \in Years(Live)
    <2>1. ASSUME listed = {} PROVE Cardinality(listed) = 0
      BY <2>1, FS_EmptySet
    <2>2. ASSUME NEW i \in listed PROVE period[2] \in Years(Live)
      <3>1. at[i] \in Expiring(period)
        BY <1>5 DEF T
      <3> QED BY <3>1, ExpiringSet DEF Years
    <2> QED BY <2>1, <2>2
  <1>10. Cardinality(listed) <= Count(Reported, statuses, {period[2]})
    BY <1>7, <1>8
  <1> QED BY <1>7, <1>9, <1>10 DEF listed, ListedOf

(* A set of whole numbers has a least.                                     *)
LEMMA Least ==
  ASSUME NEW S, IsFiniteSet(S), \A x \in S : x \in Int, S # {}
  PROVE  \E m \in S : \A x \in S : m <= x
  <1> DEFINE key == [x \in S |-> x]
             n == Cardinality(S)
             sorted == SortedBy(S, key)
  <1>1. Keyed(S, key)
    BY DEF Keyed
  <1>2. /\ n \in Nat /\ \A i \in 1..n : sorted[i] \in S
        /\ \A a \in S : \E i \in 1..n : sorted[i] = a
        /\ \A i, j \in 1..n : i <= j => key[sorted[i]] <= key[sorted[j]]
    <2> HIDE DEF key
    <2> QED BY <1>1, RowsInOrder
  <1>3. \A i, j \in 1..n : i <= j => sorted[i] <= sorted[j]
    BY <1>2
  <1> HIDE DEF n, sorted
  <1>4. 1 \in 1..n
    BY <1>2
  <1>5. sorted[1] \in S /\ \A x \in S : sorted[1] <= x
    BY <1>2, <1>3, <1>4
  <1> QED BY <1>5

(* The lines of a company follow each other: what comes between two of     *)
(* them is of it, and its first line is the one with a header.             *)
LEMMA HeadersGroup ==
  ASSUME ReportInv, NEW period
  PROVE  LET rows == ExpiringReport(period).rows
         IN Cardinality({i \in Headers(rows) : rows[i].coCode \in CoCodes}) =
              Cardinality({rows[i].coCode : i \in DOMAIN rows} \cap CoCodes)
  <1> DEFINE rows == ExpiringReport(period).rows
             S == Expiring(period)
             at == ExpiringOrder(period)
             n == Cardinality(S)
             co == [i \in 1..n |-> rows[i].coCode]
             R == {rows[i].coCode : i \in DOMAIN rows} \cap CoCodes
             I == {i \in Headers(rows) : rows[i].coCode \in CoCodes}
  <1>1. /\ n \in Nat /\ DOMAIN rows = 1..n /\ DOMAIN at = 1..n /\ OneEach(at, S)
        /\ \A i \in 1..n : at[i] \in S /\ co[i] = Agmt[at[i]].coCode /\ rows[i].coCode = co[i]
    <2> HIDE DEF rows, at
    <2>1. /\ OneEach(at, S)
          /\ rows = [i \in DOMAIN at |-> [agmt |-> at[i], coCode |-> Agmt[at[i]].coCode,
                                          acctClassify |-> acct[at[i]].acctClassify]]
      BY ExpiringRows DEF rows, at
    <2>2. n \in Nat /\ DOMAIN at = 1..n /\ \A i \in 1..n : at[i] \in S
      BY <2>1 DEF OneEach
    <2> HIDE DEF n
    <2>3. DOMAIN rows = 1..n /\ \A i \in 1..n : rows[i].coCode = Agmt[at[i]].coCode
      BY <2>1, <2>2
    <2> QED BY <2>1, <2>2, <2>3
  <1>2. \A i, j \in 1..n : i <= j => ExpiringKey(period)[at[i]] <= ExpiringKey(period)[at[j]]
    <2> DEFINE key == ExpiringKey(period)
    <2>1. Keyed(S, key)
      BY ExpiringSet
    <2> HIDE DEF S, key
    <2>2. \A i, j \in 1..Cardinality(S) :
            i <= j => key[SortedBy(S, key)[i]] <= key[SortedBy(S, key)[j]]
      BY <2>1, RowsInOrder
    <2> QED BY <2>2 DEF ExpiringOrder, S, key
  <1> HIDE DEF rows, S, at, n, co
  <1>3. \A i, j \in 1..n : i <= j => CompanyRank(at[i]) <= CompanyRank(at[j])
    <2> SUFFICES ASSUME NEW i \in 1..n, NEW j \in 1..n, i <= j
                 PROVE  CompanyRank(at[i]) <= CompanyRank(at[j])
      OBVIOUS
    <2> DEFINE p == CompanyRank(at[i])
               q == CompanyRank(at[j])
               d == computeExpiry(at[i])
               e == computeExpiry(at[j])
    <2>1. /\ p \in 0..3 /\ q \in 0..3 /\ d \in Int /\ e \in Int /\ d \div 10000 = e \div 10000
          /\ ExpiringKey(period)[at[i]] = p * 100000000 + d
          /\ ExpiringKey(period)[at[j]] = q * 100000000 + e
      BY <1>1, ExpiringSet DEF S
    <2>2. p * 100000000 + d <= q * 100000000 + e
      BY <1>2, <2>1
    <2> HIDE DEF p, q, d, e
    <2>3. d - e < 10000 /\ e - d < 10000
      BY <2>1
    <2>4. p <= q
      BY <2>1, <2>2, <2>3
    <2> QED BY <2>4 DEF p, q
  <1>4. \A a, b : CompanyRank(a) = CompanyRank(b) /\ Agmt[a].coCode \in CoCodes
                    => Agmt[a].coCode = Agmt[b].coCode
    BY DEF CompanyRank, CoCodes
  <1>5. \A i, j, k \in 1..n : i <= k /\ k <= j /\ co[i] = co[j] /\ co[i] \in CoCodes
                                => co[k] = co[i]
    <2> SUFFICES ASSUME NEW i \in 1..n, NEW j \in 1..n, NEW k \in 1..n, i <= k, k <= j,
                        co[i] = co[j], co[i] \in CoCodes
                 PROVE  co[k] = co[i]
      OBVIOUS
    <2> DEFINE p == CompanyRank(at[i])
               q == CompanyRank(at[j])
               r == CompanyRank(at[k])
    <2>1. p <= r /\ r <= q
      BY <1>3
    <2>2. p = q
      BY <1>1 DEF CompanyRank
    <2>3. p \in 0..3 /\ r \in 0..3
      BY DEF CompanyRank
    <2> HIDE DEF p, q, r
    <2>4. p = r
      BY <2>1, <2>2, <2>3
    <2> QED BY <1>1, <1>4, <2>4 DEF p, r
  <1>6. I = {i \in 1..n : co[i] \in CoCodes /\ (i > 1 => co[i] # co[i - 1])}
    <2>1. \A i \in 1..n : i > 1 => i - 1 \in 1..n
      BY <1>1
    <2> QED BY <1>1, <2>1 DEF Headers
  <1>7. R = {co[i] : i \in 1..n} \cap CoCodes
    BY <1>1
  <1> HIDE DEF I, R
  <1>8. \A i \in I : co[i] \in R
    BY <1>6, <1>7
  <1>9. ASSUME NEW i \in I, NEW j \in I, co[i] = co[j] PROVE ~(i < j)
    <2> SUFFICES ASSUME i < j PROVE FALSE
      OBVIOUS
    <2>1. i \in 1..n /\ j \in 1..n /\ co[i] \in CoCodes /\ j > 1 /\ co[j] # co[j - 1]
      BY <1>1, <1>6
    <2> DEFINE k == j - 1
    <2>2. k \in 1..n /\ i <= k /\ k <= j
      BY <1>1, <2>1
    <2> HIDE DEF k
    <2>3. co[k] = co[i]
      BY <1>5, <1>9, <2>1, <2>2
    <2> QED BY <1>9, <2>1, <2>3 DEF k
  <1>10. \A i, j \in I : co[i] = co[j] => i = j
    <2> SUFFICES ASSUME NEW i \in I, NEW j \in I, co[i] = co[j] PROVE i = j
      OBVIOUS
    <2>1. i \in Int /\ j \in Int
      BY <1>1, <1>6
    <2> QED BY <1>9, <2>1
  <1>11. \A c \in R : \E i \in I : co[i] = c
    <2> TAKE c \in R
    <2> DEFINE J == {i \in 1..n : co[i] = c}
    <2>1. J # {} /\ c \in CoCodes
      BY <1>7
    <2>2. IsFiniteSet(J)
      <3>1. IsFiniteSet(1..n)
        BY <1>1, FiniteTo
      <3> QED BY <3>1, FS_Subset
    <2>3. \A i \in J : i \in Int
      BY <1>1
    <2>4. PICK i \in J : \A j \in J : i <= j
      <3> HIDE DEF J
      <3> QED BY <2>1, <2>2, <2>3, Least
    <2>5. i > 1 => co[i - 1] # c
      <3> SUFFICES ASSUME i > 1, co[i - 1] = c PROVE FALSE
        OBVIOUS
      <3>1. i - 1 \in 1..n
        BY <1>1
      <3>2. i - 1 \in J
        BY <3>1
      <3> QED BY <2>3, <2>4, <3>2
    <2> QED BY <1>6, <2>1, <2>5
  <1>12. IsFiniteSet(R)
    <2>1. CoCodes = {"02", "03", "15"}
      BY DEF CoCodes
    <2>2. IsFiniteSet(CoCodes)
      <3>1. IsFiniteSet({"02"}) /\ IsFiniteSet({"03"}) /\ IsFiniteSet({"15"})
        BY FS_Singleton
      <3>2. CoCodes = {"02"} \cup ({"03"} \cup {"15"})
        BY <2>1
      <3> QED BY <3>1, <3>2, FS_Union
    <2> QED BY <1>7, <2>2, FS_Subset
  <1>13. Cardinality(I) = Cardinality(R)
    BY <1>8, <1>10, <1>11, <1>12, MapsInto
  <1> QED BY <1>13 DEF I, R, rows

(***************************************************************************)
(* Remaining values.                                                       *)
(***************************************************************************)
Active(company) == OfCompany(company) \cap With({"NA"})
Dated == [a \in Agreements |-> Agmt[a].agreementDate]
Numbered == [a \in Agreements |-> a]

(* Agreements can be listed by their date and by their number.             *)
LEMMA KeysOfAll ==
  ASSUME NEW S \in SUBSET Agreements
  PROVE  /\ Keyed(S, Dated) /\ Keyed(S, Numbered)
         /\ \A a \in S : a \in Nat /\ Numbered[a] = a /\ Agmt[a].agreementDate \in Nat
  <1>1. IsFiniteSet(S)
    BY AgreementsAssumption, FS_Subset
  <1>2. \A a \in Agreements : a \in Nat /\ Agmt[a].agreementDate \in Nat
    BY AgreementsAssumption DEF AgmtRow
  <1>3. \A a \in S : a \in Nat /\ Dated[a] \in Nat /\ Numbered[a] = a
                     /\ Agmt[a].agreementDate \in Nat
    BY <1>2 DEF Dated, Numbered
  <1> QED BY <1>1, <1>3 DEF Keyed

(* The active agreements of a company are live ones, finitely many, each *)
(* with its date.                                                        *)
LEMMA ActiveSet ==
  ASSUME ReportInv, NEW company
  PROVE  /\ Active(company) \in SUBSET Agreements /\ IsFiniteSet(Active(company))
         /\ Active(company) \subseteq Live /\ Keyed(Active(company), Dated)
         /\ Active(company) = (OfCompany(company) \cap Live) \cap With({"NA"})
  <1>1. Active(company) \in SUBSET Agreements /\ With({"NA"}) \subseteq Live
    BY CompaniesApart, StatusesApart DEF Active
  <1>2. IsFiniteSet(Active(company))
    BY <1>1, AgreementsAssumption, FS_Subset
  <1>3. Active(company) \subseteq Live
        /\ Active(company) = (OfCompany(company) \cap Live) \cap With({"NA"})
    BY <1>1 DEF Active
  <1> QED BY <1>1, <1>2, <1>3, KeysOfAll

(* The remaining-value report has a row for each active agreement of the *)
(* company.                                                              *)
LEMMA ValueRows ==
  ASSUME ReportInv, NEW company
  PROVE  LET rows == ValueReport(company).rows
             at == SortedBy(Active(company), Dated)
         IN /\ OneEach(at, Active(company))
            /\ rows = [i \in DOMAIN at |-> [agmt |-> at[i], expiryYear |-> YearOf(computeExpiry(at[i])),
                                            remainingValue |-> ValueAt(at[i], now)]]
            /\ ValueReport(company).total = Len(rows)
            /\ \E S : rows \in Seq(S) /\ Len(rows) = Cardinality(Active(company))
  <1> DEFINE rows == ValueReport(company).rows
             at == SortedBy(Active(company), Dated)
             lines == [i \in DOMAIN at |->
                         [agmt |-> at[i], expiryYear |-> YearOf(computeExpiry(at[i])),
                          remainingValue |-> ValueAt(at[i], now)]]
  <1>1. OneEach(at, Active(company))
    BY ActiveSet, SortedOneEach
  <1>2. ValueReport(company) = Listing(lines)
    BY DEF ValueReport, Active, Dated, Lines
  <1> HIDE DEF lines
  <1>3. Listing(lines).rows = lines /\ Listing(lines).total = Len(lines)
    BY DEF Listing
  <1>4. rows = lines /\ ValueReport(company).total = Len(rows)
    BY <1>2, <1>3
  <1> HIDE DEF rows, at
  <1>5. LET n == Cardinality(Active(company))
        IN n \in Nat /\ rows = [i \in 1..n |-> rows[i]]
    BY <1>1, <1>4 DEF OneEach, lines
  <1>6. \E S : rows \in Seq(S) /\ Len(rows) = Cardinality(Active(company))
    BY <1>5, TableIsSeq
  <1> QED BY <1>1, <1>4, <1>6 DEF rows, at, lines

(* Without negative prices an agreement is worth nothing after its end.    *)
LEMMA WorthUntilEnd ==
  ASSUME NEW a \in Agreements, Agmt[a].price >= 0, NEW y \in Int, ValueAt(a, y) > 0
  PROVE  ExpiryYear(a) > y
  <1>1. Agmt[a].price \in Int /\ Agmt[a].termYears \in Nat
    BY AgreementsAssumption DEF AgmtRow
  <1>2. valuePerYear(a) \in Nat
    <2> DEFINE p == Agmt[a].price
               n == Agmt[a].termYears
    <2>1. p \in Nat /\ n \in Nat
      BY <1>1
    <2>2. valuePerYear(a) = IF n = 0 THEN 0 ELSE p \div n
      BY DEF valuePerYear
    <2> HIDE DEF p, n
    <2>3. n # 0 => p \div n \in Nat
      BY <2>1
    <2> QED BY <2>2, <2>3
  <1>3. YearOf(computeExpiry(a)) = ExpiryYear(a) /\ ExpiryYear(a) \in Int
    BY ExpiryDates
  <1> DEFINE e == ExpiryYear(a)
             v == valuePerYear(a)
  <1>4. ValueAt(a, y) = IF (e - y) * v > 0 THEN (e - y) * v ELSE 0
    BY <1>3 DEF ValueAt
  <1> HIDE DEF e, v
  <1>5. e \in Int /\ v \in Nat
    BY <1>2, <1>3 DEF e, v
  <1>6. e - y <= 0 => (e - y) * v <= 0
    BY <1>5
  <1>7. e > y
    BY <1>4, <1>5, <1>6
  <1> QED BY <1>7 DEF e

(* The active agreements of the summary of a company are those with a      *)
(* remaining value.                                                        *)
LEMMA ActiveInSummary ==
  ASSUME ReportInv, NEW company, NEW years \in SUBSET DOMAIN SummaryReport(company).rows
  PROVE  SumFunction([y \in years |-> SummaryReport(company).rows[y].naRa]) =
           Cardinality(Ending(Active(company), years))
  <1> DEFINE A == OfCompany(company) \cap Live
             r == SummaryReport(company).rows
             f == [y \in years |-> r[y].naRa]
  <1>1. DOMAIN r = Years(A) /\ A \in SUBSET Agreements
    BY SummaryRows, CompaniesApart
  <1>2. Active(company) = A \cap With({"NA"}) /\ Active(company) \in SUBSET Agreements
    BY ActiveSet
  <1>3. IsFiniteSet(years)
    <2>1. IsFiniteSet(Years(A))
      BY <1>1, EndingIsFinite
    <2> HIDE DEF A
    <2> QED BY <1>1, <2>1, FS_Subset
  <1>4. \A y \in years : r[y].naRa = Cardinality(Ending(A \cap With({"NA"}), {y}))
    BY <1>1, SummaryRows
  <1> HIDE DEF A, r
  <1>5. DOMAIN f = years /\ \A y \in years : f[y] = Cardinality(Ending(Active(company), {y}))
    BY <1>2, <1>4
  <1> HIDE DEF f
  <1>6. SumFunction(f) = Cardinality(Ending(Active(company), years))
    BY <1>2, <1>3, <1>5, EndingSum
  <1> QED BY <1>6 DEF f, r

(* The rows of the remaining-value report are as many as the active      *)
(* agreements the summary counts, in all and for each year they end in;  *)
(* no column of it counts an agreement that has ended by its year,       *)
(* unless a price is negative.                                           *)
LEMMA ValueMeetsSummary ==
  ASSUME ReportInv, NEW company
  PROVE  LET rows == ValueReport(company).rows
             s == SummaryReport(company).rows
             active(years) == SumFunction([y \in years |-> s[y].naRa])
             columns == YearTotals(rows)
         IN /\ ValueReport(company).total = active(DOMAIN s)
            /\ \A y \in DOMAIN s : Cardinality({i \in DOMAIN rows : rows[i].expiryYear = y}) = active({y})
            /\ (\A a \in Agreements : Agmt[a].price >= 0) =>
                 \A y \in DOMAIN columns : columns[y].count <= active({z \in DOMAIN s : z > y})
  <1> DEFINE rows == ValueReport(company).rows
             s == SummaryReport(company).rows
             active(years) == SumFunction([y \in years |-> s[y].naRa])
             columns == YearTotals(rows)
             A == Active(company)
             at == SortedBy(A, Dated)
             N(years) == Cardinality(Ending(A, years))
  <1>1. /\ OneEach(at, A) /\ DOMAIN rows = DOMAIN at
        /\ \A i \in DOMAIN at : rows[i].agmt = at[i] /\ rows[i].expiryYear = YearOf(computeExpiry(at[i]))
        /\ ValueReport(company).total = Cardinality(A)
    <2> HIDE DEF rows, at, A
    <2>1. /\ OneEach(at, A)
          /\ rows = [i \in DOMAIN at |-> [agmt |-> at[i], expiryYear |-> YearOf(computeExpiry(at[i])),
                                          remainingValue |-> ValueAt(at[i], now)]]
          /\ ValueReport(company).total = Cardinality(A)
      BY ValueRows DEF rows, at, A
    <2> QED BY <2>1
  <1>2. A \in SUBSET Agreements /\ A = (OfCompany(company) \cap Live) \cap With({"NA"})
    BY ActiveSet
  <1>3. DOMAIN s = Years(OfCompany(company) \cap Live)
    BY SummaryRows
  <1>4. \A years \in SUBSET DOMAIN s : active(years) = N(years)
    <2> TAKE years \in SUBSET DOMAIN s
    <2> QED BY ActiveInSummary
  <1>5. \A i \in DOMAIN at : at[i] \in A /\ rows[i].expiryYear = ExpiryYear(at[i])
    BY <1>1, <1>2, ExpiryDates DEF OneEach
  <1>6. ValueReport(company).total = active(DOMAIN s)
    <2> DEFINE years == DOMAIN s
    <2>1. Ending(A, years) = A
      BY <1>2, <1>3 DEF Ending, Years
    <2>2. active(years) = N(years)
      BY <1>4
    <2>3. Cardinality(Ending(A, years)) = Cardinality(A)
      BY Zenon, <2>1
    <2> HIDE DEF years, A, active
    <2>4. N(years) = Cardinality(A)
      BY <2>3
    <2> QED BY <1>1, <2>2, <2>4 DEF years
  <1>7. ASSUME NEW y \in DOMAIN s
        PROVE  Cardinality({i \in DOMAIN rows : rows[i].expiryYear = y}) = active({y})
    <2> DEFINE I == {i \in DOMAIN rows : rows[i].expiryYear = y}
               T == Ending(A, {y})
    <2>1. I \in SUBSET DOMAIN at /\ T \in SUBSET A
      BY <1>1 DEF Ending
    <2>2. \A i \in DOMAIN at : i \in I <=> at[i] \in T
      BY <1>1, <1>5 DEF Ending
    <2>3. active({y}) = Cardinality(T)
      BY <1>4
    <2> HIDE DEF I, T, at, A, active
    <2>4. Cardinality(I) = Cardinality(T)
      BY <1>1, <2>1, <2>2, LinesCounted
    <2> QED BY <2>3, <2>4 DEF I
  <1>8. ASSUME \A a \in Agreements : Agmt[a].price >= 0, NEW y \in DOMAIN columns
        PROVE  columns[y].count <= active({z \in DOMAIN s : z > y})
    <2> DEFINE I == {i \in DOMAIN rows : ValueAt(rows[i].agmt, y) > 0}
               later == {z \in DOMAIN s : z > y}
               T == Ending(A, later)
    <2>1. columns[y].count = Cardinality(I) /\ y \in YearCols(rows)
      <3> HIDE DEF rows
      <3> QED BY DEF YearTotals
    <2>2. y \in Int
      <3> HIDE DEF rows
      <3> QED BY <2>1 DEF YearCols
    <2>3. I \in SUBSET DOMAIN at /\ T \in SUBSET A
      BY <1>1 DEF Ending
    <2>4. \A i \in I : at[i] \in T
      <3> TAKE i \in I
      <3> DEFINE a == at[i]
      <3>1. i \in DOMAIN at /\ a \in A /\ ValueAt(a, y) > 0
        BY <1>1, <1>5
      <3> HIDE DEF a, A
      <3>2. a \in Agreements
        BY <1>2, <3>1
      <3>3. ExpiryYear(a) > y
        BY <1>8, <2>2, <3>1, <3>2, WorthUntilEnd
      <3>4. ExpiryYear(a) \in later
        BY <1>2, <1>3, <3>1, <3>3 DEF Years
      <3> HIDE DEF later
      <3> QED BY <3>1, <3>4 DEF Ending, a
    <2>5. active(later) = Cardinality(T)
      BY <1>4
    <2> HIDE DEF I, T, at, A, active, later
    <2>6. Cardinality(I) <= Cardinality(T)
      BY <1>1, <2>3, <2>4, LinesCounted
    <2> QED BY <2>1, <2>5, <2>6 DEF later
  <1> HIDE DEF rows, s, active, columns
  <1>9. (\A a \in Agreements : Agmt[a].price >= 0) =>
          \A y \in DOMAIN columns : columns[y].count <= active({z \in DOMAIN s : z > y})
    BY <1>8
  <1> QED BY <1>6, <1>7, <1>9 DEF rows, s, active, columns

(***************************************************************************)
(* Agreements, members and the payback scheme.                             *)
(***************************************************************************)
OfType(filter) == {a \in Active(filter.coCode) : Agmt[a].memberType = filter.memberType}

(* The agreement report has a row for each active agreement of its type. *)
LEMMA AgreementRows ==
  ASSUME ReportInv, NEW filter
  PROVE  /\ OneEach(SortedBy(OfType(filter), Numbered), OfType(filter))
         /\ AgreementReport(filter).rows = SortedBy(OfType(filter), Numbered)
         /\ AgreementReport(filter).total = Cardinality(OfType(filter))
         /\ Cardinality(OfType(filter)) <= Cardinality(Active(filter.coCode))
         /\ \E S : AgreementReport(filter).rows \in Seq(S)
         /\ Len(AgreementReport(filter).rows) = Cardinality(OfType(filter))
  <1> DEFINE S == OfType(filter)
             at == SortedBy(S, Numbered)
  <1>1. /\ S \in SUBSET Agreements /\ S \subseteq Active(filter.coCode)
        /\ IsFiniteSet(Active(filter.coCode))
    BY ActiveSet DEF OfType
  <1>2. AgreementReport(filter) = Listing(at)
    BY DEF AgreementReport, OfType, Active, Numbered
  <1> HIDE DEF S
  <1>3. Keyed(S, Numbered) /\ Cardinality(S) <= Cardinality(Active(filter.coCode))
    BY <1>1, KeysOfAll, FS_Subset
  <1>4. OneEach(at, S) /\ at \in Seq(S) /\ Len(at) = Cardinality(S)
    BY <1>3, SortedOneEach, RowsInOrder
  <1> HIDE DEF at
  <1>5. AgreementReport(filter).rows = at /\ AgreementReport(filter).total = Len(at)
    BY <1>2 DEF Listing
  <1> QED BY <1>3, <1>4, <1>5 DEF S, at

(* What is listed, in part or in full.                                     *)
LEMMA PartListed ==
  ASSUME NEW S, NEW rows, OneEach(rows, S), Len(rows) = Cardinality(S),
         NEW part, FirstOf(part, rows)
  PROVE  \A i \in DOMAIN part : part[i] \in S
  <1>1. PICK k \in Nat : /\ k <= Len(rows) /\ DOMAIN part = 1..k
                         /\ \A i \in 1..k : part[i] = rows[i]
    BY DEF FirstOf
  <1> DEFINE n == Cardinality(S)
  <1>2. n \in Nat /\ \A i \in 1..n : rows[i] \in S
    BY DEF OneEach
  <1> HIDE DEF n
  <1>3. 1..k \subseteq 1..n
    BY <1>1, <1>2 DEF n
  <1> QED BY <1>1, <1>2, <1>3

(* The first agreement of each member that has one which fits.             *)
Fitting(filter) ==
  OfCompany(filter.coCode)
    \cap With(IF filter.acctClassify = "" THEN Statuses ELSE {filter.acctClassify})
Firsts(filter) ==
  {a \in Agreements : /\ \E b \in Fitting(filter) : Agmt[b].member = Agmt[a].member
                      /\ \A b \in Agreements : Agmt[b].member = Agmt[a].member => a <= b}

(* The member report has a row for each member, with all of the member's *)
(* agreements that fit.                                                  *)
LEMMA MemberRows ==
  ASSUME ReportInv, NEW filter
  PROVE  LET rows == MemberReport(filter).rows
             at == SortedBy(Firsts(filter), Numbered)
             agmts(i) == {a \in Fitting(filter) : Agmt[a].member = Agmt[at[i]].member}
         IN /\ OneEach(at, Firsts(filter)) /\ DOMAIN rows = DOMAIN at
            /\ \A i \in DOMAIN at : rows[i].agmtNos = SortedBy(agmts(i), Dated)
            /\ MemberReport(filter).total = Len(rows)
            /\ \E S : rows \in Seq(S) /\ Len(rows) = Cardinality(Firsts(filter))
  <1> DEFINE rows == MemberReport(filter).rows
             at == SortedBy(Firsts(filter), Numbered)
             agmts(i) == {a \in Fitting(filter) : Agmt[a].member = Agmt[at[i]].member}
             lines == [i \in DOMAIN at |-> MemberLine(Agmt[at[i]].member, Fitting(filter))]
  <1>1. Firsts(filter) \in SUBSET Agreements
    BY DEF Firsts
  <1>2. OneEach(at, Firsts(filter))
    BY <1>1, KeysOfAll, SortedOneEach
  <1>3. MemberReport(filter) = Listing(lines)
    BY DEF MemberReport, Fitting, Firsts, Numbered, Lines
  <1>4. \A i \in DOMAIN at : lines[i].agmtNos = SortedBy(agmts(i), Dated)
    BY DEF MemberLine, Dated
  <1> HIDE DEF lines
  <1>5. rows = lines /\ MemberReport(filter).total = Len(rows)
    BY <1>3 DEF Listing
  <1> HIDE DEF rows, at
  <1>6. LET n == Cardinality(Firsts(filter))
        IN n \in Nat /\ rows = [i \in 1..n |-> rows[i]]
    BY <1>2, <1>5 DEF OneEach, lines
  <1>7. \E S : rows \in Seq(S) /\ Len(rows) = Cardinality(Firsts(filter))
    BY <1>6, TableIsSeq
  <1>8. DOMAIN rows = DOMAIN at
    BY <1>5 DEF lines
  <1> HIDE DEF agmts
  <1>9. \A i \in DOMAIN at : rows[i].agmtNos = SortedBy(agmts(i), Dated)
    BY <1>4, <1>5
  <1> QED BY <1>2, <1>5, <1>7, <1>8, <1>9 DEF rows, at, agmts

(* Every agreement that fits is in the line of its member.                 *)
LEMMA MembersListed ==
  ASSUME ReportInv, NEW filter, NEW a \in Fitting(filter)
  PROVE  \E i \in DOMAIN MemberReport(filter).rows :
           a \in ToSet(MemberReport(filter).rows[i].agmtNos)
  <1> DEFINE rows == MemberReport(filter).rows
             at == SortedBy(Firsts(filter), Numbered)
             m == Agmt[a].member
             M == {b \in Agreements : Agmt[b].member = m}
             fits == {b \in Fitting(filter) : Agmt[b].member = m}
  <1>1. a \in Agreements /\ a \in M /\ M \in SUBSET Agreements
        /\ fits \in SUBSET Agreements /\ a \in fits
    BY CompaniesApart DEF Fitting
  <1>2. PICK first \in M : \A b \in M : first <= b
    <2> HIDE DEF M
    <2>1. IsFiniteSet(M)
      BY <1>1, AgreementsAssumption, FS_Subset
    <2>2. \A b \in M : b \in Int
      <3>1. \A b \in M : b \in Nat
        BY <1>1, KeysOfAll
      <3> QED BY <3>1
    <2> QED BY <1>1, <2>1, <2>2, Least
  <1>3. first \in Firsts(filter) /\ Agmt[first].member = m
    BY <1>1, <1>2 DEF Firsts
  <1>4. PICK i \in DOMAIN at : at[i] = first
    <2>1. OneEach(at, Firsts(filter))
      BY MemberRows
    <2> HIDE DEF at
    <2> QED BY <1>3, <2>1 DEF OneEach
  <1>5. i \in DOMAIN rows /\ rows[i].agmtNos = SortedBy(fits, Dated)
    <2>1. /\ DOMAIN rows = DOMAIN at
          /\ rows[i].agmtNos = SortedBy({b \in Fitting(filter) : Agmt[b].member = Agmt[at[i]].member}, Dated)
      BY MemberRows
    <2>2. {b \in Fitting(filter) : Agmt[b].member = Agmt[at[i]].member} = fits
      BY <1>3, <1>4
    <2> HIDE DEF fits
    <2>3. SortedBy({b \in Fitting(filter) : Agmt[b].member = Agmt[at[i]].member}, Dated)
            = SortedBy(fits, Dated)
      BY Zenon, <2>2
    <2> QED BY <1>4, <2>1, <2>3
  <1>6. \E k \in DOMAIN SortedBy(fits, Dated) : SortedBy(fits, Dated)[k] = a
    <2> HIDE DEF fits
    <2>1. OneEach(SortedBy(fits, Dated), fits)
      BY <1>1, KeysOfAll, SortedOneEach
    <2> QED BY <1>1, <2>1 DEF OneEach
  <1>7. a \in ToSet(rows[i].agmtNos)
    <2> HIDE DEF rows, fits
    <2> QED BY <1>5, <1>6 DEF ToSet
  <1> QED BY <1>5, <1>7

(* Entitled to the payback scheme but not in it.                           *)
Uncovered(a) == ~(IF scheme[a] = None THEN FALSE ELSE scheme[a].pbsIndc)
Missing == {a \in SoldBy(20120711) \cap With({"NA"}) : Uncovered(a)}
Compared == {a \in VarianceAgreements : ~(Zurich(a) = None /\ a \in With({"TM"}))}

(* The agreements sold by a day were also sold by a later day.           *)
LEMMA SoldInTime ==
  ASSUME NEW last \in Nat
  PROVE  /\ SoldBy(last) \subseteq Agreements
         /\ \A a \in SoldBy(last) : Agmt[a].agreementDate \in Nat /\ Agmt[a].agreementDate <= last
         /\ \A later \in Nat : last <= later => SoldBy(last) \subseteq SoldBy(later)
  <1>1. SoldBy(last) \subseteq Agreements
    BY CompaniesApart DEF SoldBy
  <1>2. \A a \in SoldBy(last) : Agmt[a].agreementDate \in Nat
    BY <1>1, KeysOfAll
  <1>3. \A a \in SoldBy(last) : Agmt[a].agreementDate <= last
    BY <1>2 DEF SoldBy
  <1>4. \A later \in Nat : last <= later => SoldBy(last) \subseteq SoldBy(later)
    BY <1>2 DEF SoldBy
  <1> QED BY <1>1, <1>2, <1>3, <1>4

(* An agreement missing from the scheme was sold by its last day, is     *)
(* active and is not covered.                                            *)
LEMMA MissingSold ==
  /\ Missing \in SUBSET Agreements
  /\ \A a \in Missing : /\ a \in SoldBy(20120712) /\ a \in With({"NA"}) /\ Uncovered(a)
                        /\ Agmt[a].agreementDate \in Nat /\ Agmt[a].agreementDate <= 20120711
  <1> DEFINE first == 20120711
             last == 20120712
  <1>1. first \in Nat /\ last \in Nat /\ first <= last
    OBVIOUS
  <1>2. Missing = {a \in SoldBy(first) \cap With({"NA"}) : Uncovered(a)}
    BY DEF Missing
  <1>3. /\ SoldBy(first) \subseteq Agreements /\ SoldBy(first) \subseteq SoldBy(last)
        /\ \A a \in SoldBy(first) : Agmt[a].agreementDate \in Nat /\ Agmt[a].agreementDate <= first
    <2> HIDE DEF first, last
    <2> QED BY <1>1, SoldInTime
  <1> HIDE DEF first, last
  <1>4. /\ Missing \in SUBSET Agreements
        /\ \A a \in Missing : /\ a \in SoldBy(last) /\ a \in With({"NA"}) /\ Uncovered(a)
                              /\ Agmt[a].agreementDate \in Nat /\ Agmt[a].agreementDate <= first
    BY <1>2, <1>3
  <1> QED BY <1>4 DEF first, last

(* The not-in-PBS report lists agreements that are missing, and counts   *)
(* them.                                                                 *)
LEMMA MissingRows ==
  /\ \A i \in DOMAIN NotInPbsReport.rows : NotInPbsReport.rows[i] \in Missing
  /\ NotInPbsReport.total = Len(NotInPbsReport.rows)
  <1> DEFINE key == [a \in Agreements |->
               (IF Agmt[a].coCode = "03" THEN 0 ELSE 100000000) + Agmt[a].agreementDate]
             at == SortedBy(Missing, key)
  <1>1. NotInPbsReport = Listing(at)
    BY DEF NotInPbsReport, Missing, Uncovered
  <1>2. Missing \in SUBSET Agreements
    BY MissingSold
  <1>3. Keyed(Missing, key)
    <2>1. \A a \in Missing : a \in Nat /\ Agmt[a].agreementDate \in Nat /\ a \in Agreements
      BY <1>2, KeysOfAll
    <2>2. IsFiniteSet(Missing)
      BY <1>2, AgreementsAssumption, FS_Subset
    <2>3. \A a \in Missing : a \in Int /\ key[a] \in Int
      BY <2>1
    <2> HIDE DEF key
    <2> QED BY <2>2, <2>3 DEF Keyed
  <1> HIDE DEF key
  <1>4. OneEach(at, Missing)
    BY <1>3, SortedOneEach
  <1> HIDE DEF at
  <1>5. NotInPbsReport.rows = at /\ NotInPbsReport.total = Len(at)
    BY <1>1 DEF Listing
  <1> QED BY <1>4, <1>5 DEF OneEach

(* The variance report has a row for each agreement compared, with its   *)
(* two amounts.                                                          *)
LEMMA ComparedRows ==
  LET rows == VarianceReport.rows
      at == SortedBy(Compared, Dated)
  IN /\ OneEach(at, Compared) /\ DOMAIN rows = DOMAIN at
     /\ \A i \in DOMAIN at : /\ rows[i].agmt = at[i] /\ rows[i].rightful = Rightful(at[i])
                             /\ rows[i].zurich = Zurich(at[i])
     /\ VarianceReport.total = Len(rows)
  <1> DEFINE at == SortedBy(Compared, Dated)
             lines == [i \in DOMAIN at |-> [agmt |-> at[i], rightful |-> Rightful(at[i]),
                                            zurich |-> Zurich(at[i])]]
  <1>1. VarianceReport = Listing(lines)
    BY DEF VarianceReport, Compared, Dated, Lines
  <1>2. Compared \in SUBSET Agreements
    <2>1. SoldBy(20120712) \subseteq Agreements
      BY SoldInTime
    <2>2. OfCompany("03") \subseteq Agreements
      BY CompaniesApart
    <2> QED BY <2>1, <2>2 DEF Compared, VarianceAgreements
  <1>3. OneEach(at, Compared)
    BY <1>2, KeysOfAll, SortedOneEach
  <1> HIDE DEF at, lines
  <1>4. VarianceReport.rows = lines /\ VarianceReport.total = Len(lines)
    BY <1>1 DEF Listing
  <1> QED BY <1>3, <1>4 DEF at, lines

(* Who is missing is compared, has no scheme and is entitled to one.       *)
LEMMA MissingMeetsVariance ==
  LET rows == VarianceReport.rows
  IN /\ Missing \subseteq {rows[i].agmt : i \in DOMAIN rows}
     /\ \A i \in DOMAIN rows : rows[i].agmt \in Missing =>
          rows[i].zurich = None /\ rows[i].rightful # "ERROR"
  <1> DEFINE rows == VarianceReport.rows
             at == SortedBy(Compared, Dated)
  <1>1. Missing \subseteq Compared
    <2> SUFFICES ASSUME NEW a \in Missing PROVE a \in Compared
      OBVIOUS
    <2>1. a \in SoldBy(20120712) /\ a \in With({"NA"})
      BY MissingSold
    <2>2. a \notin With({"TM"})
      BY <2>1 DEF With
    <2> QED BY <2>1, <2>2 DEF Compared, VarianceAgreements
  <1>2. \A a \in Missing : Zurich(a) = None
    BY MissingSold DEF Uncovered, Zurich
  <1>3. \A a \in Missing : Rightful(a) # "ERROR"
    <2> TAKE a \in Missing
    <2>1. Agmt[a].agreementDate \in Nat /\ Agmt[a].agreementDate <= 20120711
      BY MissingSold
    <2> QED BY <2>1 DEF Rightful
  <1>4. /\ OneEach(at, Compared) /\ DOMAIN rows = DOMAIN at
        /\ \A i \in DOMAIN at : /\ rows[i].agmt = at[i] /\ rows[i].rightful = Rightful(at[i])
                                /\ rows[i].zurich = Zurich(at[i])
    BY ComparedRows
  <1> HIDE DEF rows, at
  <1>5. Missing \subseteq {rows[i].agmt : i \in DOMAIN rows}
    BY <1>1, <1>4 DEF OneEach
  <1>6. \A i \in DOMAIN rows : rows[i].agmt \in Missing =>
          rows[i].zurich = None /\ rows[i].rightful # "ERROR"
    BY <1>2, <1>3, <1>4
  <1> QED BY <1>5, <1>6 DEF rows

(***************************************************************************)
(* Documents.                                                              *)
(***************************************************************************)
(* A document answers a report for a filter, in part or in full.           *)
IsDoc(x, report, filter) ==
  LET r == Build(report, filter)
  IN /\ x.report = report /\ x.filter = filter /\ x.full \in BOOLEAN
     /\ x.total = r.total /\ x.foot = GenerateFoot(report, r)
     /\ x.rows = IF ~x.full /\ report \in Cut THEN Shown(r.rows) ELSE r.rows
     /\ x.columns = IF x.full /\ report = "value" THEN YearTotals(r.rows) ELSE None
     /\ x.headers = IF x.full /\ report = "expiring" THEN Headers(r.rows) ELSE {}

(* The builder of each report.                                           *)
LEMMA Builds ==
  ASSUME NEW f
  PROVE  /\ Build("expiry", f) = ExpiryReport /\ Build("summary", f) = SummaryReport(f)
         /\ Build("expiring", f) = ExpiringReport(f) /\ Build("value", f) = ValueReport(f)
         /\ Build("agreements", f) = AgreementReport(f) /\ Build("members", f) = MemberReport(f)
         /\ Build("notInPbs", f) = NotInPbsReport /\ Build("variance", f) = VarianceReport
         /\ Build("claims", f) = ClaimReport
  BY DEF Build

(* The page shows under a report what is printed under it.                 *)
LEMMA SameFoot ==
  ASSUME NEW report \in ReportNames, NEW r
  PROVE  PreviewFoot(report, r) = GenerateFoot(report, r)
  <1>1. CASE report = "expiry"
    <2>1. ExpiryTable(r.rows) = drawTotalRow(r.rows)
      BY DEF ExpiryTable, drawTotalRow
    <2> QED BY <1>1, <2>1 DEF PreviewFoot, GenerateFoot
  <1>2. CASE report = "summary"
    <2>1. SummaryTable(r.rows) = GrandTotal(r.rows)
      BY DEF SummaryTable, GrandTotal
    <2> QED BY <1>2, <2>1 DEF PreviewFoot, GenerateFoot
  <1>3. CASE report = "value"
    <2>1. YearCols(r.rows) = DOMAIN YearTotals(r.rows)
      BY DEF YearTotals
    <2> QED BY <1>3, <2>1 DEF PreviewFoot, GenerateFoot
  <1>4. CASE report = "claims"
    <2> DEFINE sheet == buildSheet(r.rows.claims, TRUE)
    <2>1. ClaimMeta(r.rows) =
            [totalClaimAmt |-> sheet.total, totalLhbAmt |-> sheet.payTo[1],
             lhbCases |-> sheet.payTo[2], totalNdAmt |-> buildSheet(r.rows.nd, FALSE).total]
      BY DEF ClaimMeta, buildSheet
    <2> QED BY <1>4, <2>1 DEF PreviewFoot, GenerateFoot
  <1>5. CASE report \notin {"expiry", "summary", "value", "claims"}
    BY <1>5 DEF PreviewFoot, GenerateFoot
  <1> QED BY <1>1, <1>2, <1>3, <1>4, <1>5

(* A preview and a file are both documents of the report and the filter  *)
(* asked for, and a file is complete.                                    *)
LEMMA AnswersAreDocs ==
  ASSUME NEW report \in ReportNames, NEW filter
  PROVE  /\ IsDoc(Preview(report, filter), report, filter)
         /\ IsDoc(Generate(report, filter), report, filter)
         /\ Generate(report, filter).full
  <1> DEFINE r == Build(report, filter)
             x == Preview(report, filter)
             y == Generate(report, filter)
  <1>1. /\ x.report = report /\ x.filter = filter /\ x.full = FALSE
        /\ x.total = r.total /\ x.foot = GenerateFoot(report, r)
        /\ x.rows = (IF report \in Cut THEN Shown(r.rows) ELSE r.rows)
        /\ x.columns = None /\ x.headers = {}
    BY SameFoot DEF Preview
  <1>2. /\ y.report = report /\ y.filter = filter /\ y.full = TRUE
        /\ y.total = r.total /\ y.foot = GenerateFoot(report, r) /\ y.rows = r.rows
        /\ y.columns = (IF report = "value" THEN YearTotals(r.rows) ELSE None)
        /\ y.headers = (IF report = "expiring" THEN Headers(r.rows) ELSE {})
    BY DEF Generate
  <1> HIDE DEF x, y
  <1>3. IsDoc(x, report, filter)
    BY <1>1 DEF IsDoc
  <1>4. IsDoc(y, report, filter)
    BY <1>2 DEF IsDoc
  <1> QED BY <1>2, <1>3, <1>4 DEF x, y

(* The lines that are shown are the first of those that are printed.       *)
LEMMA CutRows ==
  ASSUME ReportInv, NEW report \in Cut, NEW filter, NEW x, IsDoc(x, report, filter)
  PROVE  /\ FirstOf(x.rows, Build(report, filter).rows)
         /\ IsPrefix(x.rows, Build(report, filter).rows)
  <1>1. \E S : Build(report, filter).rows \in Seq(S)
    <2>1. \E S : ExpiringReport(filter).rows \in Seq(S)
      BY ExpiringRows
    <2>2. \E S : ValueReport(filter).rows \in Seq(S)
      BY ValueRows
    <2>3. \E S : AgreementReport(filter).rows \in Seq(S)
      BY AgreementRows
    <2>4. \E S : MemberReport(filter).rows \in Seq(S)
      BY MemberRows
    <2> QED BY <2>1, <2>2, <2>3, <2>4, Builds DEF Cut
  <1>2. PICK S : Build(report, filter).rows \in Seq(S)
    BY <1>1
  <1>3. x.rows \in {Build(report, filter).rows, Shown(Build(report, filter).rows)}
    BY DEF IsDoc
  <1> QED BY <1>2, <1>3, FirstRows

(* Two answers for the same filter.                                        *)
LEMMA SameAnswers ==
  ASSUME ReportInv, NEW x, NEW y, NEW report, NEW filter, NEW other, NEW otherFilter,
         IsDoc(x, report, filter), IsDoc(y, other, otherFilter), y.full
  PROVE  SameReport(x, y)
  <1> SUFFICES ASSUME x.report = y.report, x.filter = y.filter
               PROVE  /\ x.total = y.total /\ x.foot = y.foot
                      /\ IF x.report \in Cut THEN IsPrefix(x.rows, y.rows) ELSE x.rows = y.rows
    BY DEF SameReport
  <1>1. other = report /\ otherFilter = filter /\ x.report = report
    BY DEF IsDoc
  <1>2. y.rows = Build(report, filter).rows
    BY <1>1 DEF IsDoc
  <1>3. report \in Cut => IsPrefix(x.rows, y.rows)
    BY <1>2, CutRows
  <1>4. x.total = y.total /\ x.foot = y.foot /\ (report \notin Cut => x.rows = y.rows)
    BY <1>1, <1>2 DEF IsDoc
  <1> QED BY <1>1, <1>3, <1>4

(* The management report and the summary.                                  *)
LEMMA DocsExpirySummary ==
  ASSUME ReportInv, NEW x, NEW y, NEW report, NEW filter, NEW other,
         NEW otherFilter \in Filters[other], IsDoc(x, report, filter), IsDoc(y, other, otherFilter)
  PROVE  ExpiryIsSummary(x, y)
  <1> SUFFICES ASSUME x.report = "expiry", y.report = "summary"
               PROVE  ExpiryIsSummary(x, y)
    BY DEF ExpiryIsSummary
  <1>1. report = "expiry" /\ other = "summary" /\ y.filter = otherFilter
    BY DEF IsDoc
  <1>2. otherFilter \in {"LHC", "CP"}
    BY <1>1, FiltersAssumption
  <1>3. x.rows = ExpiryReport.rows
    <2>1. x.rows = Build("expiry", filter).rows
      BY <1>1 DEF IsDoc, Cut
    <2> QED BY <2>1, Builds
  <1>4. y.rows = SummaryReport(otherFilter).rows
    <2>1. y.rows = Build("summary", otherFilter).rows
      BY <1>1 DEF IsDoc, Cut
    <2> QED BY <2>1, Builds
  <1>5. ASSUME NEW year \in DOMAIN x.rows \cup DOMAIN y.rows
        PROVE  LET e == x.rows[year]
               IN /\ year \in DOMAIN x.rows
                  /\ SummaryIs(otherFilter, year,
                       IF otherFilter = "LHC" THEN <<e.lhcNa, e.lhcNonNa>> ELSE <<e.cpNa, e.cpNonNa>>)
    BY <1>2, <1>3, <1>4, ExpiryMeetsSummary
  <1> QED BY <1>1, <1>4, <1>5 DEF ExpiryIsSummary, SummaryIs

(* The management report and the expiring members.                         *)
LEMMA DocsExpiryAll ==
  ASSUME ReportInv, NEW x, NEW y, NEW report, NEW filter, NEW other, NEW otherFilter,
         IsDoc(x, report, filter), IsDoc(y, other, otherFilter)
  PROVE  ExpiryIsAll(x, y)
  <1> SUFFICES ASSUME x.report = "expiry", x.rows # <<>>
               PROVE  ExpiryIsAll(x, y)
    BY DEF ExpiryIsAll
  <1> DEFINE rows == ExpiryReport.rows
             sums == ColumnTotals(rows, ExpiryColumns)
             cum == Cumulative(rows[Max(DOMAIN rows)])
             Listed(active) == ListedOf(y.rows, active)
  <1>1. report = "expiry"
    BY DEF IsDoc
  <1>2. x.rows = rows /\ x.total = ExpiryReport.total /\ x.foot = drawTotalRow(rows)
    <2>1. /\ x.rows = Build("expiry", filter).rows /\ x.total = Build("expiry", filter).total
          /\ x.foot = drawTotalRow(Build("expiry", filter).rows)
      BY <1>1 DEF IsDoc, Cut, GenerateFoot
    <2> QED BY <2>1, Builds
  <1>3. x.foot.sums = sums /\ x.foot.cum = cum
    <2> HIDE DEF rows, sums, cum
    <2>1. x.foot = [sums |-> sums, cum |-> cum]
      BY <1>2 DEF drawTotalRow, sums, cum
    <2> QED BY <2>1
  <1>4. /\ cum = <<sums.lhcNa + sums.cpNa, sums.lhcNonNa + sums.cpNonNa>>
        /\ cum[1] + cum[2] = ExpiryReport.total
    BY <1>2, LastLine
  <1>5. ASSUME y.report = "expiring", Listed(TRUE) + Listed(FALSE) > 0
        PROVE  LET e == rows[y.filter[2]]
               IN /\ Listed(TRUE) <= e.lhcNa + e.cpNa
                  /\ Listed(FALSE) <= e.lhcNonNa + e.cpNonNa
    <2> DEFINE p == otherFilter[2]
               e == rows[p]
    <2>1. other = "expiring" /\ y.filter = otherFilter
      BY <1>5 DEF IsDoc
    <2>2. FirstOf(y.rows, ExpiringReport(otherFilter).rows)
      <3>1. other \in Cut
        BY <2>1 DEF Cut
      <3>2. FirstOf(y.rows, Build("expiring", otherFilter).rows)
        BY <2>1, <3>1, CutRows
      <3> QED BY <3>2, Builds
    <2>3. /\ Listed(TRUE) \in Nat /\ Listed(TRUE) <= Count(Reported, {"NA"}, {p})
          /\ Listed(TRUE) > 0 => p \in Years(Live)
      BY <2>2, ListedEnd
    <2>4. /\ Listed(FALSE) \in Nat /\ Listed(FALSE) <= Count(Reported, {"SU", "PT"}, {p})
          /\ Listed(FALSE) > 0 => p \in Years(Live)
      BY <2>2, ListedEnd
    <2> HIDE DEF Listed, p, rows
    <2>5. p \in Years(Live)
      <3>1. Listed(TRUE) > 0 \/ Listed(FALSE) > 0
        <4> DEFINE m == Listed(TRUE)
                   n == Listed(FALSE)
        <4>1. m \in Nat /\ n \in Nat /\ m + n > 0
          BY <1>5, <2>3, <2>4
        <4> HIDE DEF m, n
        <4>2. m > 0 \/ n > 0
          BY <4>1
        <4> QED BY <4>2 DEF m, n
      <3> QED BY <2>3, <2>4, <3>1
    <2>6. /\ Count(Reported, {"NA"}, {p}) = e.lhcNa + e.cpNa
          /\ Count(Reported, {"SU", "PT"}, {p}) = e.lhcNonNa + e.cpNonNa
      <3>1. /\ e.lhcNa = Count(LHC, {"NA"}, {p}) /\ e.lhcNonNa = Count(LHC, {"SU", "PT"}, {p})
            /\ e.cpNa = Count(CP, {"NA"}, {p}) /\ e.cpNonNa = Count(CP, {"SU", "PT"}, {p})
        BY <2>5, ExpiryCounts DEF rows
      <3> QED BY <3>1, CountReported
    <2>7. Listed(TRUE) <= e.lhcNa + e.cpNa /\ Listed(FALSE) <= e.lhcNonNa + e.cpNonNa
      BY <2>3, <2>4, <2>6
    <2> QED BY <2>1, <2>7 DEF p
  <1> HIDE DEF sums, cum, rows
  <1>6. y.report = "expiring" /\ Listed(TRUE) + Listed(FALSE) > 0 =>
          LET e == x.rows[y.filter[2]]
          IN /\ Listed(TRUE) <= e.lhcNa + e.cpNa
             /\ Listed(FALSE) <= e.lhcNonNa + e.cpNonNa
    BY <1>2, <1>5
  <1>7. /\ x.foot.cum = <<x.foot.sums.lhcNa + x.foot.sums.cpNa, x.foot.sums.lhcNonNa + x.foot.sums.cpNonNa>>
        /\ x.foot.cum[1] + x.foot.cum[2] = x.total
    BY <1>2, <1>3, <1>4
  <1> QED BY <1>6, <1>7 DEF ExpiryIsAll, ListedOf

(* Remaining values and the summary.                                       *)
LEMMA DocsValueSummary ==
  ASSUME ReportInv, NEW x, NEW y, NEW report, NEW filter, NEW other, NEW otherFilter,
         IsDoc(x, report, filter), IsDoc(y, other, otherFilter)
  PROVE  ValueIsSummary(x, y)
  <1> SUFFICES ASSUME x.report = "value", y.report = "summary", x.filter = y.filter
               PROVE  ValueIsSummary(x, y)
    BY DEF ValueIsSummary
  <1>1. report = "value" /\ other = "summary" /\ otherFilter = filter
    BY DEF IsDoc
  <1> DEFINE r == ValueReport(filter)
             s == SummaryReport(filter).rows
             active(years) == SumFunction([year \in years |-> s[year].naRa])
  <1>2. /\ x.total = r.total /\ (x.full => x.rows = r.rows)
        /\ x.columns # None => x.columns = YearTotals(r.rows)
    <2>1. /\ x.total = Build("value", filter).total
          /\ x.full => x.rows = Build("value", filter).rows
          /\ x.columns # None => x.columns = YearTotals(Build("value", filter).rows)
      BY <1>1 DEF IsDoc
    <2> QED BY <2>1, Builds
  <1>3. y.rows = s
    <2>1. y.rows = Build("summary", filter).rows
      BY <1>1 DEF IsDoc, Cut
    <2> QED BY <2>1, Builds
  <1>4. /\ r.total = active(DOMAIN s)
        /\ \A z \in DOMAIN s : Cardinality({i \in DOMAIN r.rows : r.rows[i].expiryYear = z}) = active({z})
        /\ (\A a \in Agreements : Agmt[a].price >= 0) =>
             \A z \in DOMAIN YearTotals(r.rows) :
               YearTotals(r.rows)[z].count <= active({w \in DOMAIN s : w > z})
    BY ValueMeetsSummary
  <1> HIDE DEF r, s
  <1>5. x.full => \A z \in DOMAIN s :
          Cardinality({i \in DOMAIN x.rows : x.rows[i].expiryYear = z}) = active({z})
    <2> SUFFICES ASSUME x.full, NEW z \in DOMAIN s
                 PROVE  Cardinality({i \in DOMAIN x.rows : x.rows[i].expiryYear = z}) = active({z})
      OBVIOUS
    <2>1. x.rows = r.rows
      BY <1>2
    <2>2. Cardinality({i \in DOMAIN x.rows : x.rows[i].expiryYear = z}) =
            Cardinality({i \in DOMAIN r.rows : r.rows[i].expiryYear = z})
      BY Zenon, <2>1
    <2> HIDE DEF active
    <2> QED BY <1>4, <2>2
  <1>6. x.columns # None /\ (\A a \in Agreements : Agmt[a].price >= 0) =>
          \A z \in DOMAIN x.columns : x.columns[z].count <= active({w \in DOMAIN s : w > z})
    <2> HIDE DEF active
    <2> QED BY <1>2, <1>4
  <1>7. x.total = active(DOMAIN s)
    BY <1>2, <1>4
  <1>8. \A years : SumFunction([year \in years |-> y.rows[year].naRa]) = active(years)
    BY Zenon, <1>3
  <1> HIDE DEF active
  <1> QED BY <1>3, <1>5, <1>6, <1>7, <1>8 DEF ValueIsSummary

(* Agreements of a type.                                                   *)
AllFit(filter) == filter.acctClassify \in {"", "NA"} /\ filter.coCode = ""

(* A filter that leaves nothing out fits every active agreement of a     *)
(* company.                                                              *)
LEMMA FitsAll ==
  ASSUME NEW filter, AllFit(filter), NEW company
  PROVE  Active(company) \subseteq Fitting(filter)
  <1>1. With({"NA"}) \subseteq With(Statuses) /\ With({"NA"}) \subseteq Agreements
    BY DEF With, Statuses
  <1>2. OfCompany(filter.coCode) = Agreements
    BY Zenon, AllCompanies DEF AllFit
  <1> QED BY Zenon, <1>1, <1>2 DEF Fitting, Active, AllFit

(* A document of the agreement report and one of the member report, the  *)
(* value report or the summary list the same agreements.                 *)
LEMMA DocsAgreements ==
  ASSUME ReportInv, NEW x, NEW y, NEW report, NEW filter, NEW other, NEW otherFilter,
         IsDoc(x, report, filter), IsDoc(y, other, otherFilter)
  PROVE  AgreementsAreListed(x, y)
  <1>1. ASSUME x.report = "agreements"
        PROVE  ListedIn(x) \subseteq Active(x.filter.coCode)
    <2>1. report = "agreements" /\ report \in Cut /\ x.filter = filter
      BY <1>1 DEF IsDoc, Cut
    <2> DEFINE rows == AgreementReport(filter).rows
               S == OfType(filter)
    <2>2. FirstOf(x.rows, rows)
      <3>1. FirstOf(x.rows, Build("agreements", filter).rows)
        BY <2>1, CutRows
      <3> QED BY <3>1, Builds
    <2>3. OneEach(rows, S) /\ Len(rows) = Cardinality(S)
      BY AgreementRows
    <2> HIDE DEF rows, S
    <2>4. \A i \in DOMAIN x.rows : x.rows[i] \in S
      BY <2>2, <2>3, PartListed
    <2>5. ListedIn(x) = {x.rows[i] : i \in DOMAIN x.rows}
      BY <1>1 DEF ListedIn, ToSet
    <2> QED BY <2>1, <2>4, <2>5 DEF S, OfType
  <1>2. ASSUME x.report = "agreements", y.report = "value", y.filter = x.filter.coCode
        PROVE  x.total <= y.total
    <2>1. /\ report = "agreements" /\ other = "value" /\ x.filter = filter
          /\ otherFilter = filter.coCode
      BY <1>2 DEF IsDoc
    <2>2. x.total = AgreementReport(filter).total /\ y.total = ValueReport(filter.coCode).total
      <3>1. x.total = Build("agreements", filter).total /\ y.total = Build("value", filter.coCode).total
        BY <2>1 DEF IsDoc
      <3> QED BY <3>1, Builds
    <2>3. ValueReport(filter.coCode).total = Cardinality(Active(filter.coCode))
      BY ValueRows
    <2> QED BY <2>2, <2>3, AgreementRows
  <1>3. ASSUME x.report = "agreements", y.full, y.report = "value", y.filter = x.filter.coCode
        PROVE  ListedIn(x) \subseteq ListedIn(y)
    <2>1. other = "value" /\ otherFilter = x.filter.coCode
      BY <1>3 DEF IsDoc
    <2> DEFINE A == Active(x.filter.coCode)
               at == SortedBy(A, Dated)
               rows == ValueReport(x.filter.coCode).rows
    <2>2. y.rows = rows
      <3>1. y.rows = Build("value", x.filter.coCode).rows
        BY <1>3, <2>1 DEF IsDoc
      <3> QED BY <3>1, Builds
    <2>3. OneEach(at, A) /\ DOMAIN rows = DOMAIN at /\ \A i \in DOMAIN at : rows[i].agmt = at[i]
      <3>1. /\ OneEach(at, A)
            /\ rows = [i \in DOMAIN at |-> [agmt |-> at[i], expiryYear |-> YearOf(computeExpiry(at[i])),
                                            remainingValue |-> ValueAt(at[i], now)]]
        BY ValueRows
      <3> HIDE DEF at, A, rows
      <3> QED BY <3>1
    <2> HIDE DEF at, A, rows
    <2>4. A \subseteq {rows[i].agmt : i \in DOMAIN rows}
      BY <2>3 DEF OneEach
    <2>5. ListedIn(y) = {rows[i].agmt : i \in DOMAIN rows}
      BY <1>3, <2>2 DEF ListedIn
    <2> QED BY <1>1, <1>3, <2>4, <2>5 DEF A
  <1>4. ASSUME x.report = "agreements", y.full, y.report = "members",
               Active(x.filter.coCode) \subseteq Fitting(y.filter)
        PROVE  ListedIn(x) \subseteq ListedIn(y)
    <2>1. other = "members" /\ otherFilter = y.filter
      BY <1>4 DEF IsDoc
    <2> DEFINE rows == MemberReport(y.filter).rows
    <2>2. y.rows = rows
      <3>1. y.rows = Build("members", y.filter).rows
        BY <1>4, <2>1 DEF IsDoc
      <3> QED BY <3>1, Builds
    <2>3. \A a \in Fitting(y.filter) : \E i \in DOMAIN rows : a \in ToSet(rows[i].agmtNos)
      BY MembersListed
    <2> HIDE DEF rows
    <2>4. ListedIn(y) = UNION {ToSet(rows[i].agmtNos) : i \in DOMAIN rows}
      BY <1>4, <2>2 DEF ListedIn
    <2> QED BY <1>1, <1>4, <2>3, <2>4
  <1>5. ASSUME x.report = "agreements", y.full, y.report = "members",
               y.filter.acctClassify \in {"", "NA"}, y.filter.coCode = ""
        PROVE  ListedIn(x) \subseteq ListedIn(y)
    <2>1. Active(x.filter.coCode) \subseteq Fitting(y.filter)
      <3>1. AllFit(y.filter)
        BY Zenon, <1>5 DEF AllFit
      <3> QED BY <3>1, FitsAll
    <2> QED BY Zenon, <1>4, <1>5, <2>1
  <1> QED BY Zenon, <1>2, <1>3, <1>5 DEF AgreementsAreListed

(* Who is missing from the scheme.                                         *)
LEMMA DocsVariance ==
  ASSUME ReportInv, NEW x, NEW y, NEW report, NEW filter, NEW other, NEW otherFilter,
         IsDoc(x, report, filter), IsDoc(y, other, otherFilter)
  PROVE  MissingIsVariance(x, y)
  <1> SUFFICES ASSUME x.report = "notInPbs", y.report = "variance"
               PROVE  MissingIsVariance(x, y)
    BY DEF MissingIsVariance
  <1>1. report = "notInPbs" /\ other = "variance"
    BY DEF IsDoc
  <1>2. x.rows = NotInPbsReport.rows /\ y.rows = VarianceReport.rows
    <2>1. x.rows = Build("notInPbs", filter).rows /\ y.rows = Build("variance", otherFilter).rows
      BY <1>1 DEF IsDoc, Cut
    <2> QED BY <2>1, Builds
  <1>3. ListedIn(x) \subseteq Missing
    <2>1. ListedIn(x) = {x.rows[i] : i \in DOMAIN x.rows}
      BY DEF ListedIn, ToSet
    <2> QED BY <1>2, <2>1, MissingRows
  <1>4. ListedIn(y) = {y.rows[i].agmt : i \in DOMAIN y.rows}
    BY DEF ListedIn
  <1>5. /\ Missing \subseteq {y.rows[i].agmt : i \in DOMAIN y.rows}
        /\ \A i \in DOMAIN y.rows : y.rows[i].agmt \in Missing =>
             y.rows[i].zurich = None /\ y.rows[i].rightful # "ERROR"
    BY <1>2, MissingMeetsVariance
  <1> QED BY <1>3, <1>4, <1>5 DEF MissingIsVariance

(* No two claims have an agreement and a number in common.                 *)
ClaimsApart == \A c, d \in claims : c.agmt = d.agmt /\ c.no = d.no => c = d

(* A document of the claim report has each claim on one sheet.           *)
LEMMA DocsClaims ==
  ASSUME ClaimsApart, NEW x, NEW report, NEW filter, IsDoc(x, report, filter)
  PROVE  ClaimOnOneSheet(x)
  <1> SUFFICES ASSUME x.report = "claims" PROVE ClaimOnOneSheet(x)
    BY DEF ClaimOnOneSheet
  <1>1. report = "claims"
    BY DEF IsDoc
  <1> DEFINE sheet(nd) == {c \in claims : c.ND = nd /\ ~Agmt[c.agmt].TT}
  <1>2. x.rows = [claims |-> sheet(FALSE), nd |-> sheet(TRUE)]
    <2>1. x.rows = Build("claims", filter).rows
      BY <1>1 DEF IsDoc, Cut
    <2>2. ClaimReport.rows = [claims |-> sheet(FALSE), nd |-> sheet(TRUE)]
      BY DEF ClaimReport
    <2> QED BY <2>1, <2>2, Builds
  <1>3. x.rows.claims = sheet(FALSE) /\ x.rows.nd = sheet(TRUE)
    BY <1>2
  <1>4. ASSUME NEW c \in sheet(FALSE), NEW d \in sheet(TRUE), <<c.agmt, c.no>> = <<d.agmt, d.no>>
        PROVE  FALSE
    <2>1. c \in claims /\ d \in claims /\ c.ND = FALSE /\ d.ND = TRUE
      BY <1>4
    <2>2. c = d
      BY <1>4, <2>1 DEF ClaimsApart
    <2> QED BY <2>1, <2>2
  <1> HIDE DEF sheet
  <1> QED BY <1>3, <1>4 DEF ClaimOnOneSheet

(* The headers of the expiring members.                                    *)
LEMMA DocsHeaders ==
  ASSUME ReportInv, NEW x, NEW report, NEW filter, IsDoc(x, report, filter)
  PROVE  HeadersAreGroups(x)
  <1> SUFFICES ASSUME x.report = "expiring", x.full PROVE HeadersAreGroups(x)
    BY DEF HeadersAreGroups
  <1> DEFINE rows == ExpiringReport(filter).rows
  <1>1. report = "expiring"
    BY DEF IsDoc
  <1>2. x.rows = rows /\ x.headers = Headers(rows)
    <2>1. /\ x.rows = Build("expiring", filter).rows
          /\ x.headers = Headers(Build("expiring", filter).rows)
      BY <1>1 DEF IsDoc
    <2> QED BY <2>1, Builds
  <1>3. Cardinality({i \in Headers(rows) : rows[i].coCode \in CoCodes}) =
          Cardinality({rows[i].coCode : i \in DOMAIN rows} \cap CoCodes)
    BY HeadersGroup
  <1> HIDE DEF rows
  <1>4. Cardinality({i \in x.headers : x.rows[i].coCode \in CoCodes}) =
          Cardinality({x.rows[i].coCode : i \in DOMAIN x.rows} \cap CoCodes)
    BY Zenon, <1>2, <1>3
  <1> QED BY <1>4 DEF HeadersAreGroups

(* Any two documents of the same tables agree, so that the file agrees   *)
(* with the screen and with itself.                                      *)
LEMMA DocsAgree ==
  ASSUME ReportInv, ClaimsApart, NEW x, NEW y, NEW report, NEW filter, NEW other,
         NEW otherFilter \in Filters[other], IsDoc(x, report, filter), IsDoc(y, other, otherFilter)
  PROVE  Agree(x, y)
  <1>1. ExpiryIsSummary(x, y) /\ ExpiryIsAll(x, y)
    BY DocsExpirySummary, DocsExpiryAll
  <1>2. ValueIsSummary(x, y) /\ AgreementsAreListed(x, y) /\ MissingIsVariance(x, y)
    BY DocsValueSummary, DocsAgreements, DocsVariance
  <1>3. ClaimOnOneSheet(x) /\ HeadersAreGroups(x)
    BY DocsClaims, DocsHeaders
  <1> QED BY <1>1, <1>2, <1>3 DEF Agree

(***************************************************************************)
(* A document says what it did as long as nothing in the tables changes.   *)
(***************************************************************************)
SameTables == acct' = acct /\ scheme' = scheme /\ claims' = claims /\ now' = now

(* A report reads nothing but the tables and the day.                    *)
LEMMA SameBuild ==
  ASSUME SameTables, NEW report, NEW filter
  PROVE  Build(report, filter)' = Build(report, filter)
  <1>1. ExpiryReport' = ExpiryReport
    BY DEF SameTables, ExpiryReport, With, Live, Total
  <1>2. SummaryReport(filter)' = SummaryReport(filter)
    BY DEF SameTables, SummaryReport, With, Live, Total, UpToThree, YearsInStatus
  <1>3. ExpiringReport(filter)' = ExpiringReport(filter)
    BY DEF SameTables, ExpiringReport, Expiring, With, Lines
  <1>4. ValueReport(filter)' = ValueReport(filter)
    BY DEF SameTables, ValueReport, With, Lines, ValueAt
  <1>5. AgreementReport(filter)' = AgreementReport(filter)
    BY DEF SameTables, AgreementReport, With
  <1>6. MemberReport(filter)' = MemberReport(filter)
    BY DEF SameTables, MemberReport, With, Lines, MemberLine
  <1>7. NotInPbsReport' = NotInPbsReport
    BY DEF SameTables, NotInPbsReport, With
  <1>8. VarianceReport' = VarianceReport
    BY DEF SameTables, VarianceReport, With, Lines, Zurich, VarianceAgreements
  <1>9. ClaimReport' = ClaimReport
    BY DEF SameTables, ClaimReport
  <1> QED BY <1>1, <1>2, <1>3, <1>4, <1>5, <1>6, <1>7, <1>8, <1>9 DEF Build

(* The answers to a preview and to a download stay what they are.        *)
LEMMA SameDocuments ==
  ASSUME SameTables, NEW report, NEW filter
  PROVE  /\ Preview(report, filter)' = Preview(report, filter)
         /\ Generate(report, filter)' = Generate(report, filter)
  <1>1. Build(report, filter)' = Build(report, filter)
    BY SameBuild
  <1>2. \A rows : YearTotals(rows)' = YearTotals(rows) /\ YearCols(rows)' = YearCols(rows)
    BY DEF SameTables, YearTotals, YearCols
  <1>3. \A r : PreviewFoot(report, r)' = PreviewFoot(report, r)
    BY <1>2 DEF PreviewFoot
  <1>4. \A r : GenerateFoot(report, r)' = GenerateFoot(report, r)
    BY <1>2 DEF GenerateFoot
  <1>5. Preview(report, filter)' = Preview(report, filter)
    BY <1>1, <1>3 DEF Preview
  <1>6. Generate(report, filter)' = Generate(report, filter)
    BY <1>1, <1>2, <1>4 DEF Generate
  <1> QED BY <1>5, <1>6

(* What is on the page and what was downloaded are answers to requests on  *)
(* the tables as they are; what is older is stale or forgotten.            *)
Previewed(x) == \E report \in ReportNames : \E f \in Filters[report] : x = Preview(report, f)
Generated(x) == \E report \in ReportNames : \E f \in Filters[report] : x = Generate(report, f)

DocumentsInv ==
  /\ ReportInv /\ ClaimsApart
  /\ screen.preview \in {None, Stale} \/ Previewed(screen.preview)
  /\ file = None \/ Generated(file)

(* Documents made as DocumentsInv says agree.                            *)
LEMMA DocumentsReconcile == DocumentsInv => ReportsReconcile
  <1> SUFFICES ASSUME DocumentsInv, screen.preview \notin {None, Stale}, file # None
               PROVE  /\ SameReport(screen.preview, file)
                      /\ Agree(screen.preview, file) /\ Agree(file, screen.preview)
    BY DEF ReportsReconcile
  <1> DEFINE x == screen.preview
  <1>1. PICK r \in ReportNames : \E f \in Filters[r] : x = Preview(r, f)
    BY DEF DocumentsInv, Previewed
  <1>2. PICK f \in Filters[r] : x = Preview(r, f)
    BY <1>1
  <1>3. PICK s \in ReportNames : \E g \in Filters[s] : file = Generate(s, g)
    BY DEF DocumentsInv, Generated
  <1>4. PICK g \in Filters[s] : file = Generate(s, g)
    BY <1>3
  <1> HIDE DEF x
  <1>5. IsDoc(x, r, f) /\ IsDoc(file, s, g) /\ file.full
    BY <1>2, <1>4, AnswersAreDocs
  <1>6. ReportInv /\ ClaimsApart
    BY DEF DocumentsInv
  <1>7. SameReport(x, file)
    BY <1>5, <1>6, SameAnswers
  <1>8. Agree(x, file)
    BY <1>5, <1>6, DocsAgree
  <1>9. Agree(file, x)
    BY <1>5, <1>6, DocsAgree
  <1> QED BY <1>7, <1>8, <1>9 DEF x

(* At first there is no preview and no file, and a claim number is used  *)
(* once.                                                                 *)
LEMMA DocumentsStart == Init => DocumentsInv
  <1> SUFFICES ASSUME Init PROVE DocumentsInv
    OBVIOUS
  <1>1. ReportInit
    BY DEF Init
  <1>2. ReportInv
    BY <1>1, ReportStart
  <1>3. PICK f \in Filters["expiry"] : screen = OpenPage("expiry", f)
    BY <1>1 DEF ReportInit
  <1>4. screen.preview = None
    BY <1>3 DEF OpenPage
  <1>5. ClaimsApart
    BY <1>1, SchemesAssumption DEF ReportInit, ClaimsApart
  <1> QED BY <1>1, <1>2, <1>4, <1>5 DEF ReportInit, DocumentsInv

(* A change of the tables forgets both documents.                          *)
LEMMA OutdatedDocuments ==
  ASSUME ReportInv, Outdated
  PROVE  screen'.preview \in {None, Stale} /\ file' = None
  <1>1. CASE screen.preview = None
    BY <1>1 DEF Outdated
  <1>2. CASE screen.preview # None
    <2>1. screen' = [report |-> screen.report, filter |-> screen.filter, preview |-> Stale]
      BY <1>2 DEF Outdated, ReportInv
    <2> QED BY <2>1 DEF Outdated
  <1> QED BY <1>1, <1>2

(* An answer that is kept is one to the same request.                      *)
LEMMA PreviewKept ==
  ASSUME SameTables, Previewed(screen.preview), screen'.preview = screen.preview
  PROVE  Previewed(screen.preview)'
  <1>1. PICK r \in ReportNames : \E f \in Filters[r] : screen.preview = Preview(r, f)
    BY DEF Previewed
  <1>2. PICK f \in Filters[r] : screen.preview = Preview(r, f)
    BY <1>1
  <1>3. screen'.preview = Preview(r, f)'
    BY <1>2, SameDocuments
  <1> QED BY <1>3 DEF Previewed

(* A file stays a file of the tables while they do not change.           *)
LEMMA FileKept ==
  ASSUME SameTables, Generated(file), file' = file
  PROVE  Generated(file)'
  <1>1. PICK r \in ReportNames : \E f \in Filters[r] : file = Generate(r, f)
    BY DEF Generated
  <1>2. PICK f \in Filters[r] : file = Generate(r, f)
    BY <1>1
  <1>3. file' = Generate(r, f)'
    BY <1>2, SameDocuments
  <1> QED BY <1>3 DEF Generated

(* A document made from tables that have changed since is gone, and a    *)
(* new one is made from the tables at hand.                              *)
LEMMA DocumentsStep ==
  ASSUME DocumentsInv, [Next]_vars, ReportInv'
  PROVE  DocumentsInv'
  <1>1. ASSUME UNCHANGED db
        PROVE  SameTables /\ ClaimsApart'
    BY <1>1 DEF db, SameTables, DocumentsInv, ClaimsApart
  <1>2. ASSUME UNCHANGED db, file' = file PROVE (file = None \/ Generated(file))'
    BY <1>1, <1>2, FileKept DEF DocumentsInv
  <1>3. ASSUME UNCHANGED db, screen'.preview = screen.preview
        PROVE  (screen.preview \in {None, Stale} \/ Previewed(screen.preview))'
    BY <1>1, <1>3, PreviewKept DEF DocumentsInv
  <1>4. CASE Open
    <2>1. PICK r \in ReportNames : \E f \in Filters[r] : screen' = OpenPage(r, f)
      BY <1>4 DEF Open
    <2>2. screen'.preview = None
      BY <2>1 DEF OpenPage
    <2>3. UNCHANGED <<db, file>>
      BY <1>4 DEF Open
    <2> QED BY <1>1, <1>2, <2>2, <2>3 DEF DocumentsInv
  <1>5. CASE Choose
    <2>1. PICK f, preview :
            /\ screen' = [screen EXCEPT !.filter = f, !.preview = preview]
            /\ preview \in {None, screen.preview}
      BY <1>5 DEF Choose
    <2>2. screen'.preview = preview
      <3>1. screen' = [report |-> screen.report, filter |-> f, preview |-> preview]
        BY <2>1 DEF DocumentsInv, ReportInv
      <3> QED BY <3>1
    <2>3. UNCHANGED <<db, file>>
      BY <1>5 DEF Choose
    <2> QED BY <1>1, <1>2, <1>3, <2>1, <2>2, <2>3 DEF DocumentsInv
  <1>6. CASE Apply
    <2>1. PICK preview : /\ screen' = [screen EXCEPT !.preview = preview]
                         /\ preview \in {Preview(screen.report, screen.filter), Stale}
      BY <1>6 DEF Apply
    <2>2. screen'.preview = preview
      <3>1. screen' = [report |-> screen.report, filter |-> screen.filter, preview |-> preview]
        BY <2>1 DEF DocumentsInv, ReportInv
      <3> QED BY <3>1
    <2>3. UNCHANGED <<db, file>>
      BY <1>6 DEF Apply
    <2> DEFINE r == screen.report
               f == screen.filter
    <2>4. r \in ReportNames /\ f \in Filters[r]
      BY DEF DocumentsInv, ReportInv, ReportTypeOK
    <2>5. \E s \in ReportNames : \E g \in Filters[s] :
            Preview(screen.report, screen.filter) = Preview(s, g)'
      <3> HIDE DEF r, f
      <3>1. PICK s \in ReportNames : s = r
        BY <2>4
      <3>2. PICK g \in Filters[s] : g = f
        BY <2>4, <3>1
      <3>3. Preview(r, f) = Preview(s, g)
        BY Zenon, <3>1, <3>2
      <3>4. Preview(s, g)' = Preview(s, g)
        BY <1>1, <2>3, SameDocuments
      <3> QED BY <3>3, <3>4 DEF r, f
    <2>6. preview # Stale => Previewed(screen.preview)'
      BY <2>1, <2>2, <2>5 DEF Previewed
    <2> QED BY <1>1, <1>2, <2>2, <2>3, <2>6 DEF DocumentsInv
  <1>7. CASE Download
    <2>1. file' = Generate(screen.report, screen.filter) /\ UNCHANGED <<db, screen>>
      BY <1>7 DEF Download
    <2> DEFINE r == screen.report
               f == screen.filter
    <2>2. r \in ReportNames /\ f \in Filters[r]
      BY DEF DocumentsInv, ReportInv, ReportTypeOK
    <2>3. \E s \in ReportNames : \E g \in Filters[s] :
            Generate(screen.report, screen.filter) = Generate(s, g)'
      <3> HIDE DEF r, f
      <3>1. PICK s \in ReportNames : s = r
        BY <2>2
      <3>2. PICK g \in Filters[s] : g = f
        BY <2>2, <3>1
      <3>3. Generate(r, f) = Generate(s, g)
        BY Zenon, <3>1, <3>2
      <3>4. Generate(s, g)' = Generate(s, g)
        BY <1>1, <2>1, SameDocuments
      <3> QED BY <3>3, <3>4 DEF r, f
    <2>4. Generated(file)'
      BY <2>1, <2>3 DEF Generated
    <2> QED BY <1>1, <1>3, <2>1, <2>4 DEF DocumentsInv
  <1>8. ASSUME Outdated, ClaimsApart' PROVE DocumentsInv'
    <2>1. screen'.preview \in {None, Stale} /\ file' = None
      BY <1>8, OutdatedDocuments DEF DocumentsInv
    <2> QED BY <1>8, <2>1 DEF DocumentsInv
  <1>9. CASE ChangeStatus \/ SaveScheme \/ YearTurns
    <2>1. Outdated /\ claims' = claims
      BY <1>9 DEF ChangeStatus, SaveScheme, YearTurns, Change
    <2> QED BY <1>8, <2>1 DEF DocumentsInv, ClaimsApart
  <1>10. CASE EditClaim
    <2>1. PICK k \in claims :
            \/ \E nd \in BOOLEAN : claims' = (claims \ {k}) \cup {[k EXCEPT !.ND = nd]}
            \/ claims' = claims \ {k}
      BY <1>10 DEF EditClaim
    <2>2. k \in ClaimRow
      BY DEF DocumentsInv, ReportInv, ReportTypeOK
    <2>3. \A nd \in BOOLEAN : LET e == [k EXCEPT !.ND = nd] IN e.agmt = k.agmt /\ e.no = k.no
      BY <2>2 DEF ClaimRow
    <2>4. PICK e : e.agmt = k.agmt /\ e.no = k.no /\ claims' \subseteq (claims \ {k}) \cup {e}
      <3>1. CASE claims' = claims \ {k}
        BY <3>1
      <3>2. ASSUME NEW nd \in BOOLEAN, claims' = (claims \ {k}) \cup {[k EXCEPT !.ND = nd]}
            PROVE  \E e : e.agmt = k.agmt /\ e.no = k.no /\ claims' \subseteq (claims \ {k}) \cup {e}
        BY <2>3, <3>2
      <3> QED BY <2>1, <3>1, <3>2
    <2>5. ClaimsApart'
      BY <2>4 DEF DocumentsInv, ClaimsApart
    <2>6. Outdated
      BY <1>10 DEF EditClaim, Change
    <2> QED BY <1>8, <2>5, <2>6
  <1>11. CASE UNCHANGED reportVars
    <2>1. UNCHANGED db /\ screen' = screen /\ file' = file
      BY <1>11 DEF reportVars, db
    <2> QED BY <1>1, <1>2, <1>3, <2>1 DEF DocumentsInv
  <1>12. ReportNext \/ UNCHANGED reportVars
    BY DEF Next, vars, reportVars
  <1> QED BY <1>4, <1>5, <1>6, <1>7, <1>9, <1>10, <1>11, <1>12 DEF ReportNext

(* The invariants of the reports and of the accounts hold together.      *)
LEMMA DeskInvariant == Spec => [](ReportInv /\ EntitlementInv)
  BY DeskStart, DeskStep, PTL DEF Spec

(* On whatever day a card is opened, every unused night of a full term   *)
(* and every point is forfeited, carried forward or in the column of its *)
(* year, and in one of these only (EntitlementBalance,                   *)
(* cpEntitlementBalance).                                                *)
THEOREM CardsAccounted == Spec => []EntitlementAccounted
  <1>1. Init => CardInv
    BY CardStart
  <1>2. CardInv /\ [Next]_vars /\ EntitlementInv' => CardInv'
    BY CardStep
  <1>3. Spec => []CardInv
    BY <1>1, <1>2, DeskInvariant, PTL DEF Spec
  <1> QED BY <1>3, CardsAreAccounted, PTL

(* Whatever report is on the screen and whatever was downloaded last,    *)
(* with nothing changed since they were read: they agree where they      *)
(* speak of the same agreements, and a preview with the file of the same *)
(* report and filter (the ten queries of reports/*.report.ts).           *)
THEOREM ReportsAgree == Spec => []ReportsReconcile
  <1>1. Init => DocumentsInv
    BY DocumentsStart
  <1>2. DocumentsInv /\ [Next]_vars /\ ReportInv' => DocumentsInv'
    BY DocumentsStep
  <1>3. Spec => []DocumentsInv
    BY <1>1, <1>2, DeskInvariant, PTL DEF Spec
  <1> QED BY <1>3, DocumentsReconcile, PTL
=============================================================================
