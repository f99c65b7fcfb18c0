------------------------------ MODULE Listings ------------------------------
(***************************************************************************)
(* The paged lists and how they are searched:                              *)
(*   frontend/src/pages/members/Members.tsx      search button, URL        *)
(*   frontend/src/pages/admin/AuditLog.tsx       search button, URL        *)
(*   frontend/src/pages/amc/Schedules.tsx        search button, URL        *)
(*   frontend/src/pages/agreements/Agreements.tsx  as one types, URL       *)
(*   frontend/src/pages/pbs/PbsEnquiry.tsx         as one types, URL       *)
(*   frontend/src/pages/amc/Invoices.tsx         as one types, page state  *)
(*   frontend/src/pages/admin/Users.tsx          at once, page state       *)
(*   frontend/src/components/ui/Pagination.tsx, and parsePagination of the *)
(*   controllers behind them                                               *)
(*                                                                         *)
(* Abstractions.  One search text and one filter stand for all of a page;  *)
(* how many rows fit them is a constant, nothing being added meanwhile.    *)
(* An answer is shown at once, and only that of the last request is.       *)
(***************************************************************************)
EXTENDS Integers, FiniteSets, Sequences

CONSTANTS
  Lists,      \* the pages that are opened, among ListNames
  TotalOf,    \* rows that fit a search text and a filter
  MaxClicks,  \* bound: what the user does
  NoTimer     \* no text waits to be applied

ListNames == {"members", "audit", "schedules", "agreements", "pbs", "invoices", "users"}
Texts == {"", "text"}
Params == [s : BOOLEAN, q : Texts, filter : Texts, sort : Texts, page : Nat]
Empty == [s |-> FALSE, q |-> "", filter |-> "", sort |-> "", page |-> 1]

ASSUME ListsAssumption ==
  /\ Lists \subseteq ListNames /\ MaxClicks \in Nat
  /\ TotalOf \in [Texts \X Texts -> Nat]

VARIABLES
  list,     \* the page, or "none"
  sp,       \* its parameters: of the URL, or its state
  input,    \* what stands in its search form
  timer,    \* the text that is applied 350 ms later and the parameters then
  hist,     \* the parameters Back returns to
  away,     \* a row was opened
  clicks    \* bound: what was done so far

listVars == <<list, sp, input, timer, hist, away, clicks>>

ByButton == {"members", "audit", "schedules"}
AsTyped == {"agreements", "pbs", "invoices"}
InUrl == ListNames \ {"invoices", "users"}
Sorted == {"members", "agreements"}

-----------------------------------------------------------------------------
(* What is asked for and what is answered.                                 *)
HasFilters == sp.q # "" \/ sp.filter # ""

Enabled ==
  CASE list = "members" -> sp.s /\ HasFilters
    [] list = "audit" -> sp.s
    [] list \in {"pbs", "users"} -> TRUE
    [] OTHER -> HasFilters

Limit == IF list = "audit" THEN 50 ELSE 20

parsePagination(page, limit) ==
  LET p == IF page < 1 THEN 1 ELSE page
      l == IF limit < 1 THEN 1 ELSE IF limit > 100 THEN 100 ELSE limit
  IN [skip |-> (p - 1) * l, take |-> l, page |-> p]

(* The page of rows and what is said of all of them.                       *)
Answer ==
  LET ask == parsePagination(sp.page, Limit)
      total == TotalOf[<<sp.q, sp.filter>>]
      left == total - ask.skip
  IN [rows |-> IF left <= 0 THEN 0 ELSE IF left < ask.take THEN left ELSE ask.take,
      total |-> total, page |-> ask.page,
      pages |-> (total + ask.take - 1) \div ask.take]

(* The numbered buttons: the first seven pages, the last or those around.  *)
PageButtons(page, pages) ==
  LET n == IF pages < 7 THEN pages ELSE 7
      first == IF pages <= 7 \/ page <= 4 THEN 1
               ELSE IF page >= pages - 3 THEN pages - 6 ELSE page - 3
  IN IF pages <= 1 THEN <<>> ELSE [i \in 1..n |-> first + i - 1]

(* With the arrows, which are disabled at the ends.                        *)
Pagination(page, pages) ==
  {PageButtons(page, pages)[i] : i \in DOMAIN PageButtons(page, pages)}
    \cup (IF pages > 1 /\ page # 1 THEN {page - 1} ELSE {})
    \cup (IF pages > 1 /\ page # pages THEN {page + 1} ELSE {})

-----------------------------------------------------------------------------
Here == list # "none" /\ ~away /\ clicks < MaxClicks
Click == Here /\ clicks' = clicks + 1

(* A page is mounted: its form is filled from the URL, and where a text is *)
(* applied as it is typed, the effect runs once for the text found there.  *)
Timed(text, params) == [q |-> text, prev |-> params]
Mounted(name, params) ==
  /\ sp' = params
  /\ input' = [q |-> params.q, filter |-> params.filter]
  /\ timer' = IF name \in AsTyped THEN Timed(params.q, params) ELSE NoTimer

(* An entry of the menu.                                                   *)
VisitList ==
  /\ list = "none" /\ list' \in Lists
  /\ Mounted(list', Empty)
  /\ UNCHANGED <<hist, away, clicks>>

(* The text in the search form.                                            *)
TypeText ==
  /\ Click
  /\ \E text \in Texts \ {input.q} :
       /\ input' = [input EXCEPT !.q = text]
       /\ timer' = IF list \in AsTyped THEN Timed(text, sp) ELSE timer
       /\ sp' = IF list = "users" THEN [sp EXCEPT !.q = text, !.page = 1] ELSE sp
  /\ UNCHANGED <<list, hist, away>>

(* 350 ms after the last key.  setSp of the router gives the function the  *)
(* parameters there were when the text was typed; the setters of a page    *)
(* state have no such memory.                                              *)
TimerFires ==
  /\ timer # NoTimer
  /\ ~away
  /\ LET prev == IF list = "invoices" THEN sp ELSE timer.prev
     IN sp' = [prev EXCEPT !.q = timer.q, !.page = 1]
  /\ timer' = NoTimer
  /\ UNCHANGED <<list, input, hist, away, clicks>>

(* Mutation: the page stays where it was.                                  *)
MutFiltered(value) == [sp EXCEPT !.filter = value]

Filtered(value) == [sp EXCEPT !.filter = value, !.page = 1]

(* A filter of a page without a search button, ...                         *)
SetFilter ==
  /\ Click /\ list \notin ByButton
  /\ \E value \in Texts \ {sp.filter} :
       sp' = Filtered(value) /\ input' = [input EXCEPT !.filter = value]
  /\ UNCHANGED <<list, timer, hist, away>>

(* ... and of one with a button, where it waits for the button.            *)
DraftFilter ==
  /\ Click /\ list \in ByButton
  /\ \E value \in Texts \ {input.filter} : input' = [input EXCEPT !.filter = value]
  /\ UNCHANGED <<list, sp, timer, hist, away>>

(* The search button.  The lists of members and of the audit log leave the *)
(* last search to Back.                                                    *)
handleSearch ==
  /\ Click /\ list \in ByButton
  /\ sp' = [s |-> list # "schedules", q |-> input.q, filter |-> input.filter,
            sort |-> sp.sort, page |-> 1]
  /\ hist' = IF list = "schedules" THEN hist ELSE Append(hist, sp)
  /\ UNCHANGED <<list, input, timer, away>>

(* Clear: the URL is empty at once; a text that was there starts the       *)
(* timer, a text that was not leaves a running one alone.                  *)
handleClear ==
  /\ Click /\ list # "users"
  /\ sp' = Empty
  /\ input' = [q |-> "", filter |-> ""]
  /\ hist' = IF list \in {"members", "audit"} THEN Append(hist, sp) ELSE hist
  /\ timer' = IF list \in AsTyped /\ input.q # "" THEN Timed("", Empty) ELSE timer
  /\ UNCHANGED <<list, away>>

handleSort ==
  /\ Click /\ list \in Sorted
  /\ \E order \in Texts \ {sp.sort} : sp' = [sp EXCEPT !.sort = order, !.page = 1]
  /\ UNCHANGED <<list, input, timer, hist, away>>

handlePage ==
  /\ Click /\ Enabled
  /\ \E p \in Pagination(Answer.page, Answer.pages) : sp' = [sp EXCEPT !.page = p]
  /\ UNCHANGED <<list, input, timer, hist, away>>

(* A row is opened, and Back returns to the page: to its URL, or, where    *)
(* it keeps its state itself, to an empty form.                            *)
OpenRow ==
  /\ Click /\ Enabled
  /\ Answer.rows > 0
  /\ away' = TRUE /\ timer' = NoTimer
  /\ UNCHANGED <<list, sp, input, hist>>

BackToList ==
  /\ away /\ away' = FALSE
  /\ Mounted(list, IF list \in InUrl THEN sp ELSE Empty)
  /\ UNCHANGED <<list, hist, clicks>>

(* Back to the search before: the page stays mounted, its form as it is.   *)
BackToSearch ==
  /\ Click /\ hist # <<>>
  /\ sp' = hist[Len(hist)] /\ hist' = SubSeq(hist, 1, Len(hist) - 1)
  /\ UNCHANGED <<list, input, timer, away>>

ListInit ==
  /\ list = "none"
  /\ sp = Empty /\ input = [q |-> "", filter |-> ""]
  /\ timer = NoTimer
  /\ hist = <<>> /\ away = FALSE /\ clicks = 0

ListNext ==
  \/ VisitList \/ TypeText \/ TimerFires \/ SetFilter \/ DraftFilter
  \/ handleSearch \/ handleClear \/ handleSort \/ handlePage
  \/ OpenRow \/ BackToList \/ BackToSearch

ListTypeOK ==
  /\ list \in Lists \cup {"none"} /\ sp \in Params
  /\ input \in [q : Texts, filter : Texts]
  /\ hist \in Seq(Params) /\ away \in BOOLEAN /\ clicks \in 0..MaxClicks

(* Whatever was typed, chosen, sorted, opened and left, and however late   *)
(* the timer of a text fires: the page that is shown is one of the pages   *)
(* of the search it is shown for, so that a search with rows shows some;   *)
(* and the buttons lead to pages that exist, its own and its neighbours    *)
(* among them.                                                             *)
ListPageExists ==
  list # "none" /\ ~away /\ Enabled =>
    LET answer == Answer
        buttons == PageButtons(answer.page, answer.pages)
    IN /\ answer.total > 0 => answer.rows > 0
       /\ answer.pages > 1 =>
            /\ \A i, j \in DOMAIN buttons : i # j => buttons[i] # buttons[j]
            /\ {answer.page - 1, answer.page, answer.page + 1} \cap (1..answer.pages)
                 \subseteq {buttons[i] : i \in DOMAIN buttons}
            /\ Pagination(answer.page, answer.pages) \subseteq 1..answer.pages
=============================================================================
