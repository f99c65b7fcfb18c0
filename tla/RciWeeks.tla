------------------------------ MODULE RciWeeks ------------------------------
(***************************************************************************)
(* The RCI week calendar (RCI 2) and the weeks that are banked out of it   *)
(* (RCI 3), of one unit:                                                   *)
(*   backend/src/controllers/rci-week.controller.ts                        *)
(*   backend/src/controllers/rci-bulk-bank.controller.ts                   *)
(*   frontend/src/pages/rci/RciWeeklyInterval.tsx, RciBulkBank.tsx         *)
(*                                                                         *)
(* A year of the calendar is added and deleted whole; a banked week is a   *)
(* row of its own that holds the Friday it starts on and no reference to   *)
(* the calendar.  The bank page shows a year of weeks and sends all of     *)
(* them; the server works out what to create, regrade and clear.           *)
(*                                                                         *)
(* Left out: Saturday dates, serial numbers, the nights that banking takes *)
(* (AvailabilityGrid), audit rows; that a unit is not RCI-qualified, under *)
(* maintenance or fully committed is a refusal that may happen.            *)
(***************************************************************************)
EXTENDS CalendarDates, Sequences, FiniteSets

CONSTANTS
  WeekYears,      \* bound: years of the week calendar
  MigratedYears,  \* those of rci_week.txt
  MigratedWeeks,  \* check-ins of bulk_bank.txt
  Covered,        \* check-ins of weeks the unit's availability covers
  WeekSeasons     \* grades

Blank == "-"
DefaultWeek == "R"

ASSUME WeekAssumption ==
  /\ WeekYears \subseteq 2026..2999 /\ MigratedYears \subseteq WeekYears
  /\ IsFiniteSet(MigratedWeeks) /\ MigratedWeeks \subseteq Nat /\ Covered \subseteq Nat
  /\ DefaultWeek \in WeekSeasons /\ Blank \notin WeekSeasons

VARIABLES
  weeks,       \* RciWeek: the rows of each year in its domain
  banked,      \* RciBulkBank
  nextBanked,  \* ids given out so far
  bankPage,    \* the year each clerk has open in the bank
  weekRequest, \* what each clerk has asked for
  weekEdits    \* requests so far

weekVars == <<weeks, banked, nextBanked, bankPage, weekRequest, weekEdits>>

NoPage == [year |-> 0]
NotAsking == [op |-> "idle"]

-----------------------------------------------------------------------------
firstFriday(year) ==
  LET jan1 == Utc(<<year, 1, 1>>) IN jan1 + ((5 - getUTCDay(jan1) + 7) % 7)

(* Mutation: always the 52 weeks of an ordinary year.                      *)
MutGenerateWeeks(year) ==
  [i \in 1..52 |-> [friStart |-> firstFriday(year) + (i - 1) * 7,
                    friEnd |-> firstFriday(year) + i * 7]]

generateWeeks(year) ==
  LET start == firstFriday(year)
      count == (firstFriday(year + 1) - start) \div 7
  IN [i \in 1..count |-> [friStart |-> start + (i - 1) * 7,
                          friEnd |-> start + (i - 1) * 7 + 7]]

(* What the page says of a year before it is generated.                    *)
previewYear(year) ==
  LET start == firstFriday(year)
      count == (firstFriday(year + 1) - start) \div 7
  IN [weeks |-> count, first |-> start, last |-> start + count * 7]

FriStarts(rows) == {rows[i].friStart : i \in DOMAIN rows}
Calendar(year) == IF year \in DOMAIN weeks THEN weeks[year] ELSE <<>>

(* The year and number a banked week gets from the calendar, if any.       *)
Label(table, checkIn) ==
  {w \in (DOMAIN table) \X (1..53) :
     w[2] \in DOMAIN table[w[1]] /\ table[w[1]][w[2]].friStart = checkIn}

(* Rows of the two text files; a check-in that matches no week is imported *)
(* without a year.                                                         *)
WeekInit ==
  /\ weeks = [y \in MigratedYears |-> generateWeeks(y)]
  /\ nextBanked = Cardinality(MigratedWeeks) + 1
  /\ banked = {[id |-> Cardinality({n \in MigratedWeeks : n <= day}), checkIn |-> day,
                label |-> Label(weeks, day), season |-> DefaultWeek] : day \in MigratedWeeks}
  /\ bankPage = [c \in Clerks |-> NoPage]
  /\ weekRequest = [c \in Clerks |-> NotAsking]
  /\ weekEdits = 0

AsksWeek(c, op) == weekRequest[c] = NotAsking /\ op \in Ops[c] /\ weekEdits < MaxEdits
AskWeek(c, q) ==
  /\ weekRequest' = [weekRequest EXCEPT ![c] = q]
  /\ weekEdits' = weekEdits + 1
  /\ UNCHANGED <<weeks, banked, nextBanked, bankPage>>
WeekGoOn(c, q) ==
  /\ weekRequest' = [weekRequest EXCEPT ![c] = q]
  /\ UNCHANGED <<weeks, banked, nextBanked, bankPage, weekEdits>>
WeekDone(c) ==
  /\ weekRequest' = [weekRequest EXCEPT ![c] = NotAsking]
  /\ UNCHANGED <<bankPage, weekEdits>>

-----------------------------------------------------------------------------
(* createRciWeekYear: refused for a year that has weeks, by the count or,  *)
(* of two at once, by the unique index.                                    *)
AddYear(c, year) ==
  /\ AsksWeek(c, "addYear") /\ year \notin DOMAIN weeks
  /\ AskWeek(c, [op |-> "create", year |-> year])

CreateYear(c) ==
  LET q == weekRequest[c] IN
  /\ q.op = "create"
  /\ weeks' = [y \in DOMAIN weeks \cup {q.year} |->
                 IF y \in DOMAIN weeks THEN weeks[y] ELSE generateWeeks(y)]
  /\ UNCHANGED <<banked, nextBanked>> /\ WeekDone(c)

(* deleteRciWeekYear: the Fridays of the year, the rows banked on one of   *)
(* them, the delete.                                                       *)
DropYear(c, year) ==
  /\ AsksWeek(c, "dropYear") /\ year \in DOMAIN weeks
  /\ AskWeek(c, [op |-> "strand", year |-> year, fridays |-> FriStarts(weeks[year])])

(* Mutation: matched on the year a row was banked under.                   *)
MutBankedAgainst(q) == {b \in banked : \E x \in b.label : x[1] = q.year}

BankedAgainst(q) == {b \in banked : b.checkIn \in q.fridays}

CountBanked(c) ==
  LET q == weekRequest[c] IN
  /\ q.op = "strand"
  /\ WeekGoOn(c, IF BankedAgainst(q) # {} THEN NotAsking ELSE [q EXCEPT !.op = "drop"])

DeleteYear(c) ==
  LET q == weekRequest[c] IN
  /\ q.op = "drop"
  /\ weeks' = [y \in DOMAIN weeks \ {q.year} |-> weeks[y]]
  /\ UNCHANGED <<banked, nextBanked>> /\ WeekDone(c)

-----------------------------------------------------------------------------
(* The bank page: the weeks of a year and the rows on their Fridays.       *)
OpenYear(c, year) ==
  LET rows == Calendar(year)
      Of(i) == {b \in banked : b.checkIn = rows[i].friStart}
      page == [year |-> year, fridays |-> [i \in DOMAIN rows |-> rows[i].friStart],
               stored |-> [i \in {j \in DOMAIN rows : Of(j) # {}} |-> (CHOOSE b \in Of(i) : TRUE).season]]
  IN
  /\ {"bank", "clear"} \cap Ops[c] # {}
  /\ weekRequest[c] = NotAsking /\ rows # <<>> /\ bankPage[c] # page
  /\ bankPage' = [bankPage EXCEPT ![c] = page]
  /\ UNCHANGED <<weeks, banked, nextBanked, weekRequest, weekEdits>>

(* An edit, what is stored, or, in a year with nothing stored, the default *)
(* where the unit is available.                                            *)
ShownWeeks(page, edits) ==
  [i \in DOMAIN page.fridays |->
     IF i \in DOMAIN edits THEN edits[i]
     ELSE IF i \in DOMAIN page.stored THEN page.stored[i]
     ELSE IF DOMAIN page.stored = {} /\ page.fridays[i] \in Covered THEN DefaultWeek ELSE Blank]

(* The cells that can be worked on: those that hold a week, of the others  *)
(* those the unit is available for.                                        *)
Workable(page) ==
  {i \in DOMAIN page.fridays : i \in DOMAIN page.stored \/ page.fridays[i] \in Covered}

SubmitBank(c, edits) ==
  LET page == bankPage[c]
      shown == ShownWeeks(page, edits)
      Was(i) == IF i \in DOMAIN page.stored THEN page.stored[i] ELSE Blank
  IN
  /\ AsksWeek(c, "bank") /\ page # NoPage
  /\ \/ \E i \in DOMAIN edits : edits[i] # Was(i)
     \/ DOMAIN page.stored = {} /\ \E i \in DOMAIN shown : shown[i] # Blank
  /\ AskWeek(c, [op |-> "calendar", year |-> page.year, shown |-> shown])

(* saveRciBulkBankYear reads the calendar, which must hold every week.     *)
LoadCalendar(c) ==
  LET q == weekRequest[c]
      rows == Calendar(q.year)
  IN
  /\ q.op = "calendar"
  /\ WeekGoOn(c, IF DOMAIN q.shown \subseteq DOMAIN rows
                 THEN [op |-> "diff", year |-> q.year, shown |-> q.shown,
                       fridays |-> [i \in DOMAIN rows |-> rows[i].friStart]]
                 ELSE NotAsking)

(* What is stored is matched on the check-in.                              *)
DiffBank(c) ==
  LET q == weekRequest[c]
      Stored(i) == {b \in banked : b.checkIn = q.fridays[i]}
      shown == {i \in DOMAIN q.shown : q.shown[i] # Blank}
      creates == {i \in shown : Stored(i) = {}}
      updates == UNION {{<<b.id, q.shown[i]>> : b \in {d \in Stored(i) : d.season # q.shown[i]}} :
                        i \in shown}
      deletes == {b.id : b \in UNION {Stored(i) : i \in DOMAIN q.shown \ shown}}
  IN
  /\ q.op = "diff"
  /\ WeekGoOn(c, IF creates = {} /\ updates = {} /\ deletes = {} THEN NotAsking
                 ELSE [op |-> "save", year |-> q.year, creates |-> creates, shown |-> q.shown,
                       updates |-> updates, deletes |-> deletes, fridays |-> q.fridays])

(* All or nothing: a week to create that overlaps a row that stays, or     *)
(* that is not covered, refuses the save.                                  *)
Refusable(q) ==
  \E i \in q.creates :
    \/ q.fridays[i] \notin Covered
    \/ \E b \in banked : b.id \notin q.deletes /\ b.checkIn \in (q.fridays[i] - 6)..(q.fridays[i] + 6)

RefuseBank(c) ==
  LET q == weekRequest[c] IN
  /\ q.op = "save" /\ q.creates # {}
  /\ WeekGoOn(c, NotAsking)

(* The transaction; a row that is gone is not regraded.                    *)
CommitBank(c) ==
  LET q == weekRequest[c]
      Rank(i) == Cardinality({j \in q.creates : j < i})
      Regraded(b) ==
        IF \E u \in q.updates : u[1] = b.id
        THEN [b EXCEPT !.season = (CHOOSE u \in q.updates : u[1] = b.id)[2]] ELSE b
  IN
  /\ q.op = "save" /\ ~Refusable(q)
  /\ banked' = {Regraded(b) : b \in {x \in banked : x.id \notin q.deletes}}
       \cup {[id |-> nextBanked + Rank(i), checkIn |-> q.fridays[i],
              label |-> {<<q.year, i>>}, season |-> q.shown[i]] : i \in q.creates}
  /\ nextBanked' = nextBanked + Cardinality(q.creates)
  /\ UNCHANGED weeks /\ WeekDone(c)

(* deleteRciBulkBankYear, offered on a page that shows a banked week.      *)
ClearYear(c) ==
  LET page == bankPage[c]
      rows == {b \in banked : b.checkIn \in FriStarts(Calendar(page.year))}
  IN
  /\ AsksWeek(c, "clear") /\ page # NoPage
  /\ DOMAIN page.stored # {} /\ rows # {}
  /\ AskWeek(c, [op |-> "clear", ids |-> {b.id : b \in rows}])

ClearRows(c) ==
  LET q == weekRequest[c] IN
  /\ q.op = "clear"
  /\ banked' = {b \in banked : b.id \notin q.ids}
  /\ UNCHANGED <<weeks, nextBanked>> /\ WeekDone(c)

WeekNext ==
  \E c \in Clerks :
    \/ \E year \in WeekYears : AddYear(c, year) \/ DropYear(c, year) \/ OpenYear(c, year)
    \/ CreateYear(c) \/ CountBanked(c) \/ DeleteYear(c)
    \/ /\ bankPage[c] # NoPage
       /\ \E cells \in SUBSET Workable(bankPage[c]) :
            \E edits \in [cells -> WeekSeasons \cup {Blank}] : SubmitBank(c, edits)
    \/ LoadCalendar(c) \/ DiffBank(c) \/ RefuseBank(c) \/ CommitBank(c)
    \/ (bankPage[c] # NoPage /\ ClearYear(c)) \/ ClearRows(c)

-----------------------------------------------------------------------------
WeekTypeOK ==
  /\ DOMAIN weeks \subseteq WeekYears
  /\ \A b \in banked :
       /\ b.id \in 1..(nextBanked - 1) /\ b.checkIn \in Nat
       /\ b.season \in WeekSeasons /\ Cardinality(b.label) <= 1
  /\ \A b, d \in banked : b.id = d.id \/ b.checkIn = d.checkIn => b = d
  /\ \A c \in Clerks :
       weekRequest[c].op \in
         {"idle", "create", "strand", "drop", "calendar", "diff", "save", "clear"}
  /\ weekEdits \in Nat

(* A year holds 52 or 53 weeks, each from a Friday to the next, the first  *)
(* on the first Friday of the year; consecutive weeks, and consecutive     *)
(* years, share their boundary; and the page said as much before.          *)
WeeksTile ==
  \A y \in DOMAIN weeks :
    LET rows == weeks[y]
        n == Len(rows)
        ofTheYear == Utc(<<y, 1, 1>>)..Utc(<<y, 12, 31>>)
    IN
    /\ n \in {52, 53}
    /\ \A i \in 1..n :
         /\ getUTCDay(rows[i].friStart) = 5
         /\ rows[i].friStart \in ofTheYear
         /\ i < n => rows[i].friEnd = rows[i + 1].friStart
    /\ y + 1 \in DOMAIN weeks => rows[n].friEnd = weeks[y + 1][1].friStart
    /\ previewYear(y) = [weeks |-> n, first |-> rows[1].friStart, last |-> rows[n].friEnd]

InCalendar(table, checkIn) == \E y \in DOMAIN table : checkIn \in FriStarts(table[y])

(* "Deleting the calendar would strand every week banked out of it": while *)
(* one clerk both keeps the calendar and banks, a row that is banked, or   *)
(* has a week of the calendar behind it, is not left without one, even one *)
(* migrated before its year was set up.                                    *)
BankedKeepCalendar ==
  [][<<weeks, banked>>' # <<weeks, banked>> =>
       \A b \in banked' :
         b.id >= nextBanked \/ InCalendar(weeks, b.checkIn) => InCalendar(weeks', b.checkIn)
    ]_weekVars
=============================================================================
