----------------------------- MODULE CpSeasons -----------------------------
(***************************************************************************)
(* The CP season calendar (Resorts Setup 9), a grade for each night:       *)
(*   backend/src/controllers/cp-seasons.controller.ts                      *)
(*   frontend/src/pages/resorts/CpSeasons.tsx                              *)
(*   prisma/migrate-cp-seasons.ts                                          *)
(*                                                                         *)
(* The page shows a month as it was fetched, days without a grade at the   *)
(* default, and a save writes every date shown.  A year is started as a    *)
(* clone of the one before.                                                *)
(*                                                                         *)
(* Left out: the checks that a save stays in its month and names no date   *)
(* twice (the page sends the month it shows), audit rows.                  *)
(***************************************************************************)
EXTENDS CalendarDates, Sequences

CONSTANTS
  SeasonMonths,    \* bound: months that are graded
  SeasonDays,      \* bound: days of a month that are looked at
  Seasons,         \* grades
  DEFAULT_SEASON,  \* 'S', Silver
  MigratedSeasons  \* rows of ps_seasondate.txt

DatesOf(y, m) == {<<y, m, d>> : d \in SeasonDays \cap (1..MonthLength(y, m))}
SeasonDates == UNION {DatesOf(y, m) : y \in Years, m \in SeasonMonths}

ASSUME SeasonAssumption ==
  /\ SeasonMonths \subseteq 1..12 /\ SeasonDays \subseteq 1..31
  /\ DEFAULT_SEASON \in Seasons
  /\ MigratedSeasons \in Seq(SeasonDates \X (Seasons \cup {"?"}))
  \* with a leap day, the day it rolls over to
  /\ 2 \in SeasonMonths /\ 29 \in SeasonDays => 3 \in SeasonMonths /\ 1 \in SeasonDays

VARIABLES
  seasons,       \* CpSeasonDate: a grade for each date in its domain
  seasonPage,    \* the month each clerk has open
  seasonRequest, \* what each clerk has asked for
  seasonEdits    \* requests so far

seasonVars == <<seasons, seasonPage, seasonRequest, seasonEdits>>

NoMonth == [year |-> 0]
NoRequest == [op |-> "idle"]

-----------------------------------------------------------------------------
(* The loader skips a row with an unknown grade, and of two rows of a date *)
(* the second.                                                             *)
Loaded(rows) ==
  LET graded == {i \in DOMAIN rows : rows[i][2] \in Seasons}
  IN [date \in {rows[i][1] : i \in graded} |->
        rows[CHOOSE i \in graded :
               /\ rows[i][1] = date
               /\ \A j \in graded : rows[j][1] = date => i <= j][2]]

SeasonInit ==
  /\ seasons = Loaded(MigratedSeasons)
  /\ seasonPage = [c \in Clerks |-> NoMonth]
  /\ seasonRequest = [c \in Clerks |-> NoRequest]
  /\ seasonEdits = 0

GradedIn(table, dates) == [d \in DOMAIN table \cap dates |-> table[d]]
Graded(year) == {d \in DOMAIN seasons : d[1] = year}
Over(new, old) ==
  [d \in DOMAIN new \cup DOMAIN old |-> IF d \in DOMAIN new THEN new[d] ELSE old[d]]

AsksSeason(c, op) == seasonRequest[c] = NoRequest /\ op \in Ops[c] /\ seasonEdits < MaxEdits
AskSeason(c, q) ==
  /\ seasonRequest' = [seasonRequest EXCEPT ![c] = q]
  /\ seasonEdits' = seasonEdits + 1
  /\ UNCHANGED <<seasons, seasonPage>>
SeasonGoOn(c, q) ==
  /\ seasonRequest' = [seasonRequest EXCEPT ![c] = q]
  /\ UNCHANGED <<seasons, seasonPage, seasonEdits>>

(* listCpSeasonMonth, when a month is opened and whenever it is fetched    *)
(* again.                                                                  *)
FetchMonth(c, y, m) ==
  LET page == [year |-> y, month |-> m, stored |-> GradedIn(seasons, DatesOf(y, m))] IN
  /\ {"grade", "dropMonth"} \cap Ops[c] # {}
  /\ seasonRequest[c] = NoRequest /\ seasonPage[c] # page
  /\ seasonPage' = [seasonPage EXCEPT ![c] = page]
  /\ UNCHANGED <<seasons, seasonRequest, seasonEdits>>

(* Mutation: only the days that were changed are sent.                     *)
MutShownDays(page, edits) == edits

(* What the page shows: an edit, what is stored, or the default.           *)
ShownDays(page, edits) ==
  Over(edits, Over(page.stored,
    [d \in DatesOf(page.year, page.month) |-> DEFAULT_SEASON]))

(* Save month is enabled by a change, or for a month without any grade.    *)
SubmitMonth(c, edits) ==
  LET page == seasonPage[c] IN
  /\ AsksSeason(c, "grade") /\ page # NoMonth
  /\ DOMAIN edits \subseteq DatesOf(page.year, page.month)
  /\ \/ DOMAIN page.stored = {}
     \/ \E d \in DOMAIN edits : d \in DOMAIN page.stored => page.stored[d] # edits[d]
  /\ AskSeason(c, [op |-> "save", days |-> ShownDays(page, edits)])

(* saveCpSeasonMonth: an upsert of each day in one transaction.            *)
SaveMonth(c) ==
  LET q == seasonRequest[c] IN
  /\ q.op = "save"
  /\ seasons' = Over(q.days, seasons)
  /\ seasonRequest' = [seasonRequest EXCEPT ![c] = NoRequest]
  /\ UNCHANGED <<seasonPage, seasonEdits>>

(* deleteCpSeasonMonth, offered on a page that shows grades.               *)
DeleteMonth(c) ==
  LET page == seasonPage[c]
      month == DatesOf(page.year, page.month)
  IN
  /\ AsksSeason(c, "dropMonth") /\ page # NoMonth
  /\ DOMAIN page.stored # {} /\ DOMAIN seasons \cap month # {}
  /\ seasons' = GradedIn(seasons, DOMAIN seasons \ month)
  /\ seasonEdits' = seasonEdits + 1
  /\ UNCHANGED <<seasonPage, seasonRequest>>

(* cloneCpSeasonYear: the source is read, the target year counted.         *)
SeasonCloneRead(c, year) ==
  /\ AsksSeason(c, "cloneSeason") /\ year + 1 \in Years
  /\ Graded(year) # {}
  /\ AskSeason(c, [op |-> "count", year |-> year + 1,
                   source |-> GradedIn(seasons, Graded(year))])

SeasonCloneCount(c) ==
  LET q == seasonRequest[c] IN
  /\ q.op = "count"
  /\ SeasonGoOn(c, IF Graded(q.year) # {} THEN NoRequest ELSE [q EXCEPT !.op = "clone"])

(* The rows of createMany, ordered by date: of two for one date the first  *)
(* is inserted, so that 29 February comes before 1 March.                  *)
Cloned(source) ==
  [date \in {NextYear(d) : d \in DOMAIN source} |->
     source[CHOOSE d \in DOMAIN source :
              /\ NextYear(d) = date
              /\ \A e \in DOMAIN source : NextYear(e) = date => Utc(d) <= Utc(e)]]

(* Mutation: the rows of the target year are replaced.                     *)
MutInserted(source) == Over(Cloned(source), seasons)

(* skipDuplicates: a date that has a grade keeps it.                       *)
Inserted(source) == Over(seasons, Cloned(source))

SeasonCloneWrite(c) ==
  LET q == seasonRequest[c] IN
  /\ q.op = "clone"
  /\ seasons' = Inserted(q.source)
  /\ seasonRequest' = [seasonRequest EXCEPT ![c] = NoRequest]
  /\ UNCHANGED <<seasonPage, seasonEdits>>

SeasonNext ==
  \E c \in Clerks :
    \/ \E y \in Years, m \in SeasonMonths : FetchMonth(c, y, m)
    \/ /\ seasonPage[c] # NoMonth
       /\ \E dates \in SUBSET DatesOf(seasonPage[c].year, seasonPage[c].month) :
            \E edits \in [dates -> Seasons] : SubmitMonth(c, edits)
    \/ SaveMonth(c) \/ (seasonPage[c] # NoMonth /\ DeleteMonth(c))
    \/ \E year \in Years : SeasonCloneRead(c, year)
    \/ SeasonCloneCount(c) \/ SeasonCloneWrite(c)

-----------------------------------------------------------------------------
SeasonTable(t) == DOMAIN t \subseteq SeasonDates /\ \A d \in DOMAIN t : t[d] \in Seasons

SeasonTypeOK ==
  /\ SeasonTable(seasons)
  /\ \A c \in Clerks :
       /\ seasonPage[c] = NoMonth \/ SeasonTable(seasonPage[c].stored)
       /\ LET q == seasonRequest[c] IN
            \/ q = NoRequest
            \/ q.op = "save" /\ SeasonTable(q.days)
            \/ q.op \in {"count", "clone"} /\ SeasonTable(q.source)
  /\ seasonEdits \in Nat

(* "CP booking has no season for an ungraded day": however saves, deletes  *)
(* and clones of whole months and years overlap, a month has a grade for   *)
(* all its days or for none, but for the leap day: a year cloned from a    *)
(* common one has none for 29 February, and that of a leap year may bring  *)
(* one for a 1 March whose month had none.                                 *)
MonthsGradedWhole ==
  \A y \in Years, m \in SeasonMonths :
    LET graded == DOMAIN seasons \cap DatesOf(y, m) IN
    \/ graded \subseteq {<<y, 3, 1>>}
    \/ DatesOf(y, m) \subseteq graded \cup {<<y, 2, 29>>}

(* "A second click must not silently discard grading that has already been *)
(* corrected in the target year": a grade changes only when its own month  *)
(* is saved or deleted, and a day that a clone grades gets the grade its   *)
(* month and day had in the year before (1 March may get that of the leap  *)
(* day).                                                                   *)
CloneKeepsGrades ==
  [][\A c \in Clerks :
       LET q == seasonRequest[c]
           cloned == DOMAIN seasons' \ DOMAIN seasons
       IN q.op = "clone" /\ seasonRequest'[c] # q =>
            /\ \A d \in DOMAIN seasons : d \in DOMAIN seasons' => seasons'[d] = seasons[d]
            /\ \A d \in cloned \ {<<q.year, 3, 1>>} : seasons'[d] = q.source[<<q.year - 1, d[2], d[3]>>]
    ]_seasonVars
=============================================================================
