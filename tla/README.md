# LMMS: formal models of the leisure-membership back office

TLA+ models of this repository: what the request handlers of the server
(`backend/`, Express and Prisma on PostgreSQL) do to the shared tables, what the
pages of the client (`frontend/`, React with a query cache) send them and from
which copies, and what must hold whatever order all of that runs in.
`PROJECT.json` names, for every definition, the lines it is translated from.

## The system

One Node process serves every clerk. A handler is an async function: it reads
rows, checks them, and writes - usually in a `prisma.$transaction` - what it
computed from the rows it read. Handlers interleave wherever one awaits, the
database runs transactions READ COMMITTED, and hardly any row is locked. That
is the execution model of every module: a request has a local record
(`handler[c]`, or `...Request[c]`), an action is the stretch between two awaits
that matters to others, and a transaction is one action unless it reads rows it
later writes back as absolute values, in which case the reading is an action of
its own.

The client adds a second source of age. A page shows what its query cached
(`staleTime` is 30 seconds, `App.tsx:58`), a form is filled from that copy, and
what is sent later is computed from it. Modules with a page in them keep that
copy as a variable of the clerk; it is refreshed after the clerk's own save, and
otherwise at any time or never.

### Inventory

| Component | State | Operations | Hard part | What makes it right | Module |
|---|---|---|---|---|---|
| AMC invoices, day end | `AmcInvoice`, `AmcSchedule`, `AmcInvoiceCounter`, SL_IV files | generate, cancel, day end, download | rows read once per run, a number handed back, a file written before its rows are marked | numbers unique, term respected, marked means exported | `AmcBilling` |
| Agreement status | `acctClassify`, `billingStatus` | PATCH status | authority decided on a status that may be old | a termination is Finance's and IT's | `AmcBilling`, `Members` |
| Units, blocks, maintenance, RCI bank | `ResortUnit`, `AptBlock`, `ResortMaintenance`, `RciBulkBank`, `ResAvailMast` | create, batch, update, delete, save and clear a year | counters kept by deltas, guards before the transaction, rows tied to a unit by its number alone | each unit-night offered and held once, counters exact, no row left behind | `AvailabilityGrid` |
| PBS | `PbsScheme`, `PbsClaim` | scheme save, claims, auto-transfer, pay-by-month | numbers by maximum plus one, three statements without a transaction | numbers unique, the export is the run | `PbsClaims` |
| Sessions, users, rights | `User`, `DeptModulePermission`, `UserReportAccess`, cookies | login, forced login, logout, password, create, clone, suspend, delete, reset, grants, departments | values read before `bcrypt`, pages that remember old rights | one session, an administrator left, pages and routes agree | `Accounts` |
| RCI enrolment | `RciEnrolment` | pick, create, edit, delete | look-up before the write, migrated duplicates | one per agreement, a number has one membership | `RciEnrolment` |
| Masters, season points | `Product`, `Resort`, `LvcCode`, `ApartmentType`, `SeasonPoint` | create, update, delete with counts; save, move, delete charts | no foreign keys, checks before the transaction | references resolve, a chart is one save | `ResortSetup` |
| Holidays | `Holiday` | create, update, delete, clone a year | two look-ups before the write | breaks stay apart | `Holidays` |
| CP seasons | `CpSeasonDate` | save, delete a month, clone a year | whole-month saves from an old page | months whole, clones keep what is there | `CpSeasons` |
| RCI weeks | `RciWeek`, `RciBulkBank` | add, delete a year, bank, clear | no reference from bank to calendar | weeks tile, banked weeks keep theirs | `RciWeeks` |
| Reports | none of their own | nine previews and downloads | ten queries repeat the same rules | they agree | `Reports` |
| Entitlement | usage tables | the card of an agreement | anniversaries, leap days, expiry | every night and point is accounted for | `Entitlement` |
| Members, nominees | `Member`, `Nominee` | create, edit from forms | forms of any age, sent whole or in part | a save takes nothing further back than its form | `Members` |
| Lists | URL or page state | search, filter, sort, page, back | debounce timer, history | the page shown exists | `Listings` |
| AMC rates, audit, HTTP wiring, deployment | single rows, appends | - | - | - | not modelled |

The components meet in shared tables only. Day end reads and marks what generate
creates; cancel deletes it and rewinds the schedule generate reads; a status
change opens and closes that schedule. Blocks, maintenance and bank each guard
themselves against the rows of the others, and all three write the grid. The
week calendar is what weeks are banked from. A chart is priced on a resort, and
a resort or LVC code names a product. Everything else touches tables of its own,
which is why the smaller models are put side by side in two compositions.

## Modules

| Module | Models |
|---|---|
| `AmcBilling` | generate, cancel, day end and status change over one database |
| `AvailabilityGrid` | units, blocks, maintenance, bank and the grid of one resort |
| `UnitNights` | abstract specification: what a save may do to unit-nights |
| `PbsClaims` | schemes, claims, auto-transfer and its two screens |
| `Accounts` | users, sessions, rights, and the pages that go by them |
| `RciEnrolment` | the register of enrolments and its screen |
| `ResortSetup` | masters and season points charts |
| `CalendarDates` | dates and `Date.UTC`, for the three calendars |
| `Holidays`, `CpSeasons`, `RciWeeks` | the three calendars, banked weeks included |
| `BackOffice` | composes `ResortSetup` and the calendars |
| `Reports` | nine reports |
| `Entitlement` | the card of nights or points; extends `Reports` for the agreements |
| `Members` | the forms of members, nominees and status |
| `Listings` | seven paged lists |
| `FrontDesk` | composes `Entitlement`, `Members` and `Listings` |
| `MC*` and `.cfg` | small instances for TLC |
| `*Proofs` | theorems checked by TLAPS (eight modules) |

The two compositions have a variable `desk` that says what is worked with, as
no request of one part reads or writes a table of another: a behaviour of the
composition is a behaviour of one part, and one run explores them all.

### AmcBilling

State: `classify` (agreement status), `schedule`, `invoices`, `counter`,
`slFile` (the day's export file), `handler`; `minted` bounds a behaviour and
names rows, `exported` remembers what any file ever held. The A, K, S and Y rows
that one billing creates, and that are deleted together, are one record. Months
are integers, since invoices are dated the first of a month.

| Code | Actions |
|---|---|
| `generateInvoices` | `GenerateRead` (due rows, once), then per schedule `GenerateSkip`, `GenerateBill` or `GenerateRollback` |
| `cancelInvoice` | `CancelRead`, `CancelCheck`, `CancelCommit` |
| `generateDayEnd` | `DayEndRead`, `DayEndWrite`, `DayEndMark` |
| `changeAgreementStatus` | `StatusRead`, `StatusCommit` |
| failed transaction, end of process | `RequestFails`, `Crash` |

The starting state is the database the migration leaves: new schedules, one
with an invoice from before the roll-back snapshot existed (`Legacy`), one fully
billed yet open (`Overrun`), counters seeded or not.

What the model shows of the code and no property forbids: cancelling an older
year while a later one is live gets the later year billed again
(`invoices.controller.ts:470`); the second day end of a date overwrites the file
of the first; a schedule suspended between the read of a run and its billing is
billed all the same.

### AvailabilityGrid and UnitNights

State: `unitType`, `blocks`, `maint`, `bank`, the grid `act`/`bal` by type and
day (0 for no row), `handler`, and two histories: `renamed`, the numbers whose rows
an edit parted from their unit, and `retyped`, the types mixed under one number.
`updateResortUnit` is `UnitUpdate`: it changes the number or the type or both, and
looks at nothing but the unique index. Every other write handler is
an `...Ask` action (the guards before its transaction), a `GridRead` where the
transaction reads grid rows first (with the guards `createMaintenance` evaluates
there), and a `...Commit`. `Offered`, `BlockDeleteCommit`, `applyMaintDelta` and
`applyBankDelta` are the code's delta functions, floor, ceiling and row deletion
included. `Abandon` is any rollback: the guard in the transaction, a unique
index, a row that has gone.

A read value is written back whole by maintenance and block deletion, and
incremented in place by block creation and the bank, as in the code. Maintenance
reads its rows day by day; here they are read in one step, which gives fewer
interleavings than the code has. The weeks are a constant set; their calendar is
`RciWeeks`.

Known from the model and left standing: the Edit form of a unit sends its number
(`resort-units.controller.ts:88`, written at `100-102`), and nothing stops a unit with
blocks, maintenance or banked weeks from being given another. Its rows then stay
under a number no unit has. The comment over the guarded delete
(`resort-units.controller.ts:119-123`) says that no orphan is ever left behind; that is
true of deletes only, which is what `NoOrphansUnlessRenamed` says: the only rows without
a unit are those an edit took the number from, in one request and without any
interleaving. If the old number is then given to a unit of another type, clearing an
old banked week gives back to a type it was never taken from, although no unit changed
its type; `retyped` counts such a number, so that `BalanceExactUnlessRetyped` leaves
its types out, and no others. A number that is free when its rows are gone is clean
again: `UnitCreate` and block batches, which register units too, mix types only
under a number that still has rows of another type.

`UnitNights` says what the screens promise: a night is closed, open,
maintained or banked; a save opens, closes, or moves nights between open and one
kind of hold, and a held night becomes open before anything else happens to it.
`AvailabilityGrid` implements it under `nightOf`, computed from the rows
(`PoolSpec`).

### PbsClaims

State: `scheme`, `claims`, `handler`, and of each clerk the page of a scheme,
the preview of a month and the result of the last run. `createClaim` is
`ClaimAsk` (the number is read), `ClaimRow`, `SetIndicator`, three statements
without a transaction; `runAutoTransfer` is `RunAsk` (the matches), `RunCount`
and `RunCommit`; a deletion is split the same way; `Abandon` ends a request
between any two. `totalRM` is the sum of the pay-by-month report.

### Accounts

State: the three tables, `logins` (which names sessions), and per browser its
cookie, the user its pages go by (`me`) and the request in flight. A request
is one step for its guards and reads and one for its writes, since the password
hash and the database are awaited in between. `Refused`, `Expire` and `Reload`
are a 401, the end of a token and a reload of the page.

`updateUser` accepts another department, but no page sends one, so that is left
out. `AdminRemains` holds while one browser suspends and deletes and IT alone has
the right to edit users: two removers at once each count the other's account,
and a department with that right can suspend through a route that does not count.

### RciEnrolment

State: `enrolments`, and per clerk the cached list, the answer of the agreement
picker, the request and its answer. `createEnrolment` is `CreateAsk`,
`CreateCheck`, `CreateCount` and `CreateRow`; `updateEnrolment` is `UpdateAsk`,
`UpdateLoad`, `UpdateCheck` and `UpdateWrite`. The refetch after a clerk's own
save is taken to have answered before the next click; the picker's answer is
never refreshed by a save, as in the code. Two clerks who write numbers at once
can give one number to two memberships, and two who edit can block each other:
those properties are stated for one.

### ResortSetup

State: the four masters, the charts (`points`, a row for a room type, with the
save it came from), the request of each clerk, the list of products the
clerk's forms offer and the rate that is open. `saveVersionSchema` is `LoadResort`,
`CheckRows`, `CheckDate`, then the two statements of the transaction,
`DropVersion` and `CommitRate`. A delete of a product or type is a count and a
removal; the write of a resort or LVC code is a look-up and a write.

Known from the model and left standing: `deleteProduct` counts every user of a
code but the season points (`products.controller.ts:117` says the count is "the
only thing stopping a delete from orphaning live data"); a resort's product can
be changed, after which the type of its charts no longer matches; saving a
version that was deleted meanwhile writes it again, at a date before the latest
if that is where it was; two clerks who save charts at once can merge two charts
of different room types under one date.

### The calendars

`Holidays`, `CpSeasons` and `RciWeeks` share `CalendarDates`, where a date is
year, month and day and `Date.UTC` rolls 29 February of an ordinary year over to
1 March. A create of a school break is `CheckOverlap`, `CheckName`, `WriteHoliday`;
clones read, count and write; a month of seasons is sent as it was shown; adding
a year of weeks, deleting it, banking and clearing are split where they await.

Cloning a leap year: the comment at `cp-seasons.controller.ts:163-166` says the
rolled-over 29 February is dropped by `skipDuplicates`. The rows go in date order,
so 1 March gets the grade of the leap day and its own is the one dropped. Two
cloned school breaks can share that 1 March. Both properties name the exception.
A month, or a year of the bank, that is saved from an old page overwrites what
another clerk did; a year of weeks deleted while another clerk banks out of it
leaves weeks without a calendar, so the property is stated for one clerk who
does both.

### Reports, Entitlement, Members, Listings

`Reports`: each report is a function of the tables written as its controller
writes it (its own query, loop, grouping and totals), previewed for the filter that
was applied and downloaded for the one in the form. A request reads one state; a
document that was read before a change is `Stale` and not compared. Rows of equal
sort key are in the order of their numbers: `SortedBy` gives every row the place
that its number of predecessors says. A claim's number stands for its id. An agreement
of 29 February expires on 1 March, as in the lists. Members without an agreement are
not in the model, nor are page breaks. Two things the code does are exceptions in the
properties: the order of expiring members ranks every company but 03, 15 and 02 alike
(`expiring-members.report.ts:92-97`), so that their headers may repeat, and a price
below zero has a positive remaining value in the years after its agreement ended
(`remaining-value.report.ts:78-86`).

`Entitlement`: only the day moves. The Acc column of the card shows seven nights
that never were in the first membership year and again after the term
(`nights_expired`); agreements that ended before their term, or whose anniversary
moves to 1 March, are outside `EntitlementAccounted`. So is one day of an agreement that
expires on a 1 March: on 29 February "today plus a year" is 1 March
(`agreements.controller.ts:226`), so that its last year, still owed, is in no column
(`LeapDayBefore`; one of the agreements of the run is such a one). The comment over the
columns (`agreements.controller.ts:185-186`) speaks of calendar years; the code, and
the model, of membership years. A page open over midnight is not compared.

`Members`: a form is filled from the cached row and again when that changes, which
discards typed text; both keep which columns were typed in since. A save of a member
sends the columns its form has, so that a column it was loaded with goes back over
what another clerk wrote, and one that was empty stays. The form of nominees keeps an
empty text for an empty column and sends it as null (`AgreementDetail.tsx:89-90`,
`109-110`; written at `nominees.controller.ts:40-41`): a page loaded before another
clerk filled a telephone number empties it again, though nobody typed there.
`SavesKeepOthers` names that as an exception: a column that was not typed in, of a
nominee the page was loaded with, is after the save what the page was loaded with, and
nothing older; of a nominee it was loaded without, and of a slot without a name, what
was stored. The text of a nominee form that was cancelled stays and is saved later.
`changeAgreementStatus` is a check and a write, and Credit can undo a termination that
was committed between them, the second exception named: it cannot undo one that its
request was checked against, nor terminate. `MemberForm` calls a hook after an
early return, so the edit page works only for a member that is already cached, as
modelled. `agreementsApi.update` and `membersApi.changeStatus` are called by no page.

`Listings`: the timer of a search text keeps the parameters there were when the text
was typed, so it drops a filter or order chosen within its 350 ms; Back within
Members or the audit log leaves the form as it is, though a comment says they
match; Agreements and PBS start their timer on mount, which takes Back to page 1.
The total of a search is a constant.

## What is checked

Nine runs pass.

| Run | Shows |
|---|---|
| `amc_serial` | one request at a time, all operations, crashes anywhere: types; a processed invoice is in a file that was written; every billing run ends |
| `amc_shared` | two requests at every await, one clerk cancelling: numbers unique, no year past the term, no schedule loses its due date |
| `grid_serial` | one request at a time, all operations: the grid equals the rows, a unit-night is offered once, held once and only if offered, only an edit of a unit orphans rows |
| `grid_shared` | two clerks at every step, one offering, one withdrawing: counts exact, balances in range, `UnitNights` implemented |
| `pbs_shared` | one clerk creates claims and runs the transfer, one saves, edits and deletes, on old pages: numbers unique, the export of a run is that run's, the report announces what a run claims |
| `accounts` | an administrator at one browser, people logging in, suspending and deleting at another: one session, an administrator remains, pages offer what routes allow |
| `rci` | one clerk enrols and edits, one enrols with the placeholder and deletes: serials unique, one enrolment per agreement, numbers stay with their membership, no edit blocked for its own number |
| `back_office` | masters and charts, holidays, seasons, weeks: a chart is one save, a new rate supersedes and changes nothing earlier, references resolve, breaks apart, months whole, clones keep grades, weeks tile, banked weeks keep their calendar |
| `front_desk` | reports, cards, forms, lists: reports agree, nights and points are accounted for, a save changes what its clerk typed and otherwise goes back no further than its form, the page shown exists |

Three runs exhibit a disagreement between a statement of the repository and the
code; each is in `PROJECT.json` under `findings` with its quotation.

| Run | Disagreement |
|---|---|
| `amc_double_cancel` | two cancellations of one invoice lead to a repeated number |
| `pbs_twice` | a claim whose request ends before the indicator is set is claimed again by the next run |
| `nights_expired` | an agreement that expired more than a year ago still carries seven nights forward |

Every property of a passing run has a mutant in `PROJECT.json`: a plausible bug
in one definition under which TLC finds the property violated.

### Bounds

- `amc_serial`: two schedules (a CP one whose counter row is missing, an LHC one
  with an older invoice), terms of two years, two billing months, two new sets:
  enough to bill the final year, to cancel with and without a snapshot, and to
  do both around a day end.
- `amc_shared`: two requests, two LHC schedules sharing one number sequence with
  no counter row, a one-year schedule that arrives fully billed, three new sets:
  enough for a number to be handed back and issued again while another request
  holds older rows. `NewStatuses` is {NA}, which reopens a closed schedule: the
  case that can carry a schedule past its term.
- `grid_serial`: two units of one type and a second type to move to, two days,
  one RCI week of two nights, at most four rows. Two days are the least for
  ranges that overlap without being equal; two units of one type the least for a
  balance strictly between its floor and its ceiling. Only `u` may be edited (to the
  number of `v`, once that is free, or to another type) and only `u` banked.
- `grid_shared`: the same resort with up to five rows: both units offered on
  overlapping ranges and withdrawn again, with a lost increment in between.
- `pbs_shared`: two schemes due in one month, two months, two saves that create
  claims: a number read before another claim is deleted, and a month changed on
  screen while its run is on.
- `accounts`: an IT user and a free name, two sessions, two attempts before the
  lock: a forced login during another one, the last administrator suspended
  while another is created.
- `rci`: two memberships with an agreement each, two numbers, one of them migrated
  under both, two creates.
- `back_office`: a resort, an LVC code, two products and two room types, three dates
  (a rate before, at and after another), two chart saves and two other writes; the
  calendars of 2028 and 2029 around the leap day, with three dates for breaks, days 1 and
  29 of February and March, the week years 2027 (53 Fridays) and 2028, which is still
  to be added though a week of it is banked, three requests each.
- `front_desk`: eight agreements at the edges of the reports, two of them with a payback
  scheme, three claims, one to three filters of each report, one change and one turn of the
  year; every day from 30 June 2026 to 1 April 2028 for the cards (days
  around expiry and a year later in `nights_expired`); three clerks of three
  departments, two saves, two entries keyed; five clicks in a list, with searches of
  195, 45, 160 and no rows, so that last pages are full, partly full and missing
  and the seven numbered buttons have to move. `PreviewLimit` is 1 for the code's 20.
- `MaxMint`, `MaxRows`, `MaxRanges`, `MaxSaves`, `MaxEdits`, `MaxMasterEdits`,
  `MaxLogins`, `MaxCreates`, `MaxChanges`, `MaxYears`, `MaxKeys`, `MaxClicks`, and
  the sets `NewStatuses`, `Periods`, `Editable`, `Opened`, `FormTypes`, `Toggled`,
  `Typed`, `Filters`, `Years` and `WeekYears` bound the runs and nothing in the code.

Several runs divide the work between clerks. With two clerks doing anything they
like at once many of these properties do not hold: the code checks before it
locks, and writes back what it read. What a second clerk of the same kind
breaks is said in the notes of the hazards, and it is an explicit assumption of
each theorem below. `grid_shared` divides the work too: if one clerk offers and
another withdraws, only the exact balance is lost, and the floor in
`applyMaintDelta`, which no sequence of single requests reaches while types stay
put, is what keeps a drifted balance from going negative. Block deletion is in
neither clerk's share: its absolute write of `actNight` is compatible with neither.

Deadlock is checked except where the bounds on saves or clicks end a behaviour
(`accounts`, `back_office`, `front_desk`, `nights_expired`).

### Fairness

`FairSpec` of `AmcBilling` asks weak fairness of `Continue(c)`: the event loop
resumes a handler whose await has settled. Nothing is assumed of clerks
(`Request`) or crashes. It is used by `GenerateEnds` alone: a run works through
its list, each schedule being billed, skipped or rolled back, so it answers even
if every transaction fails. No other handler loops, and what clerks do next is
nobody's obligation, so no other module states fairness.

## What is proved

For every value of the constants that satisfies the named assumptions of the
modules. Each theorem beyond types rests on an inductive invariant that adds to
the property what a request in flight may rely on. Where a theorem has a
hypothesis, it says which kinds of work are one clerk's: who does the rest is
left open, and so is their number.

| Module | Theorem | Statement |
|---|---|---|
| `AmcBillingProofs` | `TypeCorrect` | `Spec => []TypeOK` |
| | `NumbersStayUnique` | `SingleCanceler`: `[]NumbersUnique` |
| | `CounterStaysAhead` | `SingleCanceler`: `[]CounterCoversLive` |
| | `NoScheduleStranded` | `[]NeverStranded` |
| | `NoYearPastTerm` | `[]BilledWithinTerm` |
| | `MarkedWasInFile` | `[][NoneBilledMeanwhile]_vars`: `[]ProcessedWasExported` |
| | `ProcessedInTurn` | `OneAtATime`: `[]ProcessedWasExported` |
| `AvailabilityGridProofs` | `GridTypeCorrect` | `[]TypeOK` |
| | `UnitsOfferedOnce` | `SingleOfferer`: `[]OneBlockPerNight` |
| `AvailabilityHoldsProofs` | `NightsHeldOnce` | `SingleKeeper`: `[]HeldOnce` |
| | `HeldNightsOffered` | `RemoverHoldsAlone`: `[]HeldIsOffered` |
| | `GridImplementsPool` | both: `PoolSpec`, the refinement of `UnitNights` |
| | `RowsKeepTheirUnits` | `DeleterAddsAlone`: `[]NoOrphansUnlessRenamed` |
| | `OfferedUnitsCounted` | `RemoverOffersAlone`: `[]ActCountsBlocks` |
| | `ChartInRange` | `SingleWriter`: `[]BalanceInRange` |
| | `BalanceIsExact` | `OneWriter`: `[]BalanceExactUnlessRetyped` |
| `PbsClaimsProofs` | `PbsTypeCorrect` | `[]TypeOK` |
| | `ClaimNumbersUnique` | `SingleCreator`: `[]RefNosUnique` |
| | `ExportsAreRuns` | `[]ExportIsTheRun` |
| | `ReportAnnouncesRun` | `[]PayByMonthAgrees` |
| `AccountsProofs` | `AccountsTypeCorrect` | `[]TypeOK` |
| | `SessionsExclusive` | `[]OneSession` |
| | `AdministratorRemains` | `SingleRemover`, `OnlyITEdits`, `SeededAdmin`: `[]AdminRemains` |
| | `PagesAgree` | `[]PagesMatchGuards` |
| `RciEnrolmentProofs` | `RciTypeCorrect` | `[]TypeOK` |
| | `RciSerialsUnique` | `[]SerialsUnique` |
| | `RciEnrolledOnce` | `[]EnrolledOnce` |
| | `RciNumbersStay` | `OnlyWriter`: `[]RciNoOneMembership` |
| | `RciEditNeverBlocked` | `OnlyEditor`: `[]EditNeverBlocked` |
| `BackOfficeProofs` | `BackOfficeTypeCorrect` | `[]TypeOK`, all four parts |
| | `SetupTypeCorrect` | `[]SetupTypeOK` |
| | `ReferencesStay` | `OneMasterClerk`: `[]ReferencesResolve` |
| | `ChartsWhole` | `OneChartSaver`: `[]VersionsWhole` |
| | `RatesSupersede` | `OneChartSaver`: `NewRateSupersedes` |
| | `BreaksStayApart` | `OneSchoolClerk`, `SeedsApart`: `[]SchoolBreaksDistinct` |
| | `ClonesKeepGrades` | `CloneKeepsGrades` |
| | `MonthsStayWhole` | `MigratedWhole`: `[]MonthsGradedWhole` |
| | `YearsTile` | `[]WeeksTile` |
| | `BankedWeeksKept` | `OneBanker`: `BankedKeepCalendar` |
| `FrontDeskProofs` | `FrontDeskTypeCorrect` | `[]TypeOK`, all parts |
| | `ListTypeCorrect` | `[]ListTypeOK` |
| | `PagesExist` | `[]ListPageExists` |
| | `FormsKeepOthers` | `SavesKeepOthers` |
| | `CardsAccounted` | `[]EntitlementAccounted` |
| | `ReportsAgree` | `[]ReportsReconcile` |

**Billing.** Type correctness is already an argument about protocol: the year of a
set is positive, so a cancellation rolls the count back to a natural number.
Uniqueness is not inductive: a cancellation hands back a number read long before.
`NumberInv` adds that the counter, once it exists, covers the live numbers, that
only cancelling clerks cancel, and that a set about to be cancelled is still live
under the number read. The last fails with two cancelling clerks
(`amc_double_cancel`), hence `SingleCanceler`; any number of others may generate,
export and change statuses meanwhile. `TermInv` says that issued counts and years
stay within the term, that a schedule without a due date is fully billed, and that
a cancellation in flight, once checked, has a due date to restore; it assumes
nothing about who cancels. Day end (`ExportInv`): the unprocessed invoices of its day
are among those it read, and in a file once it has written. Only an invoice billed
for that day between read and mark breaks this, so that is the whole hypothesis of
`MarkedWasInFile`, an action formula; two day ends, or a cancellation during one,
are harmless. Clerks who take turns satisfy it (`ProcessedInTurn`).

**Grid.** `TypeOK` is not inductive: `GridInv` adds that tables are finite, which
is why a new row finds a free id (a pigeonhole argument, `FreshId`), and that a
request on its way to the grid knows an apartment type. The other invariants are of
one form: what a guard before the transaction found is still true at the commit, as
long as the other clerks only take away what could make it false.

- `OfferInv`: the units a request names are free on its days while nobody else
  creates blocks.
- `HoldInv`: the nights a withdrawal or a saved week found unheld stay so, and a
  record's id names one record. Two guards in two tables look at both, so one
  clerk at most may hold nights.
- `CoverInv`: a night to be held has its block, and a block to be deleted holds
  nothing. Withdrawing and deleting blocks each rest on the other not happening:
  `RemoverHoldsAlone` forbids exactly that pair.
- With these two every step maps to a step of `UnitNights` or a stutter
  (`GridImplementsPool`): saves open nights that were closed, close open ones, and
  pass from one hold to another only through open.
- `OrphanInv`: a number that rows have, or that a request is about to save rows
  under, has a unit or was parted from it by an edit; a unit to be deleted carries
  no row, unless by such an edit. A delete follows its unit to another number, so that an
  edit between its search and its write is harmless.
- `ActInv`: `actNight` is the number of blocks of its type and day, and what a block
  deletion read of it is what it still is; block creation increments in place and
  never hurts, so only the deleter has to be alone among those who offer.
- `RangeInv`: what a writer of the grid has read is as far behind in `actNight` as
  in `balNight`, so its absolute or clamped write leaves the balance between zero
  and `actNight`, units being offered meanwhile.
- `ExactInv`, for one clerk who writes: the floor, the ceiling and the deletion of
  empty rows never act, and a balance is `actNight` less the units held, except for
  the types mixed under one number: the type of a unit and those its number's rows were
  filed under are one (`KindsAlike`), or an edit lies between them. Others may register
  and edit units meanwhile. It rests on all of the above.

**Claims.** A number is read before its row exists. `NumberInv` adds that whoever
creates holds, for each scheme of the request, a number above all live ones;
others delete and edit, which never raises the maximum. `RunInv`, for any number of
clerks who do anything: no save moves a scheme's due month, since pages send back the
one it always had; a run in flight has schemes due in its month; and the ids in a
result are older than any claim still to be created, so that no later claim gets into
an export. The total of the pay-by-month report is a count per kind and the transfer
a sum over its schemes: `SumIsWorth` shows them equal by the smallest set of schemes
at which they would differ.

**Accounts.** A token is let through while its session is the user's; a login
gives a fresh one, which is the argument of `SessionsExclusive`. For the
administrators, `AdminInv` says that a suspension or deletion that passed its count
leaves another active IT account at its commit: only the one remover removes, and
nobody moves users between departments.

**Enrolments.** Serials are allocated by a maximum and guarded by a unique index.
That ids stay their own (`IdsInv`) and that a look-up stays true until the write
(`NumbersInv`, for the one clerk who writes numbers) give the others.

**Resorts Setup.** `RefInv`: the product a form names still exists when it is
written, and one about to be removed is still unused, because the one clerk of the
masters has one request. `SaveInv`: from its date check to its commit, a save's
date stays free or is the version it replaces, the latest rate stays before it, and
what it deleted covers the version at its date; the other clerks only delete rows,
which preserves all three. Both conclusions need the second statement of the
transaction to see the rows the first one did.

**Calendars.** Dates are records of numbers; the lemmas on `Utc` and `NextYear` say
that they are ordered alike, but that 29 February and 1 March may meet.
`ApartInv`: the overlap and the name a break was checked for stay free while one
clerk writes school breaks. Cloning needs that distinct breaks stay distinct a year
on, up to a shared 1 March. `SeedsApart` is true of the breaks the seed file has
(`seed-holidays.ts`). `SeasonInv` and `WholeInv`: a month shown or read by a clone is
a whole month of the table at that time; a clone fills only days that have no grade.
`MigratedWhole` is what `migrate-cp-seasons.ts:22` says of the file it loads. `WeekInv`:
the weeks in the table are the Fridays that adding their year makes, and adding a
year makes each Friday of it once, so that years tile; it includes the division by
seven. `KeepInv`: a drop of a year found none of its Fridays banked, a save of the
bank found the year's calendar, and both stay so for the one clerk who does either.

**Front desk.** `ListInv`: the parameters on screen, and those Back returns to, name the
first page or one that has rows. Every way to change the search goes to page 1, and
every button to a page of the answer. `FormInv`: an entry of a form nobody typed in is
what the form was loaded with, a loaded nominee is shown whole (`SoundSlot`), and a status
request under way has a reason its status asks for and was allowed for the status that
was read; from it follows what each save may change, the two exceptions named.
`EntitlementInv`: today is a date, since the day
after a date is the next one (`NextDate`).

A card and a document are functions of the tables, so that the invariants on top of
these are short and the work is in what the functions compute. `CardInv`: an open page
is the card of the day. `DocumentsInv`: a preview that is not stale, and a file, are what
the tables as they are make of some report and filter; every change of a table makes the
one stale and forgets the other (`SameBuild`: nothing else is read). Both rest on a small
library. Sums over finite sets have a defining equation and do not depend on the order of
adding (`SumUnfold`, `SumIs`, `SumUnion`); induction being out of reach, each of these is
proved by a smallest set on which it would fail, as is that a finite set of numbers
has a greatest (`HasGreatest`). Sorting lists every element of a finite set once and
in order of its key (`RowsInOrder`), though it is written by ranks and not by a recursion.

- Cards (`CardsAccounted`): the forfeited years, the columns and the years ahead are
  disjoint and make up the term, whatever the day; the current column is the membership
  year of the day since the anniversary taken from the expiry falls on the day of the
  agreement. For points, the rows split by year, and what is carried forward is
  not forfeited.
- Reports (`ReportsAgree`): for each report that lists, its rows are the members of a
  set, one each (`ExpiringRows`, `ValueRows`, `AgreementRows`, `MemberRows`,
  `MissingRows`, `ComparedRows`); for each that counts, its cells are cardinalities of
  parts of the same set by status, company and year (`SummaryCounts`, `CountParts`,
  `CountFour`). The agreement of two documents is then that of two sets. Previews are
  prefixes (`FirstRows`).

The assumptions the proofs rest on are in the modules whose constants they are about,
and TLC evaluates them: types of rows and files, dates that are dates
(`DaysAssumption`, and `DatesAssumption` for the `DateTime` column of agreements), finitely
many rows of points, filters of the summary that the handler does not answer with 400
(`FiltersAssumption`: LHC or CP), seeds and migrated calendars that are well formed
(`SeedAssumption`, `SeasonAssumption`), and that SQL `NULL` is no row.

### Only model-checked

- `GenerateEnds`: liveness and `ENABLED` are out of this prover's reach.

Every safety invariant and every action property that a passing run checks is stated
by a theorem. For those that hold only while some kind of work is one clerk's, the run
divides the work as the theorem's hypothesis does.

## What is not modelled, and why

- AMC rates: single-row writes behind a unique key. A missing rate is
  `GenerateRollback`.
- Amounts, taxes, PDF layout, names and addresses: no control depends on them.
- The print count of an invoice, the season grade and serial number of a banked
  week, the points of a chart and its seasons, information lines of a resort, the
  active flag of resorts and LVC codes.
- Rows migrated without an apartment type, and balances migrated out of step: the
  grid starts empty.
- Dates within a month in billing: due dates on other days than the first occur
  only in migrated rows.
- The agreement's own card of its RCI enrolment and the detail window of the
  register, which only read.
- The pages of the availability grid: their requests are arbitrary inputs.
- In the reports of claims and of the scheme comparison, a scheme is joined to its own
  agreement; the code joins by company and number (`pbs-claim.report.ts:58-62`), so that
  the claim of a transferred agreement is listed with a successor of that number. Both
  documents of a report do the same.
- The audit trail, which is appended to and read by no other code; routes, error
  mapping, menus and styling; the loaders, of which only the rows they leave are
  modelled; deployment scripts.

## Plan

1. Done: all modules above and the theorems listed.
2. Done: the cards (`CardsAccounted`) and the reports (`ReportsAgree`), the last two
   safety invariants without a theorem.
3. Weaker hypotheses where two clerks do not in fact disturb each other.
