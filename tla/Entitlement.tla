---------------------------- MODULE Entitlement ----------------------------
(***************************************************************************)
(* The entitlement card of an agreement:                                   *)
(*   backend/src/controllers/agreements.controller.ts    getAgreement      *)
(*   frontend/src/pages/agreements/AgreementDetail.tsx   both cards        *)
(*   prisma/migrate-{booking,cp-booking}-entitlement.ts  where usage is    *)
(*                                                       loaded from       *)
(*                                                                         *)
(* No page books: the usage is what was loaded, and only the day moves.    *)
(* The agreements and their dates are those of Reports; a day is the       *)
(* number yyyymmdd.  A page that is open over midnight shows the card of   *)
(* the day before, which is not compared.                                  *)
(***************************************************************************)
EXTENDS Reports

CONSTANTS
  NightsFile,  \* booking_ent1.txt: the columns of every membership year
  PointsFile,  \* ps_bookent1.txt: a row for every use date
  FirstDay,    \* bound: the days on which a card is opened
  LastDay

Usage == [nightsUsed : Nat, actualNights : Nat, weekendUsed : Nat]
Points == [useYear : Nat, totalPts : Nat, acrusePts : Nat, balPts : Nat]

ASSUME UsageAssumption ==
  /\ \A a \in DOMAIN NightsFile : NightsFile[a] \in Seq(Usage)
  /\ \A a \in DOMAIN PointsFile : PointsFile[a] \subseteq Points
  /\ \A a \in DOMAIN PointsFile : IsFiniteSet(PointsFile[a])
  /\ DOMAIN NightsFile = Agreements /\ DOMAIN PointsFile = Agreements

VARIABLES
  today,
  page   \* the agreement whose page is open and its card, or None

cardVars == <<today, page>>

-----------------------------------------------------------------------------
(* The calendar.                                                           *)
MonthDay(date) == date % 10000

LastOfMonth(date) ==
  CASE MonthOf(date) = 2 -> IF Leap(YearOf(date)) THEN 29 ELSE 28
    [] MonthOf(date) \in {4, 6, 9, 11} -> 30
    [] OTHER -> 31

DayAfter(date) ==
  CASE date % 100 < LastOfMonth(date) -> date + 1
    [] MonthDay(date) = 1231 -> (YearOf(date) + 1) * 10000 + 101
    [] OTHER -> (date \div 100 + 1) * 100 + 1

IsDate(date) ==
  date \in Nat /\ MonthOf(date) \in 1..12 /\ date % 100 \in 1..LastOfMonth(date)

ASSUME DatesAssumption == \A a \in Agreements : IsDate(Agmt[a].agreementDate)
ASSUME DaysAssumption == IsDate(FirstDay) /\ IsDate(LastDay) /\ FirstDay <= LastDay

-----------------------------------------------------------------------------
(* Years in which nothing was used have no row.                            *)
Unused == [nightsUsed |-> 0, actualNights |-> 0, weekendUsed |-> 0]

bookingEntitlement(a) ==
  LET years == NightsFile[a]
  IN [seq \in {s \in DOMAIN years : years[s] # Unused} |-> years[seq]]

usedBySeq(a, seq) ==
  IF seq \in DOMAIN bookingEntitlement(a) THEN bookingEntitlement(a)[seq] ELSE Unused

AtLeastZero(n) == IF n < 0 THEN 0 ELSE n

(* Mutation: the year begins on the day after the anniversary.             *)
MutPassed(a) == MonthDay(today) > MonthDay(computeExpiry(a))

(* This year's anniversary, taken from the expiry date, is behind us.      *)
Passed(a) == MonthDay(today) >= MonthDay(computeExpiry(a))

accrueIdx(a) ==
  YearOf(today) - YearOf(Agmt[a].agreementDate) - (IF Passed(a) THEN 0 ELSE 1)

(* Columns Acc, Curr, Ad1 to Ad5.  Seven nights a year, one of them on a   *)
(* weekend; from Curr on they end with the agreement.                      *)
EntitlementColumn(a, i) ==
  LET seq == accrueIdx(a) + i - 1
      used == usedBySeq(a, seq)
      ended == i > 1 /\ computeExpiry(a) <= addYears(today, i - 2)
      nights == IF ended THEN 0 ELSE AtLeastZero(7 - used.nightsUsed)
  IN [year |-> YearOf(Agmt[a].agreementDate) + seq - 1,
      nights |-> nights,
      weekend |-> IF ended \/ (i <= 2 /\ nights = 0) THEN 0
                  ELSE AtLeastZero(1 - used.weekendUsed)]

EntitlementBalance(a) ==
  IF Agmt[a].coCode \notin {"03", "15"} \/ acct[a].acctClassify = "TM" THEN None
  ELSE LET cols == [i \in 1..7 |-> EntitlementColumn(a, i)]
           lost == {seq \in 1..Agmt[a].termYears : seq <= accrueIdx(a) - 1}
           usedNights == usedBySeq(a, accrueIdx(a) + 1).actualNights
           claimable == cols[1].nights + cols[2].nights + cols[3].nights
       IN [columns |-> cols,
           forfeitedNights |->
             SumFunction([seq \in lost |-> AtLeastZero(7 - usedBySeq(a, seq).nightsUsed)]),
           usableNights |-> AtLeastZero(Min({14 - usedNights, claimable})),
           usedNights |-> usedNights, usedYear |-> cols[2].year]

-----------------------------------------------------------------------------
(* Points: a balance is stored for every use date, so that it is looked up.*)
cpBookingEntitlement(a) == PointsFile[a]

cpEntitlementBalance(a) ==
  LET rows == cpBookingEntitlement(a)
      byYear(y) == {r \in rows : YearOf(r.useYear) = y}
      bal(y) == IF byYear(y) = {} THEN None ELSE (CHOOSE r \in byYear(y) : TRUE).balPts
      begun == {r \in rows : r.useYear <= today}
  IN IF Agmt[a].coCode # "02" \/ acct[a].acctClassify = "TM" \/ begun = {} THEN None
     ELSE LET refYear == Max({YearOf(r.useYear) : r \in begun})
              ref == CHOOSE r \in byYear(refYear) : TRUE
              accrued ==
                IF byYear(refYear - 1) = {} THEN None
                ELSE LET prior == CHOOSE r \in byYear(refYear - 1) : TRUE
                     IN Min({prior.balPts, ref.totalPts \div 2 - prior.acrusePts})
              older == {r \in rows : YearOf(r.useYear) <= refYear - 1}
              carried == IF accrued = None THEN 0 ELSE accrued
          IN [columns |->
                [i \in 1..7 |-> [year |-> refYear + i - 2,
                                 bal |-> IF i = 1 THEN accrued ELSE bal(refYear + i - 2)]],
              forfeitedPts |->
                AtLeastZero(SumFunction([r \in older |-> r.balPts]) - carried)]

(* What the page of an agreement shows.                                    *)
Card(a) ==
  CASE Agmt[a].coCode \in {"03", "15"} -> EntitlementBalance(a)
    [] Agmt[a].coCode = "02" -> cpEntitlementBalance(a)
    [] OTHER -> None

-----------------------------------------------------------------------------
EntitlementInit == today = FirstDay /\ page = None

(* GET /api/agreements/:id.  Bound: one page a day.                        *)
OpenAgreement(a) ==
  /\ page = None
  /\ page' = [agmt |-> a, card |-> Card(a)]
  /\ UNCHANGED today

NextDay ==
  /\ today < LastDay /\ today' = DayAfter(today)
  /\ page' = None

EntitlementNext == NextDay \/ \E a \in Agreements : OpenAgreement(a)

EntitlementTypeOK ==
  /\ today \in FirstDay..LastDay
  /\ page # None => page.agmt \in Agreements

(* The years of the term, in which nights are owed.                        *)
TermYears(a) == 1..Agmt[a].termYears
Owed(a, years) ==
  LET used(s) == IF s \in DOMAIN NightsFile[a] THEN NightsFile[a][s].nightsUsed ELSE 0
  IN SumFunction([s \in years |-> IF used(s) < 7 THEN 7 - used(s) ELSE 0])

(* Every unused night of the term is forfeited, in the column of its year, *)
(* or ahead of the last column, and in one of these only; and Curr is the  *)
(* membership year of today.                                               *)
NightsAccounted(a, card) ==
  LET date == Agmt[a].agreementDate
      seqOf(i) == card.columns[i].year - YearOf(date) + 1
      shown == {i \in 1..7 : seqOf(i) \in TermYears(a)}
  IN /\ \A i \in shown : card.columns[i].nights = Owed(a, {seqOf(i)})
     /\ \A i \in 2..7 : seqOf(i) > Agmt[a].termYears => card.columns[i].nights = 0
     /\ card.forfeitedNights
          + SumFunction([i \in shown |-> card.columns[i].nights])
          + Owed(a, {s \in TermYears(a) : s > seqOf(7)}) = Owed(a, TermYears(a))
     /\ addYears(date, seqOf(2) - 1) <= today /\ today < addYears(date, seqOf(2))

(* Likewise the points, where what is carried forward is what is neither   *)
(* lost nor of a year to come.                                             *)
PointsAccounted(a, card) ==
  LET Balances(rows) == SumFunction([r \in rows |-> r.balPts])
      curr == card.columns[2].year
      carried == IF card.columns[1].bal = None THEN 0 ELSE card.columns[1].bal
  IN /\ card.forfeitedPts + carried
          + Balances({r \in PointsFile[a] : YearOf(r.useYear) >= curr}) = Balances(PointsFile[a])
     /\ \A r \in PointsFile[a] : r.useYear <= today => YearOf(r.useYear) <= curr

(* A year from 29 February is 1 March: on that day an agreement that       *)
(* expires on such a 1 March has its last year in no column.               *)
LeapDayBefore(full) ==
  /\ MonthDay(today) = 229 /\ MonthDay(full) = 301
  /\ \E n \in 1..5 : addYears(today, n) = full

(* The card of an agreement that runs its full term accounts for all of    *)
(* its nights or points, on whatever day it is opened, the day of an       *)
(* anniversary and the days around the expiry included.                    *)
EntitlementAccounted ==
  page # None /\ page.card # None =>
    LET a == page.agmt
        full == addYears(Agmt[a].agreementDate, Agmt[a].termYears)
    IN IF Agmt[a].coCode = "02" THEN PointsAccounted(a, page.card)
       ELSE /\ Agmt[a].endDate \in {None, full}
            /\ MonthDay(full) = MonthDay(Agmt[a].agreementDate)
            /\ ~LeapDayBefore(full)
            => NightsAccounted(a, page.card)

(* "Unused nights carry forward 1 year and are forfeited only after the    *)
(* next anniversary": a year after an agreement that ran its term expired, *)
(* nothing is carried forward and nothing is usable.                       *)
ExpiredIsForfeited ==
  page # None /\ page.card # None =>
    LET a == page.agmt
    IN /\ Agmt[a].coCode # "02" /\ Agmt[a].termYears > 0 /\ Agmt[a].endDate = None
       /\ addYears(computeExpiry(a), 1) <= today
       => page.card.columns[1].nights = 0 /\ page.card.usableNights = 0
=============================================================================
