--------------------------- MODULE CalendarDates ---------------------------
(***************************************************************************)
(* The business dates the three calendars are built from.  A date is       *)
(* <<year, month, day>>; Date.UTC turns one into a number of days, rolling *)
(* a day that the month does not have over into the next month.  Day 1 is  *)
(* Monday, 1 January of the year 1, so that the remainder of seven is      *)
(* getUTCDay: Sunday 0 to Saturday 6.                                      *)
(*                                                                         *)
(* Each calendar is kept by the clerks of Resorts Setup or RCI, one        *)
(* request of each in flight.                                              *)
(***************************************************************************)
EXTENDS Integers

CONSTANTS
  Clerks,    \* people at a browser
  Ops,       \* what each of them does, see OpNames
  Years,     \* bound: years that are keyed
  MaxEdits   \* bound: saves, deletes, clones per calendar

OpNames == {"school", "public", "dropHoliday", "cloneHoliday",
            "grade", "dropMonth", "cloneSeason",
            "addYear", "dropYear", "bank", "clear"}

ASSUME OpsAssumption == Ops \in [Clerks -> SUBSET OpNames]
ASSUME YearsAssumption == Years \subseteq 1900..2999
ASSUME EditsAssumption == MaxEdits \in Nat

Leap(y) == (y % 4 = 0 /\ y % 100 # 0) \/ y % 400 = 0

MonthLength(y, m) ==
  IF m = 2 THEN IF Leap(y) THEN 29 ELSE 28
  ELSE IF m \in {4, 6, 9, 11} THEN 30 ELSE 31

DaysBefore(y, m) ==
  <<0, 31, 59, 90, 120, 151, 181, 212, 243, 273, 304, 334>>[m]
    + IF m > 2 /\ Leap(y) THEN 1 ELSE 0

(* Date.UTC of a year, a month and a day, in days.                         *)
Utc(date) ==
  LET y == date[1] - 1
  IN 365 * y + y \div 4 - y \div 100 + y \div 400
       + DaysBefore(date[1], date[2]) + date[3]

getUTCDay(day) == day % 7

ValidDate(date) == date[3] \in 1..MonthLength(date[1], date[2])

(* Date.UTC(y, m, d) as a date: of the days that are asked for here only   *)
(* 29 February can be missing.                                             *)
Rolled(date) ==
  IF ValidDate(date) THEN date
  ELSE <<date[1], date[2] + 1, date[3] - MonthLength(date[1], date[2])>>

(* Mutation: only the year of the date is changed.                         *)
MutNextYear(date) == <<date[1] + 1, date[2], date[3]>>

(* The same month and day a year later.                                    *)
NextYear(date) == Rolled(<<date[1] + 1, date[2], date[3]>>)
=============================================================================
