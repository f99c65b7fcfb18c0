-------------------------- MODULE BackOfficeProofs --------------------------
(***************************************************************************)
(* What holds of Resorts Setup and the calendars for any resorts,          *)
(* products, types, years, staff and clerks, migrated charts, seasons and  *)
(* weeks and seeded holidays: their types; that the product of a resort or *)
(* LVC code exists while one clerk keeps the masters; that a chart is one  *)
(* save's and a new rate supersedes the others while one clerk saves       *)
(* charts; that school holidays are distinct while one clerk keeps them;   *)
(* that months are graded whole and clones keep grades; that the weeks of  *)
(* the RCI calendar tile and that banked ones keep their place while one   *)
(* clerk drops years or banks weeks.                                       *)
(***************************************************************************)
EXTENDS BackOffice, FiniteSetTheorems, WellFoundedInduction, TLAPS

(* A function has no more values than arguments.                           *)
LEMMA ImageFinite ==
  ASSUME NEW S, IsFiniteSet(S), NEW T, NEW f \in [S -> T]
  PROVE  IsFiniteSet({f[x] : x \in S})
  <1> DEFINE U == {f[x] : x \in S}
  <1>1. f \in Surjection(S, U)
    BY DEF Surjection
  <1> QED BY <1>1, FS_Surjection

(* A set without one member of another is smaller.                         *)
LEMMA SmallerSet ==
  ASSUME NEW S, IsFiniteSet(S), NEW T, T \subseteq S, NEW x \in S, x \notin T
  PROVE  /\ IsFiniteSet(T) /\ Cardinality(T) \in Nat /\ Cardinality(S) \in Nat
         /\ Cardinality(T) < Cardinality(S)
  <1>1. /\ IsFiniteSet(T) /\ Cardinality(T) <= Cardinality(S)
        /\ Cardinality(T) = Cardinality(S) => T = S
    BY FS_Subset
  <1>2. Cardinality(T) \in Nat /\ Cardinality(S) \in Nat
    BY <1>1, FS_CardinalityType
  <1> QED BY <1>1, <1>2

(***************************************************************************)
(* Dates: Date.UTC keeps the order of the calendar, and so does a year     *)
(* more.                                                                   *)
(***************************************************************************)
(* Triples that can be dates, and the ones in the calendar.                *)
Dates3 == Int \X (1..12) \X (1..31)
Valid == {d \in Dates3 : ValidDate(d)}

(* 1 January of a year, in days.                                           *)
Jan1(y) == 365 * (y - 1) + (y - 1) \div 4 - (y - 1) \div 100 + (y - 1) \div 400 + 1

(* From one year to the next a quotient grows by one where the year        *)
(* divides.                                                                *)
LEMMA DivStep ==
  ASSUME NEW y \in Int
  PROVE  /\ y \div 4 = (y - 1) \div 4 + (IF y % 4 = 0 THEN 1 ELSE 0)
         /\ y \div 100 = (y - 1) \div 100 + (IF y % 100 = 0 THEN 1 ELSE 0)
         /\ y \div 400 = (y - 1) \div 400 + (IF y % 400 = 0 THEN 1 ELSE 0)
         /\ y % 100 = 0 => y % 4 = 0
         /\ y % 400 = 0 => y % 100 = 0
  OBVIOUS

(* A year has 365 days, a leap year one more.                              *)
LEMMA YearLength ==
  ASSUME NEW y \in Int
  PROVE  /\ Jan1(y) \in Int
         /\ Jan1(y + 1) = Jan1(y) + 365 + (IF Leap(y) THEN 1 ELSE 0)
  BY DivStep DEF Jan1, Leap

(* A later year begins after the end of an earlier one.                    *)
LEMMA YearOrder ==
  ASSUME NEW x \in Int, NEW y \in Int, x < y
  PROVE  Jan1(x + 1) <= Jan1(y)
  BY DEF Jan1

(* Date.UTC adds up the days before the year, those before the month, and  *)
(* the day.                                                                *)
LEMMA UtcSum ==
  ASSUME NEW d \in Dates3
  PROVE  /\ Utc(d) = Jan1(d[1]) + DaysBefore(d[1], d[2]) + d[3] - 1
         /\ DaysBefore(d[1], d[2]) \in 0..335 
         /\ Utc(d) \in Int
  BY DEF Utc, Jan1, Dates3, DaysBefore

(* A month begins after the last day of the one before, and the last month *)
(* ends with the year.                                                     *)
LEMMA MonthTable ==
  ASSUME NEW y \in Int, NEW m \in 1..12
  PROVE  /\ MonthLength(y, m) \in 28..31 /\ DaysBefore(y, m) \in 0..335
         /\ m < 12 => DaysBefore(y, m) + MonthLength(y, m) = DaysBefore(y, m + 1)
         /\ m = 12 => DaysBefore(y, m) + MonthLength(y, m) = 365 + (IF Leap(y) THEN 1 ELSE 0)
  <1>. DEFINE leap == IF Leap(y) THEN 1 ELSE 0
  <1>1. leap \in 0..1
    OBVIOUS
  <1>2. m \in {1, 2, 3, 4, 5, 6, 7, 8, 9, 10, 11, 12}
    OBVIOUS
  <1>3. DaysBefore(y, m) = <<0, 31, 59, 90, 120, 151, 181, 212, 243, 273, 304, 334>>[m]
                             + IF m > 2 THEN leap ELSE 0
    BY DEF DaysBefore
  <1>4. MonthLength(y, m) = IF m = 2 THEN 28 + leap ELSE IF m \in {4, 6, 9, 11} THEN 30 ELSE 31
    BY DEF MonthLength
  <1>5. m < 12 => DaysBefore(y, m + 1) = <<0, 31, 59, 90, 120, 151, 181, 212, 243, 273, 304, 334>>[m + 1]
                             + IF m + 1 > 2 THEN leap ELSE 0
    BY DEF DaysBefore
  <1>. HIDE DEF leap
  <1>6. QED
    BY <1>1, <1>2, <1>3, <1>4, <1>5 DEF leap

(* A later month of a year begins after the end of an earlier one.         *)
LEMMA MonthOrder ==
  ASSUME NEW y \in Int, NEW m \in 1..12, NEW n \in 1..12, m < n
  PROVE  DaysBefore(y, m) + MonthLength(y, m) <= DaysBefore(y, n)
  <1>. DEFINE leap == IF Leap(y) THEN 1 ELSE 0
  <1>1. leap \in 0..1
    OBVIOUS
  <1>2. m \in {1, 2, 3, 4, 5, 6, 7, 8, 9, 10, 11, 12} /\ n \in {1, 2, 3, 4, 5, 6, 7, 8, 9, 10, 11, 12}
    OBVIOUS
  <1>3. \A k \in {m, n} : DaysBefore(y, k) =
          <<0, 31, 59, 90, 120, 151, 181, 212, 243, 273, 304, 334>>[k] + IF k > 2 THEN leap ELSE 0
    BY DEF DaysBefore
  <1>4. MonthLength(y, m) = IF m = 2 THEN 28 + leap ELSE IF m \in {4, 6, 9, 11} THEN 30 ELSE 31
    BY DEF MonthLength
  <1>. HIDE DEF leap
  <1> QED
    BY <1>1, <1>2, <1>3, <1>4

(* In the calendar.                                                        *)
Before(a, b) ==
  \/ a[1] < b[1]
  \/ a[1] = b[1] /\ a[2] < b[2]
  \/ a[1] = b[1] /\ a[2] = b[2] /\ a[3] < b[3]

(* A date in the calendar is a year, a month and a day that the month has. *)
LEMMA DateParts ==
  ASSUME NEW d \in Valid
  PROVE  /\ d \in Dates3 /\ d[1] \in Int /\ d[2] \in 1..12 /\ d[3] \in 1..31
         /\ d[3] >= 1 /\ d[3] <= MonthLength(d[1], d[2])
         /\ d = <<d[1], d[2], d[3]>>
  <1>1. d \in Dates3 /\ ValidDate(d)
    BY DEF Valid
  <1>2. PICK y \in Int, m \in 1..12, k \in 1..31 : d = <<y, m, k>>
    BY <1>1 DEF Dates3
  <1>3. MonthLength(y, m) \in 28..31
    BY MonthTable
  <1> QED BY <1>1, <1>2, <1>3 DEF ValidDate

(* The parts of Utc(d): the days before its year, before its month, and    *)
(* how long the month is.                                                  *)
LEMMA UtcParts ==
  ASSUME NEW d \in Valid
  PROVE  \E jan1 \in Int, days \in 0..335, length \in 28..31, leap \in 0..1 :
           /\ jan1 = Jan1(d[1]) /\ days = DaysBefore(d[1], d[2])
           /\ length = MonthLength(d[1], d[2])
           /\ Jan1(d[1] + 1) = jan1 + 365 + leap
           /\ days + length <= 365 + leap
           /\ 1 <= d[3] /\ d[3] <= length /\ d[3] \in Int
           /\ Utc(d) = jan1 + days + d[3] - 1
  <1> DEFINE jan1 == Jan1(d[1])
             days == DaysBefore(d[1], d[2])
             length == MonthLength(d[1], d[2])
             leap == IF Leap(d[1]) THEN 1 ELSE 0
  <1>1. /\ jan1 \in Int /\ days \in 0..335 /\ length \in 28..31 /\ leap \in 0..1
    BY DateParts, MonthTable, YearLength
  <1>2. Jan1(d[1] + 1) = jan1 + 365 + leap
    BY DateParts, YearLength
  <1>3. days + length <= 365 + leap
    <2>1. CASE d[2] = 12
      <3>1. days + length = 365 + leap
        BY <2>1, DateParts, MonthTable
      <3> HIDE DEF days, length, leap
      <3> QED BY <1>1, <3>1
    <2>2. CASE d[2] < 12
      <3> DEFINE last == DaysBefore(d[1], 12)
                 dec == MonthLength(d[1], 12)
      <3>1. days + length <= last
        BY <2>2, DateParts, MonthOrder
      <3>2. last + dec = 365 + leap
        BY DateParts, MonthTable
      <3>3. dec \in 28..31 /\ last \in 0..335
        BY DateParts, MonthTable
      <3> HIDE DEF days, length, leap, last, dec
      <3> QED BY <1>1, <3>1, <3>2, <3>3
    <2> QED BY <2>1, <2>2, DateParts
  <1>4. Utc(d) = jan1 + days + d[3] - 1
    BY DateParts, UtcSum
  <1>5. d[3] \in Int /\ 1 <= d[3] /\ d[3] <= length
    BY DateParts
  <1> HIDE DEF jan1, days, length, leap
  <1>6. QED
    BY <1>1, <1>2, <1>3, <1>4, <1>5 DEF jan1, days, length

(* From the year 1 on days are counted from 1.                             *)
LEMMA UtcNat ==
  ASSUME NEW d \in Valid, d[1] >= 1
  PROVE  Utc(d) \in Nat
  <1>1. PICK jan1 \in Int, days \in 0..335, length \in 28..31, leap \in 0..1 :
           /\ jan1 = Jan1(d[1]) /\ days = DaysBefore(d[1], d[2])
           /\ length = MonthLength(d[1], d[2])
           /\ Jan1(d[1] + 1) = jan1 + 365 + leap
           /\ days + length <= 365 + leap
           /\ 1 <= d[3] /\ d[3] <= length /\ d[3] \in Int
           /\ Utc(d) = jan1 + days + d[3] - 1
    BY UtcParts
  <1>2. Jan1(d[1]) >= 0
    <2>1. d[1] \in Int
      BY DateParts
    <2> QED BY <2>1 DEF Jan1
  <1> QED BY <1>1, <1>2

(* Date.UTC keeps the order of the calendar.                               *)
LEMMA BeforeIsLess ==
  ASSUME NEW a \in Valid, NEW b \in Valid, Before(a, b)
  PROVE  Utc(a) < Utc(b)
  <1>1. PICK j1 \in Int, s1 \in 0..335, l1 \in 28..31, y1 \in 0..1 :
           /\ j1 = Jan1(a[1]) /\ s1 = DaysBefore(a[1], a[2])
           /\ l1 = MonthLength(a[1], a[2])
           /\ Jan1(a[1] + 1) = j1 + 365 + y1
           /\ s1 + l1 <= 365 + y1
           /\ 1 <= a[3] /\ a[3] <= l1 /\ a[3] \in Int
           /\ Utc(a) = j1 + s1 + a[3] - 1
    BY UtcParts
  <1>2. PICK j2 \in Int, s2 \in 0..335, l2 \in 28..31, y2 \in 0..1 :
           /\ j2 = Jan1(b[1]) /\ s2 = DaysBefore(b[1], b[2])
           /\ l2 = MonthLength(b[1], b[2])
           /\ Jan1(b[1] + 1) = j2 + 365 + y2
           /\ s2 + l2 <= 365 + y2
           /\ 1 <= b[3] /\ b[3] <= l2 /\ b[3] \in Int
           /\ Utc(b) = j2 + s2 + b[3] - 1
    BY UtcParts
  <1>3. CASE a[1] < b[1]
    <2>1. Jan1(a[1] + 1) <= Jan1(b[1])
      BY <1>3, DateParts, YearOrder
    <2> QED BY <1>1, <1>2, <2>1
  <1>4. CASE a[1] = b[1] /\ a[2] < b[2]
    <2>1. DaysBefore(a[1], a[2]) + MonthLength(a[1], a[2]) <= DaysBefore(b[1], b[2])
      BY <1>4, DateParts, MonthOrder
    <2>2. s1 + l1 <= s2
      BY <1>1, <1>2, <2>1
    <2>3. j1 = j2
      BY <1>1, <1>2, <1>4
    <2> QED BY <1>1, <1>2, <2>2, <2>3
  <1>5. CASE a[1] = b[1] /\ a[2] = b[2] /\ a[3] < b[3]
    <2>1. j1 = j2 /\ s1 = s2
      BY <1>1, <1>2, <1>5
    <2> QED BY <1>1, <1>2, <1>5, <2>1
  <1> QED BY <1>3, <1>4, <1>5 DEF Before

(* Of two dates one is before the other or they are the same day.          *)
LEMMA UtcOrder ==
  ASSUME NEW a \in Valid, NEW b \in Valid
  PROVE  /\ Utc(a) < Utc(b) <=> Before(a, b)
         /\ Utc(a) = Utc(b) <=> a = b
         /\ Utc(a) \in Int /\ Utc(b) \in Int
  <1>1. Before(a, b) \/ Before(b, a) \/ a = b
    BY DateParts DEF Before
  <1>2. Utc(a) \in Int /\ Utc(b) \in Int
    BY DateParts, UtcSum
  <1> QED BY <1>1, <1>2, BeforeIsLess

(***************************************************************************)
(* A year later.                                                           *)
(***************************************************************************)
LeapDay(d) == d[2] = 2 /\ d[3] = 29

(* The year after a leap year is none.                                     *)
LEMMA NoLeapYearFollows ==
  ASSUME NEW y \in Int, Leap(y)
  PROVE  ~Leap(y + 1)
  <1>1. y % 4 = 0
    BY DivStep DEF Leap
  <1>2. (y + 1) % 4 = 1
    BY <1>1
  <1>3. (y + 1) % 400 = 0 => (y + 1) % 4 = 0
    BY DivStep
  <1> QED BY <1>2, <1>3 DEF Leap

(* A year later is the same month and day, but 1 March for 29 February.    *)
LEMMA NextYearIs ==
  ASSUME NEW d \in Valid
  PROVE  /\ NextYear(d) = IF LeapDay(d) THEN <<d[1] + 1, 3, 1>> ELSE <<d[1] + 1, d[2], d[3]>>
         /\ NextYear(d) \in Valid
         /\ NextYear(d)[1] = d[1] + 1
  <1>1. PICK y \in Int, m \in 1..12, k \in 1..31 :
          d = <<y, m, k>> /\ k <= MonthLength(y, m)
    BY DateParts
  <1>2. /\ <<y + 1, m, k>> \in Dates3 /\ <<y + 1, 3, 1>> \in Dates3
        /\ NextYear(d) = Rolled(<<y + 1, m, k>>)
    BY <1>1 DEF NextYear, Dates3
  <1>3. CASE m = 2 /\ k = 29
    <2>1. Leap(y)
      BY <1>1, <1>3 DEF MonthLength
    <2>2. MonthLength(y + 1, m) = 28 /\ MonthLength(y + 1, 3) = 31
      BY <2>1, <1>3, NoLeapYearFollows DEF MonthLength
    <2>3. ~ValidDate(<<y + 1, m, k>>) /\ ValidDate(<<y + 1, 3, 1>>)
      BY <2>2, <1>3 DEF ValidDate
    <2>4. Rolled(<<y + 1, m, k>>) = <<y + 1, 3, 1>>
      BY <2>2, <2>3, <1>3 DEF Rolled
    <2> QED BY <1>1, <1>2, <1>3, <2>3, <2>4 DEF LeapDay, Valid
  <1>4. CASE ~(m = 2 /\ k = 29)
    <2>1. k <= MonthLength(y + 1, m) /\ MonthLength(y + 1, m) \in 28..31
      <3>1. CASE m = 2
        BY <3>1, <1>1, <1>4, MonthTable DEF MonthLength
      <3>2. CASE m # 2
        BY <3>2, <1>1, MonthTable DEF MonthLength
      <3> QED BY <3>1, <3>2
    <2>2. ValidDate(<<y + 1, m, k>>)
      BY <2>1 DEF ValidDate
    <2>3. Rolled(<<y + 1, m, k>>) = <<y + 1, m, k>>
      BY <2>2 DEF Rolled
    <2> QED BY <1>1, <1>2, <1>4, <2>2, <2>3 DEF LeapDay, Valid
  <1> QED BY <1>3, <1>4

(* The order of dates is kept, but for the leap day, which lands on the    *)
(* day of 1 March.                                                         *)
LEMMA NextYearOrder ==
  ASSUME NEW a \in Valid, NEW b \in Valid, Utc(a) < Utc(b)
  PROVE  \/ Utc(NextYear(a)) < Utc(NextYear(b))
         \/ /\ LeapDay(a) /\ b = <<a[1], 3, 1>>
            /\ NextYear(a) = <<a[1] + 1, 3, 1>> /\ NextYear(b) = NextYear(a)
  <1>1. Before(a, b)
    BY UtcOrder
  <1>2. /\ NextYear(a) = IF LeapDay(a) THEN <<a[1] + 1, 3, 1>> ELSE <<a[1] + 1, a[2], a[3]>>
        /\ NextYear(b) = IF LeapDay(b) THEN <<b[1] + 1, 3, 1>> ELSE <<b[1] + 1, b[2], b[3]>>
        /\ NextYear(a) \in Valid /\ NextYear(b) \in Valid
    BY NextYearIs
  <1>3. \/ Before(NextYear(a), NextYear(b))
        \/ LeapDay(a) /\ b = <<a[1], 3, 1>>
    <2>1. PICK y1 \in Int, m1 \in 1..12, k1 \in 1..31 : a = <<y1, m1, k1>>
      BY DateParts
    <2>2. PICK y2 \in Int, m2 \in 1..12, k2 \in 1..31 : b = <<y2, m2, k2>>
      BY DateParts
    <2>3. LeapDay(a) => b # <<a[1], 2, 30>> /\ b # <<a[1], 2, 31>>
      BY <2>1, <2>2, DateParts DEF MonthLength, LeapDay
    <2> QED BY <1>1, <1>2, <2>1, <2>2, <2>3 DEF Before, LeapDay
  <1> QED BY <1>2, <1>3, UtcOrder DEF LeapDay

(* A year later dates are in the same order, or have become one.           *)
LEMMA NextYearKeepsOrder ==
  ASSUME NEW a \in Valid, NEW b \in Valid, Utc(a) <= Utc(b)
  PROVE  Utc(NextYear(a)) <= Utc(NextYear(b))
  <1>1. NextYear(a) \in Valid /\ NextYear(b) \in Valid
    BY NextYearIs
  <1>2. CASE Utc(a) < Utc(b)
    BY <1>1, <1>2, NextYearOrder, UtcOrder
  <1>3. CASE Utc(a) = Utc(b)
    BY <1>1, <1>3, UtcOrder
  <1> QED BY <1>2, <1>3, UtcOrder

(***************************************************************************)
(* Resorts Setup.                                                          *)
(***************************************************************************)
(* The other desks leave the tables of Resorts Setup alone.                *)
LEMMA Desk ==
  /\ Init => SetupInit
  /\ [Next]_vars => [SetupNext]_setupVars
  <1>1. Init => SetupInit
    BY DEF Init
  <1>2. ASSUME Next PROVE SetupNext \/ setupVars' = setupVars
    BY <1>2 DEF Next, setupVars
  <1>3. vars' = vars => setupVars' = setupVars
    BY DEF vars
  <1> QED BY <1>1, <1>2, <1>3

(***************************************************************************)
(* Types.                                                                  *)
(***************************************************************************)
LEMMA RequestFields ==
  ASSUME NEW h \in ChartSave \cup FormSave \cup Removal \cup {Idle}
  PROVE  /\ h.op \in {"load", "check", "date", "drop", "commit"} => h \in ChartSave
         /\ h.op \in {"product", "write"} => h \in FormSave
         /\ h.op \in {"removeProduct", "removeType"} => h \in Removal
  BY DEF ChartSave, FormSave, Removal, Idle

LEMMA VersionsTyped ==
  ASSUME SetupTypeOK, NEW r
  PROVE  /\ VersionDates(r) \subseteq Dates
         /\ \A d : Version(r, d) \subseteq Point
         /\ LatestEff(r) \subseteq Dates
         /\ allowedApartmentTypes(r) \subseteq Types
  BY DEF SetupTypeOK, VersionDates, Version, LatestEff, allowedApartmentTypes, Point

LEMMA SetupInitTyped == SetupInit => SetupTypeOK
  <1> SUFFICES ASSUME SetupInit PROVE SetupTypeOK
    OBVIOUS
  <1>1. CollapseToLatestVersion(Migrated.points) \subseteq Point
    BY MigratedAssumption DEF CollapseToLatestVersion, Point, Staged
  <1> QED BY <1>1, MigratedAssumption DEF SetupInit, SetupTypeOK, Absent

(* A step that only moves the request of a clerk.                          *)
LEMMA StepTyped ==
  ASSUME SetupTypeOK, NEW c \in Staff,
         NEW q \in ChartSave \cup FormSave \cup Removal \cup {Idle}, Step(c, q)
  PROVE  SetupTypeOK'
  BY DEF SetupTypeOK, Step, masters

LEMMA RefuseTyped ==
  ASSUME SetupTypeOK, NEW c \in Staff, Refuse(c)
  PROVE  SetupTypeOK'
  BY DEF SetupTypeOK, Refuse, masters

LEMMA ChartTyped ==
  ASSUME SetupTypeOK, NEW c \in Staff,
         LoadResort(c) \/ CheckRows(c) \/ CheckDate(c) \/ DropVersion(c) \/ CommitRate(c)
  PROVE  SetupTypeOK'
  <1> DEFINE q == handler[c]
  <1>1. q \in ChartSave
    BY RequestFields DEF SetupTypeOK, LoadResort, CheckRows, CheckDate, DropVersion, CommitRate
  <1>2. CASE LoadResort(c)
    <2>1. CASE Refuse(c)
      BY <2>1, RefuseTyped
    <2>2. CASE resorts[q.resort] # Absent
               /\ Step(c, [q EXCEPT !.op = "check", !.id = resorts[q.resort].id])
      <3>1. resorts[q.resort].id \in Nat
        BY <1>1, <2>2 DEF SetupTypeOK, Listed, ChartSave
      <3>2. [q EXCEPT !.op = "check", !.id = resorts[q.resort].id] \in ChartSave
        BY <1>1, <3>1 DEF ChartSave
      <3> QED BY <2>2, <3>2, StepTyped
    <2> QED BY <1>2, <2>1, <2>2 DEF LoadResort
  <1>3. CASE CheckRows(c) \/ CheckDate(c)
    <2>1. \A op \in {"date", "drop"} : [q EXCEPT !.op = op] \in ChartSave
      BY <1>1 DEF ChartSave
    <2> QED BY <1>3, <2>1, StepTyped, RefuseTyped DEF CheckRows, CheckDate
  <1>4. CASE DropVersion(c)
    <2>1. \A d : [q EXCEPT !.op = "commit", !.gone = Version(q.resort, d)] \in ChartSave
      BY <1>1, VersionsTyped DEF ChartSave
    <2> QED BY <1>4, <2>1, StepTyped DEF DropVersion
  <1>5. CASE CommitRate(c)
    <2>1. CASE Refuse(c)
      BY <2>1, RefuseTyped
    <2>2. CASE /\ points' = (points \ q.gone) \cup
                              [resort : {q.resort}, eff : {q.eff}, type : q.rows,
                               charged : {q.charged}, save : {q.save}]
               /\ handler' = [handler EXCEPT ![c] = Idle]
               /\ UNCHANGED <<masters, seen, editor, saves>>
      <3>1. points' \subseteq Point
        BY <1>1, <2>2 DEF SetupTypeOK, ChartSave, Point
      <3> QED BY <2>2, <3>1 DEF SetupTypeOK, masters
    <2> QED BY <1>5, <2>1, <2>2 DEF CommitRate
  <1> QED BY <1>2, <1>3, <1>4, <1>5

LEMMA RateTyped ==
  ASSUME SetupTypeOK, NEW c \in Staff,
         \/ \E r \in Resorts, eff \in {0} \cup Dates, today \in Dates : OpenRate(c, r, eff, today)
         \/ \E rows \in SUBSET Types, eff \in Dates, code \in Named : SubmitRate(c, rows, eff, code)
  PROVE  SetupTypeOK'
  <1>1. ASSUME NEW r \in Resorts, NEW eff \in {0} \cup Dates, NEW today \in Dates,
               OpenRate(c, r, eff, today)
        PROVE  SetupTypeOK'
    <2>1. kindOf(resorts[r]) \in {"HOME", "AWAY"}
      BY DEF kindOf
    <2>2. listSeasonPoints(r, eff, today).types \subseteq Types
      BY VersionsTyped DEF listSeasonPoints
    <2>3. listSeasonPoints(r, eff, today).charged \subseteq Named
      <3>1. \A p \in points : p.charged \in Named
        BY DEF SetupTypeOK, Point
      <3>2. CP_CO_CODE \in Named
        BY NamesAssumption DEF Named
      <3> QED BY <3>1, <3>2 DEF listSeasonPoints
    <2>4. LatestEff(r) \subseteq Dates
      BY VersionsTyped
    <2>5. PICK ch \in listSeasonPoints(r, eff, today).charged :
            editor' = [editor EXCEPT ![c] =
              [resort |-> r, kind |-> kindOf(resorts[r]), eff |-> eff,
               offered |-> listSeasonPoints(r, eff, today).types, charged |-> ch,
               latest |-> LatestEff(r)]]
      BY <1>1 DEF OpenRate
    <2>6. editor' \in [Staff -> Editor \cup {Closed}]
      <3> HIDE DEF kindOf, listSeasonPoints, LatestEff
      <3> QED BY <2>1, <2>2, <2>3, <2>4, <2>5 DEF SetupTypeOK, Editor
    <2> QED BY <1>1, <2>6 DEF OpenRate, SetupTypeOK, masters
  <1>2. ASSUME NEW rows \in SUBSET Types, NEW eff \in Dates, NEW charged \in Named,
               SubmitRate(c, rows, eff, charged)
        PROVE  SetupTypeOK'
    <2> DEFINE e == editor[c]
               q == [op |-> "load", resort |-> e.resort, kind |-> e.kind, eff |-> eff,
                     replaces |-> e.eff, rows |-> rows, charged |-> charged, id |-> 0,
                     gone |-> {}, save |-> saves + 1]
    <2>1. e \in Editor
      BY <1>2 DEF SetupTypeOK, SubmitRate
    <2>2. q \in ChartSave
      BY <1>2, <2>1 DEF SetupTypeOK, Editor, ChartSave
    <2>3. handler' = [handler EXCEPT ![c] = q] /\ saves' \in Nat
      BY <1>2 DEF SubmitRate, SetupTypeOK
    <2>4. UNCHANGED <<masters, points, seen, editor>>
      BY <1>2 DEF SubmitRate
    <2> HIDE DEF q, e
    <2> QED BY <2>2, <2>3, <2>4 DEF SetupTypeOK, masters
  <1> QED BY <1>1, <1>2

LEMMA MasterTyped ==
  ASSUME SetupTypeOK, NEW c \in Staff,
         \/ WriteResort(c) \/ WriteLvcCode(c) \/ CheckProduct(c)
         \/ RemoveProduct(c) \/ RemoveType(c)
  PROVE  SetupTypeOK'
  <1> DEFINE q == handler[c]
  <1>1. CASE CheckProduct(c)
    <2>1. q \in FormSave
      BY <1>1, RequestFields DEF SetupTypeOK, CheckProduct
    <2>2. [q EXCEPT !.op = "write"] \in FormSave
      BY <2>1 DEF FormSave
    <2> QED BY <1>1, <2>2, StepTyped, RefuseTyped DEF CheckProduct
  <1>2. CASE RemoveProduct(c)
    <2>1. products' \in [Products -> {"A", "U", "none"}]
      BY <1>2 DEF SetupTypeOK, RemoveProduct
    <2> QED BY <1>2, <2>1 DEF SetupTypeOK, RemoveProduct, Edit
  <1>6. CASE RemoveType(c)
    BY <1>6 DEF SetupTypeOK, RemoveType, Edit
  <1>3. ASSUME WriteResort(c) \/ WriteLvcCode(c), NEW row \in Listed, Fits(q, row)
        PROVE  Written(q, row) \in Listed
    <2>1. q \in FormSave
      BY <1>3, RequestFields DEF SetupTypeOK, WriteResort, WriteLvcCode
    <2>2. q.new \/ row.id \in Nat
      BY <1>3, <2>1 DEF Fits, Listed, FormSave
    <2> QED BY <2>1, <2>2 DEF Written, SetupTypeOK, Listed, FormSave
  <1>4. CASE WriteResort(c) /\ ~Refuse(c)
    <2>1. resorts' \in [Resorts -> Listed]
      BY <1>3, <1>4 DEF WriteResort, SetupTypeOK
    <2> QED BY <1>4, <2>1 DEF WriteResort, SetupTypeOK, Edit
  <1>5. CASE WriteLvcCode(c) /\ ~Refuse(c)
    <2>1. lvcCodes' \in [LvcCodes -> Listed]
      BY <1>3, <1>5 DEF WriteLvcCode, SetupTypeOK
    <2> QED BY <1>5, <2>1 DEF WriteLvcCode, SetupTypeOK, Edit
  <1> QED BY <1>1, <1>2, <1>4, <1>5, <1>6, RefuseTyped

LEMMA AskTyped ==
  ASSUME SetupTypeOK, NEW c \in Staff,
         \/ \E p \in Products : DeleteProduct(c, p)
         \/ \E r \in Resorts, t \in Types : DeleteType(c, r, t)
         \/ \E r \in Resorts, code \in Products : SubmitResort(c, r, code)
         \/ \E l \in LvcCodes, code \in Named : SubmitLvcCode(c, l, code)
  PROVE  SetupTypeOK'
  <1>1. ASSUME NEW p \in Products, DeleteProduct(c, p) PROVE SetupTypeOK'
    <2>1. [op |-> "removeProduct", key |-> p] \in Removal
      BY DEF Removal
    <2> QED BY <1>1, <2>1, StepTyped DEF DeleteProduct
  <1>2. ASSUME NEW r \in Resorts, NEW t \in Types, DeleteType(c, r, t) PROVE SetupTypeOK'
    <2>1. [op |-> "removeType", key |-> <<r, t>>] \in Removal
      BY DEF Removal
    <2> QED BY <1>2, <2>1, StepTyped DEF DeleteType
  <1>3. ASSUME NEW table \in {"resort", "lvc"}, NEW key \in Resorts \cup LvcCodes,
               NEW code \in Named, NEW new \in BOOLEAN, Submit(c, table, key, code, new)
        PROVE  SetupTypeOK'
    <2>1. [op |-> "product", table |-> table, key |-> key, coCode |-> code,
           new |-> new] \in FormSave
      BY DEF FormSave
    <2> QED BY <1>3, <2>1, StepTyped DEF Submit
  <1>4. ASSUME NEW r \in Resorts, NEW code \in Products, SubmitResort(c, r, code)
        PROVE  SetupTypeOK'
    BY <1>3, <1>4 DEF SubmitResort, Named
  <1>5. ASSUME NEW l \in LvcCodes, NEW code \in Named, SubmitLvcCode(c, l, code)
        PROVE  SetupTypeOK'
    BY <1>3, <1>5 DEF SubmitLvcCode
  <1> QED BY <1>1, <1>2, <1>4, <1>5

LEMMA RowTyped ==
  ASSUME SetupTypeOK, NEW c \in Staff,
         \/ FetchProducts(c)
         \/ \E r \in Resorts, d \in Dates : DeleteVersion(c, r, d)
         \/ \E p \in Products, status \in {"A", "U"} : SaveProduct(c, p, status)
         \/ \E r \in Resorts : DeleteResort(c, r)
         \/ \E l \in LvcCodes : DeleteLvcCode(c, l)
         \/ \E r \in Resorts, t \in Types : CreateType(c, r, t)
         \/ \E r \in Resorts, t, u \in Types : RenameType(c, r, t, u)
  PROVE  SetupTypeOK'
  <1>1. CASE FetchProducts(c)
    BY <1>1 DEF SetupTypeOK, FetchProducts, masters
  <1>2. ASSUME NEW r \in Resorts, NEW d \in Dates, DeleteVersion(c, r, d) PROVE SetupTypeOK'
    BY <1>2 DEF SetupTypeOK, DeleteVersion
  <1>3. ASSUME NEW p \in Products, NEW status \in {"A", "U"}, SaveProduct(c, p, status)
        PROVE  SetupTypeOK'
    <2>1. products' \in [Products -> {"A", "U", "none"}]
      BY <1>3 DEF SetupTypeOK, SaveProduct
    <2> QED BY <1>3, <2>1 DEF SetupTypeOK, SaveProduct, Edit
  <1>4. ASSUME NEW r \in Resorts, DeleteResort(c, r) PROVE SetupTypeOK'
    <2>1. resorts' \in [Resorts -> Listed]
      BY <1>4 DEF SetupTypeOK, DeleteResort, Listed
    <2> QED BY <1>4, <2>1 DEF SetupTypeOK, DeleteResort, Edit
  <1>5. ASSUME NEW l \in LvcCodes, DeleteLvcCode(c, l) PROVE SetupTypeOK'
    <2>1. lvcCodes' \in [LvcCodes -> Listed]
      BY <1>5 DEF SetupTypeOK, DeleteLvcCode, Listed
    <2> QED BY <1>5, <2>1 DEF SetupTypeOK, DeleteLvcCode, Edit
  <1>6. ASSUME NEW r \in Resorts, NEW t \in Types, CreateType(c, r, t) PROVE SetupTypeOK'
    BY <1>6 DEF SetupTypeOK, CreateType, Edit
  <1>7. ASSUME NEW r \in Resorts, NEW t \in Types, NEW u \in Types, RenameType(c, r, t, u)
        PROVE  SetupTypeOK'
    BY <1>7 DEF SetupTypeOK, RenameType, Edit
  <1> QED BY <1>1, <1>2, <1>3, <1>4, <1>5, <1>6, <1>7

LEMMA SetupStepTyped == SetupTypeOK /\ [SetupNext]_setupVars => SetupTypeOK'
  <1> SUFFICES ASSUME SetupTypeOK, [SetupNext]_setupVars PROVE SetupTypeOK'
    OBVIOUS
  <1>1. CASE UNCHANGED setupVars
    BY <1>1 DEF SetupTypeOK, setupVars
  <1>2. CASE SetupNext
    <2>1. PICK c \in Staff :
            \/ FetchProducts(c)
            \/ \E r \in Resorts, eff \in {0} \cup Dates :
                 \E today \in IF eff = 0 THEN Dates ELSE {eff} : OpenRate(c, r, eff, today)
            \/ \E rows \in SUBSET Types, eff \in Dates, code \in Named :
                 SubmitRate(c, rows, eff, code)
            \/ LoadResort(c) \/ CheckRows(c) \/ CheckDate(c) \/ DropVersion(c) \/ CommitRate(c)
            \/ \E r \in Resorts, d \in Dates : DeleteVersion(c, r, d)
            \/ \E p \in Products, status \in {"A", "U"} : SaveProduct(c, p, status)
            \/ \E p \in Products : DeleteProduct(c, p)
            \/ RemoveProduct(c)
            \/ \E r \in Resorts, code \in Products : SubmitResort(c, r, code)
            \/ \E l \in LvcCodes, code \in Named : SubmitLvcCode(c, l, code)
            \/ CheckProduct(c) \/ WriteResort(c) \/ WriteLvcCode(c)
            \/ \E r \in Resorts : DeleteResort(c, r)
            \/ \E l \in LvcCodes : DeleteLvcCode(c, l)
            \/ \E r \in Resorts, t \in Types : CreateType(c, r, t) \/ DeleteType(c, r, t)
            \/ \E r \in Resorts, t, u \in Types : RenameType(c, r, t, u)
            \/ RemoveType(c)
      BY <1>2 DEF SetupNext
    <2> QED BY <2>1, ChartTyped, RateTyped, MasterTyped, AskTyped, RowTyped DEF Named, Dates
  <1> QED BY <1>1, <1>2

(* The tables of Resorts Setup and what each request holds keep their types *)
(* in the whole back office, whatever is saved, moved and deleted.         *)
THEOREM SetupTypeCorrect == Spec => []SetupTypeOK
  <1>1. Init => SetupTypeOK
    BY Desk, SetupInitTyped
  <1>2. SetupTypeOK /\ [Next]_vars => SetupTypeOK'
    BY Desk, SetupStepTyped
  <1> QED BY <1>1, <1>2, PTL DEF Spec

(***************************************************************************)
(* References.  While one clerk keeps the masters, what a request has      *)
(* looked up stays true until its write: nobody else removes the product   *)
(* that a form names, or names the product that is being removed.          *)
(***************************************************************************)
MasterOps == {"product", "resort", "lvc"}
KeepsMasters(c) == SetupOps[c] \cap MasterOps # {}
OneMasterClerk == \A c, d \in Staff : KeepsMasters(c) /\ KeepsMasters(d) => c = d

UsedCodes == {resorts[r].coCode : r \in Resorts} \cup {lvcCodes[l].coCode : l \in LvcCodes}
AtMasters(c) == handler[c].op \in {"product", "write", "removeProduct"}

Looked(c) ==
  /\ AtMasters(c) => KeepsMasters(c)
  /\ handler[c].op = "write" => ~productMissing(handler[c].coCode)
  /\ handler[c].op = "removeProduct" => handler[c].key \notin UsedCodes
RefInv == SetupTypeOK /\ ReferencesResolve /\ \A c \in Staff : Looked(c)

LEMMA Resolved ==
  /\ ReferencesResolve <=> \A code \in UsedCodes \ {NoCode} : products[code] # "none"
  /\ ReferencesResolve' <=> \A code \in UsedCodes' \ {NoCode} : products'[code] # "none"
  BY DEF ReferencesResolve, UsedCodes

LEMMA RefInit == SetupInit => RefInv
  <1> SUFFICES ASSUME SetupInit PROVE RefInv
    OBVIOUS
  <1>1. SetupTypeOK
    BY SetupInitTyped
  <1>2. ReferencesResolve
    BY MigratedAssumption DEF SetupInit, ReferencesResolve
  <1>3. \A c \in Staff : Looked(c)
    BY DEF SetupInit, Looked, AtMasters, Idle
  <1> QED BY <1>1, <1>2, <1>3 DEF RefInv

(* A step that leaves the masters alone and looks nothing up.              *)
LEMMA RefBystander ==
  ASSUME RefInv, SetupTypeOK', NEW c \in Staff, NEW h,
         UNCHANGED <<products, resorts, lvcCodes>>,
         handler' = [handler EXCEPT ![c] = h],
         h.op \notin {"product", "write", "removeProduct"}
  PROVE  RefInv'
  <1>1. ReferencesResolve'
    BY DEF RefInv, ReferencesResolve
  <1>2. \A d \in Staff : handler'[d] = handler[d] \/ handler'[d] = h
    BY DEF RefInv, SetupTypeOK
  <1>3. UNCHANGED UsedCodes
    BY DEF UsedCodes
  <1>4. \A d \in Staff : Looked(d)'
    BY <1>2, <1>3 DEF RefInv, Looked, AtMasters, productMissing
  <1> QED BY <1>1, <1>4 DEF RefInv

LEMMA RefUnmoved ==
  ASSUME RefInv, SetupTypeOK', UNCHANGED <<products, resorts, lvcCodes, handler>>
  PROVE  RefInv'
  BY DEF RefInv, ReferencesResolve, Looked, AtMasters, productMissing, UsedCodes

(* A step of the clerk of the masters: nobody else holds a look-up.        *)
LEMMA RefMaster ==
  ASSUME RefInv, OneMasterClerk, SetupTypeOK', NEW c \in Staff, KeepsMasters(c), NEW h,
         handler' = [handler EXCEPT ![c] = h], ReferencesResolve',
         h.op = "write" => h.coCode = NoCode \/ products'[h.coCode] # "none",
         h.op = "removeProduct" => h.key \notin UsedCodes'
  PROVE  RefInv'
  <1>1. handler'[c] = h
    BY DEF RefInv, SetupTypeOK
  <1>2. Looked(c)'
    BY <1>1 DEF Looked, AtMasters, productMissing
  <1>3. ASSUME NEW d \in Staff \ {c} PROVE Looked(d)'
    <2>1. ~AtMasters(d)
      BY DEF RefInv, Looked, OneMasterClerk
    <2>2. handler'[d] = handler[d]
      BY DEF RefInv, SetupTypeOK
    <2> QED BY <2>1, <2>2 DEF Looked, AtMasters
  <1> QED BY <1>2, <1>3 DEF RefInv

LEMMA RefStep ==
  ASSUME RefInv, OneMasterClerk, [SetupNext]_setupVars
  PROVE  RefInv'
  <1>0. SetupTypeOK'
    BY SetupStepTyped DEF RefInv
  <1>1. CASE UNCHANGED setupVars
    BY <1>0, <1>1, RefUnmoved DEF setupVars
  <1>2. ASSUME NEW c \in Staff, NEW r \in Resorts, NEW eff, NEW today, OpenRate(c, r, eff, today)
        PROVE  RefInv'
    BY <1>0, <1>2, RefUnmoved DEF OpenRate, masters
  <1>3. ASSUME NEW c \in Staff, NEW rows, NEW eff, NEW code, SubmitRate(c, rows, eff, code)
        PROVE  RefInv'
    <2> DEFINE e == editor[c]
               h == [op |-> "load", resort |-> e.resort, kind |-> e.kind, eff |-> eff,
                     replaces |-> e.eff, rows |-> rows, charged |-> code, id |-> 0,
                     gone |-> {}, save |-> saves + 1]
    <2>1. handler' = [handler EXCEPT ![c] = h]
      BY <1>3 DEF SubmitRate
    <2>2. UNCHANGED <<products, resorts, lvcCodes>>
      BY <1>3 DEF SubmitRate, masters
    <2>3. h.op = "load"
      OBVIOUS
    <2> HIDE DEF h
    <2> QED BY <1>0, <2>1, <2>2, <2>3, RefBystander
  <1>4. ASSUME NEW c \in Staff, Refuse(c) PROVE RefInv'
    BY <1>0, <1>4, RefBystander DEF Refuse, Idle, masters
  <1>5. ASSUME NEW c \in Staff, NEW h, Step(c, h),
               h.op \notin {"product", "write", "removeProduct"}
        PROVE  RefInv'
    BY <1>0, <1>5, RefBystander DEF Step, masters
  <1>6. ASSUME NEW c \in Staff, LoadResort(c) \/ CheckRows(c) \/ CheckDate(c) \/ DropVersion(c)
        PROVE  RefInv'
    <2> DEFINE q == handler[c]
    <2>1. q \in ChartSave
      BY <1>6, RequestFields DEF RefInv, SetupTypeOK, LoadResort, CheckRows, CheckDate, DropVersion
    <2>2. /\ \A id : [q EXCEPT !.op = "check", !.id = id].op = "check"
          /\ \A op \in {"date", "drop"} : [q EXCEPT !.op = op].op = op
          /\ \A gone : [q EXCEPT !.op = "commit", !.gone = gone].op = "commit"
      BY <2>1 DEF ChartSave
    <2>3. CASE LoadResort(c)
      BY <2>2, <2>3, <1>4, <1>5 DEF LoadResort
    <2>4. CASE CheckRows(c) \/ CheckDate(c)
      BY <2>2, <2>4, <1>4, <1>5 DEF CheckRows, CheckDate
    <2>5. CASE DropVersion(c)
      BY <2>2, <2>5, <1>5 DEF DropVersion
    <2> QED BY <1>6, <2>3, <2>4, <2>5
  <1>7. ASSUME NEW c \in Staff, CommitRate(c) PROVE RefInv'
    <2>1. Idle.op \notin {"product", "write", "removeProduct"}
      BY DEF Idle
    <2>2. CASE Refuse(c)
      BY <1>4, <2>2
    <2>3. CASE handler' = [handler EXCEPT ![c] = Idle] /\ UNCHANGED masters
      BY <1>0, <2>1, <2>3, RefBystander DEF masters
    <2> QED BY <1>7, <2>2, <2>3 DEF CommitRate
  <1>8. ASSUME NEW c \in Staff, NEW r, NEW t, NEW u, NEW d,
               \/ FetchProducts(c) \/ DeleteVersion(c, r, d)
               \/ CreateType(c, r, t) \/ RenameType(c, r, t, u)
        PROVE  RefInv'
    BY <1>0, <1>8, RefUnmoved DEF FetchProducts, DeleteVersion, CreateType, RenameType, masters
  <1>9. ASSUME NEW c \in Staff, NEW r \in Resorts, NEW t, DeleteType(c, r, t)
        PROVE  RefInv'
    BY <1>5, <1>9 DEF DeleteType
  <1>10. ASSUME NEW c \in Staff, RemoveType(c) PROVE RefInv'
    BY <1>0, <1>10, RefBystander DEF RemoveType, Idle
  <1>11. ASSUME NEW c \in Staff, NEW p \in Products, NEW status \in {"A", "U"},
                SaveProduct(c, p, status)
         PROVE  RefInv'
    <2>1. KeepsMasters(c) /\ handler[c] = Idle
      BY <1>11 DEF SaveProduct, Free, KeepsMasters, MasterOps
    <2>2. \A x : products[x] # "none" => products'[x] # "none"
      BY <1>11 DEF SaveProduct, RefInv, SetupTypeOK
    <2>3. ReferencesResolve'
      BY <1>11, <2>2 DEF SaveProduct, RefInv, ReferencesResolve
    <2>4. handler' = [handler EXCEPT ![c] = Idle]
      BY <1>11, <2>1 DEF SaveProduct, RefInv, SetupTypeOK
    <2> QED BY <1>0, <2>1, <2>3, <2>4, RefMaster DEF Idle
  <1>12. ASSUME NEW c \in Staff, NEW p \in Products, DeleteProduct(c, p) PROVE RefInv'
    <2>1. KeepsMasters(c)
      BY <1>12 DEF DeleteProduct, Free, KeepsMasters, MasterOps
    <2>2. UNCHANGED <<products, resorts, lvcCodes>>
      BY <1>12 DEF DeleteProduct, Step, masters
    <2>3. p \notin UsedCodes'
      BY <1>12, <2>2 DEF DeleteProduct, InUse, UsedCodes
    <2>4. handler' = [handler EXCEPT ![c] = [op |-> "removeProduct", key |-> p]]
      BY <1>12 DEF DeleteProduct, Step
    <2>5. ReferencesResolve'
      BY <2>2 DEF RefInv, ReferencesResolve
    <2> QED BY <1>0, <2>1, <2>3, <2>4, <2>5, RefMaster
  <1>13. ASSUME NEW c \in Staff, RemoveProduct(c) PROVE RefInv'
    <2>1. KeepsMasters(c) /\ handler[c].key \notin UsedCodes
      BY <1>13 DEF RemoveProduct, RefInv, Looked, AtMasters
    <2>2. UNCHANGED UsedCodes
      BY <1>13 DEF RemoveProduct, UsedCodes
    <2>3. \A x \in UsedCodes : products'[x] = products[x]
      BY <1>13, <2>1 DEF RemoveProduct, RefInv, SetupTypeOK
    <2>4. ReferencesResolve'
      BY <2>2, <2>3, Resolved DEF RefInv
    <2> QED BY <1>0, <1>13, <2>1, <2>4, RefMaster DEF RemoveProduct, Idle
  <1>14. ASSUME NEW c \in Staff, NEW table \in {"resort", "lvc"}, NEW key, NEW code, NEW new,
                Submit(c, table, key, code, new)
         PROVE  RefInv'
    <2>1. KeepsMasters(c)
      BY <1>14 DEF Submit, Free, KeepsMasters, MasterOps
    <2>2. UNCHANGED <<products, resorts, lvcCodes>>
      BY <1>14 DEF Submit, Step, masters
    <2>3. ReferencesResolve'
      BY <2>2 DEF RefInv, ReferencesResolve
    <2> QED BY <1>0, <1>14, <2>1, <2>3, RefMaster DEF Submit, Step
  <1>15. ASSUME NEW c \in Staff, CheckProduct(c) PROVE RefInv'
    <2> DEFINE q == handler[c]
               h == [q EXCEPT !.op = "write"]
    <2>1. CASE Refuse(c)
      BY <1>4, <2>1
    <2>2. CASE ~productMissing(q.coCode) /\ Step(c, h)
      <3>1. KeepsMasters(c) /\ q \in FormSave
        BY <1>15, RequestFields DEF CheckProduct, RefInv, SetupTypeOK, Looked, AtMasters
      <3>2. h.op = "write" /\ h.coCode = q.coCode
        BY <3>1 DEF FormSave
      <3>3. UNCHANGED <<products, resorts, lvcCodes>>
        BY <2>2 DEF Step, masters
      <3>4. ReferencesResolve'
        BY <3>3 DEF RefInv, ReferencesResolve
      <3>5. h.coCode = NoCode \/ products'[h.coCode] # "none"
        BY <2>2, <3>2, <3>3 DEF productMissing
      <3>6. handler' = [handler EXCEPT ![c] = h]
        BY <2>2 DEF Step
      <3> QED BY <1>0, <3>1, <3>2, <3>4, <3>5, <3>6, RefMaster
    <2> QED BY <1>15, <2>1, <2>2 DEF CheckProduct
  <1>16. ASSUME NEW c \in Staff, WriteResort(c) \/ WriteLvcCode(c) PROVE RefInv'
    <2> DEFINE q == handler[c]
    <2>1. CASE Refuse(c)
      BY <1>4, <2>1
    <2>2. CASE ~Refuse(c)
      <3>1. /\ KeepsMasters(c)
            /\ q.coCode = NoCode \/ products[q.coCode] # "none"
            /\ \A row : Written(q, row).coCode = q.coCode
        BY <1>16 DEF WriteResort, WriteLvcCode, RefInv, Looked, AtMasters, productMissing, Written
      <3>2. products' = products /\ handler' = [handler EXCEPT ![c] = Idle]
        BY <1>16, <2>2 DEF WriteResort, WriteLvcCode
      <3>3. UsedCodes' \subseteq UsedCodes \cup {q.coCode}
        <4>1. \A r \in Resorts : resorts'[r].coCode \in {resorts[r].coCode, q.coCode}
          BY <1>16, <2>2, <3>1 DEF WriteResort, WriteLvcCode, RefInv, SetupTypeOK
        <4>2. \A l \in LvcCodes : lvcCodes'[l].coCode \in {lvcCodes[l].coCode, q.coCode}
          BY <1>16, <2>2, <3>1 DEF WriteResort, WriteLvcCode, RefInv, SetupTypeOK
        <4> QED BY <4>1, <4>2 DEF UsedCodes
      <3>4. ReferencesResolve'
        BY <3>1, <3>2, <3>3, Resolved DEF RefInv
      <3>5. Idle.op = "idle" /\ KeepsMasters(c)
        BY <3>1 DEF Idle
      <3> HIDE DEF q
      <3> QED BY <1>0, <3>2, <3>4, <3>5, RefMaster
    <2> QED BY <2>1, <2>2
  <1>17. ASSUME NEW c \in Staff,
                \/ \E r \in Resorts : DeleteResort(c, r)
                \/ \E l \in LvcCodes : DeleteLvcCode(c, l)
         PROVE  RefInv'
    <2>1. KeepsMasters(c) /\ handler[c] = Idle
      BY <1>17 DEF DeleteResort, DeleteLvcCode, Free, KeepsMasters, MasterOps
    <2>2. UsedCodes' \subseteq UsedCodes \cup {NoCode}
      <3>1. \A r \in Resorts : resorts'[r].coCode \in {resorts[r].coCode, NoCode}
        BY <1>17 DEF DeleteResort, DeleteLvcCode, RefInv, SetupTypeOK, Absent
      <3>2. \A l \in LvcCodes : lvcCodes'[l].coCode \in {lvcCodes[l].coCode, NoCode}
        BY <1>17 DEF DeleteResort, DeleteLvcCode, RefInv, SetupTypeOK, Absent
      <3> QED BY <3>1, <3>2 DEF UsedCodes
    <2>3. products' = products /\ handler' = handler
      BY <1>17 DEF DeleteResort, DeleteLvcCode
    <2>4. ReferencesResolve'
      BY <2>2, <2>3, Resolved DEF RefInv
    <2>5. handler' = [handler EXCEPT ![c] = Idle]
      BY <2>1, <2>3 DEF RefInv, SetupTypeOK
    <2> QED BY <1>0, <2>1, <2>4, <2>5, RefMaster DEF Idle
  <1>18. ASSUME NEW c \in Staff, NEW k, NEW code, SubmitResort(c, k, code) \/ SubmitLvcCode(c, k, code)
         PROVE  RefInv'
    BY <1>14, <1>18 DEF SubmitResort, SubmitLvcCode
  <1>19. CASE SetupNext
    <2>1. PICK c \in Staff :
            \/ FetchProducts(c)
            \/ \E r \in Resorts, eff \in {0} \cup Dates :
                 \E today \in IF eff = 0 THEN Dates ELSE {eff} : OpenRate(c, r, eff, today)
            \/ \E rows \in SUBSET Types, eff \in Dates, code \in Named :
                 SubmitRate(c, rows, eff, code)
            \/ LoadResort(c) \/ CheckRows(c) \/ CheckDate(c) \/ DropVersion(c) \/ CommitRate(c)
            \/ \E r \in Resorts, d \in Dates : DeleteVersion(c, r, d)
            \/ \E p \in Products, status \in {"A", "U"} : SaveProduct(c, p, status)
            \/ \E p \in Products : DeleteProduct(c, p)
            \/ RemoveProduct(c)
            \/ \E r \in Resorts, code \in Products : SubmitResort(c, r, code)
            \/ \E l \in LvcCodes, code \in Named : SubmitLvcCode(c, l, code)
            \/ CheckProduct(c) \/ WriteResort(c) \/ WriteLvcCode(c)
            \/ \E r \in Resorts : DeleteResort(c, r)
            \/ \E l \in LvcCodes : DeleteLvcCode(c, l)
            \/ \E r \in Resorts, t \in Types : CreateType(c, r, t) \/ DeleteType(c, r, t)
            \/ \E r \in Resorts, t, u \in Types : RenameType(c, r, t, u)
            \/ RemoveType(c)
      BY <1>19 DEF SetupNext
    <2> QED BY <2>1, <1>2, <1>3, <1>6, <1>7, <1>8, <1>9, <1>10, <1>11, <1>12, <1>13, <1>15, <1>16,
               <1>17, <1>18
  <1> QED BY <1>1, <1>19

(* With one clerk who keeps products, resorts and LVC codes, the code of   *)
(* each of them names a product, however old the lists are that the forms  *)
(* offer and whatever charts are saved meanwhile: the count before a       *)
(* delete does what a foreign key would do.                                *)
THEOREM ReferencesStay == OneMasterClerk => (Spec => []ReferencesResolve)
  <1> SUFFICES ASSUME OneMasterClerk PROVE Spec => []ReferencesResolve
    OBVIOUS
  <1>1. Init => RefInv
    BY Desk, RefInit
  <1>2. RefInv /\ [Next]_vars => RefInv'
    BY Desk, RefStep
  <1>3. RefInv => ReferencesResolve
    BY DEF RefInv
  <1> QED BY <1>1, <1>2, <1>3, PTL DEF Spec

(***************************************************************************)
(* Charts.  While one clerk saves them, the others only delete rows: the   *)
(* date a save has found free stays free, and the latest rate only gets    *)
(* older, between the look-ups and the two statements of the transaction.  *)
(***************************************************************************)
ChartOps == {"load", "check", "date", "drop", "commit"}
OneChartSaver ==
  \A c, d \in Staff : "chart" \in SetupOps[c] /\ "chart" \in SetupOps[d] => c = d

AfterAll(q) == q.replaces = 0 => \A d \in VersionDates(q.resort) : d < q.eff
Cleared(c) ==
  LET q == handler[c] IN
  /\ q.op \in ChartOps => "chart" \in SetupOps[c]
  /\ q.op = "drop" => AfterAll(q) /\ (q.replaces = q.eff \/ Version(q.resort, q.eff) = {})
  /\ q.op = "commit" => AfterAll(q) /\ Version(q.resort, q.eff) \subseteq q.gone
                         /\ (q.replaces = 0 => q.gone = {})
SaveInv == SetupTypeOK /\ VersionsWhole /\ \A c \in Staff : Cleared(c)

LEMMA SaveInit == SetupInit => SaveInv
  <1> SUFFICES ASSUME SetupInit PROVE SaveInv
    OBVIOUS
  <1>1. \A p \in points : p.save = 0
    BY DEF SetupInit, CollapseToLatestVersion
  <1>2. VersionsWhole
    BY <1>1 DEF VersionsWhole
  <1>3. \A c \in Staff : Cleared(c)
    BY DEF SetupInit, Cleared, Idle, ChartOps
  <1> QED BY <1>2, <1>3, SetupInitTyped DEF SaveInv

(* Fewer rows keep what a request has cleared.                             *)
LEMMA FewerRows ==
  ASSUME points' \subseteq points, NEW r, NEW d
  PROVE  Version(r, d)' \subseteq Version(r, d) /\ VersionDates(r)' \subseteq VersionDates(r)
  BY DEF Version, VersionDates

LEMMA SaveBystander ==
  ASSUME SaveInv, SetupTypeOK', points' \subseteq points,
         \A c \in Staff : handler'[c] = handler[c] \/ handler'[c].op \notin ChartOps
  PROVE  SaveInv'
  <1>1. VersionsWhole'
    BY DEF SaveInv, VersionsWhole
  <1>2. ASSUME NEW c \in Staff PROVE Cleared(c)'
    <2>1. CASE handler'[c] = handler[c]
      <3>1. AfterAll(handler[c]) => AfterAll(handler[c])'
        BY <2>1, FewerRows DEF AfterAll
      <3>2. Version(handler[c].resort, handler[c].eff)'
              \subseteq Version(handler[c].resort, handler[c].eff)
        BY <2>1, FewerRows
      <3> QED BY <2>1, <3>1, <3>2 DEF SaveInv, Cleared
    <2>2. CASE handler'[c].op \notin ChartOps
      BY <2>2 DEF Cleared, ChartOps
    <2> QED BY <2>1, <2>2
  <1> QED BY <1>1, <1>2 DEF SaveInv

(* A step of a save that leaves the rows alone.                            *)
LEMMA SaveMoves ==
  ASSUME SaveInv, SetupTypeOK', points' = points, NEW c \in Staff, NEW h,
         handler' = [handler EXCEPT ![c] = h], Cleared(c)'
  PROVE  SaveInv'
  <1>1. VersionsWhole'
    BY DEF SaveInv, VersionsWhole
  <1>2. ASSUME NEW d \in Staff \ {c} PROVE Cleared(d)'
    BY DEF SaveInv, SetupTypeOK, Cleared, AfterAll, Version, VersionDates
  <1> QED BY <1>1, <1>2 DEF SaveInv

LEMMA Alone ==
  ASSUME SaveInv, OneChartSaver, NEW c \in Staff, "chart" \in SetupOps[c],
         NEW d \in Staff \ {c}
  PROVE  handler[d].op \notin ChartOps
  BY DEF SaveInv, Cleared, OneChartSaver

LEMMA SaveCommits ==
  ASSUME SaveInv, OneChartSaver, SetupTypeOK', NEW c \in Staff, CommitRate(c)
  PROVE  SaveInv'
  <1> DEFINE q == handler[c]
             left == points \ q.gone
             new == [resort : {q.resort}, eff : {q.eff}, type : q.rows,
                     charged : {q.charged}, save : {q.save}]
  <1>1. handler' = [handler EXCEPT ![c] = Idle]
    BY DEF CommitRate, Refuse
  <1>2. \A d \in Staff : handler'[d] = handler[d] \/ handler'[d].op \notin ChartOps
    BY <1>1 DEF SaveInv, SetupTypeOK, Idle, ChartOps
  <1>3. CASE points' = points
    BY <1>2, <1>3, SaveBystander
  <1>4. CASE points' = left \cup new
    <2>1. \A p \in new : p.resort = q.resort /\ p.eff = q.eff /\ p.save = q.save
      OBVIOUS
    <2>2. \A p \in left : ~(p.resort = q.resort /\ p.eff = q.eff)
      BY DEF SaveInv, Cleared, CommitRate, Version
    <2>3. \A p, o \in left : p.resort = o.resort /\ p.eff = o.eff => p.save = o.save
      BY DEF SaveInv, VersionsWhole
    <2>4. VersionsWhole'
      <3> HIDE DEF new, left
      <3> QED BY <1>4, <2>1, <2>2, <2>3 DEF VersionsWhole
    <2>5. \A d \in Staff : handler'[d].op \notin ChartOps
      <3>1. "chart" \in SetupOps[c]
        BY DEF SaveInv, Cleared, CommitRate, ChartOps
      <3>2. handler'[c] = Idle /\ Idle.op \notin ChartOps
        BY <1>1 DEF SaveInv, SetupTypeOK, Idle, ChartOps
      <3> QED BY <1>1, <3>1, <3>2, Alone DEF SaveInv, SetupTypeOK
    <2>6. \A d \in Staff : Cleared(d)'
      BY <2>5 DEF Cleared, ChartOps
    <2> QED BY <2>4, <2>6 DEF SaveInv
  <1> QED BY <1>3, <1>4 DEF CommitRate, Refuse

LEMMA SaveAdvances ==
  ASSUME SaveInv, SetupTypeOK', NEW c \in Staff,
         LoadResort(c) \/ CheckRows(c) \/ CheckDate(c) \/ DropVersion(c)
  PROVE  SaveInv'
  <1> DEFINE q == handler[c]
  <1>1. q \in ChartSave /\ "chart" \in SetupOps[c]
    BY RequestFields DEF SaveInv, SetupTypeOK, Cleared, ChartOps,
                         LoadResort, CheckRows, CheckDate, DropVersion
  <1>2. CASE Refuse(c)
    <2>1. \A d \in Staff : handler'[d] = handler[d] \/ handler'[d].op \notin ChartOps
      BY <1>2 DEF Refuse, SaveInv, SetupTypeOK, Idle, ChartOps
    <2> QED BY <1>2, <2>1, SaveBystander DEF Refuse
  <1>3. ASSUME NEW h, Step(c, h), h.op \in ChartOps \ {"drop", "commit"} PROVE SaveInv'
    <2>1. handler'[c] = h
      BY <1>3 DEF Step, SaveInv, SetupTypeOK
    <2>2. Cleared(c)'
      BY <1>1, <1>3, <2>1 DEF Cleared
    <2> QED BY <1>3, <2>2, SaveMoves DEF Step
  <1>4. CASE LoadResort(c)
    <2>1. \A id : [q EXCEPT !.op = "check", !.id = id].op \in ChartOps \ {"drop", "commit"}
      BY <1>1 DEF ChartSave, ChartOps
    <2> QED BY <1>2, <1>3, <1>4, <2>1 DEF LoadResort
  <1>5. CASE CheckRows(c)
    <2>1. [q EXCEPT !.op = "date"].op \in ChartOps \ {"drop", "commit"}
      BY <1>1 DEF ChartSave, ChartOps
    <2> QED BY <1>2, <1>3, <1>5, <2>1 DEF CheckRows
  <1>6. CASE CheckDate(c) /\ ~Refuse(c)
    <2> DEFINE h == [q EXCEPT !.op = "drop"]
    <2>1. Step(c, h) /\ ~Clashes(q) /\ ~Backdated(q)
      BY <1>6 DEF CheckDate
    <2>2. h.op = "drop" /\ h.resort = q.resort /\ h.eff = q.eff /\ h.replaces = q.replaces
      BY <1>1 DEF ChartSave
    <2>3. points' = points /\ handler' = [handler EXCEPT ![c] = h] /\ handler'[c] = h
      BY <2>1 DEF Step, SaveInv, SetupTypeOK
    <2>4. q.eff \in Int /\ \A d \in VersionDates(q.resort) : d \in Int
      BY <1>1, VersionsTyped, NamesAssumption DEF ChartSave, Dates, SaveInv
    <2>5. q.replaces = 0 => \A d \in VersionDates(q.resort) : d < q.eff
      BY <2>1, <2>4 DEF Backdated
    <2>6. q.replaces = q.eff \/ Version(q.resort, q.eff) = {}
      BY <2>1 DEF Clashes
    <2> HIDE DEF h
    <2>7. /\ VersionDates(handler[c].resort)' = VersionDates(q.resort)
          /\ Version(handler[c].resort, handler[c].eff)' = Version(q.resort, q.eff)
      BY <2>2, <2>3 DEF VersionDates, Version
    <2>8. AfterAll(handler[c])'
      BY <2>2, <2>3, <2>5, <2>7 DEF AfterAll
    <2>9. Cleared(c)'
      BY <1>1, <2>2, <2>3, <2>6, <2>7, <2>8 DEF Cleared
    <2> QED BY <2>3, <2>9, SaveMoves
  <1>7. CASE DropVersion(c)
    <2> DEFINE target == IF q.replaces = 0 THEN q.eff ELSE q.replaces
               h == [q EXCEPT !.op = "commit", !.gone = Version(q.resort, target)]
    <2>1. Step(c, h)
      BY <1>7 DEF DropVersion
    <2>2. /\ h.op = "commit" /\ h.resort = q.resort /\ h.eff = q.eff
          /\ h.replaces = q.replaces /\ h.gone = Version(q.resort, target)
      BY <1>1 DEF ChartSave
    <2>3. points' = points /\ handler' = [handler EXCEPT ![c] = h] /\ handler'[c] = h
      BY <2>1 DEF Step, SaveInv, SetupTypeOK
    <2>4. AfterAll(q) /\ (q.replaces = q.eff \/ Version(q.resort, q.eff) = {})
      BY <1>7 DEF DropVersion, SaveInv, Cleared
    <2>5. q.eff \in Nat \ {0}
      BY <1>1, NamesAssumption DEF ChartSave, Dates
    <2>6. q.replaces = 0 => Version(q.resort, q.eff) = {}
      BY <2>4, <2>5
    <2>7. Version(q.resort, q.eff) \subseteq h.gone /\ (q.replaces = 0 => h.gone = {})
      BY <2>2, <2>4, <2>6
    <2> HIDE DEF h
    <2>8. /\ VersionDates(handler[c].resort)' = VersionDates(q.resort)
          /\ Version(handler[c].resort, handler[c].eff)' = Version(q.resort, q.eff)
      BY <2>2, <2>3 DEF VersionDates, Version
    <2>9. AfterAll(handler[c])'
      BY <2>2, <2>3, <2>4, <2>8 DEF AfterAll
    <2>10. Cleared(c)'
      BY <1>1, <2>2, <2>3, <2>7, <2>8, <2>9 DEF Cleared
    <2> QED BY <2>3, <2>10, SaveMoves
  <1> QED BY <1>2, <1>4, <1>5, <1>6, <1>7

(* What is no part of a save, nor its submission, at most deletes rows.    *)
LEMMA OthersShrink ==
  ASSUME SetupTypeOK, NEW c \in Staff,
         \/ FetchProducts(c) \/ RemoveProduct(c) \/ RemoveType(c)
         \/ CheckProduct(c) \/ WriteResort(c) \/ WriteLvcCode(c)
         \/ \E r, eff, today : OpenRate(c, r, eff, today)
         \/ \E r, d : DeleteVersion(c, r, d)
         \/ \E p, status : SaveProduct(c, p, status)
         \/ \E p : DeleteProduct(c, p)
         \/ \E k, code : SubmitResort(c, k, code) \/ SubmitLvcCode(c, k, code)
         \/ \E k : DeleteResort(c, k) \/ DeleteLvcCode(c, k)
         \/ \E r, t : CreateType(c, r, t) \/ DeleteType(c, r, t)
         \/ \E r, t, u : RenameType(c, r, t, u)
  PROVE  /\ points' \subseteq points
         /\ \A d \in Staff : handler'[d] = handler[d] \/ handler'[d].op \notin ChartOps
         /\ points' = points \/ handler' = handler
  <1>1. ASSUME NEW h, h.op \notin ChartOps, handler' = [handler EXCEPT ![c] = h]
        PROVE  \A d \in Staff : handler'[d] = handler[d] \/ handler'[d].op \notin ChartOps
    BY <1>1 DEF SetupTypeOK
  <1>2. Idle.op \notin ChartOps
    BY DEF Idle, ChartOps
  <1>3. ASSUME Refuse(c) PROVE points' = points /\ handler' = [handler EXCEPT ![c] = Idle]
    BY <1>3 DEF Refuse
  <1>4. CASE \/ FetchProducts(c)
             \/ \E r, eff, today : OpenRate(c, r, eff, today)
             \/ \E p, status : SaveProduct(c, p, status)
             \/ \E k : DeleteLvcCode(c, k)
             \/ \E r, t : CreateType(c, r, t)
             \/ \E r, t, u : RenameType(c, r, t, u)
    BY <1>4 DEF FetchProducts, OpenRate, SaveProduct, DeleteLvcCode, CreateType, RenameType
  <1>5. CASE (\E r, d : DeleteVersion(c, r, d)) \/ (\E k : DeleteResort(c, k))
    BY <1>5 DEF DeleteVersion, DeleteResort
  <1>6. CASE RemoveProduct(c) \/ RemoveType(c)
    BY <1>1, <1>2, <1>6 DEF RemoveProduct, RemoveType
  <1>7. CASE WriteResort(c) \/ WriteLvcCode(c)
    BY <1>1, <1>2, <1>3, <1>7 DEF WriteResort, WriteLvcCode
  <1>8. CASE CheckProduct(c)
    <2>1. handler[c] \in FormSave
      BY <1>8, RequestFields DEF SetupTypeOK, CheckProduct
    <2>2. [handler[c] EXCEPT !.op = "write"].op \notin ChartOps
      BY <2>1 DEF FormSave, ChartOps
    <2> QED BY <1>1, <1>2, <1>3, <1>8, <2>2 DEF CheckProduct, Step
  <1>9. CASE (\E p : DeleteProduct(c, p)) \/ (\E r, t : DeleteType(c, r, t))
    <2>1. /\ \A p : [op |-> "removeProduct", key |-> p].op \notin ChartOps
          /\ \A t : [op |-> "removeType", key |-> t].op \notin ChartOps
      BY DEF ChartOps
    <2> QED BY <1>1, <1>9, <2>1 DEF DeleteProduct, DeleteType, Step
  <1>10. CASE \E k, code : SubmitResort(c, k, code) \/ SubmitLvcCode(c, k, code)
    <2>1. \A table, key, code, new :
            [op |-> "product", table |-> table, key |-> key, coCode |-> code,
             new |-> new].op \notin ChartOps
      BY DEF ChartOps
    <2>2. PICK table, key, code, new : Submit(c, table, key, code, new)
      <3>1. PICK k, code : SubmitResort(c, k, code) \/ SubmitLvcCode(c, k, code)
        BY <1>10
      <3>2. CASE SubmitResort(c, k, code)
        BY <3>2 DEF SubmitResort
      <3>3. CASE SubmitLvcCode(c, k, code)
        BY <3>3 DEF SubmitLvcCode
      <3> QED BY <3>1, <3>2, <3>3
    <2>3. /\ points' = points
          /\ handler' = [handler EXCEPT ![c] =
               [op |-> "product", table |-> table, key |-> key, coCode |-> code, new |-> new]]
      BY <2>2 DEF Submit, Step
    <2> QED BY <1>1, <2>1, <2>3
  <1> QED BY <1>4, <1>5, <1>6, <1>7, <1>8, <1>9, <1>10

LEMMA SaveSubmitted ==
  ASSUME SaveInv, SetupTypeOK', NEW c \in Staff, NEW rows, NEW eff, NEW code,
         SubmitRate(c, rows, eff, code)
  PROVE  SaveInv'
  <1> DEFINE e == editor[c]
             h == [op |-> "load", resort |-> e.resort, kind |-> e.kind, eff |-> eff,
                   replaces |-> e.eff, rows |-> rows, charged |-> code, id |-> 0,
                   gone |-> {}, save |-> saves + 1]
  <1>1. handler' = [handler EXCEPT ![c] = h] /\ points' = points /\ "chart" \in SetupOps[c]
    BY DEF SubmitRate, Free
  <1>2. h.op = "load"
    OBVIOUS
  <1> HIDE DEF h
  <1>3. handler'[c] = h
    BY <1>1 DEF SaveInv, SetupTypeOK
  <1>4. Cleared(c)'
    BY <1>1, <1>2, <1>3 DEF Cleared
  <1> QED BY <1>1, <1>4, SaveMoves

LEMMA SaveStep ==
  ASSUME SaveInv, OneChartSaver, [SetupNext]_setupVars
  PROVE  SaveInv'
  <1>1. SetupTypeOK'
    BY SetupStepTyped DEF SaveInv
  <1>2. CASE UNCHANGED setupVars
    BY <1>1, <1>2, SaveBystander DEF setupVars
  <1>3. CASE SetupNext
    <2>1. PICK c \in Staff :
            \/ FetchProducts(c)
            \/ \E r \in Resorts, eff \in {0} \cup Dates :
                 \E today \in IF eff = 0 THEN Dates ELSE {eff} : OpenRate(c, r, eff, today)
            \/ \E rows \in SUBSET Types, eff \in Dates, code \in Named :
                 SubmitRate(c, rows, eff, code)
            \/ LoadResort(c) \/ CheckRows(c) \/ CheckDate(c) \/ DropVersion(c) \/ CommitRate(c)
            \/ \E r \in Resorts, d \in Dates : DeleteVersion(c, r, d)
            \/ \E p \in Products, status \in {"A", "U"} : SaveProduct(c, p, status)
            \/ \E p \in Products : DeleteProduct(c, p)
            \/ RemoveProduct(c)
            \/ \E r \in Resorts, code \in Products : SubmitResort(c, r, code)
            \/ \E l \in LvcCodes, code \in Named : SubmitLvcCode(c, l, code)
            \/ CheckProduct(c) \/ WriteResort(c) \/ WriteLvcCode(c)
            \/ \E r \in Resorts : DeleteResort(c, r)
            \/ \E l \in LvcCodes : DeleteLvcCode(c, l)
            \/ \E r \in Resorts, t \in Types : CreateType(c, r, t) \/ DeleteType(c, r, t)
            \/ \E r \in Resorts, t, u \in Types : RenameType(c, r, t, u)
            \/ RemoveType(c)
      BY <1>3 DEF SetupNext
    <2>2. CASE CommitRate(c)
      BY <1>1, <2>2, SaveCommits
    <2>3. CASE LoadResort(c) \/ CheckRows(c) \/ CheckDate(c) \/ DropVersion(c)
      BY <1>1, <2>3, SaveAdvances
    <2>4. CASE \E rows, eff, code : SubmitRate(c, rows, eff, code)
      BY <1>1, <2>4, SaveSubmitted
    <2>5. CASE /\ points' \subseteq points
               /\ \A d \in Staff : handler'[d] = handler[d] \/ handler'[d].op \notin ChartOps
      BY <1>1, <2>5, SaveBystander
    <2> QED BY <2>1, <2>2, <2>3, <2>4, <2>5, OthersShrink DEF SaveInv
  <1> QED BY <1>2, <1>3

LEMMA SaveAlways == OneChartSaver => (Spec => []SaveInv)
  <1> SUFFICES ASSUME OneChartSaver PROVE Spec => []SaveInv
    OBVIOUS
  <1>1. Init => SaveInv
    BY Desk, SaveInit
  <1>2. SaveInv /\ [Next]_vars => SaveInv'
    BY Desk, SaveStep
  <1> QED BY <1>1, <1>2, PTL DEF Spec

(* With one clerk who saves charts, rows of one resort and effective date  *)
(* are always one save's, though others delete versions, resorts and types *)
(* between its look-ups and its commit.                                    *)
THEOREM ChartsWhole == OneChartSaver => (Spec => []VersionsWhole)
  <1> SUFFICES ASSUME OneChartSaver PROVE Spec => []VersionsWhole
    OBVIOUS
  <1>1. Spec => []SaveInv
    BY SaveAlways
  <1>2. SaveInv => VersionsWhole
    BY DEF SaveInv
  <1> QED BY <1>1, <1>2, PTL

(* The rows only grow by a commit.                                         *)
LEMMA CommitOf ==
  ASSUME SetupTypeOK, [SetupNext]_setupVars, points' # points,
         NEW c \in Staff, handler[c].op = "commit", handler'[c] = Idle
  PROVE  CommitRate(c)
  <1>1. SetupNext
    BY DEF setupVars
  <1>2. PICK d \in Staff : CommitRate(d) \/ handler' = handler
    <2>1. PICK c_1 \in Staff :
            \/ FetchProducts(c_1)
            \/ \E r \in Resorts, eff \in {0} \cup Dates :
                 \E today \in IF eff = 0 THEN Dates ELSE {eff} : OpenRate(c_1, r, eff, today)
            \/ \E rows \in SUBSET Types, eff \in Dates, code \in Named :
                 SubmitRate(c_1, rows, eff, code)
            \/ LoadResort(c_1) \/ CheckRows(c_1) \/ CheckDate(c_1) \/ DropVersion(c_1) \/ CommitRate(c_1)
            \/ \E r \in Resorts, d \in Dates : DeleteVersion(c_1, r, d)
            \/ \E p \in Products, status \in {"A", "U"} : SaveProduct(c_1, p, status)
            \/ \E p \in Products : DeleteProduct(c_1, p)
            \/ RemoveProduct(c_1)
            \/ \E r \in Resorts, code \in Products : SubmitResort(c_1, r, code)
            \/ \E l \in LvcCodes, code \in Named : SubmitLvcCode(c_1, l, code)
            \/ CheckProduct(c_1) \/ WriteResort(c_1) \/ WriteLvcCode(c_1)
            \/ \E r \in Resorts : DeleteResort(c_1, r)
            \/ \E l \in LvcCodes : DeleteLvcCode(c_1, l)
            \/ \E r \in Resorts, t \in Types : CreateType(c_1, r, t) \/ DeleteType(c_1, r, t)
            \/ \E r \in Resorts, t, u \in Types : RenameType(c_1, r, t, u)
            \/ RemoveType(c_1)
      BY <1>1 DEF SetupNext
    <2>2. CASE CommitRate(c_1)
      BY <2>2
    <2>3. CASE LoadResort(c_1) \/ CheckRows(c_1) \/ CheckDate(c_1) \/ DropVersion(c_1)
      BY <2>3 DEF LoadResort, CheckRows, CheckDate, DropVersion, Refuse, Step
    <2>4. CASE \E rows, eff, code : SubmitRate(c_1, rows, eff, code)
      BY <2>4 DEF SubmitRate
    <2> QED BY <2>1, <2>2, <2>3, <2>4, OthersShrink
  <1>3. Idle.op # "commit"
    BY DEF Idle
  <1>4. handler' # handler
    BY <1>3
  <1>5. CommitRate(d) => handler' = [handler EXCEPT ![d] = Idle]
    BY DEF CommitRate, Refuse
  <1>6. d = c
    BY <1>2, <1>3, <1>4, <1>5 DEF SetupTypeOK
  <1> QED BY <1>2, <1>4, <1>6

(* Adding a date after all the others changes what is in force from it on. *)
LEMMA LaterVersion ==
  ASSUME SetupTypeOK, NEW r, NEW eff \in Int, NEW day \in Int,
         VersionDates(r)' = VersionDates(r) \cup {eff},
         \A d \in VersionDates(r) : d < eff
  PROVE  IF day >= eff THEN InForce(r, day)' = {eff}
         ELSE InForce(r, day) \in {{}, InForce(r, day)'}
  <1> DEFINE V == VersionDates(r)
             W == V \cup {eff}
  <1>1. \A d \in V : d \in Int
    BY VersionsTyped, NamesAssumption DEF Dates
  <1>2. InForce(r, day)' =
          LET past == {d \in W : d <= day}
          IN IF past # {} THEN {d \in past : \A e \in past : e <= d}
             ELSE {d \in W : \A e \in W : d <= e}
    BY DEF InForce
  <1>3. InForce(r, day) =
          LET past == {d \in V : d <= day}
          IN IF past # {} THEN {d \in past : \A e \in past : e <= d}
             ELSE {d \in V : \A e \in V : d <= e}
    BY DEF InForce
  <1> HIDE DEF V
  <1>4. \A d \in V : d < eff
    BY DEF V
  <1>5. CASE day >= eff
    <2>1. eff \in {d \in W : d <= day}
      BY <1>5
    <2>2. {d \in {x \in W : x <= day} : \A e \in {x \in W : x <= day} : e <= d} = {eff}
      BY <1>1, <1>4, <2>1
    <2> QED BY <1>2, <1>5, <2>1, <2>2
  <1>6. CASE ~(day >= eff)
    <2>1. {d \in W : d <= day} = {d \in V : d <= day}
      BY <1>1, <1>6
    <2>2. V # {} => {d \in W : \A e \in W : d <= e} = {d \in V : \A e \in V : d <= e}
      BY <1>1, <1>4
    <2>3. V = {} => InForce(r, day) = {}
      BY <1>3
    <2> QED BY <1>2, <1>3, <1>6, <2>1, <2>2, <2>3
  <1> QED BY <1>5, <1>6

LEMMA Supersedes ==
  ASSUME SaveInv, [SetupNext]_setupVars, NEW c \in Staff, handler[c].op = "commit",
         handler[c].replaces = 0, points' # points, handler'[c] = Idle,
         NEW r \in Resorts \cap {handler[c].resort}, NEW day \in Dates
  PROVE  IF day >= handler[c].eff THEN InForce(r, day)' = {handler[c].eff}
         ELSE InForce(r, day) \in {{}, InForce(r, day)'}
  <1> DEFINE q == handler[c]
             new == [resort : {q.resort}, eff : {q.eff}, type : q.rows,
                     charged : {q.charged}, save : {q.save}]
  <1>1. CommitRate(c)
    BY CommitOf DEF SaveInv
  <1>2. AfterAll(q) /\ q.gone = {}
    BY DEF SaveInv, Cleared
  <1>3. points' = (points \ q.gone) \cup new
    BY <1>1 DEF CommitRate, Refuse
  <1>4. \A p \in new : p.resort = r /\ p.eff = q.eff
    OBVIOUS
  <1>5. new # {} /\ points' = points \cup new
    <2> HIDE DEF new
    <2> QED BY <1>2, <1>3
  <1>6. VersionDates(r)' = VersionDates(r) \cup {q.eff}
    <2> HIDE DEF new
    <2> QED BY <1>4, <1>5 DEF VersionDates
  <1>7. \A d \in VersionDates(r) : d < q.eff
    BY <1>2 DEF AfterAll
  <1>8. q.eff \in Int /\ day \in Int
    BY RequestFields, NamesAssumption DEF SaveInv, SetupTypeOK, ChartSave, Dates
  <1>9. PICK eff \in Int : eff = q.eff
    BY <1>8
  <1>10. VersionDates(r)' = VersionDates(r) \cup {eff} /\ \A d \in VersionDates(r) : d < eff
    BY <1>6, <1>7, <1>9
  <1> QED BY <1>8, <1>9, <1>10, LaterVersion DEF SaveInv

(* With one clerk who saves charts, the commit of a new rate makes it the  *)
(* rate in force on every day from its date on and leaves the rate of      *)
(* every earlier day, whatever was deleted since the date was checked.     *)
THEOREM RatesSupersede == OneChartSaver => (Spec => NewRateSupersedes)
  <1> SUFFICES ASSUME OneChartSaver PROVE Spec => NewRateSupersedes
    OBVIOUS
  <1>1. Spec => []SaveInv
    BY SaveAlways
  <1>2. SaveInv /\ [Next]_vars =>
          [\A c \in Staff :
             LET q == handler[c]
             IN q.op = "commit" /\ q.replaces = 0 /\ points' # points /\ handler'[c] = Idle =>
                  \A r \in Resorts \cap {q.resort}, day \in Dates :
                    IF day >= q.eff THEN InForce(r, day)' = {q.eff}
                    ELSE InForce(r, day) \in {{}, InForce(r, day)'}]_setupVars
    BY Desk, Supersedes
  <1> QED BY <1>1, <1>2, PTL DEF Spec, NewRateSupersedes

(***************************************************************************)
(* Holidays.                                                               *)
(***************************************************************************)
(* The other desks leave the holidays alone.                               *)
LEMMA HolidayDesk ==
  /\ Init => HolidayInit
  /\ [Next]_vars => [HolidayNext]_holidayVars
  <1>1. Init => HolidayInit
    BY DEF Init
  <1>2. ASSUME Next PROVE HolidayNext \/ holidayVars' = holidayVars
    BY <1>2 DEF Next, holidayVars
  <1>3. vars' = vars => holidayVars' = holidayVars
    BY DEF vars
  <1> QED BY <1>1, <1>2, <1>3

(* A public holiday is a day of its year, a school holiday starts before   *)
(* it ends.                                                                *)
InOrder(h) ==
  IF h.type = "PUBLIC" THEN h.end = NoDate /\ h.year = h.start[1]
  ELSE h.end \in Valid /\ Utc(h.start) <= Utc(h.end)

(* Rows of the table,                                                      *)
HolidayRow ==
  {h \in [id : Nat \ {0}, type : HolidayTypes, start : Valid, end : Valid \cup {NoDate},
          year : Years, name : HolidayNames] : InOrder(h)}

(* whose number and whose type, start and name are their own.              *)
KeyOf(h) == <<h.type, h.start, h.name>>
Keyed(rows) == \A g, h \in rows : g.id = h.id \/ KeyOf(g) = KeyOf(h) => g = h

(* What is sent to be written: a row in order, looked up first if it is a  *)
(* school holiday.                                                         *)
FormOps == {"load", "overlap", "name", "write"}
HolidayForm ==
  {q \in [op : FormOps, type : HolidayTypes, id : Nat, start : Valid,
          end : Valid \cup {NoDate}, year : Years, name : HolidayNames] :
     InOrder(q) /\ (q.op \in {"overlap", "name"} => q.type = "SCHOOL")}

(* A clone carries the holidays of a type of the year before its own.      *)
CloneOfYear(q) ==
  /\ q.op \in {"count", "clone"} /\ q.type \in HolidayTypes /\ q.year \in Years
  /\ q.source \subseteq HolidayRow /\ IsFiniteSet(q.source) /\ Keyed(q.source)
  /\ \A h \in q.source : h.type = q.type /\ h.year + 1 = q.year

(* What each request carries.                                              *)
HolidayAsked(q) == q = Quiet \/ q \in HolidayForm \/ CloneOfYear(q)

(* A form is of a row of its own type.                                     *)
OwnType(q) ==
  q.op \in FormOps => q.id < nextHoliday /\ \A h \in holidays : h.id = q.id => h.type = q.type

(* The table.                                                              *)
HolidayTable ==
  /\ holidays \subseteq HolidayRow /\ IsFiniteSet(holidays) /\ Keyed(holidays)
  /\ nextHoliday \in Nat \ {0} /\ \A h \in holidays : h.id < nextHoliday

(* The inductive invariant of the holidays desk.                           *)
HolidayInv ==
  /\ HolidayTable
  /\ holidayRequest = [c \in Clerks |-> holidayRequest[c]]
  /\ \A c \in Clerks : HolidayAsked(holidayRequest[c]) /\ OwnType(holidayRequest[c])
  /\ holidayEdits \in Nat

(* The years that are keyed are numbers,                                   *)
LEMMA YearsNumbers == \A y \in Years : y \in Int /\ y >= 1900
  <1>1. Years \subseteq 1900..2999
    BY YearsAssumption
  <1> QED BY <1>1

(* and the dates are in the calendar.                                      *)
LEMMA KeyedDates == HolidayDates \subseteq Valid
  <1>1. /\ HolidayDates \subseteq Years \X (1..12) \X (1..31)
        /\ \A d \in HolidayDates : ValidDate(d)
    BY SeedAssumption
  <1>2. Years \X (1..12) \X (1..31) \subseteq Dates3
    BY YearsNumbers DEF Dates3
  <1> QED BY <1>1, <1>2 DEF Valid

(* The types of Holidays.                                                  *)
LEMMA HolidaysTyped ==
  ASSUME HolidayInv
  PROVE  HolidayTypeOK
  <1>1. ASSUME NEW h \in holidays
        PROVE  /\ h.id \in 1..(nextHoliday - 1)
               /\ h.type \in HolidayTypes /\ h.year \in Years /\ h.name \in HolidayNames
               /\ ValidDate(h.start)
               /\ IF h.type = "PUBLIC" THEN h.end = NoDate /\ h.year = h.start[1]
                  ELSE ValidDate(h.end) /\ DaysOff(h) # {}
    <2>1. h \in HolidayRow /\ h.id < nextHoliday /\ nextHoliday \in Nat
      BY DEF HolidayInv, HolidayTable
    <2>2. /\ h.id \in Nat \ {0} /\ h.type \in HolidayTypes /\ h.year \in Years /\ h.name \in HolidayNames
          /\ h.start \in Valid /\ InOrder(h)
      BY <2>1 DEF HolidayRow
    <2>3. ASSUME h.type # "PUBLIC" PROVE ValidDate(h.end) /\ DaysOff(h) # {}
      <3>1. h.end \in Valid /\ Utc(h.start) <= Utc(h.end)
        BY <2>2, <2>3 DEF InOrder
      <3>2. Utc(h.start) \in Int /\ Utc(h.end) \in Int
        BY <2>2, <3>1, UtcOrder
      <3>3. ValidDate(h.end) /\ h.end # NoDate
        <4>1. h.end[3] \in 1..31
          BY <3>1, DateParts
        <4> QED BY <3>1, <4>1 DEF Valid, NoDate
      <3>4. Utc(h.start) \in DaysOff(h)
        BY <3>1, <3>2, <3>3 DEF DaysOff
      <3> QED BY <3>3, <3>4
    <2>4. h.type = "PUBLIC" => h.end = NoDate /\ h.year = h.start[1]
      BY <2>2 DEF InOrder
    <2> QED BY <2>1, <2>2, <2>3, <2>4 DEF Valid
  <1>2. \A g, h \in holidays :
          g.id = h.id \/ <<g.type, g.start, g.name>> = <<h.type, h.start, h.name>> => g = h
    BY DEF HolidayInv, HolidayTable, Keyed, KeyOf
  <1>3. \A c \in Clerks :
          holidayRequest[c].op \in {"idle", "load", "overlap", "name", "write", "count", "clone"}
    BY DEF HolidayInv, HolidayAsked, HolidayForm, FormOps, CloneOfYear, Quiet
  <1> QED BY <1>1, <1>2, <1>3 DEF HolidayTypeOK, HolidayInv

(* The seeded holidays, in any order of their numbers.                     *)
LEMMA HolidayInitInv ==
  ASSUME HolidayInit
  PROVE  HolidayInv
  <1> DEFINE S == SeededHolidays
             n == Cardinality(S)
  <1>1. PICK f \in [S -> 1..n] :
          /\ \A g, h \in S : g # h => f[g] # f[h]
          /\ holidays = {[id |-> f[h], type |-> h.type, start |-> h.start, end |-> h.end,
                          year |-> h.year, name |-> h.name] : h \in S}
    BY DEF HolidayInit
  <1> DEFINE Row(h) == [id |-> f[h], type |-> h.type, start |-> h.start, end |-> h.end,
                        year |-> h.year, name |-> h.name]
  <1>2. IsFiniteSet(S) /\ n \in Nat /\ nextHoliday = n + 1
    BY SeedAssumption, FS_CardinalityType DEF HolidayInit
  <1>3. ASSUME NEW h \in S PROVE Row(h) \in HolidayRow /\ f[h] \in Nat /\ f[h] < nextHoliday
    <2>1. f[h] \in 1..n
      BY <1>1
    <2>2. f[h] \in Nat \ {0} /\ f[h] < n + 1
      BY <1>2, <2>1
    <2>3. /\ h.type \in HolidayTypes /\ h.start \in Years \X (1..12) \X (1..31)
          /\ h.end \in (Years \X (1..12) \X (1..31)) \cup {NoDate}
          /\ h.year \in Years /\ h.name \in HolidayNames
      BY SeedAssumption DEF HolidaySeed
    <2>4. /\ ValidDate(h.start)
          /\ IF h.type = "PUBLIC" THEN h.end = NoDate /\ h.year = h.start[1]
             ELSE ValidDate(h.end) /\ Utc(h.start) <= Utc(h.end)
      BY SeedAssumption
    <2>5. ~ValidDate(NoDate)
      BY DEF ValidDate, NoDate
    <2>6. Years \X (1..12) \X (1..31) \subseteq Dates3
      BY YearsNumbers DEF Dates3
    <2>7. /\ h.start \in Valid
          /\ IF h.type = "PUBLIC" THEN h.end = NoDate /\ h.year = h.start[1]
             ELSE h.end \in Valid /\ Utc(h.start) <= Utc(h.end)
      BY <2>3, <2>4, <2>5, <2>6 DEF Valid
    <2>8. InOrder(Row(h)) /\ h.end \in Valid \cup {NoDate}
      BY <2>7 DEF InOrder
    <2> QED BY <1>2, <2>2, <2>3, <2>7, <2>8 DEF HolidayRow
  <1>4. IsFiniteSet(holidays)
    <2>1. holidays = {Row(h) : h \in S}
      BY <1>1
    <2> DEFINE g == [h \in S |-> Row(h)]
    <2>2. g \in [S -> HolidayRow] /\ holidays = {g[h] : h \in S}
      BY <1>3, <2>1
    <2> HIDE DEF g
    <2> QED BY <1>2, <2>2, ImageFinite
  <1>5. ASSUME NEW g \in S, NEW h \in S, Row(g).id = Row(h).id \/ KeyOf(Row(g)) = KeyOf(Row(h))
        PROVE  g = h
    <2>1. \A x, y \in S : <<x.type, x.start, x.name>> = <<y.type, y.start, y.name>> => x = y
      BY SeedAssumption
    <2> QED BY <1>1, <1>5, <2>1 DEF KeyOf
  <1>6. HolidayTable
    <2> HIDE DEF Row
    <2> QED BY <1>1, <1>2, <1>3, <1>4, <1>5 DEF HolidayTable, Keyed, Row
  <1>7. HolidayAsked(Quiet) /\ OwnType(Quiet)
    BY DEF HolidayAsked, OwnType, Quiet, FormOps
  <1> QED BY <1>6, <1>7 DEF HolidayInv, HolidayInit

(* A new request and one that goes on change no row.                       *)
LEMMA HolidayMoves ==
  ASSUME HolidayInv, NEW c \in Clerks, NEW q, AskHoliday(c, q) \/ GoOn(c, q),
         HolidayAsked(q), OwnType(q)
  PROVE  HolidayInv'
  <1>1. /\ holidays' = holidays /\ nextHoliday' = nextHoliday
        /\ holidayRequest' = [holidayRequest EXCEPT ![c] = q] /\ holidayEdits' \in Nat
    BY DEF AskHoliday, GoOn, HolidayInv
  <1>2. HolidayTable'
    BY <1>1 DEF HolidayTable, HolidayInv
  <1>3. holidayRequest' = [e \in Clerks |-> holidayRequest'[e]]
    BY <1>1 DEF HolidayInv
  <1>4. ASSUME NEW e \in Clerks
        PROVE  HolidayAsked(holidayRequest'[e]) /\ OwnType(holidayRequest'[e])
    BY <1>1 DEF HolidayInv
  <1>5. \A x : OwnType(x) =>
          (x.op \in FormOps => x.id < nextHoliday' /\ \A h \in holidays' : h.id = x.id => h.type = x.type)
    BY <1>1 DEF OwnType
  <1> QED BY <1>1, <1>2, <1>3, <1>4, <1>5 DEF HolidayInv, OwnType

(* Nothing is asked.                                                       *)
LEMMA QuietAsked == HolidayAsked(Quiet) /\ OwnType(Quiet)
  BY DEF HolidayAsked, OwnType, Quiet, FormOps

(* A request of these steps is a form,                                     *)
LEMMA FormIs ==
  ASSUME HolidayInv, NEW c \in Clerks, holidayRequest[c].op \in FormOps
  PROVE  holidayRequest[c] \in HolidayForm
  BY DEF HolidayInv, HolidayAsked, FormOps, Quiet, CloneOfYear

(* of a row or of a new one,                                               *)
LEMMA FormNumber ==
  ASSUME NEW q, HolidayAsked(q), q.op \in FormOps
  PROVE  q.id \in Nat
  BY DEF HolidayAsked, HolidayForm, FormOps, Quiet, CloneOfYear

(* and of those a clone.                                                   *)
LEMMA CloneIs ==
  ASSUME HolidayInv, NEW c \in Clerks, holidayRequest[c].op \in {"count", "clone"}
  PROVE  CloneOfYear(holidayRequest[c])
  BY DEF HolidayInv, HolidayAsked, HolidayForm, FormOps, Quiet

(* A school holiday is sent,                                               *)
LEMMA SubmitSchoolStep ==
  ASSUME HolidayInv, NEW c \in Clerks,
         NEW id \in {0} \cup {h.id : h \in {g \in holidays : g.type = "SCHOOL"}},
         NEW start \in HolidayDates, NEW end \in HolidayDates, NEW year \in Years,
         NEW name \in HolidayNames, SubmitSchool(c, id, start, end, year, name)
  PROVE  HolidayInv'
  <1> DEFINE q == [op |-> IF id = 0 THEN "overlap" ELSE "load", type |-> "SCHOOL",
                   id |-> id, start |-> start, end |-> end, year |-> year, name |-> name]
  <1>1. AskHoliday(c, q) /\ Utc(start) <= Utc(end)
    BY DEF SubmitSchool
  <1>2. /\ id \in Nat /\ id < nextHoliday
        /\ \A h \in holidays : h.id = id => h.type = "SCHOOL"
    BY DEF HolidayInv, HolidayTable, HolidayRow, Keyed
  <1>3. q \in HolidayForm
    BY <1>1, <1>2, KeyedDates DEF HolidayForm, FormOps, InOrder, HolidayTypes
  <1>4. HolidayAsked(q) /\ OwnType(q)
    BY <1>2, <1>3 DEF HolidayAsked, OwnType
  <1> HIDE DEF q
  <1> QED BY <1>1, <1>4, HolidayMoves

(* a public holiday is,                                                    *)
LEMMA SubmitPublicStep ==
  ASSUME HolidayInv, NEW c \in Clerks,
         NEW id \in {0} \cup {h.id : h \in {g \in holidays : g.type = "PUBLIC"}},
         NEW start \in HolidayDates, NEW name \in HolidayNames, SubmitPublic(c, id, start, name)
  PROVE  HolidayInv'
  <1> DEFINE q == [op |-> IF id = 0 THEN "write" ELSE "load", type |-> "PUBLIC",
                   id |-> id, start |-> start, end |-> NoDate, year |-> start[1],
                   name |-> name]
  <1>1. AskHoliday(c, q)
    BY DEF SubmitPublic
  <1>2. /\ id \in Nat /\ id < nextHoliday
        /\ \A h \in holidays : h.id = id => h.type = "PUBLIC"
    BY DEF HolidayInv, HolidayTable, HolidayRow, Keyed
  <1>3. start \in Valid /\ start[1] \in Years
    BY KeyedDates, SeedAssumption
  <1>4. q \in HolidayForm
    BY <1>1, <1>2, <1>3 DEF HolidayForm, FormOps, InOrder, HolidayTypes
  <1>5. HolidayAsked(q) /\ OwnType(q)
    BY <1>2, <1>4 DEF HolidayAsked, OwnType
  <1> HIDE DEF q
  <1> QED BY <1>1, <1>5, HolidayMoves

(* A form goes on as it is, to another step.                               *)
LEMMA FormGoesOn ==
  ASSUME HolidayInv, NEW c \in Clerks, holidayRequest[c].op \in FormOps,
         NEW op \in FormOps, op \in {"overlap", "name"} => holidayRequest[c].type = "SCHOOL"
  PROVE  /\ HolidayAsked([holidayRequest[c] EXCEPT !.op = op])
         /\ OwnType([holidayRequest[c] EXCEPT !.op = op])
  <1> DEFINE q == holidayRequest[c]
             r == [q EXCEPT !.op = op]
  <1>1. q \in HolidayForm
    BY FormIs
  <1>2. /\ r \in [op : FormOps, type : HolidayTypes, id : Nat, start : Valid,
                  end : Valid \cup {NoDate}, year : Years, name : HolidayNames]
        /\ r.op = op /\ r.type = q.type /\ r.id = q.id /\ r.start = q.start
        /\ r.end = q.end /\ r.year = q.year
    BY <1>1 DEF HolidayForm
  <1>3. InOrder(q)
    BY <1>1 DEF HolidayForm
  <1>4. OwnType(q)
    BY DEF HolidayInv
  <1> HIDE DEF q, r
  <1>5. InOrder(r)
    BY <1>2, <1>3 DEF InOrder
  <1>6. r \in HolidayForm
    BY <1>2, <1>5 DEF HolidayForm, q
  <1>7. OwnType(r)
    BY <1>2, <1>4 DEF OwnType, q
  <1> QED BY <1>6, <1>7 DEF r, q, HolidayAsked

(* and loaded, and looked up.                                              *)
LEMMA HolidayChecks ==
  ASSUME HolidayInv, NEW c \in Clerks, LoadHoliday(c) \/ CheckOverlap(c) \/ CheckName(c)
  PROVE  HolidayInv'
  <1> DEFINE q == holidayRequest[c]
  <1>1. CASE LoadHoliday(c)
    <2> DEFINE op == IF q.type = "SCHOOL" THEN "overlap" ELSE "write"
    <2>1. q.op \in FormOps /\ (GoOn(c, Quiet) \/ GoOn(c, [q EXCEPT !.op = op]))
      BY <1>1 DEF LoadHoliday, FormOps
    <2>2. op \in FormOps /\ (op \in {"overlap", "name"} => q.type = "SCHOOL")
      BY DEF FormOps
    <2> HIDE DEF op
    <2> QED BY <2>1, <2>2, FormGoesOn, QuietAsked, HolidayMoves
  <1>2. CASE CheckOverlap(c)
    <2>1. q.op = "overlap" /\ (GoOn(c, Quiet) \/ GoOn(c, [q EXCEPT !.op = "name"]))
      BY <1>2 DEF CheckOverlap
    <2>2. q.type = "SCHOOL"
      BY <2>1, FormIs DEF HolidayForm, FormOps
    <2> QED BY <2>1, <2>2, FormGoesOn, QuietAsked, HolidayMoves DEF FormOps
  <1>3. CASE CheckName(c)
    <2>1. q.op = "name" /\ (GoOn(c, Quiet) \/ GoOn(c, [q EXCEPT !.op = "write"]))
      BY <1>3 DEF CheckName
    <2> QED BY <2>1, FormGoesOn, QuietAsked, HolidayMoves DEF FormOps
  <1> QED BY <1>1, <1>2, <1>3

(* A holiday is deleted.                                                   *)
LEMMA DeleteHolidayStep ==
  ASSUME HolidayInv, NEW c \in Clerks, NEW h \in holidays, DeleteHoliday(c, h)
  PROVE  HolidayInv'
  <1>1. /\ holidays' = holidays \ {h} /\ nextHoliday' = nextHoliday
        /\ holidayRequest' = holidayRequest /\ holidayEdits' \in Nat
    BY DEF DeleteHoliday, HolidayInv
  <1>2. IsFiniteSet(holidays')
    BY <1>1, FS_RemoveElement DEF HolidayInv, HolidayTable
  <1>3. HolidayTable'
    BY <1>1, <1>2 DEF HolidayTable, HolidayInv, Keyed
  <1>4. \A e \in Clerks : HolidayAsked(holidayRequest'[e]) /\ OwnType(holidayRequest[e])
    BY <1>1 DEF HolidayInv
  <1> QED BY <1>1, <1>3, <1>4 DEF HolidayInv, OwnType

(* The write: of a new number, or over the row that was edited.            *)
LEMMA WriteHolidayStep ==
  ASSUME HolidayInv, NEW c \in Clerks, WriteHoliday(c)
  PROVE  HolidayInv'
  <1> DEFINE q == holidayRequest[c]
             others == {h \in holidays : h.id # q.id}
             gone == q.id # 0 /\ others = holidays
             row == [id |-> IF q.id = 0 THEN nextHoliday ELSE q.id, type |-> q.type,
                     start |-> q.start, end |-> q.end, year |-> q.year, name |-> q.name]
             twin == \E h \in others : h.type = q.type /\ h.start = q.start /\ h.name = q.name
  <1>1. CASE gone \/ twin
    <2>1. GoOn(c, Quiet)
      BY <1>1 DEF WriteHoliday
    <2> QED BY <2>1, QuietAsked, HolidayMoves
  <1>2. CASE ~(gone \/ twin)
    <2>1. /\ holidays' = others \cup {row}
          /\ nextHoliday' = IF q.id = 0 THEN nextHoliday + 1 ELSE nextHoliday
          /\ holidayRequest' = [holidayRequest EXCEPT ![c] = Quiet]
          /\ holidayEdits' \in Nat /\ q.op = "write"
      BY <1>2 DEF WriteHoliday, HolidayInv
    <2>2. q \in HolidayForm /\ OwnType(q)
      BY <2>1, FormIs DEF FormOps, HolidayInv
    <2>3. q.id \in Nat /\ q.id < nextHoliday /\ nextHoliday \in Nat \ {0}
      BY <2>1, <2>2 DEF HolidayForm, OwnType, FormOps, HolidayInv, HolidayTable
    <2>4. row \in HolidayRow
      <3>1. row \in [id : Nat \ {0}, type : HolidayTypes, start : Valid, end : Valid \cup {NoDate},
                     year : Years, name : HolidayNames]
        BY <2>2, <2>3 DEF HolidayForm
      <3>2. InOrder(row)
        BY <2>2 DEF HolidayForm, InOrder
      <3> QED BY <3>1, <3>2 DEF HolidayRow
    <2>5. /\ row.id < nextHoliday' /\ nextHoliday' \in Nat \ {0} /\ nextHoliday <= nextHoliday'
          /\ \A h \in others : h.id # row.id /\ h.id < nextHoliday'
      BY <2>1, <2>3 DEF HolidayInv, HolidayTable, HolidayRow
    <2>6. \A h \in others : KeyOf(h) # KeyOf(row)
      BY <1>2 DEF KeyOf
    <2>7. row.id = q.id \/ (row.id = nextHoliday /\ q.id = 0)
      OBVIOUS
    <2>8. row.type = q.type
      OBVIOUS
    <2>9. IsFiniteSet(others) /\ others \subseteq holidays
      BY FS_Subset DEF HolidayInv, HolidayTable
    <2>10. q.id # 0 => \E h \in holidays : h.id = q.id
      BY <1>2
    <2> HIDE DEF row
    <2>11. IsFiniteSet(holidays')
      BY <2>1, <2>9, FS_AddElement
    <2>12. HolidayTable'
      BY <2>1, <2>4, <2>5, <2>6, <2>9, <2>11 DEF HolidayTable, Keyed, HolidayInv
    <2>13. ASSUME NEW x, HolidayAsked(x), OwnType(x)
           PROVE  x.op \in FormOps => x.id < nextHoliday' /\ \A h \in holidays' : h.id = x.id => h.type = x.type
      <3> SUFFICES ASSUME x.op \in FormOps
                   PROVE  x.id < nextHoliday' /\ \A h \in holidays' : h.id = x.id => h.type = x.type
        OBVIOUS
      <3>1. x.id < nextHoliday /\ \A h \in holidays : h.id = x.id => h.type = x.type
        BY <2>13 DEF OwnType
      <3>0. x.id \in Nat
        BY <2>13, FormNumber
      <3>2. x.id < nextHoliday'
        BY <3>0, <3>1, <2>1, <2>3
      <3>3. row.id = x.id => row.type = x.type
        <4>1. row.id = nextHoliday => row.id # x.id
          BY <3>0, <3>1, <2>3
        <4>2. CASE row.id = q.id /\ q.id # 0
          <5>1. PICK h \in holidays : h.id = q.id
            BY <2>10, <4>2
          <5>2. h.type = q.type
            BY <5>1, <2>2, <2>1 DEF OwnType, FormOps
          <5> QED BY <5>1, <5>2, <3>1, <4>2, <2>8
        <4>3. CASE row.id = q.id /\ q.id = 0
          BY <4>3, <2>4 DEF HolidayRow
        <4> QED BY <4>1, <4>2, <4>3, <2>7
      <3> QED BY <3>1, <3>2, <3>3, <2>1, <2>9
    <2>14. \A e \in Clerks : HolidayAsked(holidayRequest'[e]) /\ OwnType(holidayRequest'[e])
      BY <2>1, QuietAsked DEF HolidayInv
    <2> HIDE DEF q
    <2>15. holidayRequest' = [e \in Clerks |-> holidayRequest'[e]]
      BY <2>1 DEF HolidayInv
    <2> HIDE DEF others
    <2> QED BY <2>1, <2>12, <2>13, <2>14, <2>15 DEF HolidayInv, OwnType
  <1> QED BY <1>1, <1>2

(* A year is read, and the one after it counted.                           *)
LEMMA HolidayCloneAsked ==
  ASSUME HolidayInv, NEW c \in Clerks,
         (\E type \in HolidayTypes, year \in Years : CloneRead(c, type, year)) \/ CloneCount(c)
  PROVE  HolidayInv'
  <1>1. ASSUME NEW type \in HolidayTypes, NEW year \in Years, CloneRead(c, type, year)
        PROVE  HolidayInv'
    <2> DEFINE source == {h \in holidays : h.type = type /\ h.year = year}
               q == [op |-> "count", type |-> type, year |-> year + 1, source |-> source]
    <2>1. AskHoliday(c, q) /\ year + 1 \in Years
      BY <1>1 DEF CloneRead
    <2>2. IsFiniteSet(source)
      BY FS_Subset DEF HolidayInv, HolidayTable
    <2>3. source \subseteq HolidayRow /\ Keyed(source)
      BY DEF HolidayInv, HolidayTable, Keyed
    <2>4. \A h \in source : h.type = type /\ h.year + 1 = year + 1
      OBVIOUS
    <2> HIDE DEF source
    <2>5. HolidayAsked(q) /\ OwnType(q)
      BY <2>1, <2>2, <2>3, <2>4 DEF HolidayAsked, CloneOfYear, OwnType, FormOps
    <2> HIDE DEF q
    <2> QED BY <2>1, <2>5, HolidayMoves
  <1>2. CASE CloneCount(c)
    <2> DEFINE q == holidayRequest[c]
               r == [q EXCEPT !.op = "clone"]
    <2>1. q.op = "count" /\ (GoOn(c, Quiet) \/ GoOn(c, r))
      BY <1>2 DEF CloneCount
    <2>2. CloneOfYear(q)
      BY <2>1, CloneIs
    <2>3. /\ r.type = q.type /\ r.year = q.year /\ r.source = q.source
          /\ r.op = q.op \/ r.op = "clone"
      OBVIOUS
    <2> HIDE DEF q, r
    <2>4. CloneOfYear(r) /\ OwnType(r)
      BY <2>1, <2>2, <2>3 DEF CloneOfYear, OwnType, FormOps
    <2> QED BY <2>1, <2>4, QuietAsked, HolidayMoves DEF HolidayAsked
  <1> QED BY <1>1, <1>2

(* The rows of a clone.                                                    *)
CloneRank(source, h) == Cardinality({g \in source : g.id < h.id})
ClonedRow(q, h) ==
  [id |-> nextHoliday + CloneRank(q.source, h), type |-> q.type, start |-> NextYear(h.start),
   end |-> Shifted(h), year |-> q.year, name |-> h.name]
ClonedFrom(q) ==
  {h \in q.source :
     /\ \A g \in holidays : <<g.type, g.start, g.name>> # <<q.type, NextYear(h.start), h.name>>
     /\ \A g \in q.source :
          <<q.type, NextYear(g.start), g.name>> = <<q.type, NextYear(h.start), h.name>> =>
             Utc(h.start) <= Utc(g.start)}

(* What createMany writes,                                                 *)
LEMMA CloneWrites ==
  ASSUME NEW c \in Clerks, CloneWrite(c)
  PROVE  LET q == holidayRequest[c] IN
         /\ q.op = "clone"
         /\ holidays' = holidays \cup {ClonedRow(q, h) : h \in ClonedFrom(q)}
         /\ nextHoliday' = nextHoliday + Cardinality(q.source)
         /\ holidayRequest' = [holidayRequest EXCEPT ![c] = Quiet]
         /\ holidayEdits' = holidayEdits
  BY DEF CloneWrite, ClonedRow, ClonedFrom, CloneRank

(* rows with numbers and keys of their own, in order,                      *)
LEMMA CloneRows ==
  ASSUME HolidayInv, NEW q, q.op = "clone", CloneOfYear(q)
  PROVE  /\ \A h \in ClonedFrom(q) :
              /\ ClonedRow(q, h) \in HolidayRow
              /\ ClonedRow(q, h).id >= nextHoliday
              /\ ClonedRow(q, h).id < nextHoliday + Cardinality(q.source)
         /\ \A g, h \in ClonedFrom(q) :
              ClonedRow(q, g).id = ClonedRow(q, h).id
                \/ KeyOf(ClonedRow(q, g)) = KeyOf(ClonedRow(q, h)) => g = h
         /\ \A h \in ClonedFrom(q), g \in holidays : KeyOf(g) # KeyOf(ClonedRow(q, h))
         /\ IsFiniteSet({ClonedRow(q, h) : h \in ClonedFrom(q)})
         /\ Cardinality(q.source) \in Nat
  <1>1. /\ q.source \subseteq HolidayRow /\ IsFiniteSet(q.source) /\ Keyed(q.source)
        /\ \A h \in q.source : h.type = q.type /\ h.year + 1 = q.year
        /\ q.type \in HolidayTypes /\ q.year \in Years
    BY DEF CloneOfYear
  <1>2. Cardinality(q.source) \in Nat /\ nextHoliday \in Nat \ {0}
    BY <1>1, FS_CardinalityType DEF HolidayInv, HolidayTable
  <1>3. ASSUME NEW h \in q.source
        PROVE  CloneRank(q.source, h) \in Nat /\ CloneRank(q.source, h) < Cardinality(q.source)
    <2> DEFINE T == {g \in q.source : g.id < h.id}
    <2>1. T \subseteq q.source /\ h \notin T
      BY <1>1 DEF HolidayRow
    <2> HIDE DEF T
    <2> QED BY <1>1, <2>1, SmallerSet DEF T, CloneRank
  <1>4. ASSUME NEW g \in q.source, NEW h \in q.source, g.id < h.id
        PROVE  CloneRank(q.source, g) < CloneRank(q.source, h)
    <2> DEFINE T == {x \in q.source : x.id < g.id}
               U == {x \in q.source : x.id < h.id}
    <2>1. T \subseteq U /\ g \in U /\ g \notin T
      BY <1>1, <1>4 DEF HolidayRow
    <2>2. IsFiniteSet(U)
      BY <1>1, FS_Subset
    <2> HIDE DEF T, U
    <2> QED BY <2>1, <2>2, SmallerSet DEF T, U, CloneRank
  <1>5. ASSUME NEW g \in q.source, NEW h \in q.source, ClonedRow(q, g).id = ClonedRow(q, h).id
        PROVE  g = h
    <2>1. CloneRank(q.source, g) = CloneRank(q.source, h)
      BY <1>2, <1>3, <1>5 DEF ClonedRow
    <2>2. g.id \in Nat /\ h.id \in Nat
      BY <1>1 DEF HolidayRow
    <2>3. g.id = h.id
      BY <1>3, <1>4, <2>1, <2>2
    <2> QED BY <1>1, <2>3 DEF Keyed
  <1>6. ASSUME NEW h \in ClonedFrom(q)
        PROVE  /\ ClonedRow(q, h) \in HolidayRow
               /\ ClonedRow(q, h).id >= nextHoliday
               /\ ClonedRow(q, h).id < nextHoliday + Cardinality(q.source)
    <2>1. h \in q.source
      BY DEF ClonedFrom
    <2>2. /\ h \in HolidayRow /\ h.type = q.type /\ h.year + 1 = q.year
          /\ h.start \in Valid /\ h.end \in Valid \cup {NoDate} /\ h.name \in HolidayNames
          /\ InOrder(h)
      BY <1>1, <2>1 DEF HolidayRow
    <2>3. NextYear(h.start) \in Valid /\ NextYear(h.start)[1] = h.start[1] + 1
      BY <2>2, NextYearIs
    <2>4. NoDate \notin Valid
      BY DateParts DEF NoDate
    <2>5. IF q.type = "PUBLIC" THEN Shifted(h) = NoDate /\ q.year = NextYear(h.start)[1]
          ELSE Shifted(h) \in Valid /\ Utc(NextYear(h.start)) <= Utc(Shifted(h))
      <3>1. CASE q.type = "PUBLIC"
        BY <3>1, <2>2, <2>3 DEF Shifted, InOrder
      <3>2. CASE q.type # "PUBLIC"
        <4>1. h.end \in Valid /\ Utc(h.start) <= Utc(h.end)
          BY <3>2, <2>2 DEF InOrder
        <4>2. Shifted(h) = NextYear(h.end)
          BY <4>1, <2>4 DEF Shifted
        <4>3. NextYear(h.end) \in Valid /\ Utc(NextYear(h.start)) <= Utc(NextYear(h.end))
          BY <2>2, <4>1, NextYearIs, NextYearKeepsOrder
        <4> QED BY <3>2, <4>2, <4>3
      <3> QED BY <3>1, <3>2
    <2>6. nextHoliday + CloneRank(q.source, h) \in Nat \ {0}
      BY <1>2, <1>3, <2>1
    <2>7. InOrder(ClonedRow(q, h))
      BY <2>5 DEF InOrder, ClonedRow
    <2>8. ClonedRow(q, h) \in HolidayRow
      BY <1>1, <2>2, <2>3, <2>5, <2>6, <2>7 DEF HolidayRow, ClonedRow
    <2> QED BY <1>2, <1>3, <2>1, <2>8 DEF ClonedRow
  <1>7. ASSUME NEW g \in ClonedFrom(q), NEW h \in ClonedFrom(q),
               KeyOf(ClonedRow(q, g)) = KeyOf(ClonedRow(q, h))
        PROVE  g = h
    <2>1. g \in q.source /\ h \in q.source
      BY DEF ClonedFrom
    <2>2. NextYear(g.start) = NextYear(h.start) /\ g.name = h.name
      BY <1>7 DEF KeyOf, ClonedRow
    <2>3. Utc(g.start) <= Utc(h.start) /\ Utc(h.start) <= Utc(g.start)
      BY <2>1, <2>2 DEF ClonedFrom
    <2>4. g.start \in Valid /\ h.start \in Valid /\ g.type = h.type
      BY <1>1, <2>1 DEF HolidayRow
    <2>5. g.start = h.start
      <3>1. Utc(g.start) \in Int /\ Utc(h.start) \in Int
        BY <2>4, UtcOrder
      <3>2. Utc(g.start) = Utc(h.start)
        BY <2>3, <3>1
      <3> QED BY <2>4, <3>2, UtcOrder
    <2> QED BY <1>1, <2>1, <2>2, <2>4, <2>5 DEF Keyed, KeyOf
  <1>8. ASSUME NEW h \in ClonedFrom(q), NEW g \in holidays PROVE KeyOf(g) # KeyOf(ClonedRow(q, h))
    BY DEF ClonedFrom, KeyOf, ClonedRow
  <1>9. IsFiniteSet({ClonedRow(q, h) : h \in ClonedFrom(q)})
    <2> DEFINE S == ClonedFrom(q)
               f == [h \in S |-> ClonedRow(q, h)]
    <2>1. IsFiniteSet(S)
      BY <1>1, FS_Subset DEF ClonedFrom
    <2>2. f \in [S -> HolidayRow] /\ {ClonedRow(q, h) : h \in S} = {f[h] : h \in S}
      BY <1>6
    <2> HIDE DEF S, f
    <2>3. IsFiniteSet({f[h] : h \in S})
      BY <2>1, <2>2, ImageFinite
    <2> QED BY <2>2, <2>3 DEF S
  <1>10. ClonedFrom(q) \subseteq q.source
    BY DEF ClonedFrom
  <1> QED BY <1>2, <1>5, <1>6, <1>7, <1>8, <1>9, <1>10

(* which leaves a table as before.                                         *)
LEMMA CloneWriteStep ==
  ASSUME HolidayInv, NEW c \in Clerks, CloneWrite(c)
  PROVE  HolidayInv'
  <1> DEFINE q == holidayRequest[c]
             rows == {ClonedRow(q, h) : h \in ClonedFrom(q)}
  <1>1. /\ q.op = "clone" /\ holidays' = holidays \cup rows
        /\ nextHoliday' = nextHoliday + Cardinality(q.source)
        /\ holidayRequest' = [holidayRequest EXCEPT ![c] = Quiet]
        /\ holidayEdits' = holidayEdits
    BY CloneWrites
  <1>2. CloneOfYear(q)
    BY <1>1, CloneIs
  <1> HIDE DEF q
  <1> DEFINE R(h) == ClonedRow(q, h)
             S == ClonedFrom(q)
  <1>12. /\ \A h \in S :
              /\ R(h) \in HolidayRow /\ R(h).id >= nextHoliday
              /\ R(h).id < nextHoliday + Cardinality(q.source)
         /\ \A g, h \in S : R(g).id = R(h).id \/ KeyOf(R(g)) = KeyOf(R(h)) => g = h
         /\ \A h \in S, g \in holidays : KeyOf(g) # KeyOf(R(h))
         /\ IsFiniteSet(rows) /\ Cardinality(q.source) \in Nat
    BY <1>1, <1>2, CloneRows
  <1>13. rows = {R(h) : h \in S}
    OBVIOUS
  <1> HIDE DEF rows, R, S
  <1>3. /\ \A r \in rows : r \in HolidayRow /\ r.id >= nextHoliday
                           /\ r.id < nextHoliday + Cardinality(q.source)
        /\ \A r, s \in rows : r.id = s.id \/ KeyOf(r) = KeyOf(s) => r = s
        /\ \A r \in rows, g \in holidays : KeyOf(g) # KeyOf(r)
        /\ IsFiniteSet(rows) /\ Cardinality(q.source) \in Nat
    BY <1>12, <1>13
  <1>4. /\ nextHoliday' \in Nat \ {0} /\ nextHoliday \in Nat /\ nextHoliday <= nextHoliday'
        /\ \A h \in holidays : h.id \in Nat /\ h.id < nextHoliday
        /\ holidays \subseteq HolidayRow /\ IsFiniteSet(holidays) /\ Keyed(holidays)
    BY <1>1, <1>3 DEF HolidayInv, HolidayTable, HolidayRow
  <1>5. IsFiniteSet(holidays')
    BY <1>1, <1>3, <1>4, FS_Union
  <1>6. \A r \in rows, h \in holidays : r.id # h.id /\ r.id \in Nat
    BY <1>3, <1>4 DEF HolidayRow
  <1>15. \A r \in rows : r.id \in Nat
    BY <1>3 DEF HolidayRow
  <1>7. \A g, h \in holidays' : g.id = h.id \/ KeyOf(g) = KeyOf(h) => g = h
    BY <1>1, <1>3, <1>4, <1>6 DEF Keyed
  <1>8. \A h \in holidays' : h \in HolidayRow /\ h.id < nextHoliday'
    BY <1>1, <1>3, <1>4, <1>6
  <1>9. HolidayTable'
    BY <1>4, <1>5, <1>7, <1>8 DEF HolidayTable, Keyed
  <1>10. ASSUME NEW x, HolidayAsked(x), OwnType(x)
         PROVE  x.op \in FormOps => x.id < nextHoliday' /\ \A h \in holidays' : h.id = x.id => h.type = x.type
    <2>1. x.op \in FormOps => x.id < nextHoliday /\ \A h \in holidays : h.id = x.id => h.type = x.type
      BY <1>10 DEF OwnType
    <2>2. ASSUME x.op \in FormOps, x.id < nextHoliday PROVE x.id < nextHoliday'
      BY <2>2, <1>4, <1>10, FormNumber
    <2>3. ASSUME NEW r \in rows, x.id < nextHoliday, r.id = x.id PROVE FALSE
      BY <2>3, <1>3, <1>4, <1>15
    <2> QED BY <1>1, <2>1, <2>2, <2>3
  <1>11. \A e \in Clerks : HolidayAsked(holidayRequest'[e]) /\ OwnType(holidayRequest'[e])
    BY <1>1, QuietAsked DEF HolidayInv
  <1>14. holidayRequest' = [e \in Clerks |-> holidayRequest'[e]] /\ holidayEdits' \in Nat
    BY <1>1 DEF HolidayInv
  <1> QED BY <1>9, <1>10, <1>11, <1>14 DEF HolidayInv, OwnType

(* Every step keeps the invariant.                                         *)
LEMMA HolidaySteps ==
  ASSUME HolidayInv, [HolidayNext]_holidayVars
  PROVE  HolidayInv'
  <1>1. CASE UNCHANGED holidayVars
    BY <1>1 DEF holidayVars, HolidayInv, HolidayTable, OwnType
  <1> QED BY <1>1, SubmitSchoolStep, SubmitPublicStep, HolidayChecks, WriteHolidayStep,
             DeleteHolidayStep, HolidayCloneAsked, CloneWriteStep DEF HolidayNext

(* It always holds.                                                        *)
LEMMA HolidayInvariant == Spec => []HolidayInv
  BY HolidayDesk, HolidayInitInv, HolidaySteps, PTL DEF Spec

(* Two breaks of a year: the pair of SchoolBreaksDistinct.                 *)
Apart(g, h) ==
  /\ g.name # h.name
  /\ \A day \in DaysOff(g) \cap DaysOff(h) :
       \E y \in {g.end[1], h.end[1]} : day = Utc(<<y, 3, 1>>)

(* All pairs of a table.                                                   *)
BreaksApart(rows) ==
  \A g, h \in rows :
    g # h /\ g.type = "SCHOOL" /\ h.type = "SCHOOL" /\ g.year = h.year => Apart(g, h)

(* 1 March is a year later again 1 March, and no two are next to one       *)
(* another.                                                                *)
March1(y) == <<y, 3, 1>>

LEMMA MarchFirst ==
  ASSUME NEW y \in Int
  PROVE  /\ March1(y) \in Valid /\ NextYear(March1(y)) = March1(y + 1)
         /\ March1(y)[1] = y
         /\ \A z \in Int : y < z => Utc(March1(y)) + 1 < Utc(March1(z))
  <1>1. \A z \in Int : March1(z) \in Valid /\ <<z, 3, 2>> \in Valid
    BY DEF March1, Valid, Dates3, ValidDate, MonthLength
  <1>2. NextYear(March1(y)) = March1(y + 1)
    BY <1>1, NextYearIs DEF LeapDay, March1
  <1>3. ASSUME NEW z \in Int, y < z PROVE Utc(March1(y)) + 1 < Utc(March1(z))
    <2>1. Before(March1(y), <<y, 3, 2>>) /\ Before(<<y, 3, 2>>, March1(z))
      BY <1>3 DEF Before, March1
    <2>2. /\ Utc(March1(y)) < Utc(<<y, 3, 2>>) /\ Utc(<<y, 3, 2>>) < Utc(March1(z))
          /\ Utc(March1(y)) \in Int /\ Utc(<<y, 3, 2>>) \in Int /\ Utc(March1(z)) \in Int
      BY <1>1, <2>1, UtcOrder
    <2> QED BY <2>2
  <1> QED BY <1>1, <1>2, <1>3 DEF March1

(* A school holiday covers the days from its start to its end.             *)
LEMMA BreakIs ==
  ASSUME NEW h \in HolidayRow, h.type = "SCHOOL"
  PROVE  /\ h.start \in Valid /\ h.end \in Valid /\ h.end # NoDate /\ h.end[1] \in Int
         /\ Utc(h.start) \in Int /\ Utc(h.end) \in Int /\ Utc(h.start) <= Utc(h.end)
         /\ DaysOff(h) = Utc(h.start) .. Utc(h.end)
         /\ Shifted(h) = NextYear(h.end)
  <1>1. h.start \in Valid /\ h.end \in Valid /\ Utc(h.start) <= Utc(h.end)
    BY DEF HolidayRow, InOrder
  <1>2. h.end # NoDate
    BY <1>1, DateParts DEF NoDate
  <1> QED BY <1>1, <1>2, UtcOrder, DateParts DEF DaysOff, Shifted

(* A year later, days that follow one another still do.                    *)
LEMMA LaterStart ==
  ASSUME NEW g \in HolidayRow, g.type = "SCHOOL", NEW h \in HolidayRow, h.type = "SCHOOL",
         Utc(g.end) < Utc(h.start),
         NEW day \in Int, Utc(NextYear(h.start)) <= day, day <= Utc(NextYear(g.end))
  PROVE  day = Utc(March1(NextYear(g.end)[1]))
  <1>1. g.end \in Valid /\ h.start \in Valid
    BY BreakIs
  <1>2. NextYear(g.end) \in Valid /\ NextYear(h.start) \in Valid /\ NextYear(g.end)[1] = g.end[1] + 1
    BY <1>1, NextYearIs
  <1>3. Utc(NextYear(g.end)) \in Int /\ Utc(NextYear(h.start)) \in Int
    BY <1>2, UtcOrder
  <1>4. ~(Utc(NextYear(g.end)) < Utc(NextYear(h.start)))
    BY <1>3
  <1>5. NextYear(g.end) = <<g.end[1] + 1, 3, 1>> /\ NextYear(h.start) = NextYear(g.end)
    BY <1>1, <1>4, NextYearOrder
  <1>6. day = Utc(NextYear(g.end))
    BY <1>3, <1>5
  <1> QED BY <1>2, <1>5, <1>6 DEF March1

(* A year later two breaks that were apart still are: in 1 March at most   *)
(* they meet.                                                              *)
LEMMA ShiftApart ==
  ASSUME NEW g \in HolidayRow, g.type = "SCHOOL", NEW h \in HolidayRow, h.type = "SCHOOL",
         Apart(g, h),
         NEW r, r.name = g.name, r.start = NextYear(g.start), r.end = NextYear(g.end),
         NEW s, s.name = h.name, s.start = NextYear(h.start), s.end = NextYear(h.end)
  PROVE  Apart(r, s)
  <1> DEFINE a == g.start
             b == g.end
             c == h.start
             d == h.end
  <1>1. /\ a \in Valid /\ b \in Valid /\ c \in Valid /\ d \in Valid
        /\ Utc(a) \in Int /\ Utc(b) \in Int /\ Utc(c) \in Int /\ Utc(d) \in Int
        /\ DaysOff(g) = Utc(a)..Utc(b) /\ DaysOff(h) = Utc(c)..Utc(d)
        /\ Utc(a) <= Utc(b) /\ Utc(c) <= Utc(d) /\ b[1] \in Int /\ d[1] \in Int
    BY BreakIs
  <1>2. /\ NextYear(a) \in Valid /\ NextYear(b) \in Valid /\ NextYear(c) \in Valid /\ NextYear(d) \in Valid
        /\ NextYear(b)[1] = b[1] + 1 /\ NextYear(d)[1] = d[1] + 1
    BY <1>1, NextYearIs
  <1>3. /\ Utc(NextYear(a)) \in Int /\ Utc(NextYear(b)) \in Int
        /\ Utc(NextYear(c)) \in Int /\ Utc(NextYear(d)) \in Int
    BY <1>2, UtcOrder
  <1>4. DaysOff(r) = Utc(NextYear(a))..Utc(NextYear(b)) /\ DaysOff(s) = Utc(NextYear(c))..Utc(NextYear(d))
    <2>1. NextYear(b) # NoDate /\ NextYear(d) # NoDate
      BY <1>2, DateParts DEF NoDate
    <2> QED BY <2>1 DEF DaysOff
  <1>5. r.name # s.name
    BY DEF Apart
  <1>6. ASSUME NEW day \in Int, Utc(NextYear(a)) <= day, day <= Utc(NextYear(b)),
               Utc(NextYear(c)) <= day, day <= Utc(NextYear(d))
        PROVE  \E y \in {r.end[1], s.end[1]} : day = Utc(March1(y))
    <2>1. CASE Utc(b) < Utc(c)
      BY <2>1, <1>6, LaterStart
    <2>2. CASE Utc(d) < Utc(a)
      BY <2>2, <1>6, LaterStart
    <2>3. CASE Utc(c) <= Utc(b) /\ Utc(a) <= Utc(d)
      <3> DEFINE lo == IF Utc(a) <= Utc(c) THEN c ELSE a
                 hi == IF Utc(b) <= Utc(d) THEN b ELSE d
      <3>1. /\ lo \in {a, c} /\ hi \in {b, d} /\ Utc(lo) <= Utc(hi)
            /\ Utc(a) <= Utc(lo) /\ Utc(c) <= Utc(lo) /\ Utc(hi) <= Utc(b) /\ Utc(hi) <= Utc(d)
            /\ Utc(lo) \in Int /\ Utc(hi) \in Int /\ lo \in Valid /\ hi \in Valid
        BY <1>1, <2>3
      <3> HIDE DEF lo, hi
      <3>2. \A x \in Utc(lo)..Utc(hi) : x = Utc(March1(b[1])) \/ x = Utc(March1(d[1]))
        <4>1. \A x \in Utc(lo)..Utc(hi) : x \in DaysOff(g) \cap DaysOff(h)
          BY <1>1, <3>1
        <4> QED BY <4>1 DEF Apart, March1
      <3>3. Utc(lo) = Utc(hi)
        <4>1. SUFFICES ASSUME Utc(lo) < Utc(hi) PROVE FALSE
          BY <3>1
        <4>2. Utc(lo) \in Utc(lo)..Utc(hi) /\ Utc(lo) + 1 \in Utc(lo)..Utc(hi)
          BY <3>1, <4>1
        <4>3. /\ Utc(lo) = Utc(March1(b[1])) \/ Utc(lo) = Utc(March1(d[1]))
              /\ Utc(lo) + 1 = Utc(March1(b[1])) \/ Utc(lo) + 1 = Utc(March1(d[1]))
          BY <3>2, <4>2
        <4>4. /\ b[1] < d[1] => Utc(March1(b[1])) + 1 < Utc(March1(d[1]))
              /\ d[1] < b[1] => Utc(March1(d[1])) + 1 < Utc(March1(b[1]))
              /\ Utc(March1(b[1])) \in Int /\ Utc(March1(d[1])) \in Int
          BY <1>1, MarchFirst, UtcOrder
        <4> HIDE DEF a, b, c, d
        <4> QED BY <1>1, <3>1, <4>3, <4>4
      <3>4. PICK y \in {b[1], d[1]} : Utc(lo) = Utc(March1(y))
        BY <3>1, <3>2
      <3>5. y \in Int /\ March1(y) \in Valid /\ NextYear(March1(y)) = March1(y + 1) /\ March1(y)[1] = y
        BY <1>1, MarchFirst
      <3>6. lo = March1(y) /\ hi = March1(y)
        BY <3>1, <3>3, <3>4, <3>5, UtcOrder
      <3>7. Utc(March1(y + 1)) <= day /\ day <= Utc(March1(y + 1))
        BY <1>6, <3>1, <3>5, <3>6
      <3>8. day = Utc(March1(y + 1))
        <4>1. Utc(March1(y + 1)) \in Int
          BY <3>5, MarchFirst, UtcOrder
        <4> QED BY <3>7, <4>1
      <3>9. y + 1 \in {NextYear(b)[1], NextYear(d)[1]}
        BY <1>2, <3>1, <3>5, <3>6
      <3> QED BY <3>8, <3>9
    <2> QED BY <1>1, <2>1, <2>2, <2>3
  <1>7. ASSUME NEW day \in DaysOff(r) \cap DaysOff(s)
        PROVE  \E y \in {r.end[1], s.end[1]} : day = Utc(<<y, 3, 1>>)
    <2>1. /\ day \in Int /\ Utc(NextYear(a)) <= day /\ day <= Utc(NextYear(b))
          /\ Utc(NextYear(c)) <= day /\ day <= Utc(NextYear(d))
      BY <1>3, <1>4
    <2> QED BY <1>6, <2>1 DEF March1
  <1> QED BY <1>5, <1>7 DEF Apart

(* One clerk at most writes or clones school holidays.                     *)
OneSchoolClerk ==
  \A c, e \in Clerks :
    {"school", "cloneHoliday"} \cap Ops[c] # {} /\ {"school", "cloneHoliday"} \cap Ops[e] # {} => c = e

(* What the look-ups found stays true until the write.                     *)
SchoolAsked(c, q) ==
  /\ q.op \in FormOps /\ q.type = "SCHOOL" => "school" \in Ops[c]
  /\ q.op \in {"name", "write"} /\ q.type = "SCHOOL" => ~hasOverlap(q.year, q.start, q.end, q.id)
  /\ q.op = "write" /\ q.type = "SCHOOL" => ~descriptionTaken(q.year, q.name, q.id)
  /\ q.op \in {"count", "clone"} /\ q.type = "SCHOOL" =>
       "cloneHoliday" \in Ops[c] /\ BreaksApart(q.source)
  /\ q.op = "clone" /\ q.type = "SCHOOL" => School(q.year) = {}

(* The breaks are distinct, and so will be what is going to be written.    *)
ApartInv ==
  /\ BreaksApart(holidays)
  /\ \A c \in Clerks : SchoolAsked(c, holidayRequest[c])

(* The school holidays.                                                    *)
SchoolRows == {h \in holidays : h.type = "SCHOOL"}

(* With no new school row, what was found of them still holds.             *)
LEMMA FewerBreaks ==
  ASSUME NEW c, NEW q, SchoolAsked(c, q), SchoolRows' \subseteq SchoolRows
  PROVE  SchoolAsked(c, q)'
  <1>1. \A y : School(y)' \subseteq School(y)
    BY DEF School, SchoolRows
  <1>2. \A y, s, e, i : hasOverlap(y, s, e, i)' => hasOverlap(y, s, e, i)
    BY <1>1 DEF hasOverlap
  <1>3. \A y, n, i : descriptionTaken(y, n, i)' => descriptionTaken(y, n, i)
    BY <1>1 DEF descriptionTaken
  <1> QED BY <1>1, <1>2, <1>3 DEF SchoolAsked

(* and they are as far apart.                                              *)
LEMMA FewerApart ==
  ASSUME BreaksApart(holidays), SchoolRows' \subseteq SchoolRows
  PROVE  BreaksApart(holidays)'
  BY DEF BreaksApart, SchoolRows

(* Nothing is asked.                                                       *)
LEMMA QuietAway == \A c : SchoolAsked(c, Quiet)
  BY DEF SchoolAsked, Quiet, FormOps

(* A step that adds no school row.                                         *)
LEMMA ApartMoves ==
  ASSUME HolidayInv, ApartInv, NEW c \in Clerks, NEW q,
         holidayRequest' = [holidayRequest EXCEPT ![c] = q] \/ holidayRequest' = holidayRequest,
         SchoolRows' \subseteq SchoolRows, SchoolAsked(c, q)
  PROVE  ApartInv'
  <1>1. BreaksApart(holidays)'
    BY FewerApart DEF ApartInv
  <1>2. ASSUME NEW e \in Clerks PROVE SchoolAsked(e, holidayRequest[e])'
    <2>1. holidayRequest'[e] = holidayRequest[e] \/ (e = c /\ holidayRequest'[e] = q)
      BY DEF HolidayInv
    <2>2. SchoolAsked(e, holidayRequest[e])
      BY DEF ApartInv
    <2>3. PICK x : x = holidayRequest'[e] /\ SchoolAsked(e, x)
      BY <2>1, <2>2
    <2>4. SchoolAsked(e, x)'
      BY <2>3, FewerBreaks
    <2> QED BY <2>3, <2>4 DEF SchoolAsked, hasOverlap, descriptionTaken, School
  <1> QED BY <1>1, <1>2 DEF ApartInv

(* A new request and one that goes on change no row.                       *)
LEMMA ApartAsks ==
  ASSUME HolidayInv, ApartInv, NEW c \in Clerks, NEW q, AskHoliday(c, q) \/ GoOn(c, q),
         SchoolAsked(c, q)
  PROVE  ApartInv'
  <1>1. holidays' = holidays /\ holidayRequest' = [holidayRequest EXCEPT ![c] = q]
    BY DEF AskHoliday, GoOn
  <1>2. SchoolRows' \subseteq SchoolRows
    BY <1>1 DEF SchoolRows
  <1> QED BY <1>1, <1>2, ApartMoves

(* The clerk who adds school rows is the only one with a request of them.  *)
LEMMA ApartAdds ==
  ASSUME OneSchoolClerk, HolidayInv, ApartInv, NEW c \in Clerks,
         holidayRequest' = [holidayRequest EXCEPT ![c] = Quiet],
         {"school", "cloneHoliday"} \cap Ops[c] # {},
         BreaksApart(holidays)'
  PROVE  ApartInv'
  <1>1. ASSUME NEW e \in Clerks PROVE SchoolAsked(e, holidayRequest[e])'
    <2>1. CASE e = c
      <3>1. holidayRequest'[e] = Quiet
        BY <2>1 DEF HolidayInv
      <3> QED BY <3>1 DEF SchoolAsked, Quiet, FormOps
    <2>2. CASE e # c
      <3>1. holidayRequest'[e] = holidayRequest[e] /\ SchoolAsked(e, holidayRequest[e])
        BY <2>2 DEF HolidayInv, ApartInv
      <3>2. {"school", "cloneHoliday"} \cap Ops[e] = {}
        BY <2>2 DEF OneSchoolClerk
      <3>3. holidayRequest[e].op \in FormOps \cup {"count", "clone"} => holidayRequest[e].type # "SCHOOL"
        BY <3>1, <3>2 DEF SchoolAsked
      <3> QED BY <3>1, <3>3 DEF SchoolAsked, FormOps
    <2> QED BY <2>1, <2>2
  <1> QED BY <1>1 DEF ApartInv

(* A form is sent, and looked up.                                          *)
LEMMA ApartForms ==
  ASSUME HolidayInv, ApartInv, NEW c \in Clerks,
         \/ \E id, start, end, year, name : SubmitSchool(c, id, start, end, year, name)
         \/ \E id, start, name : SubmitPublic(c, id, start, name)
         \/ LoadHoliday(c) \/ CheckOverlap(c) \/ CheckName(c)
  PROVE  ApartInv'
  <1> DEFINE q == holidayRequest[c]
  <1>0. SchoolAsked(c, Quiet) /\ SchoolAsked(c, q)
    BY QuietAway DEF ApartInv
  <1>1. ASSUME NEW id, NEW start, NEW end, NEW year, NEW name,
               SubmitSchool(c, id, start, end, year, name)
        PROVE  ApartInv'
    <2>1. PICK x : AskHoliday(c, x) /\ x.op \in {"overlap", "load"}
      BY <1>1 DEF SubmitSchool
    <2>2. SchoolAsked(c, x)
      BY <1>1, <2>1 DEF SubmitSchool, Asks, SchoolAsked
    <2> QED BY <2>1, <2>2, ApartAsks
  <1>2. ASSUME NEW id, NEW start, NEW name, SubmitPublic(c, id, start, name)
        PROVE  ApartInv'
    <2>1. PICK x : AskHoliday(c, x) /\ x.type = "PUBLIC"
      BY <1>2 DEF SubmitPublic
    <2>2. SchoolAsked(c, x)
      BY <2>1 DEF SchoolAsked
    <2> QED BY <2>1, <2>2, ApartAsks
  <1>3. CASE LoadHoliday(c)
    <2> DEFINE x == [q EXCEPT !.op = IF q.type = "SCHOOL" THEN "overlap" ELSE "write"]
    <2>1. q.op = "load" /\ (GoOn(c, Quiet) \/ GoOn(c, x))
      BY <1>3 DEF LoadHoliday
    <2>2. q \in HolidayForm
      BY <2>1, FormIs DEF FormOps
    <2>3. x.type = q.type /\ x.op = (IF q.type = "SCHOOL" THEN "overlap" ELSE "write")
      BY <2>2 DEF HolidayForm
    <2> HIDE DEF x
    <2>4. SchoolAsked(c, x)
      BY <1>0, <2>1, <2>3 DEF SchoolAsked, FormOps
    <2> QED BY <1>0, <2>1, <2>4, ApartAsks
  <1>4. CASE CheckOverlap(c)
    <2> DEFINE x == [q EXCEPT !.op = "name"]
    <2>1. /\ q.op = "overlap"
          /\ GoOn(c, Quiet) \/ (GoOn(c, x) /\ ~hasOverlap(q.year, q.start, q.end, q.id))
      BY <1>4 DEF CheckOverlap
    <2>2. q \in HolidayForm
      BY <2>1, FormIs DEF FormOps
    <2>3. /\ x.type = q.type /\ x.op = "name" /\ x.year = q.year /\ x.start = q.start
          /\ x.end = q.end /\ x.id = q.id
      BY <2>2 DEF HolidayForm
    <2> HIDE DEF x
    <2>4. ~hasOverlap(q.year, q.start, q.end, q.id) => SchoolAsked(c, x)
      BY <1>0, <2>1, <2>3 DEF SchoolAsked, FormOps
    <2> QED BY <1>0, <2>1, <2>4, ApartAsks
  <1>5. CASE CheckName(c)
    <2> DEFINE x == [q EXCEPT !.op = "write"]
    <2>1. /\ q.op = "name"
          /\ GoOn(c, Quiet) \/ (GoOn(c, x) /\ ~descriptionTaken(q.year, q.name, q.id))
      BY <1>5 DEF CheckName
    <2>2. q \in HolidayForm
      BY <2>1, FormIs DEF FormOps
    <2>3. /\ x.type = q.type /\ x.op = "write" /\ x.year = q.year /\ x.start = q.start
          /\ x.end = q.end /\ x.id = q.id /\ x.name = q.name
      BY <2>2 DEF HolidayForm
    <2> HIDE DEF x
    <2>4. ~descriptionTaken(q.year, q.name, q.id) => SchoolAsked(c, x)
      BY <1>0, <2>1, <2>3 DEF SchoolAsked, FormOps
    <2> QED BY <1>0, <2>1, <2>4, ApartAsks
  <1> QED BY <1>1, <1>2, <1>3, <1>4, <1>5

(* A break is written, which meets no other of its year.                   *)
LEMMA ApartWrite ==
  ASSUME OneSchoolClerk, HolidayInv, ApartInv, NEW c \in Clerks, WriteHoliday(c)
  PROVE  ApartInv'
  <1> DEFINE q == holidayRequest[c]
             others == {h \in holidays : h.id # q.id}
             row == [id |-> IF q.id = 0 THEN nextHoliday ELSE q.id, type |-> q.type,
                     start |-> q.start, end |-> q.end, year |-> q.year, name |-> q.name]
  <1>1. CASE GoOn(c, Quiet)
    BY <1>1, QuietAway, ApartAsks
  <1>2. CASE /\ holidays' = others \cup {row}
             /\ holidayRequest' = [holidayRequest EXCEPT ![c] = Quiet]
    <2>1. q.op = "write"
      BY DEF WriteHoliday
    <2>2. q \in HolidayForm /\ SchoolAsked(c, q)
      BY <2>1, FormIs DEF FormOps, ApartInv
    <2>3. CASE q.type # "SCHOOL"
      <3>1. SchoolRows' \subseteq SchoolRows
        BY <1>2, <2>3 DEF SchoolRows
      <3> QED BY <1>2, <3>1, QuietAway, ApartMoves
    <2>4. CASE q.type = "SCHOOL"
      <3>1. /\ "school" \in Ops[c] /\ ~hasOverlap(q.year, q.start, q.end, q.id)
            /\ ~descriptionTaken(q.year, q.name, q.id)
        BY <2>1, <2>2, <2>4 DEF SchoolAsked, FormOps
      <3>2. /\ row.type = "SCHOOL" /\ row.start = q.start /\ row.end = q.end /\ row.year = q.year
            /\ row.name = q.name /\ q.end \in Valid /\ q.start \in Valid
        BY <2>2, <2>4 DEF HolidayForm, InOrder
      <3> HIDE DEF row
      <3>3. DaysOff(row) = Utc(q.start)..Utc(q.end) /\ Utc(q.start) \in Int /\ Utc(q.end) \in Int
        <4>1. q.end # NoDate
          BY <3>2, DateParts DEF NoDate
        <4> QED BY <3>2, <4>1, UtcOrder DEF DaysOff
      <3>4. ASSUME NEW h \in others, h.type = "SCHOOL", h.year = q.year
            PROVE  Apart(h, row) /\ Apart(row, h)
        <4>1. h \in School(q.year) /\ h.id # q.id /\ h \in HolidayRow
          BY <3>4 DEF School, HolidayInv, HolidayTable
        <4>2. h.name # q.name
          BY <3>1, <4>1 DEF descriptionTaken
        <4>3. ~(Utc(h.start) <= Utc(q.end) /\ Utc(h.end) >= Utc(q.start))
          BY <3>1, <4>1 DEF hasOverlap
        <4>4. DaysOff(h) = Utc(h.start)..Utc(h.end) /\ Utc(h.start) \in Int /\ Utc(h.end) \in Int
          BY <3>4, <4>1, BreakIs
        <4>5. DaysOff(h) \cap DaysOff(row) = {}
          BY <3>3, <4>3, <4>4
        <4> QED BY <3>2, <4>2, <4>5 DEF Apart
      <3>5. BreaksApart(holidays)
        BY DEF ApartInv
      <3>6. BreaksApart(holidays)'
        <4>1. BreaksApart(others \cup {row})
          <5> SUFFICES ASSUME NEW g \in others \cup {row}, NEW h \in others \cup {row},
                              g # h, g.type = "SCHOOL", h.type = "SCHOOL", g.year = h.year
                       PROVE  Apart(g, h)
            BY DEF BreaksApart
          <5>1. g \in others /\ h \in others => Apart(g, h)
            BY <3>5 DEF BreaksApart
          <5> HIDE DEF others, q
          <5> QED BY <3>2, <3>4, <5>1
        <4> QED BY <1>2, <4>1 DEF BreaksApart
      <3> QED BY <1>2, <3>1, <3>6, ApartAdds
    <2> QED BY <2>3, <2>4
  <1> QED BY <1>1, <1>2 DEF WriteHoliday

(* A year of breaks is read, and the one after it found empty.             *)
LEMMA ApartCloneAsked ==
  ASSUME HolidayInv, ApartInv, NEW c \in Clerks,
         (\E type \in HolidayTypes, year \in Years : CloneRead(c, type, year)) \/ CloneCount(c)
  PROVE  ApartInv'
  <1>1. ASSUME NEW type \in HolidayTypes, NEW year \in Years, CloneRead(c, type, year)
        PROVE  ApartInv'
    <2> DEFINE source == {h \in holidays : h.type = type /\ h.year = year}
               q == [op |-> "count", type |-> type, year |-> year + 1, source |-> source]
    <2>1. AskHoliday(c, q) /\ "cloneHoliday" \in Ops[c]
      BY <1>1 DEF CloneRead, Asks
    <2>2. BreaksApart(source)
      BY DEF ApartInv, BreaksApart
    <2> HIDE DEF source
    <2>3. SchoolAsked(c, q)
      BY <2>1, <2>2 DEF SchoolAsked, FormOps
    <2> HIDE DEF q
    <2> QED BY <2>1, <2>3, ApartAsks
  <1>2. CASE CloneCount(c)
    <2> DEFINE q == holidayRequest[c]
               r == [q EXCEPT !.op = "clone"]
    <2>1. /\ q.op = "count"
          /\ GoOn(c, Quiet) \/ (GoOn(c, r) /\ ~\E h \in holidays : h.type = q.type /\ h.year = q.year)
      BY <1>2 DEF CloneCount
    <2>2. SchoolAsked(c, q) /\ CloneOfYear(q)
      BY <2>1, CloneIs DEF ApartInv
    <2>3. r.type = q.type /\ r.year = q.year /\ r.source = q.source /\ r.op \in {"count", "clone"}
      BY <2>1
    <2> HIDE DEF q, r
    <2>4. (~\E h \in holidays : h.type = q.type /\ h.year = q.year) => SchoolAsked(c, r)
      BY <2>1, <2>2, <2>3 DEF SchoolAsked, FormOps, School
    <2> QED BY <2>1, <2>4, QuietAway, ApartAsks
  <1> QED BY <1>1, <1>2

(* They are written into it.                                               *)
LEMMA ApartClone ==
  ASSUME OneSchoolClerk, HolidayInv, ApartInv, NEW c \in Clerks, CloneWrite(c)
  PROVE  ApartInv'
  <1> DEFINE q == holidayRequest[c]
             R(h) == ClonedRow(q, h)
  <1>1. /\ q.op = "clone" /\ holidays' = holidays \cup {R(h) : h \in ClonedFrom(q)}
        /\ holidayRequest' = [holidayRequest EXCEPT ![c] = Quiet]
    BY CloneWrites
  <1>2. CloneOfYear(q) /\ SchoolAsked(c, q)
    BY <1>1, CloneIs DEF ApartInv
  <1>3. \A h : R(h).type = q.type /\ R(h).year = q.year /\ R(h).start = NextYear(h.start)
               /\ R(h).end = Shifted(h) /\ R(h).name = h.name
    BY DEF ClonedRow
  <1> HIDE DEF R
  <1>4. CASE q.type # "SCHOOL"
    <2>1. SchoolRows' \subseteq SchoolRows
      BY <1>1, <1>3, <1>4 DEF SchoolRows
    <2> QED BY <1>1, <2>1, QuietAway, ApartMoves
  <1>5. CASE q.type = "SCHOOL"
    <2>1. "cloneHoliday" \in Ops[c] /\ BreaksApart(q.source) /\ School(q.year) = {}
      BY <1>1, <1>2, <1>5 DEF SchoolAsked
    <2>2. ASSUME NEW g \in ClonedFrom(q), NEW h \in ClonedFrom(q), R(g) # R(h)
          PROVE  Apart(R(g), R(h))
      <3>1. /\ g \in q.source /\ h \in q.source /\ g \in HolidayRow /\ h \in HolidayRow
            /\ g.type = "SCHOOL" /\ h.type = "SCHOOL" /\ g.year + 1 = q.year /\ h.year + 1 = q.year
        BY <1>2, <1>5 DEF ClonedFrom, CloneOfYear
      <3>2. g.year \in Years /\ h.year \in Years
        BY <3>1 DEF HolidayRow
      <3>3. g.year \in Int /\ h.year \in Int
        BY <3>2, YearsNumbers
      <3>4. g.year = h.year
        BY <3>1, <3>3
      <3>5. Apart(g, h)
        BY <2>1, <2>2, <3>1, <3>4 DEF BreaksApart
      <3>6. Shifted(g) = NextYear(g.end) /\ Shifted(h) = NextYear(h.end)
        BY <3>1, BreakIs
      <3> HIDE DEF q
      <3> QED BY <1>3, <3>1, <3>5, <3>6, ShiftApart
    <2>3. BreaksApart(holidays)'
      <3>1. BreaksApart(holidays \cup {R(h) : h \in ClonedFrom(q)})
        <4> SUFFICES ASSUME NEW r \in holidays \cup {R(h) : h \in ClonedFrom(q)},
                            NEW s \in holidays \cup {R(h) : h \in ClonedFrom(q)},
                            r # s, r.type = "SCHOOL", s.type = "SCHOOL", r.year = s.year
                     PROVE  Apart(r, s)
          BY DEF BreaksApart
        <4>1. CASE r \in holidays /\ s \in holidays
          BY <4>1 DEF ApartInv, BreaksApart
        <4>2. \A h \in holidays : h.type = "SCHOOL" => h.year # q.year
          BY <2>1 DEF School
        <4>3. CASE r \notin holidays
          <5>1. PICK g \in ClonedFrom(q) : r = R(g)
            BY <4>3
          <5>2. s \notin holidays
            BY <5>1, <1>3, <4>2
          <5>3. PICK h \in ClonedFrom(q) : s = R(h)
            BY <5>2
          <5> QED BY <2>2, <5>1, <5>3
        <4>4. CASE s \notin holidays
          <5>1. PICK g \in ClonedFrom(q) : s = R(g)
            BY <4>4
          <5>2. r \notin holidays
            BY <5>1, <1>3, <4>2
          <5>3. PICK h \in ClonedFrom(q) : r = R(h)
            BY <5>2
          <5> QED BY <2>2, <5>1, <5>3
        <4> QED BY <4>1, <4>3, <4>4
      <3> QED BY <1>1, <3>1 DEF BreaksApart
    <2> QED BY <1>1, <2>1, <2>3, ApartAdds
  <1> QED BY <1>4, <1>5

(* Every step keeps them apart.                                            *)
LEMMA ApartSteps ==
  ASSUME OneSchoolClerk, HolidayInv, ApartInv, [HolidayNext]_holidayVars
  PROVE  ApartInv'
  <1>1. CASE UNCHANGED holidayVars
    BY <1>1 DEF holidayVars, ApartInv, SchoolAsked, hasOverlap, descriptionTaken, School
  <1>2. ASSUME NEW c \in Clerks, NEW h \in holidays, DeleteHoliday(c, h) PROVE ApartInv'
    <2>1. holidays' \subseteq holidays /\ holidayRequest' = holidayRequest
      BY <1>2 DEF DeleteHoliday
    <2>2. SchoolRows' \subseteq SchoolRows
      BY <2>1 DEF SchoolRows
    <2> QED BY <2>1, <2>2, QuietAway, ApartMoves
  <1>3. ASSUME HolidayNext PROVE ApartInv'
    <2>1. PICK c \in Clerks :
            \/ \/ \E id, start, end, year, name : SubmitSchool(c, id, start, end, year, name)
               \/ \E id, start, name : SubmitPublic(c, id, start, name)
               \/ LoadHoliday(c) \/ CheckOverlap(c) \/ CheckName(c)
            \/ WriteHoliday(c)
            \/ \E h \in holidays : DeleteHoliday(c, h)
            \/ \E type \in HolidayTypes, year \in Years : CloneRead(c, type, year)
            \/ CloneCount(c) \/ CloneWrite(c)
      BY <1>3 DEF HolidayNext
    <2> QED BY <1>2, <2>1, ApartForms, ApartWrite, ApartCloneAsked, ApartClone
  <1> QED BY <1>1, <1>3

(* The seeded breaks are distinct, as those of 2026 are.                   *)
SeedsApart == BreaksApart(SeededHolidays)

(* The seeded breaks are.                                                  *)
LEMMA ApartInit ==
  ASSUME SeedsApart, HolidayInit
  PROVE  ApartInv
  <1>1. PICK f :
          holidays = {[id |-> f[h], type |-> h.type, start |-> h.start, end |-> h.end,
                       year |-> h.year, name |-> h.name] : h \in SeededHolidays}
    BY DEF HolidayInit
  <1>2. ASSUME NEW r \in holidays
        PROVE  \E h \in SeededHolidays :
                 /\ r = [id |-> f[h], type |-> h.type, start |-> h.start, end |-> h.end,
                         year |-> h.year, name |-> h.name]
                 /\ DaysOff(r) = DaysOff(h) /\ r.type = h.type /\ r.year = h.year
                 /\ r.name = h.name /\ r.end = h.end
    <2>1. PICK h \in SeededHolidays :
            r = [id |-> f[h], type |-> h.type, start |-> h.start, end |-> h.end,
                 year |-> h.year, name |-> h.name]
      BY <1>1
    <2>2. DaysOff(r) = DaysOff(h)
      BY <2>1 DEF DaysOff
    <2> QED BY <2>1, <2>2
  <1>3. ASSUME NEW r \in holidays, NEW s \in holidays,
               r # s, r.type = "SCHOOL", s.type = "SCHOOL", r.year = s.year
        PROVE  Apart(r, s)
    <2>1. PICK g \in SeededHolidays :
            /\ r = [id |-> f[g], type |-> g.type, start |-> g.start, end |-> g.end,
                    year |-> g.year, name |-> g.name]
            /\ DaysOff(r) = DaysOff(g) /\ r.type = g.type /\ r.year = g.year
            /\ r.name = g.name /\ r.end = g.end
      BY <1>2
    <2>2. PICK h \in SeededHolidays :
            /\ s = [id |-> f[h], type |-> h.type, start |-> h.start, end |-> h.end,
                    year |-> h.year, name |-> h.name]
            /\ DaysOff(s) = DaysOff(h) /\ s.type = h.type /\ s.year = h.year
            /\ s.name = h.name /\ s.end = h.end
      BY <1>2
    <2>3. Apart(g, h)
      BY <1>3, <2>1, <2>2 DEF SeedsApart, BreaksApart
    <2> QED BY <2>1, <2>2, <2>3 DEF Apart
  <1>4. \A c \in Clerks : holidayRequest[c] = Quiet
    BY DEF HolidayInit
  <1> QED BY <1>3, <1>4, QuietAway DEF ApartInv, BreaksApart

(* As long as one clerk at most writes and clones school holidays and the  *)
(* seeded ones are distinct, no two breaks of an academic year share a     *)
(* name or a day, whatever is keyed, corrected, deleted by others and      *)
(* cloned: what the two look-ups have found stays true until the write,    *)
(* and a year later breaks that did not meet still do not, but on the 1    *)
(* March that 29 February goes to.                                         *)
THEOREM BreaksStayApart ==
  OneSchoolClerk /\ SeedsApart => (Spec => []SchoolBreaksDistinct)
  <1> SUFFICES ASSUME OneSchoolClerk, SeedsApart PROVE Spec => []SchoolBreaksDistinct
    OBVIOUS
  <1>1. Init => ApartInv
    BY HolidayDesk, ApartInit
  <1>2. HolidayInv /\ ApartInv /\ [Next]_vars => ApartInv'
    BY HolidayDesk, ApartSteps
  <1>3. ApartInv => SchoolBreaksDistinct
    BY DEF ApartInv, BreaksApart, Apart, SchoolBreaksDistinct
  <1> QED BY <1>1, <1>2, <1>3, HolidayInvariant, PTL DEF Spec

(***************************************************************************)
(* The season calendar.                                                    *)
(***************************************************************************)
(* A set of numbers has a least one.                                       *)
LEMMA LeastNumber ==
  ASSUME NEW T \in SUBSET Nat, T # {}
  PROVE  \E x \in T : \A y \in T : x <= y
  <1> DEFINE R == {ss \in Nat \X Nat : ss[1] < ss[2]}
  <1>1. IsWellFoundedOn(R, Nat)
    BY NatLessThanWellFounded, Zenon DEF OpToRel
  <1>2. PICK x \in T : \A y \in T : <<y, x>> \notin R
    <2> HIDE DEF R
    <2> QED BY <1>1, WFMin
  <1>3. ASSUME NEW y \in T PROVE x <= y
    <2>1. x \in Nat /\ y \in Nat
      OBVIOUS
    <2>2. ~(y < x)
      BY <1>2, <2>1
    <2> QED BY <2>1, <2>2
  <1> QED BY <1>3

(* The other desks leave the season calendar alone.                        *)
LEMMA SeasonDesk ==
  /\ Init => SeasonInit
  /\ [Next]_vars => [SeasonNext]_seasonVars
  <1>1. Init => SeasonInit
    BY DEF Init
  <1>2. ASSUME Next PROVE SeasonNext \/ seasonVars' = seasonVars
    BY <1>2 DEF Next, seasonVars
  <1>3. vars' = vars => seasonVars' = seasonVars
    BY DEF vars
  <1> QED BY <1>1, <1>2, <1>3

(* Months are numbers.                                                     *)
LEMMA MonthsNumbers == \A m \in SeasonMonths : m \in 1..12
  BY SeasonAssumption

(* The dates of a month, and that a date is in one month.                  *)
LEMMA DatesOfMonth ==
  ASSUME NEW y \in Years, NEW m \in SeasonMonths
  PROVE  \A d : d \in DatesOf(y, m) <=>
                  /\ d \in Valid /\ d = <<y, m, d[3]>>
                  /\ d[1] = y /\ d[2] = m /\ d[3] \in SeasonDays
  <1>1. y \in Int /\ m \in 1..12 /\ MonthLength(y, m) \in 28..31
    BY YearsNumbers, MonthsNumbers, MonthTable
  <1>2. ASSUME NEW d \in DatesOf(y, m)
        PROVE  /\ d \in Valid /\ d = <<y, m, d[3]>>
               /\ d[1] = y /\ d[2] = m /\ d[3] \in SeasonDays
    <2>1. PICK k \in SeasonDays \cap (1..MonthLength(y, m)) : d = <<y, m, k>>
      BY DEF DatesOf
    <2>2. k \in 1..31
      BY <1>1, <2>1
    <2> QED BY <1>1, <2>1, <2>2 DEF Valid, Dates3, ValidDate
  <1>3. ASSUME NEW d, d \in Valid, d = <<y, m, d[3]>>, d[3] \in SeasonDays
        PROVE  d \in DatesOf(y, m)
    <2>1. d[3] \in 1..MonthLength(y, m)
      BY <1>3 DEF Valid, ValidDate
    <2> QED BY <1>3, <2>1 DEF DatesOf
  <1> QED BY <1>2, <1>3

(* The dates of the calendar by their parts.                               *)
LEMMA SeasonDateIs ==
  ASSUME NEW d
  PROVE  d \in SeasonDates <=>
           d \in Valid /\ d[1] \in Years /\ d[2] \in SeasonMonths /\ d[3] \in SeasonDays
  <1>1. ASSUME d \in SeasonDates
        PROVE  d \in Valid /\ d[1] \in Years /\ d[2] \in SeasonMonths /\ d[3] \in SeasonDays
    <2>1. PICK y \in Years, m \in SeasonMonths : d \in DatesOf(y, m)
      BY <1>1 DEF SeasonDates
    <2> QED BY <2>1, DatesOfMonth
  <1>2. ASSUME d \in Valid, d[1] \in Years, d[2] \in SeasonMonths, d[3] \in SeasonDays
        PROVE  d \in SeasonDates
    <2>1. d = <<d[1], d[2], d[3]>>
      BY <1>2, DateParts
    <2>2. d \in DatesOf(d[1], d[2])
      BY <1>2, <2>1, DatesOfMonth
    <2> QED BY <1>2, <2>2 DEF SeasonDates
  <1> QED BY <1>1, <1>2

(* The days of a month are dates of the calendar.                          *)
LEMMA MonthInSeason ==
  ASSUME NEW y \in Years, NEW m \in SeasonMonths
  PROVE  DatesOf(y, m) \subseteq SeasonDates
  BY DEF SeasonDates

(* Of each month all days or none.                                         *)
Whole(dates) ==
  \A y \in Years, m \in SeasonMonths :
    \/ dates \cap DatesOf(y, m) \subseteq {<<y, 3, 1>>}
    \/ DatesOf(y, m) \subseteq (dates \cap DatesOf(y, m)) \cup {<<y, 2, 29>>}

(* Two tables that are whole are whole together,                           *)
LEMMA WholeEither == ASSUME NEW D, NEW E, Whole(D), Whole(E) PROVE Whole(D \cup E)
  <1> SUFFICES ASSUME NEW y \in Years, NEW m \in SeasonMonths
               PROVE  \/ (D \cup E) \cap DatesOf(y, m) \subseteq {<<y, 3, 1>>}
                      \/ DatesOf(y, m) \subseteq ((D \cup E) \cap DatesOf(y, m)) \cup {<<y, 2, 29>>}
    BY DEF Whole
  <1> DEFINE M == DatesOf(y, m)
  <1>1. D \cap M \subseteq {<<y, 3, 1>>} \/ M \subseteq (D \cap M) \cup {<<y, 2, 29>>}
    BY DEF Whole
  <1>2. E \cap M \subseteq {<<y, 3, 1>>} \/ M \subseteq (E \cap M) \cup {<<y, 2, 29>>}
    BY DEF Whole
  <1> HIDE DEF M
  <1> QED BY <1>1, <1>2 DEF M

(* with a month more and with a month less,                                *)
LEMMA WholeMonth ==
  ASSUME NEW y \in Years, NEW m \in SeasonMonths, NEW D, Whole(D)
  PROVE  /\ Whole(DatesOf(y, m)) /\ Whole(D \ DatesOf(y, m))
  <1>1. ASSUME NEW z \in Years, NEW n \in SeasonMonths
        PROVE  (y = z /\ m = n) \/ DatesOf(y, m) \cap DatesOf(z, n) = {}
    BY DatesOfMonth
  <1>2. Whole(DatesOf(y, m))
    BY <1>1 DEF Whole
  <1>3. ASSUME NEW z \in Years, NEW n \in SeasonMonths
        PROVE  \/ (D \ DatesOf(y, m)) \cap DatesOf(z, n) \subseteq {<<z, 3, 1>>}
               \/ DatesOf(z, n) \subseteq ((D \ DatesOf(y, m)) \cap DatesOf(z, n)) \cup {<<z, 2, 29>>}
    <2>1. CASE y = z /\ m = n
      BY <2>1
    <2>2. CASE DatesOf(y, m) \cap DatesOf(z, n) = {}
      <3>1. (D \ DatesOf(y, m)) \cap DatesOf(z, n) = D \cap DatesOf(z, n)
        BY <2>2
      <3> QED BY <3>1 DEF Whole
    <2> QED BY <1>1, <2>1, <2>2
  <1> QED BY <1>2, <1>3 DEF Whole

(* for the months of one year,                                             *)
LEMMA WholeYear ==
  ASSUME NEW D, Whole(D), NEW year
  PROVE  Whole({d \in D : d[1] = year})
  <1> SUFFICES ASSUME NEW y \in Years, NEW m \in SeasonMonths
               PROVE  LET E == {d \in D : d[1] = year} IN
                      \/ E \cap DatesOf(y, m) \subseteq {<<y, 3, 1>>}
                      \/ DatesOf(y, m) \subseteq (E \cap DatesOf(y, m)) \cup {<<y, 2, 29>>}
    BY DEF Whole
  <1> DEFINE E == {d \in D : d[1] = year}
  <1>1. CASE y = year
    <2>1. E \cap DatesOf(y, m) = D \cap DatesOf(y, m)
      BY <1>1, DatesOfMonth
    <2> QED BY <2>1 DEF Whole
  <1>2. CASE y # year
    <2>1. E \cap DatesOf(y, m) = {}
      BY <1>2, DatesOfMonth
    <2> QED BY <2>1
  <1> QED BY <1>1, <1>2

(* A date a year later is of the calendar.                                 *)
LEMMA ClonedDate ==
  ASSUME NEW year \in Years, NEW d \in SeasonDates, d[1] + 1 = year
  PROVE  /\ NextYear(d) \in SeasonDates /\ d \in Valid
         /\ NextYear(d) = IF LeapDay(d) THEN <<year, 3, 1>> ELSE <<year, d[2], d[3]>>
         /\ Utc(d) \in Nat
  <1>1. d \in Valid /\ d[1] \in Years /\ d[2] \in SeasonMonths /\ d[3] \in SeasonDays
    BY SeasonDateIs
  <1>2. /\ NextYear(d) = IF LeapDay(d) THEN <<year, 3, 1>> ELSE <<year, d[2], d[3]>>
        /\ NextYear(d) \in Valid
    BY <1>1, NextYearIs
  <1>3. LeapDay(d) => 3 \in SeasonMonths /\ 1 \in SeasonDays
    BY <1>1, SeasonAssumption DEF LeapDay
  <1>4. NextYear(d) \in SeasonDates
    BY <1>1, <1>2, <1>3, SeasonDateIs
  <1>5. Utc(d) \in Nat
    <2>1. d[1] \in Int /\ d[1] >= 1900
      BY <1>1, YearsNumbers
    <2> QED BY <1>1, <2>1, UtcNat
  <1> QED BY <1>1, <1>2, <1>4, <1>5

(* and a year later, where 29 February is the exception.                   *)
LEMMA WholeCloned ==
  ASSUME NEW year \in Years, NEW S \in SUBSET SeasonDates, \A d \in S : d[1] + 1 = year,
         Whole(S), year - 1 \in Years
  PROVE  Whole({NextYear(d) : d \in S})
  <1> DEFINE E == {NextYear(d) : d \in S}
  <1> SUFFICES ASSUME NEW y \in Years, NEW m \in SeasonMonths
               PROVE  \/ E \cap DatesOf(y, m) \subseteq {<<y, 3, 1>>}
                      \/ DatesOf(y, m) \subseteq (E \cap DatesOf(y, m)) \cup {<<y, 2, 29>>}
    BY DEF Whole
  <1>1. ASSUME NEW d \in S
        PROVE  /\ NextYear(d) = IF LeapDay(d) THEN <<year, 3, 1>> ELSE <<year, d[2], d[3]>>
               /\ NextYear(d)[1] = year /\ d[1] = year - 1 /\ d \in SeasonDates
    <2>1. d[1] \in Int
      BY SeasonDateIs, YearsNumbers
    <2>2. year \in Int
      BY YearsNumbers
    <2> QED BY <2>1, <2>2, ClonedDate
  <1>2. CASE y # year
    <2>1. E \cap DatesOf(y, m) = {}
      BY <1>1, <1>2, DatesOfMonth
    <2> QED BY <2>1
  <1>3. CASE y = year
    <2> DEFINE M == DatesOf(year - 1, m)
    <2>1. S \cap M \subseteq {<<year - 1, 3, 1>>} \/ M \subseteq (S \cap M) \cup {<<year - 1, 2, 29>>}
      BY DEF Whole
    <2>2. CASE S \cap M \subseteq {<<year - 1, 3, 1>>}
      <3>1. ASSUME NEW d \in S, NextYear(d) \in DatesOf(y, m)
            PROVE  NextYear(d) = <<y, 3, 1>>
        <4>1. CASE LeapDay(d)
          BY <1>1, <1>3, <4>1
        <4>2. CASE ~LeapDay(d)
          <5>1. NextYear(d)[2] = d[2] /\ d[2] = m
            BY <1>1, <3>1, <4>2, DatesOfMonth
          <5>2. d \in M
            BY <1>1, <5>1, SeasonDateIs, DateParts, DatesOfMonth
          <5> QED BY <1>1, <1>3, <2>2, <4>2, <5>2
        <4> QED BY <4>1, <4>2
      <3> QED BY <3>1
    <2>3. CASE M \subseteq (S \cap M) \cup {<<year - 1, 2, 29>>}
      <3>1. ASSUME NEW d \in DatesOf(y, m), d # <<y, 2, 29>>
            PROVE  d \in E
        <4> DEFINE e == <<year - 1, m, d[3]>>
        <4>1. /\ d \in Valid /\ d = <<year, m, d[3]>> /\ d[3] \in SeasonDays
          BY <1>3, DatesOfMonth
        <4>2. /\ year \in Int /\ year - 1 \in Int /\ m \in 1..12 /\ d[3] \in 1..31
              /\ d[3] <= MonthLength(year, m)
          BY <4>1, YearsNumbers, MonthsNumbers, DateParts
        <4>3. ~(m = 2 /\ d[3] = 29)
          BY <1>3, <3>1, <4>1
        <4>4. d[3] <= MonthLength(year - 1, m)
          <5>1. CASE m = 2
            <6>1. MonthLength(year, m) \in {28, 29} /\ MonthLength(year - 1, m) \in {28, 29}
              BY <5>1 DEF MonthLength
            <6> QED BY <4>2, <4>3, <5>1, <6>1
          <5>2. CASE m # 2
            BY <4>2, <5>2 DEF MonthLength
          <5> QED BY <5>1, <5>2
        <4>5. e \in Valid
          <5>1. d[3] \in 1..MonthLength(year - 1, m)
            BY <4>2, <4>4, MonthTable
          <5> QED BY <4>2, <5>1 DEF Valid, Dates3, ValidDate
        <4>6. e \in M /\ e # <<year - 1, 2, 29>>
          BY <4>1, <4>3, <4>5, DatesOfMonth
        <4>7. e \in S /\ ~LeapDay(e)
          BY <2>3, <4>3, <4>6 DEF LeapDay
        <4>8. NextYear(e) = <<year, m, d[3]>>
          BY <1>1, <4>7
        <4> QED BY <4>1, <4>7, <4>8
      <3> QED BY <3>1
    <2> QED BY <2>1, <2>2, <2>3
  <1> QED BY <1>2, <1>3

(* Tables of grades.                                                       *)
Grades(t) == t = [d \in DOMAIN t |-> t[d]] /\ SeasonTable(t)

(* One table over another.                                                 *)
LEMMA GradesOver ==
  ASSUME NEW s, NEW t, Grades(s), Grades(t)
  PROVE  Grades(Over(s, t)) /\ DOMAIN Over(s, t) = DOMAIN s \cup DOMAIN t
  BY DEF Grades, SeasonTable, Over

(* A table on some dates.                                                  *)
LEMMA GradesIn ==
  ASSUME NEW t, Grades(t), NEW dates
  PROVE  /\ Grades(GradedIn(t, dates)) /\ DOMAIN GradedIn(t, dates) = DOMAIN t \cap dates
  BY DEF Grades, SeasonTable, GradedIn

(* What the migration loads: one grade of each date, blank and repeated    *)
(* rows left out.                                                          *)
LEMMA GradesLoaded == Grades(Loaded(MigratedSeasons))
  <1> DEFINE rows == MigratedSeasons
             graded == {i \in DOMAIN rows : rows[i][2] \in Seasons}
             First(date) == CHOOSE i \in graded :
               /\ rows[i][1] = date
               /\ \A j \in graded : rows[j][1] = date => i <= j
             t == Loaded(rows)
  <1>1. rows \in Seq(SeasonDates \X (Seasons \cup {"?"}))
    BY SeasonAssumption
  <1>2. /\ graded \subseteq Nat
        /\ \A i \in graded : rows[i][1] \in SeasonDates /\ rows[i][2] \in Seasons
    BY <1>1
  <1>3. /\ DOMAIN t = {rows[i][1] : i \in graded}
        /\ \A d \in DOMAIN t : t[d] = rows[First(d)][2]
        /\ t = [d \in DOMAIN t |-> t[d]]
    BY DEF Loaded
  <1>4. ASSUME NEW d \in DOMAIN t PROVE t[d] \in Seasons
    <2> DEFINE T == {i \in graded : rows[i][1] = d}
    <2>1. T \in SUBSET Nat /\ T # {}
      BY <1>2, <1>3
    <2>2. PICK i \in T : \A j \in T : i <= j
      BY <2>1, LeastNumber
    <2>3. First(d) \in graded
      BY <2>2
    <2> HIDE DEF First, graded
    <2> QED BY <1>2, <1>3, <2>3
  <1>5. DOMAIN t \subseteq SeasonDates
    BY <1>2, <1>3
  <1> HIDE DEF t
  <1> QED BY <1>3, <1>4, <1>5 DEF Grades, SeasonTable, t

(* What a clone writes: the dates a year later, each with the grade of a   *)
(* day that goes to it, the only one if it is not 1 March.                 *)
LEMMA ClonedGrades ==
  ASSUME NEW year \in Years, NEW s, Grades(s), \A d \in DOMAIN s : d[1] + 1 = year
  PROVE  /\ Grades(Cloned(s)) /\ DOMAIN Cloned(s) = {NextYear(d) : d \in DOMAIN s}
         /\ \A d \in DOMAIN Cloned(s) \ {<<year, 3, 1>>} :
              Cloned(s)[d] = s[<<year - 1, d[2], d[3]>>]
  <1> DEFINE Source(date) == CHOOSE d \in DOMAIN s :
                /\ NextYear(d) = date
                /\ \A e \in DOMAIN s : NextYear(e) = date => Utc(d) <= Utc(e)
             t == Cloned(s)
  <1>1. /\ DOMAIN t = {NextYear(d) : d \in DOMAIN s}
        /\ \A d \in DOMAIN t : t[d] = s[Source(d)]
        /\ t = [d \in DOMAIN t |-> t[d]]
    BY DEF Cloned
  <1>2. ASSUME NEW d \in DOMAIN s
        PROVE  /\ NextYear(d) \in SeasonDates /\ d \in Valid /\ Utc(d) \in Nat
               /\ NextYear(d) = IF LeapDay(d) THEN <<year, 3, 1>> ELSE <<year, d[2], d[3]>>
               /\ s[d] \in Seasons /\ d = <<year - 1, d[2], d[3]>>
    <2>1. d \in SeasonDates /\ s[d] \in Seasons
      BY DEF Grades, SeasonTable
    <2>2. d[1] \in Int /\ d = <<d[1], d[2], d[3]>>
      BY <2>1, SeasonDateIs, DateParts
    <2>3. d[1] = year - 1
      BY <2>2, YearsNumbers
    <2> QED BY <2>1, <2>2, <2>3, ClonedDate
  <1>3. ASSUME NEW date \in DOMAIN t
        PROVE  Source(date) \in DOMAIN s /\ NextYear(Source(date)) = date
    <2> DEFINE C == {d \in DOMAIN s : NextYear(d) = date}
    <2>1. {Utc(d) : d \in C} \in SUBSET Nat /\ {Utc(d) : d \in C} # {}
      BY <1>1, <1>2
    <2>2. PICK u \in {Utc(d) : d \in C} : \A v \in {Utc(d) : d \in C} : u <= v
      BY <2>1, LeastNumber
    <2>3. PICK d \in C : Utc(d) = u
      OBVIOUS
    <2>4. \A e \in DOMAIN s : NextYear(e) = date => Utc(d) <= Utc(e)
      BY <2>2, <2>3
    <2> QED BY <2>3, <2>4
  <1> HIDE DEF Source
  <1>4. ASSUME NEW date \in DOMAIN t PROVE t[date] \in Seasons /\ date \in SeasonDates
    BY <1>1, <1>2, <1>3
  <1>5. ASSUME NEW date \in DOMAIN t, date # <<year, 3, 1>>
        PROVE  t[date] = s[<<year - 1, date[2], date[3]>>]
    <2> DEFINE d == Source(date)
    <2>1. d \in DOMAIN s /\ NextYear(d) = date
      BY <1>3
    <2> HIDE DEF d
    <2>2. date = <<year, d[2], d[3]>>
      BY <1>2, <1>5, <2>1
    <2>3. d = <<year - 1, date[2], date[3]>>
      BY <1>2, <2>1, <2>2
    <2> QED BY <1>1, <2>3 DEF d
  <1>6. Grades(t)
    BY <1>1, <1>4 DEF Grades, SeasonTable
  <1> HIDE DEF t
  <1> QED BY <1>1, <1>5, <1>6 DEF t

(* A month that is open.                                                   *)
MonthShown(p) ==
  \/ p = NoMonth
  \/ /\ p.year \in Years /\ p.month \in SeasonMonths
     /\ Grades(p.stored) /\ DOMAIN p.stored \subseteq DatesOf(p.year, p.month)

(* A clone carries the grades of the year before its own.                  *)
CloneAsked(q) ==
  /\ q.op \in {"count", "clone"} /\ q.year \in Years /\ q.year - 1 \in Years
  /\ Grades(q.source) /\ \A d \in DOMAIN q.source : d[1] + 1 = q.year

(* What each request carries.                                              *)
SeasonAsked(q) ==
  \/ q = NoRequest
  \/ /\ q.op = "save" /\ Grades(q.days)
     /\ \E y \in Years, m \in SeasonMonths : DOMAIN q.days = DatesOf(y, m)
  \/ CloneAsked(q)

(* The inductive invariant of the season desk.                             *)
SeasonInv ==
  /\ Grades(seasons)
  /\ seasonPage = [c \in Clerks |-> seasonPage[c]]
  /\ \A c \in Clerks : MonthShown(seasonPage[c])
  /\ seasonRequest = [c \in Clerks |-> seasonRequest[c]]
  /\ \A c \in Clerks : SeasonAsked(seasonRequest[c])
  /\ seasonEdits \in Nat

(* The types of CpSeasons.                                                 *)
LEMMA SeasonTypes == SeasonInv => SeasonTypeOK
  BY DEF SeasonInv, SeasonTypeOK, MonthShown, SeasonAsked, CloneAsked, Grades

(* The migrated calendar.                                                  *)
LEMMA SeasonInitInv == SeasonInit => SeasonInv
  BY GradesLoaded DEF SeasonInit, SeasonInv, MonthShown, SeasonAsked

(* One request changes, to one that carries what it must.                  *)
LEMMA SeasonMoves ==
  ASSUME SeasonInv, NEW c \in Clerks, NEW q, SeasonAsked(q),
         seasonRequest' = [seasonRequest EXCEPT ![c] = q],
         Grades(seasons'), UNCHANGED seasonPage,
         seasonEdits' \in {seasonEdits, seasonEdits + 1}
  PROVE  SeasonInv'
  <1>1. seasonEdits' \in Nat
    BY DEF SeasonInv
  <1> QED BY <1>1 DEF SeasonInv

(* Nothing is asked.                                                       *)
LEMMA NoneAsked == SeasonAsked(NoRequest)
  BY DEF SeasonAsked

(* A new request and one that goes on change no grade.                     *)
LEMMA SeasonAsks ==
  ASSUME SeasonInv, NEW c \in Clerks, NEW q, SeasonAsked(q), AskSeason(c, q) \/ SeasonGoOn(c, q)
  PROVE  SeasonInv'
  <1>1. /\ seasonRequest' = [seasonRequest EXCEPT ![c] = q]
        /\ seasons' = seasons /\ UNCHANGED seasonPage
        /\ seasonEdits' \in {seasonEdits, seasonEdits + 1}
    BY DEF AskSeason, SeasonGoOn
  <1>2. Grades(seasons')
    BY <1>1 DEF SeasonInv
  <1> QED BY <1>1, <1>2, SeasonMoves

(* A month is opened.                                                      *)
LEMMA FetchSeason ==
  ASSUME SeasonInv, NEW c \in Clerks, NEW y \in Years, NEW m \in SeasonMonths, FetchMonth(c, y, m)
  PROVE  SeasonInv'
  <1> DEFINE t == GradedIn(seasons, DatesOf(y, m))
             page == [year |-> y, month |-> m, stored |-> t]
  <1>1. seasonPage' = [seasonPage EXCEPT ![c] = page] /\ UNCHANGED <<seasons, seasonRequest, seasonEdits>>
    BY DEF FetchMonth
  <1>2. MonthShown(page)
    <2>1. Grades(seasons)
      BY DEF SeasonInv
    <2>2. Grades(t) /\ DOMAIN t \subseteq DatesOf(y, m)
      <3>1. Grades(t) /\ DOMAIN t = DOMAIN seasons \cap DatesOf(y, m)
        BY <2>1, GradesIn
      <3> QED BY <3>1
    <2> HIDE DEF t
    <2> QED BY <2>2 DEF MonthShown
  <1> HIDE DEF page
  <1> QED BY <1>1, <1>2 DEF SeasonInv

(* A month is sent with every day of it.                                   *)
LEMMA SubmitSeason ==
  ASSUME SeasonInv, NEW c \in Clerks, seasonPage[c] # NoMonth,
         NEW dates \in SUBSET DatesOf(seasonPage[c].year, seasonPage[c].month),
         NEW keyed \in [dates -> Seasons], SubmitMonth(c, keyed)
  PROVE  SeasonInv'
  <1> DEFINE page == seasonPage[c]
             month == DatesOf(page.year, page.month)
             default == [d \in month |-> DEFAULT_SEASON]
             q == [op |-> "save", days |-> ShownDays(page, keyed)]
  <1>1. AskSeason(c, q)
    BY DEF SubmitMonth
  <1>2. /\ page.year \in Years /\ page.month \in SeasonMonths
        /\ Grades(page.stored) /\ DOMAIN page.stored \subseteq month
    BY DEF SeasonInv, MonthShown
  <1>3. month \subseteq SeasonDates
    BY <1>2, MonthInSeason
  <1>4. Grades(default) /\ DOMAIN default = month
    BY <1>3, SeasonAssumption DEF Grades, SeasonTable
  <1>5. Grades(keyed) /\ DOMAIN keyed \subseteq month
    BY <1>3 DEF Grades, SeasonTable
  <1> HIDE DEF default, month, page
  <1>6. /\ Grades(Over(page.stored, default))
        /\ DOMAIN Over(page.stored, default) = month
    BY <1>2, <1>4, GradesOver
  <1>7. /\ Grades(Over(keyed, Over(page.stored, default)))
        /\ DOMAIN Over(keyed, Over(page.stored, default)) = month
    BY <1>5, <1>6, GradesOver
  <1>8. ShownDays(page, keyed) = Over(keyed, Over(page.stored, default))
    BY DEF ShownDays, default, month
  <1>9. SeasonAsked(q)
    BY <1>2, <1>7, <1>8 DEF SeasonAsked, month
  <1> HIDE DEF q
  <1> QED BY <1>1, <1>9, SeasonAsks

(* A year is read for its clone, and the year after it counted.            *)
LEMMA CloneSeason ==
  ASSUME SeasonInv, NEW c \in Clerks,
         (\E year \in Years : SeasonCloneRead(c, year)) \/ SeasonCloneCount(c)
  PROVE  SeasonInv'
  <1>1. ASSUME NEW year \in Years, SeasonCloneRead(c, year) PROVE SeasonInv'
    <2> DEFINE t == GradedIn(seasons, Graded(year))
               q == [op |-> "count", year |-> year + 1, source |-> t]
    <2>1. AskSeason(c, q) /\ year + 1 \in Years
      BY <1>1 DEF SeasonCloneRead
    <2>2. Grades(t) /\ DOMAIN t = Graded(year)
      <3>1. Grades(seasons) /\ DOMAIN seasons \cap Graded(year) = Graded(year)
        BY DEF SeasonInv, Graded
      <3> QED BY <3>1, GradesIn
    <2>3. year \in Int /\ (year + 1) - 1 = year
      BY YearsNumbers
    <2>4. \A d \in Graded(year) : d[1] = year
      BY DEF Graded
    <2> HIDE DEF t
    <2>5. SeasonAsked(q)
      BY <2>1, <2>2, <2>3, <2>4 DEF SeasonAsked, CloneAsked
    <2> HIDE DEF q
    <2> QED BY <2>1, <2>5, SeasonAsks
  <1>2. CASE SeasonCloneCount(c)
    <2> DEFINE q == seasonRequest[c]
    <2>1. /\ q.op = "count"
          /\ SeasonGoOn(c, IF Graded(q.year) # {} THEN NoRequest ELSE [q EXCEPT !.op = "clone"])
      BY <1>2 DEF SeasonCloneCount
    <2>2. CloneAsked(q)
      BY <2>1 DEF SeasonInv, SeasonAsked, NoRequest
    <2>3. SeasonAsked([q EXCEPT !.op = "clone"])
      BY <2>2 DEF SeasonAsked, CloneAsked
    <2> HIDE DEF q
    <2> QED BY <2>1, <2>3, NoneAsked, SeasonAsks
  <1> QED BY <1>1, <1>2

(* The three writes.                                                       *)
LEMMA WriteSeason ==
  ASSUME SeasonInv, NEW c \in Clerks
  PROVE  /\ SaveMonth(c) => SeasonInv' /\ DOMAIN seasons' = DOMAIN seasonRequest[c].days \cup DOMAIN seasons
         /\ (seasonPage[c] # NoMonth /\ DeleteMonth(c)) =>
              SeasonInv' /\ DOMAIN seasons' = DOMAIN seasons \ DatesOf(seasonPage[c].year, seasonPage[c].month)
         /\ SeasonCloneWrite(c) =>
              LET q == seasonRequest[c] IN
              /\ SeasonInv' /\ DOMAIN seasons' = DOMAIN seasons \cup {NextYear(d) : d \in DOMAIN q.source}
              /\ \A d \in DOMAIN seasons : seasons'[d] = seasons[d]
              /\ \A d \in (DOMAIN seasons' \ DOMAIN seasons) \ {<<q.year, 3, 1>>} :
                   seasons'[d] = q.source[<<q.year - 1, d[2], d[3]>>]
  <1> DEFINE q == seasonRequest[c]
  <1>0. Grades(seasons)
    BY DEF SeasonInv
  <1>1. ASSUME SaveMonth(c)
        PROVE  SeasonInv' /\ DOMAIN seasons' = DOMAIN q.days \cup DOMAIN seasons
    <2>1. q.op = "save" /\ seasons' = Over(q.days, seasons)
      BY <1>1 DEF SaveMonth
    <2>2. Grades(q.days)
      BY <2>1 DEF SeasonInv, SeasonAsked, CloneAsked, NoRequest
    <2>3. Grades(seasons') /\ DOMAIN seasons' = DOMAIN q.days \cup DOMAIN seasons
      BY <1>0, <2>1, <2>2, GradesOver
    <2> QED BY <1>1, <2>3, NoneAsked, SeasonMoves DEF SaveMonth
  <1>2. ASSUME seasonPage[c] # NoMonth, DeleteMonth(c)
        PROVE  /\ SeasonInv'
               /\ DOMAIN seasons' = DOMAIN seasons \ DatesOf(seasonPage[c].year, seasonPage[c].month)
    <2> DEFINE month == DatesOf(seasonPage[c].year, seasonPage[c].month)
    <2>1. /\ seasons' = GradedIn(seasons, DOMAIN seasons \ month)
          /\ seasonEdits' = seasonEdits + 1 /\ UNCHANGED <<seasonPage, seasonRequest>>
      BY <1>2 DEF DeleteMonth
    <2>2. Grades(seasons') /\ DOMAIN seasons' = DOMAIN seasons \ month
      BY <1>0, <2>1, GradesIn
    <2> QED BY <2>1, <2>2 DEF SeasonInv
  <1>3. ASSUME SeasonCloneWrite(c)
        PROVE  /\ SeasonInv' /\ DOMAIN seasons' = DOMAIN seasons \cup {NextYear(d) : d \in DOMAIN q.source}
               /\ \A d \in DOMAIN seasons : seasons'[d] = seasons[d]
               /\ \A d \in (DOMAIN seasons' \ DOMAIN seasons) \ {<<q.year, 3, 1>>} :
                    seasons'[d] = q.source[<<q.year - 1, d[2], d[3]>>]
    <2> DEFINE t == Cloned(q.source)
    <2>1. q.op = "clone" /\ seasons' = Over(seasons, t)
      BY <1>3 DEF SeasonCloneWrite, Inserted
    <2>2. CloneAsked(q)
      BY <2>1 DEF SeasonInv, SeasonAsked, NoRequest
    <2>3. /\ Grades(t) /\ DOMAIN t = {NextYear(d) : d \in DOMAIN q.source}
          /\ \A d \in DOMAIN t \ {<<q.year, 3, 1>>} : t[d] = q.source[<<q.year - 1, d[2], d[3]>>]
      BY <2>2, ClonedGrades DEF CloneAsked
    <2> HIDE DEF t, q
    <2>4. Grades(seasons') /\ DOMAIN seasons' = DOMAIN seasons \cup DOMAIN t
      BY <1>0, <2>1, <2>3, GradesOver
    <2>5. /\ \A d \in DOMAIN seasons : seasons'[d] = seasons[d]
          /\ \A d \in DOMAIN seasons' \ DOMAIN seasons : d \in DOMAIN t /\ seasons'[d] = t[d]
      BY <2>1, <2>4 DEF Over
    <2>6. SeasonInv'
      BY <1>3, <2>4, NoneAsked, SeasonMoves DEF SeasonCloneWrite
    <2> QED BY <2>3, <2>4, <2>5, <2>6
  <1> QED BY <1>1, <1>2, <1>3

(* Every step keeps the invariant.                                         *)
LEMMA SeasonSteps ==
  ASSUME SeasonInv, [SeasonNext]_seasonVars
  PROVE  SeasonInv'
  <1>1. CASE UNCHANGED seasonVars
    BY <1>1 DEF seasonVars, SeasonInv
  <1> QED BY <1>1, FetchSeason, SubmitSeason, CloneSeason, WriteSeason DEF SeasonNext

(* It always holds.                                                        *)
LEMMA SeasonInvariant == Spec => []SeasonInv
  BY SeasonDesk, SeasonInitInv, SeasonSteps, PTL DEF Spec

(* Whoever works on the season calendar, the clone of a year overwrites no *)
(* grade that is there, and gives each day the grade of the same day of    *)
(* the year before, 1 March after a leap year excepted, to which two days  *)
(* go.                                                                     *)
THEOREM ClonesKeepGrades == Spec => CloneKeepsGrades
  <1>1. ASSUME SeasonInv, [SeasonNext]_seasonVars
        PROVE  [\A c \in Clerks :
                  LET q == seasonRequest[c]
                      cloned == DOMAIN seasons' \ DOMAIN seasons
                  IN q.op = "clone" /\ seasonRequest'[c] # q =>
                       /\ \A d \in DOMAIN seasons : d \in DOMAIN seasons' => seasons'[d] = seasons[d]
                       /\ \A d \in cloned \ {<<q.year, 3, 1>>} :
                            seasons'[d] = q.source[<<q.year - 1, d[2], d[3]>>]]_seasonVars
    <2> SUFFICES ASSUME SeasonNext, NEW c \in Clerks,
                        seasonRequest[c].op = "clone", seasonRequest'[c] # seasonRequest[c]
                 PROVE  SeasonCloneWrite(c)
      BY <1>1, WriteSeason
    <2>1. PICK e \in Clerks :
            \/ \E y \in Years, m \in SeasonMonths : FetchMonth(e, y, m)
            \/ \E keyed : SubmitMonth(e, keyed)
            \/ SaveMonth(e) \/ DeleteMonth(e)
            \/ \E year \in Years : SeasonCloneRead(e, year)
            \/ SeasonCloneCount(e) \/ SeasonCloneWrite(e)
      BY DEF SeasonNext
    <2>2. \A x, r : seasonRequest' = [seasonRequest EXCEPT ![x] = r] => x = c \/ seasonRequest'[c] = seasonRequest[c]
      BY <1>1 DEF SeasonInv
    <2>3. e = c
      BY <2>1, <2>2 DEF FetchMonth, SubmitMonth, SaveMonth, DeleteMonth, SeasonCloneRead,
           SeasonCloneCount, SeasonCloneWrite, AskSeason, SeasonGoOn
    <2>4. seasonRequest[c] # NoRequest
      BY DEF NoRequest
    <2> QED BY <2>1, <2>3, <2>4 DEF FetchMonth, SubmitMonth, SaveMonth, DeleteMonth, SeasonCloneRead,
           SeasonCloneCount, AsksSeason
  <1>2. SeasonInv /\ [Next]_vars =>
          [\A c \in Clerks :
             LET q == seasonRequest[c]
                 cloned == DOMAIN seasons' \ DOMAIN seasons
             IN q.op = "clone" /\ seasonRequest'[c] # q =>
                  /\ \A d \in DOMAIN seasons : d \in DOMAIN seasons' => seasons'[d] = seasons[d]
                  /\ \A d \in cloned \ {<<q.year, 3, 1>>} :
                       seasons'[d] = q.source[<<q.year - 1, d[2], d[3]>>]]_seasonVars
    BY <1>1, SeasonDesk
  <1> QED BY <1>2, SeasonInvariant, PTL DEF Spec, CloneKeepsGrades

(* The loaded file grades months whole, as its export does.                *)
MigratedWhole == Whole(DOMAIN Loaded(MigratedSeasons))

(* The table is whole by month, and so is what a clone has read.           *)
WholeInv ==
  /\ Whole(DOMAIN seasons)
  /\ \A c \in Clerks : LET q == seasonRequest[c] IN
       q.op \in {"count", "clone"} => Whole(DOMAIN q.source)

(* Every step keeps months whole.                                          *)
LEMMA WholeSteps ==
  ASSUME SeasonInv, WholeInv, [SeasonNext]_seasonVars
  PROVE  WholeInv'
  <1>0. NoRequest.op = "idle" /\ Whole(DOMAIN seasons)
    BY DEF NoRequest, WholeInv
  <1>1. ASSUME NEW c \in Clerks, NEW q, Whole(DOMAIN seasons'),
               seasonRequest' = [seasonRequest EXCEPT ![c] = q],
               q.op \in {"count", "clone"} => Whole(DOMAIN q.source)
        PROVE  WholeInv'
    BY <1>1 DEF SeasonInv, WholeInv
  <1>2. ASSUME NEW c \in Clerks, NEW q, AskSeason(c, q) \/ SeasonGoOn(c, q),
               q.op \in {"count", "clone"} => Whole(DOMAIN q.source)
        PROVE  WholeInv'
    <2>1. seasons' = seasons /\ seasonRequest' = [seasonRequest EXCEPT ![c] = q]
      BY <1>2 DEF AskSeason, SeasonGoOn
    <2> QED BY <1>0, <1>1, <1>2, <2>1
  <1>3. CASE UNCHANGED seasonVars
    BY <1>3 DEF seasonVars, WholeInv
  <1>4. ASSUME NEW c \in Clerks, NEW y \in Years, NEW m \in SeasonMonths, FetchMonth(c, y, m)
        PROVE  WholeInv'
    BY <1>4 DEF FetchMonth, WholeInv
  <1>5. ASSUME NEW c \in Clerks, NEW keyed, SubmitMonth(c, keyed) PROVE WholeInv'
    <2>1. PICK q : AskSeason(c, q) /\ q.op = "save"
      BY <1>5 DEF SubmitMonth
    <2> QED BY <1>2, <2>1
  <1>6. ASSUME NEW c \in Clerks, SaveMonth(c) PROVE WholeInv'
    <2> DEFINE q == seasonRequest[c]
    <2>1. q.op = "save" /\ seasonRequest' = [seasonRequest EXCEPT ![c] = NoRequest]
      BY <1>6 DEF SaveMonth
    <2>2. PICK y \in Years, m \in SeasonMonths : DOMAIN q.days = DatesOf(y, m)
      BY <2>1 DEF SeasonInv, SeasonAsked, CloneAsked, NoRequest
    <2>3. DOMAIN seasons' = DOMAIN q.days \cup DOMAIN seasons
      BY <1>6, WriteSeason
    <2>4. Whole(DOMAIN seasons')
      BY <1>0, <2>2, <2>3, WholeMonth, WholeEither
    <2> QED BY <1>0, <1>1, <2>1, <2>4
  <1>7. ASSUME NEW c \in Clerks, seasonPage[c] # NoMonth, DeleteMonth(c) PROVE WholeInv'
    <2>1. seasonPage[c].year \in Years /\ seasonPage[c].month \in SeasonMonths
      BY <1>7 DEF SeasonInv, MonthShown
    <2>2. DOMAIN seasons' = DOMAIN seasons \ DatesOf(seasonPage[c].year, seasonPage[c].month)
      BY <1>7, WriteSeason
    <2>3. Whole(DOMAIN seasons')
      BY <1>0, <2>1, <2>2, WholeMonth
    <2>4. seasonRequest' = seasonRequest
      BY <1>7 DEF DeleteMonth
    <2> QED BY <2>3, <2>4 DEF WholeInv
  <1>8. ASSUME NEW c \in Clerks, NEW year \in Years, SeasonCloneRead(c, year) PROVE WholeInv'
    <2> DEFINE t == GradedIn(seasons, Graded(year))
               q == [op |-> "count", year |-> year + 1, source |-> t]
    <2>1. AskSeason(c, q)
      BY <1>8 DEF SeasonCloneRead
    <2>2. Grades(seasons) /\ DOMAIN seasons \cap Graded(year) = Graded(year)
      BY DEF SeasonInv, Graded
    <2>3. DOMAIN t = Graded(year)
      BY <2>2, GradesIn
    <2>4. Whole(Graded(year))
      BY <1>0, WholeYear DEF Graded
    <2> HIDE DEF t
    <2>5. q.op = "count" /\ Whole(DOMAIN q.source)
      BY <2>3, <2>4
    <2> HIDE DEF q
    <2> QED BY <1>2, <2>1, <2>5
  <1>9. ASSUME NEW c \in Clerks, SeasonCloneCount(c) PROVE WholeInv'
    <2> DEFINE q == seasonRequest[c]
               r == [q EXCEPT !.op = "clone"]
    <2>1. q.op = "count" /\ SeasonGoOn(c, IF Graded(q.year) # {} THEN NoRequest ELSE r)
      BY <1>9 DEF SeasonCloneCount
    <2>2. Whole(DOMAIN q.source) /\ r.source = q.source
      BY <2>1 DEF WholeInv
    <2> HIDE DEF q, r
    <2> QED BY <1>0, <1>2, <2>1, <2>2
  <1>10. ASSUME NEW c \in Clerks, SeasonCloneWrite(c) PROVE WholeInv'
    <2> DEFINE q == seasonRequest[c]
    <2>1. q.op = "clone" /\ seasonRequest' = [seasonRequest EXCEPT ![c] = NoRequest]
      BY <1>10 DEF SeasonCloneWrite
    <2>2. CloneAsked(q) /\ Whole(DOMAIN q.source)
      BY <2>1 DEF SeasonInv, SeasonAsked, WholeInv, NoRequest
    <2>3. DOMAIN seasons' = DOMAIN seasons \cup {NextYear(d) : d \in DOMAIN q.source}
      BY <1>10, WriteSeason
    <2>4. DOMAIN q.source \in SUBSET SeasonDates
      BY <2>2 DEF CloneAsked, Grades, SeasonTable
    <2>5. Whole({NextYear(d) : d \in DOMAIN q.source})
      BY <2>2, <2>4, WholeCloned DEF CloneAsked
    <2>6. Whole(DOMAIN seasons')
      BY <1>0, <2>3, <2>5, WholeEither
    <2> QED BY <1>0, <1>1, <2>1, <2>6
  <1> QED BY <1>3, <1>4, <1>5, <1>6, <1>7, <1>8, <1>9, <1>10 DEF SeasonNext

(* If the loaded file grades months whole, as migrate-cp-seasons.ts says   *)
(* of it ("fully contiguous (no gaps)"), every month is always graded on   *)
(* all of its days or on none: a month is saved and deleted whole, and a   *)
(* clone only brings whole months, but for 29 February, which is left out, *)
(* and for the 1 March it goes to.                                         *)
THEOREM MonthsStayWhole == MigratedWhole => (Spec => []MonthsGradedWhole)
  <1> SUFFICES ASSUME MigratedWhole PROVE Spec => []MonthsGradedWhole
    OBVIOUS
  <1>1. Init => WholeInv
    BY SeasonDesk DEF SeasonInit, WholeInv, MigratedWhole, NoRequest
  <1>2. SeasonInv /\ WholeInv /\ [Next]_vars => WholeInv'
    BY SeasonDesk, WholeSteps
  <1>3. WholeInv => MonthsGradedWhole
    BY DEF WholeInv, Whole, MonthsGradedWhole
  <1> QED BY <1>1, <1>2, <1>3, SeasonInvariant, PTL DEF Spec

(***************************************************************************)
(* The RCI calendar and the bank.                                          *)
(***************************************************************************)
(* The other desks leave the RCI calendar alone.                           *)
LEMMA WeekDesk ==
  /\ Init => WeekInit
  /\ [Next]_vars => [WeekNext]_weekVars
  <1>1. Init => WeekInit
    BY DEF Init
  <1>2. ASSUME Next PROVE WeekNext \/ weekVars' = weekVars
    BY <1>2 DEF Next, weekVars
  <1>3. vars' = vars => weekVars' = weekVars
    BY DEF vars
  <1> QED BY <1>1, <1>2, <1>3

(* The first Friday is one of the first seven days, and from one year's to *)
(* the next's there are whole weeks.                                       *)
LEMMA FirstFriday ==
  ASSUME NEW y \in Int
  PROVE  /\ firstFriday(y) \in Int /\ firstFriday(y) % 7 = 5
         /\ Jan1(y) <= firstFriday(y) /\ firstFriday(y) <= Jan1(y) + 6
  <1>1. <<y, 1, 1>> \in Dates3 /\ DaysBefore(y, 1) = 0
    BY DEF Dates3, DaysBefore
  <1>2. Utc(<<y, 1, 1>>) = Jan1(y) /\ Jan1(y) \in Int
    BY <1>1, UtcSum, YearLength
  <1>3. ASSUME NEW j \in Int
        PROVE  LET f == j + ((5 - (j % 7) + 7) % 7) IN
               f \in Int /\ f % 7 = 5 /\ j <= f /\ f <= j + 6
    OBVIOUS
  <1>4. firstFriday(y) = Jan1(y) + ((5 - (Jan1(y) % 7) + 7) % 7)
    BY <1>2 DEF firstFriday, getUTCDay
  <1> HIDE DEF Jan1
  <1> QED BY <1>2, <1>3, <1>4

(* From one first Friday to the next there are 52 weeks or 53.             *)
LEMMA WeeksOfAYear ==
  ASSUME NEW y \in Int
  PROVE  \E n \in {52, 53} :
           /\ firstFriday(y + 1) = firstFriday(y) + 7 * n
           /\ (firstFriday(y + 1) - firstFriday(y)) \div 7 = n
  <1>1. PICK j \in Int, leap \in 0..1 : j = Jan1(y) /\ Jan1(y + 1) = j + 365 + leap
    BY YearLength
  <1>2. PICK f \in Int : f = firstFriday(y) /\ f % 7 = 5 /\ j <= f /\ f <= j + 6
    BY <1>1, FirstFriday
  <1>3. PICK g \in Int :
          g = firstFriday(y + 1) /\ g % 7 = 5 /\ j + 365 + leap <= g /\ g <= j + 371 + leap
    BY <1>1, FirstFriday
  <1>4. g - f >= 359 /\ g - f <= 372
    BY <1>1, <1>2, <1>3
  <1>5. g - f = 364 \/ g - f = 371
    BY <1>2, <1>3, <1>4
  <1> QED BY <1>2, <1>3, <1>5

(* What is kept of a year.                                                 *)
LEMMA Generated ==
  ASSUME NEW y \in Int
  PROVE  \E n \in {52, 53} :
           /\ firstFriday(y + 1) = firstFriday(y) + 7 * n
           /\ (firstFriday(y + 1) - firstFriday(y)) \div 7 = n
           /\ DOMAIN generateWeeks(y) = 1..n /\ Len(generateWeeks(y)) = n
           /\ \A i \in 1..n :
                /\ generateWeeks(y)[i].friStart = firstFriday(y) + (i - 1) * 7
                /\ generateWeeks(y)[i].friEnd = firstFriday(y) + (i - 1) * 7 + 7
  <1>1. PICK n \in {52, 53} :
           /\ firstFriday(y + 1) = firstFriday(y) + 7 * n
           /\ (firstFriday(y + 1) - firstFriday(y)) \div 7 = n
    BY WeeksOfAYear
  <1>2. generateWeeks(y) =
          [i \in 1..n |-> [friStart |-> firstFriday(y) + (i - 1) * 7,
                           friEnd |-> firstFriday(y) + (i - 1) * 7 + 7]]
    BY <1>1 DEF generateWeeks
  <1>3. Len(generateWeeks(y)) = n /\ DOMAIN generateWeeks(y) = 1..n
    BY <1>2
  <1>4. \A i \in 1..n :
          /\ generateWeeks(y)[i].friStart = firstFriday(y) + (i - 1) * 7
          /\ generateWeeks(y)[i].friEnd = firstFriday(y) + (i - 1) * 7 + 7
    BY <1>2
  <1> QED BY <1>1, <1>3, <1>4

(* Each year of the calendar is what generateWeeks makes of it.            *)
Generates == 
  /\ DOMAIN weeks \subseteq WeekYears
  /\ \A y \in DOMAIN weeks : weeks[y] = generateWeeks(y)

(* Such years tile: what WeeksTile says follows from the dates alone.      *)
LEMMA GeneratedTile ==
  ASSUME Generates
  PROVE  WeeksTile
  <1> SUFFICES ASSUME NEW y \in DOMAIN weeks
               PROVE  LET rows == weeks[y]
                          n == Len(rows)
                          ofTheYear == Utc(<<y, 1, 1>>)..Utc(<<y, 12, 31>>)
                      IN
                      /\ n \in {52, 53}
                      /\ \A i \in 1..n :
                           /\ getUTCDay(rows[i].friStart) = 5
                           /\ rows[i].friStart \in ofTheYear
                           /\ i < n => rows[i].friEnd = rows[i + 1].friStart
                      /\ y + 1 \in DOMAIN weeks => rows[n].friEnd = weeks[y + 1][1].friStart
                      /\ previewYear(y) = [weeks |-> n, first |-> rows[1].friStart, last |-> rows[n].friEnd]
    BY DEF WeeksTile
  <1>1. y \in Int /\ weeks[y] = generateWeeks(y)
    <2>1. y \in WeekYears /\ weeks[y] = generateWeeks(y)
      BY DEF Generates
    <2>2. WeekYears \subseteq 2026..2999
      BY WeekAssumption
    <2> QED BY <2>1, <2>2
  <1>2. PICK n \in {52, 53} :
           /\ firstFriday(y + 1) = firstFriday(y) + 7 * n
           /\ (firstFriday(y + 1) - firstFriday(y)) \div 7 = n
           /\ DOMAIN weeks[y] = 1..n /\ Len(weeks[y]) = n
           /\ \A i \in 1..n :
                /\ weeks[y][i].friStart = firstFriday(y) + (i - 1) * 7
                /\ weeks[y][i].friEnd = firstFriday(y) + (i - 1) * 7 + 7
    BY <1>1, Generated
  <1>3. PICK f \in Int : f = firstFriday(y) /\ f % 7 = 5 /\ Jan1(y) <= f
    BY <1>1, FirstFriday
  <1>4. ASSUME NEW i \in 1..n
        PROVE  /\ getUTCDay(weeks[y][i].friStart) = 5
               /\ weeks[y][i].friStart \in Utc(<<y, 1, 1>>)..Utc(<<y, 12, 31>>)
               /\ i < n => weeks[y][i].friEnd = weeks[y][i + 1].friStart
    <2>1. weeks[y][i].friStart = f + (i - 1) * 7 /\ weeks[y][i].friEnd = f + (i - 1) * 7 + 7
      BY <1>2, <1>3
    <2>2. (f + (i - 1) * 7) % 7 = 5
      BY <1>3
    <2>3. i < n => weeks[y][i + 1].friStart = f + i * 7
      BY <1>2, <1>3
    <2>4. Utc(<<y, 1, 1>>) = Jan1(y) /\ Utc(<<y, 12, 31>>) = Jan1(y + 1) - 1
      <3>1. <<y, 1, 1>> \in Dates3 /\ <<y, 12, 31>> \in Dates3
        BY <1>1 DEF Dates3
      <3>2. DaysBefore(y, 1) = 0 /\ DaysBefore(y, 12) = 334 + (IF Leap(y) THEN 1 ELSE 0)
        BY DEF DaysBefore
      <3> QED BY <1>1, <3>1, <3>2, UtcSum, YearLength
    <2>5. Jan1(y) \in Int /\ Jan1(y + 1) \in Int /\ f + 7 * n <= Jan1(y + 1) + 6
      <3>1. Jan1(y) \in Int /\ Jan1(y + 1) \in Int
        BY <1>1, YearLength
      <3>2. firstFriday(y + 1) <= Jan1(y + 1) + 6 /\ firstFriday(y + 1) \in Int
        BY <1>1, FirstFriday
      <3> QED BY <1>2, <1>3, <3>1, <3>2
    <2>6. f + (i - 1) * 7 \in Jan1(y)..(Jan1(y + 1) - 1)
      BY <1>3, <2>5
    <2> QED BY <2>1, <2>2, <2>3, <2>4, <2>6 DEF getUTCDay
  <1>5. ASSUME y + 1 \in DOMAIN weeks PROVE weeks[y][n].friEnd = weeks[y + 1][1].friStart
    <2>1. weeks[y][n].friEnd = f + 7 * n
      BY <1>2, <1>3
    <2>2. weeks[y + 1] = generateWeeks(y + 1) /\ y + 1 \in Int
      BY <1>1, <1>5 DEF Generates
    <2>3. generateWeeks(y + 1)[1].friStart = firstFriday(y + 1)
      <3>1. firstFriday(y + 1) \in Int
        BY <2>2, FirstFriday
      <3>2. generateWeeks(y + 1)[1].friStart = firstFriday(y + 1) + (1 - 1) * 7
        BY <2>2, Generated
      <3> QED BY <3>1, <3>2
    <2> QED BY <1>2, <1>3, <2>1, <2>2, <2>3
  <1>6. previewYear(y) = [weeks |-> n, first |-> weeks[y][1].friStart, last |-> weeks[y][n].friEnd]
    <2>1. /\ weeks[y][1].friStart = firstFriday(y) + (1 - 1) * 7
          /\ weeks[y][n].friEnd = firstFriday(y) + (n - 1) * 7 + 7
      BY <1>2
    <2>2. weeks[y][1].friStart = f /\ weeks[y][n].friEnd = f + n * 7
      BY <1>2, <1>3, <2>1
    <2> QED BY <1>2, <1>3, <2>2 DEF previewYear
  <1> QED BY <1>2, <1>4, <1>5, <1>6

(* The Fridays the weeks of a year start on.                               *)
Fridays(y) == [i \in DOMAIN generateWeeks(y) |-> generateWeeks(y)[i].friStart]

(* A week at the bank: at one place of the calendar at most.               *)
BankedWeek ==
  [id : Nat \ {0}, checkIn : Nat, label : {L \in SUBSET (Int \X Nat) : \A v, w \in L : v = w},
   season : WeekSeasons]

(* The bank: no two rows of a number or of a check-in.                     *)
RowsKept ==
  /\ banked \subseteq BankedWeek
  /\ nextBanked \in Nat \ {0}
  /\ \A b \in banked : b.id < nextBanked
  /\ \A b, d \in banked : b.id = d.id \/ b.checkIn = d.checkIn => b = d

(* A page of the bank shows a year with its Fridays.                       *)
PageKept(p) ==
  \/ p = NoPage
  \/ /\ p.year \in WeekYears /\ p.fridays = Fridays(p.year)
     /\ \A i \in DOMAIN p.stored : p.stored[i] \in WeekSeasons

(* Grades for the weeks of a year, as a page sends them.                   *)
Shown(q) ==
  /\ q.year \in WeekYears
  /\ q.shown = [i \in DOMAIN Fridays(q.year) |-> q.shown[i]]
  /\ \A i \in DOMAIN Fridays(q.year) : q.shown[i] \in WeekSeasons \cup {Blank}

(* What a save is to create and to update.                                 *)
Saving(q) ==
  /\ q.creates \subseteq DOMAIN Fridays(q.year)
  /\ \A i \in q.creates : q.shown[i] \in WeekSeasons
  /\ \A u \in q.updates : u[2] \in WeekSeasons

(* What each request carries.                                              *)
WeekAsked(q) ==
  \/ q = NotAsking
  \/ q.op = "create" /\ q.year \in WeekYears
  \/ /\ q.op \in {"strand", "drop"}
     /\ q.year \in WeekYears /\ q.fridays = FriStarts(generateWeeks(q.year))
  \/ q.op = "calendar" /\ Shown(q)
  \/ q.op = "diff" /\ Shown(q) /\ q.fridays = Fridays(q.year)
  \/ q.op = "save" /\ Shown(q) /\ q.fridays = Fridays(q.year) /\ Saving(q)
  \/ q.op = "clear"

(* The inductive invariant of the RCI desk.                                *)
WeekInv ==
  /\ Generates /\ RowsKept
  /\ bankPage = [c \in Clerks |-> bankPage[c]] /\ \A c \in Clerks : PageKept(bankPage[c])
  /\ weekRequest = [c \in Clerks |-> weekRequest[c]]
  /\ \A c \in Clerks : WeekAsked(weekRequest[c])
  /\ weekEdits \in Nat

(* The years of the calendar are numbers.                                  *)
LEMMA YearNumber == ASSUME NEW y \in WeekYears PROVE y \in Int /\ y >= 2026
  <1>1. WeekYears \subseteq 2026..2999
    BY WeekAssumption
  <1> QED BY <1>1

(* The Fridays of a year, and that no two are the same.                    *)
LEMMA FridaysOf ==
  ASSUME NEW y \in Int
  PROVE  \E n \in {52, 53} :
           /\ firstFriday(y + 1) = firstFriday(y) + 7 * n
           /\ DOMAIN generateWeeks(y) = 1..n /\ DOMAIN Fridays(y) = 1..n
           /\ \A i \in 1..n : /\ Fridays(y)[i] = firstFriday(y) + (i - 1) * 7
                              /\ generateWeeks(y)[i].friStart = Fridays(y)[i]
  <1>1. PICK n \in {52, 53} :
           /\ firstFriday(y + 1) = firstFriday(y) + 7 * n
           /\ DOMAIN generateWeeks(y) = 1..n
           /\ \A i \in 1..n : generateWeeks(y)[i].friStart = firstFriday(y) + (i - 1) * 7
    BY Generated
  <1>2. /\ DOMAIN Fridays(y) = 1..n
        /\ \A i \in 1..n : Fridays(y)[i] = generateWeeks(y)[i].friStart
    BY <1>1 DEF Fridays
  <1> QED BY <1>1, <1>2

(* First Fridays are in the order of the years,                            *)
LEMMA FirstFridayOrder ==
  ASSUME NEW x \in Int, NEW y \in Int, x < y
  PROVE  firstFriday(x + 1) <= firstFriday(y)
  <1>1. CASE x + 1 = y
    BY <1>1, FirstFriday
  <1>2. CASE x + 1 < y
    <2>1. PICK j \in Int, leap \in 0..1 : j = Jan1(x + 1) /\ Jan1(x + 2) = j + 365 + leap
      <3>1. x + 1 \in Int /\ (x + 1) + 1 = x + 2
        OBVIOUS
      <3> QED BY <3>1, YearLength
    <2>2. Jan1(x + 2) <= Jan1(y) /\ Jan1(y) \in Int
      <3>1. x + 1 \in Int /\ (x + 1) + 1 = x + 2
        OBVIOUS
      <3> QED BY <1>2, <3>1, YearOrder, YearLength
    <2>3. firstFriday(x + 1) <= j + 6 /\ firstFriday(x + 1) \in Int
      BY <2>1, FirstFriday
    <2>4. Jan1(y) <= firstFriday(y) /\ firstFriday(y) \in Int
      BY FirstFriday
    <2> QED BY <2>1, <2>2, <2>3, <2>4
  <1> QED BY <1>1, <1>2

(* and so are all Fridays of two years.                                    *)
LEMMA FridaysOrder ==
  ASSUME NEW y \in Int, NEW z \in Int, y < z,
         NEW i \in DOMAIN Fridays(y), NEW j \in DOMAIN Fridays(z)
  PROVE  Fridays(y)[i] < Fridays(z)[j]
  <1>1. PICK n \in {52, 53} :
          /\ firstFriday(y + 1) = firstFriday(y) + 7 * n /\ DOMAIN Fridays(y) = 1..n
          /\ \A k \in 1..n : Fridays(y)[k] = firstFriday(y) + (k - 1) * 7
    BY FridaysOf
  <1>2. PICK m \in {52, 53} :
          /\ DOMAIN Fridays(z) = 1..m
          /\ \A k \in 1..m : Fridays(z)[k] = firstFriday(z) + (k - 1) * 7
    BY FridaysOf
  <1>3. firstFriday(y + 1) <= firstFriday(z) /\ firstFriday(y) \in Int /\ firstFriday(z) \in Int
    BY FirstFridayOrder, FirstFriday
  <1> QED BY <1>1, <1>2, <1>3

(* No Friday is in two years or twice in one.                              *)
LEMMA FridaysApart ==
  ASSUME NEW y \in Int, NEW z \in Int,
         NEW i \in DOMAIN Fridays(y), NEW j \in DOMAIN Fridays(z),
         Fridays(y)[i] = Fridays(z)[j]
  PROVE  y = z /\ i = j
  <1>1. PICK n \in {52, 53} :
          /\ DOMAIN Fridays(y) = 1..n
          /\ \A k \in 1..n : Fridays(y)[k] = firstFriday(y) + (k - 1) * 7
    BY FridaysOf
  <1>2. PICK m \in {52, 53} :
          /\ DOMAIN Fridays(z) = 1..m
          /\ \A k \in 1..m : Fridays(z)[k] = firstFriday(z) + (k - 1) * 7
    BY FridaysOf
  <1>3. firstFriday(y) \in Int /\ firstFriday(z) \in Int
    BY FirstFriday
  <1>4. Fridays(y)[i] \in Int /\ Fridays(z)[j] \in Int
    BY <1>1, <1>2, <1>3
  <1>5. ~(y < z) /\ ~(z < y)
    BY <1>4, FridaysOrder
  <1> QED BY <1>1, <1>2, <1>3, <1>5

(* Fridays are days from 1 on.                                             *)
LEMMA FridaysNat ==
  ASSUME NEW y \in WeekYears
  PROVE  /\ \A i \in DOMAIN Fridays(y) : Fridays(y)[i] \in Nat /\ i \in 1..53
         /\ FriStarts(generateWeeks(y)) = {Fridays(y)[i] : i \in DOMAIN Fridays(y)}
  <1>1. y \in Int /\ y >= 2026
    BY YearNumber
  <1>2. PICK n \in {52, 53} :
           /\ DOMAIN generateWeeks(y) = 1..n /\ DOMAIN Fridays(y) = 1..n
           /\ \A i \in 1..n : /\ Fridays(y)[i] = firstFriday(y) + (i - 1) * 7
                              /\ generateWeeks(y)[i].friStart = Fridays(y)[i]
    BY <1>1, FridaysOf
  <1>3. firstFriday(y) \in Nat
    <2>1. Jan1(y) >= 0 /\ Jan1(y) \in Int
      BY <1>1 DEF Jan1
    <2> QED BY <1>1, <2>1, FirstFriday
  <1>4. FriStarts(generateWeeks(y)) = {Fridays(y)[i] : i \in DOMAIN Fridays(y)}
    BY <1>2 DEF FriStarts
  <1>5. ASSUME NEW i \in DOMAIN Fridays(y) PROVE Fridays(y)[i] \in Nat /\ i \in 1..53
    <2>0. i \in 1..n
      BY <1>2
    <2>1. i \in 1..n /\ i \in 1..53
      BY <2>0
    <2>2. PICK f \in Nat : f = firstFriday(y)
      BY <1>3
    <2>3. Fridays(y)[i] = f + (i - 1) * 7
      BY <1>2, <2>1, <2>2
    <2> QED BY <2>1, <2>2, <2>3
  <1> QED BY <1>4, <1>5

(* The types of RciWeeks.                                                  *)
LEMMA WeekTypes ==
  ASSUME WeekInv
  PROVE  WeekTypeOK
  <1>1. \A b \in banked :
          /\ b.id \in 1..(nextBanked - 1) /\ b.checkIn \in Nat /\ b.season \in WeekSeasons
    BY DEF WeekInv, RowsKept, BankedWeek
  <1>2. ASSUME NEW b \in banked PROVE Cardinality(b.label) <= 1
    <2>1. \A v, w \in b.label : v = w
      BY DEF WeekInv, RowsKept, BankedWeek
    <2>2. b.label = {} \/ \E v : b.label = {v}
      BY <2>1
    <2>3. Cardinality(b.label) \in {0, 1}
      BY <2>2, FS_EmptySet, FS_Singleton
    <2> QED BY <2>3
  <1>3. \A c \in Clerks : weekRequest[c].op \in
         {"idle", "create", "strand", "drop", "calendar", "diff", "save", "clear"}
    BY DEF WeekInv, WeekAsked, NotAsking
  <1> QED BY <1>1, <1>2, <1>3 DEF WeekTypeOK, WeekInv, Generates, RowsKept

(* A Friday has one label, its year and its place in it.                   *)
LEMMA LabelOnce ==
  ASSUME Generates, NEW day
  PROVE  Label(weeks, day) \in {L \in SUBSET (Int \X Nat) : \A v, w \in L : v = w}
  <1>1. ASSUME NEW w \in Label(weeks, day)
        PROVE  /\ w \in Int \X Nat /\ w[1] \in Int
               /\ w[2] \in DOMAIN Fridays(w[1]) /\ Fridays(w[1])[w[2]] = day
    <2>1. /\ w \in (DOMAIN weeks) \X (1..53) /\ w[2] \in DOMAIN weeks[w[1]]
          /\ weeks[w[1]][w[2]].friStart = day
      BY DEF Label
    <2>2. w[1] \in WeekYears /\ weeks[w[1]] = generateWeeks(w[1])
      BY <2>1 DEF Generates
    <2>3. w[1] \in Int
      BY <2>2, YearNumber
    <2> QED BY <2>1, <2>2, <2>3 DEF Fridays
  <1>2. ASSUME NEW v \in Label(weeks, day), NEW w \in Label(weeks, day) PROVE v = w
    <2>1. v[1] = w[1] /\ v[2] = w[2]
      BY <1>1, FridaysApart
    <2>2. v = <<v[1], v[2]>> /\ w = <<w[1], w[2]>>
      BY <1>1
    <2> QED BY <2>1, <2>2
  <1> QED BY <1>1, <1>2

(* The migrated calendar and bank.                                         *)
LEMMA WeekInitInv == WeekInit => WeekInv
  <1> SUFFICES ASSUME WeekInit PROVE WeekInv
    OBVIOUS
  <1> USE DEF WeekInit
  <1>1. Generates
    BY WeekAssumption DEF Generates
  <1> DEFINE M == MigratedWeeks
             Upto(day) == {n \in M : n <= day}
             Row(day) == [id |-> Cardinality(Upto(day)), checkIn |-> day,
                          label |-> Label(weeks, day), season |-> DefaultWeek]
  <1>2. IsFiniteSet(M) /\ M \subseteq Nat /\ DefaultWeek \in WeekSeasons
    BY WeekAssumption
  <1>3. nextBanked = Cardinality(M) + 1 /\ Cardinality(M) \in Nat
    BY <1>2, FS_CardinalityType
  <1>4. ASSUME NEW day \in M
        PROVE  /\ IsFiniteSet(Upto(day))
               /\ Cardinality(Upto(day)) \in Nat \ {0} /\ Cardinality(Upto(day)) <= Cardinality(M)
    <2>1. /\ IsFiniteSet(Upto(day)) /\ Cardinality(Upto(day)) <= Cardinality(M)
      BY <1>2, FS_Subset
    <2>2. day \in Upto(day)
      BY <1>2
    <2>3. {} \subseteq Upto(day) /\ day \notin {}
      OBVIOUS
    <2>4. Cardinality({}) < Cardinality(Upto(day)) /\ Cardinality(Upto(day)) \in Nat
      BY <2>1, <2>2, <2>3, SmallerSet
    <2> QED BY <2>1, <2>4, FS_EmptySet
  <1>5. ASSUME NEW d \in M, NEW e \in M, d < e
        PROVE  Cardinality(Upto(d)) # Cardinality(Upto(e))
    <2>1. Upto(d) \subseteq Upto(e) /\ e \in Upto(e) /\ e \notin Upto(d)
      BY <1>2, <1>5
    <2>2. Cardinality(Upto(d)) < Cardinality(Upto(e))
      BY <2>1, <1>4, SmallerSet
    <2> QED BY <2>2, <1>4
  <1>6. banked = {Row(day) : day \in M}
    OBVIOUS
  <1>7. \A day \in M : Row(day) \in BankedWeek /\ Row(day).id < nextBanked
    BY <1>1, <1>2, <1>3, <1>4, LabelOnce DEF BankedWeek
  <1>8. \A d, e \in M : Row(d).id = Row(e).id \/ Row(d).checkIn = Row(e).checkIn => d = e
    <2> TAKE d \in M, e \in M
    <2>1. d < e \/ e < d \/ d = e
      BY <1>2
    <2> QED BY <1>5, <2>1
  <1>9. nextBanked \in Nat \ {0}
    BY <1>3
  <1> HIDE DEF Row
  <1>10. RowsKept
    BY <1>6, <1>7, <1>8, <1>9 DEF RowsKept
  <1> QED BY <1>1, <1>10 DEF WeekInv, PageKept, WeekAsked

(* What a step of the desk leaves of the requests.                         *)
RequestsKept ==
  /\ weekRequest = [c \in Clerks |-> weekRequest[c]]
  /\ \A c \in Clerks : WeekAsked(weekRequest[c])

(* One request changes, to one that carries what it must.                  *)
LEMMA RequestMoves ==
  ASSUME RequestsKept, NEW c \in Clerks, NEW q, WeekAsked(q),
         weekRequest' = [weekRequest EXCEPT ![c] = q]
  PROVE  RequestsKept'
  BY DEF RequestsKept

(* No request changes.                                                     *)
LEMMA RequestStays ==
  ASSUME RequestsKept, UNCHANGED weekRequest
  PROVE  RequestsKept'
  BY DEF RequestsKept

(* Nothing is asked.                                                       *)
LEMMA IdleAsked == WeekAsked(NotAsking)
  BY DEF WeekAsked

(* What each clerk's request is, by what it is about to do.                *)
LEMMA WhatIsAsked ==
  ASSUME WeekInv, NEW c \in Clerks, NEW q, q = weekRequest[c]
  PROVE  /\ q.op = "create" => q.year \in WeekYears
         /\ q.op \in {"strand", "drop"} =>
              q.year \in WeekYears /\ q.fridays = FriStarts(generateWeeks(q.year))
         /\ q.op \in {"calendar", "diff", "save"} => Shown(q)
         /\ q.op \in {"diff", "save"} => q.fridays = Fridays(q.year)
         /\ q.op = "save" => Saving(q)
  BY DEF WeekInv, WeekAsked, NotAsking

(* A request that moves nothing else.                                      *)
LEMMA WeekMoves ==
  ASSUME WeekInv, NEW c \in Clerks, NEW q, WeekAsked(q),
         weekRequest' = [weekRequest EXCEPT ![c] = q],
         UNCHANGED <<weeks, banked, nextBanked, bankPage>>,
         weekEdits' \in {weekEdits, weekEdits + 1}
  PROVE  WeekInv'
  <1>1. RequestsKept'
    BY RequestMoves DEF WeekInv, RequestsKept
  <1>2. weekEdits' \in Nat
    BY DEF WeekInv
  <1> QED BY <1>1, <1>2 DEF WeekInv, RequestsKept, Generates, RowsKept

(* A new request changes no table.                                         *)
LEMMA AskMoves ==
  ASSUME WeekInv, NEW c \in Clerks, NEW q, WeekAsked(q), AskWeek(c, q) \/ WeekGoOn(c, q)
  PROVE  WeekInv'
  BY WeekMoves DEF AskWeek, WeekGoOn

(* Years are made by generateWeeks, whichever are kept.                    *)
LEMMA CalendarRows ==
  ASSUME WeekInv, NEW year, Calendar(year) # <<>>
  PROVE  /\ year \in DOMAIN weeks /\ year \in WeekYears /\ Calendar(year) = generateWeeks(year)
         /\ [i \in DOMAIN Calendar(year) |-> Calendar(year)[i].friStart] = Fridays(year)
         /\ DOMAIN Calendar(year) = DOMAIN Fridays(year)
  BY DEF Calendar, WeekInv, Generates, Fridays

(* A year is asked for, and added.                                         *)
LEMMA WeekAdd ==
  ASSUME WeekInv, NEW c \in Clerks,
         \/ \E year \in WeekYears : AddYear(c, year) \/ DropYear(c, year)
         \/ CountBanked(c)
  PROVE  WeekInv'
  <1>1. ASSUME NEW year \in WeekYears, AddYear(c, year) PROVE WeekInv'
    <2>1. WeekAsked([op |-> "create", year |-> year])
      BY DEF WeekAsked
    <2> QED BY <1>1, <2>1, AskMoves DEF AddYear
  <1>2. ASSUME NEW year \in WeekYears, DropYear(c, year) PROVE WeekInv'
    <2>1. weeks[year] = generateWeeks(year)
      BY <1>2 DEF DropYear, WeekInv, Generates
    <2>2. WeekAsked([op |-> "strand", year |-> year, fridays |-> FriStarts(weeks[year])])
      BY <2>1 DEF WeekAsked
    <2> QED BY <1>2, <2>2, AskMoves DEF DropYear
  <1>3. CASE CountBanked(c)
    <2> DEFINE q == weekRequest[c]
               r == IF BankedAgainst(q) # {} THEN NotAsking ELSE [q EXCEPT !.op = "drop"]
    <2>1. q.op = "strand" /\ WeekGoOn(c, r)
      BY <1>3 DEF CountBanked
    <2>2. q.year \in WeekYears /\ q.fridays = FriStarts(generateWeeks(q.year))
      BY <2>1, WhatIsAsked
    <2>3. WeekAsked([q EXCEPT !.op = "drop"])
      BY <2>1, <2>2 DEF WeekAsked
    <2>4. WeekAsked(r)
      BY <2>3, IdleAsked
    <2> HIDE DEF q, r
    <2> QED BY <2>1, <2>4, AskMoves
  <1> QED BY <1>1, <1>2, <1>3

(* createYear.                                                             *)
LEMMA WeekCreate ==
  ASSUME WeekInv, NEW c \in Clerks, CreateYear(c) \/ DeleteYear(c)
  PROVE  WeekInv'
  <1>1. RequestsKept' /\ UNCHANGED <<bankPage, weekEdits, banked, nextBanked>>
    BY IdleAsked, RequestMoves DEF CreateYear, DeleteYear, WeekDone, WeekInv, RequestsKept
  <1>2. Generates'
    <2> DEFINE q == weekRequest[c]
    <2>1. CASE CreateYear(c)
      <3>1. q.year \in WeekYears
        BY <2>1, WhatIsAsked DEF CreateYear
      <3>2. weeks' = [y \in DOMAIN weeks \cup {q.year} |->
                 IF y \in DOMAIN weeks THEN weeks[y] ELSE generateWeeks(y)]
        BY <2>1 DEF CreateYear
      <3> HIDE DEF q
      <3> QED BY <3>1, <3>2 DEF WeekInv, Generates
    <2>2. CASE DeleteYear(c)
      <3>1. weeks' = [y \in DOMAIN weeks \ {q.year} |-> weeks[y]]
        BY <2>2 DEF DeleteYear
      <3> HIDE DEF q
      <3> QED BY <3>1 DEF WeekInv, Generates
    <2> QED BY <2>1, <2>2
  <1> QED BY <1>1, <1>2 DEF WeekInv, RequestsKept, RowsKept

(* A page of the bank is loaded, and a year is dropped.                    *)
LEMMA WeekPage ==
  ASSUME WeekInv, NEW c \in Clerks, NEW year \in WeekYears, OpenYear(c, year)
  PROVE  WeekInv'
  <1> DEFINE rows == Calendar(year)
             Of(i) == {b \in banked : b.checkIn = rows[i].friStart}
             page == [year |-> year, fridays |-> [i \in DOMAIN rows |-> rows[i].friStart],
               stored |-> [i \in {j \in DOMAIN rows : Of(j) # {}} |-> (CHOOSE b \in Of(i) : TRUE).season]]
  <1>1. rows # <<>> /\ bankPage' = [bankPage EXCEPT ![c] = page]
        /\ UNCHANGED <<weeks, banked, nextBanked, weekRequest, weekEdits>>
    BY DEF OpenYear
  <1>2. PageKept(page)
    <2>1. page.fridays = Fridays(year)
      BY <1>1, CalendarRows
    <2>2. ASSUME NEW i \in DOMAIN page.stored PROVE page.stored[i] \in WeekSeasons
      <3>1. Of(i) # {} /\ page.stored[i] = (CHOOSE b \in Of(i) : TRUE).season
        OBVIOUS
      <3>2. (CHOOSE b \in Of(i) : TRUE) \in banked
        BY <3>1
      <3> QED BY <3>1, <3>2 DEF WeekInv, RowsKept, BankedWeek
    <2> QED BY <2>1, <2>2 DEF PageKept
  <1> HIDE DEF page
  <1> QED BY <1>1, <1>2 DEF WeekInv, RowsKept, Generates

(* A page is sent.                                                         *)
LEMMA WeekSubmit ==
  ASSUME WeekInv, NEW c \in Clerks,
         bankPage[c] # NoPage, NEW cells \in SUBSET Workable(bankPage[c]),
         NEW keyed \in [cells -> WeekSeasons \cup {Blank}], SubmitBank(c, keyed)
  PROVE  WeekInv'
  <1> DEFINE page == bankPage[c]
             shown == ShownWeeks(page, keyed)
             q == [op |-> "calendar", year |-> page.year, shown |-> shown]
  <1>1. AskWeek(c, q)
    BY DEF SubmitBank
  <1>2. /\ page.year \in WeekYears /\ page.fridays = Fridays(page.year)
        /\ \A i \in DOMAIN page.stored : page.stored[i] \in WeekSeasons
    BY DEF WeekInv, PageKept
  <1>3. /\ DOMAIN shown = DOMAIN Fridays(page.year)
        /\ \A i \in DOMAIN shown : shown[i] \in WeekSeasons \cup {Blank}
        /\ shown = [i \in DOMAIN Fridays(page.year) |-> shown[i]]
    <2>1. DefaultWeek \in WeekSeasons
      BY WeekAssumption
    <2> HIDE DEF page
    <2> QED BY <1>2, <2>1 DEF ShownWeeks
  <1> HIDE DEF page, shown
  <1>4. WeekAsked(q)
    BY <1>2, <1>3 DEF WeekAsked, Shown
  <1> HIDE DEF q
  <1> QED BY <1>1, <1>4, AskMoves

(* The save loads the calendar of its year,                                *)
LEMMA WeekLoad ==
  ASSUME WeekInv, NEW c \in Clerks, LoadCalendar(c) \/ RefuseBank(c) \/ (\E ids : AskWeek(c, [op |-> "clear", ids |-> ids]))
  PROVE  WeekInv'
  <1>1. CASE LoadCalendar(c)
    <2> DEFINE q == weekRequest[c]
               rows == Calendar(q.year)
               r == [op |-> "diff", year |-> q.year, shown |-> q.shown,
                     fridays |-> [i \in DOMAIN rows |-> rows[i].friStart]]
    <2>1. /\ q.op = "calendar"
          /\ WeekGoOn(c, IF DOMAIN q.shown \subseteq DOMAIN rows THEN r ELSE NotAsking)
      BY <1>1 DEF LoadCalendar
    <2>2. Shown(q)
      BY <2>1, WhatIsAsked
    <2>3. ASSUME DOMAIN q.shown \subseteq DOMAIN rows PROVE WeekAsked(r)
      <3>1. q.year \in WeekYears /\ DOMAIN q.shown = DOMAIN Fridays(q.year)
        BY <2>2 DEF Shown
      <3>2. PICK n \in {52, 53} : DOMAIN Fridays(q.year) = 1..n
        BY <3>1, YearNumber, FridaysOf
      <3>3. 1 \in DOMAIN rows
        BY <2>3, <3>1, <3>2
      <3>4. rows # <<>>
        BY <3>3
      <3>5. r.fridays = Fridays(q.year)
        BY <3>4, CalendarRows
      <3>6. Shown(r)
        BY <2>2 DEF Shown
      <3> QED BY <3>5, <3>6 DEF WeekAsked
    <2> HIDE DEF r
    <2> QED BY <2>1, <2>3, IdleAsked, AskMoves
  <1>2. CASE RefuseBank(c)
    BY <1>2, IdleAsked, AskMoves DEF RefuseBank
  <1>3. ASSUME NEW ids, AskWeek(c, [op |-> "clear", ids |-> ids]) PROVE WeekInv'
    <2>1. WeekAsked([op |-> "clear", ids |-> ids])
      BY DEF WeekAsked
    <2> QED BY <1>3, <2>1, AskMoves
  <1> QED BY <1>1, <1>2, <1>3

(* finds what differs from the bank,                                       *)
LEMMA WeekDiff ==
  ASSUME WeekInv, NEW c \in Clerks, DiffBank(c)
  PROVE  WeekInv'
  <1> DEFINE q == weekRequest[c]
             Stored(i) == {b \in banked : b.checkIn = q.fridays[i]}
             shown == {i \in DOMAIN q.shown : q.shown[i] # Blank}
             creates == {i \in shown : Stored(i) = {}}
             updates == UNION {{<<b.id, q.shown[i]>> : b \in {d \in Stored(i) : d.season # q.shown[i]}} :
                               i \in shown}
             deletes == {b.id : b \in UNION {Stored(i) : i \in DOMAIN q.shown \ shown}}
             r == [op |-> "save", year |-> q.year, creates |-> creates, shown |-> q.shown,
                   updates |-> updates, deletes |-> deletes, fridays |-> q.fridays]
  <1>1. /\ q.op = "diff"
        /\ WeekGoOn(c, IF creates = {} /\ updates = {} /\ deletes = {} THEN NotAsking ELSE r)
    BY DEF DiffBank
  <1>2. Shown(q) /\ q.fridays = Fridays(q.year)
    BY <1>1, WhatIsAsked
  <1>3. /\ shown \subseteq DOMAIN Fridays(q.year)
        /\ \A i \in shown : q.shown[i] \in WeekSeasons
    BY <1>2 DEF Shown
  <1>4. /\ creates \subseteq DOMAIN Fridays(q.year)
        /\ \A i \in creates : q.shown[i] \in WeekSeasons
    BY <1>3
  <1>5. ASSUME NEW u \in updates PROVE u[2] \in WeekSeasons
    <2>1. PICK i \in shown : u \in {<<b.id, q.shown[i]>> : b \in {d \in Stored(i) : d.season # q.shown[i]}}
      OBVIOUS
    <2>2. u[2] = q.shown[i]
      BY <2>1
    <2> QED BY <1>3, <2>2
  <1> HIDE DEF creates, updates, deletes
  <1>6. WeekAsked(r)
    BY <1>2, <1>4, <1>5 DEF WeekAsked, Shown, Saving
  <1> HIDE DEF r
  <1> QED BY <1>1, <1>6, IdleAsked, AskMoves

(* The bank of a year is cleared.                                          *)
LEMMA WeekClear ==
  ASSUME WeekInv, NEW c \in Clerks, ClearRows(c)
  PROVE  WeekInv'
  <1>1. RequestsKept' /\ UNCHANGED <<bankPage, weekEdits, weeks, nextBanked>>
    BY IdleAsked, RequestMoves DEF ClearRows, WeekDone, WeekInv, RequestsKept
  <1>2. banked' \subseteq banked
    BY DEF ClearRows
  <1> QED BY <1>1, <1>2 DEF WeekInv, RequestsKept, RowsKept, Generates

(* The save of a year of the bank: what is left of the rows there were,    *)
(* and the rows it adds.                                                   *)
LEMMA WeekCommit ==
  ASSUME WeekInv, NEW c \in Clerks, CommitBank(c)
  PROVE  /\ WeekInv'
         /\ weeks' = weeks
         /\ \A b \in banked' :
              \/ \E x \in banked : x.id = b.id /\ x.checkIn = b.checkIn
              \/ b.checkIn \in FriStarts(generateWeeks(weekRequest[c].year))
  <1> DEFINE q == weekRequest[c]
             Rank(i) == Cardinality({j \in q.creates : j < i})
             Regraded(b) ==
               IF \E u \in q.updates : u[1] = b.id
               THEN [b EXCEPT !.season = (CHOOSE u \in q.updates : u[1] = b.id)[2]] ELSE b
             New(i) == [id |-> nextBanked + Rank(i), checkIn |-> q.fridays[i],
                        label |-> {<<q.year, i>>}, season |-> q.shown[i]]
             left == {x \in banked : x.id \notin q.deletes}
  <1>1. /\ q.op = "save" /\ ~Refusable(q) /\ UNCHANGED weeks
        /\ banked' = {Regraded(b) : b \in left} \cup {New(i) : i \in q.creates}
        /\ nextBanked' = nextBanked + Cardinality(q.creates)
    BY DEF CommitBank
  <1>2. RequestsKept' /\ UNCHANGED <<bankPage, weekEdits>>
    BY IdleAsked, RequestMoves DEF CommitBank, WeekDone, WeekInv, RequestsKept
  <1>3. Shown(q) /\ q.fridays = Fridays(q.year) /\ Saving(q) /\ q.year \in WeekYears /\ q.year \in Int
    <2>1. Shown(q) /\ q.fridays = Fridays(q.year) /\ Saving(q)
      BY <1>1, WhatIsAsked
    <2>2. q.year \in WeekYears
      BY <2>1 DEF Shown
    <2> QED BY <2>1, <2>2, YearNumber
  <1>4. /\ q.creates \subseteq 1..53 /\ q.creates \subseteq DOMAIN Fridays(q.year)
        /\ \A i \in q.creates : q.fridays[i] \in Nat /\ q.shown[i] \in WeekSeasons
    BY <1>3, FridaysNat DEF Saving
  <1>5. IsFiniteSet(q.creates) /\ Cardinality(q.creates) \in Nat
    <2>1. IsFiniteSet(1..53)
      <3>1. 1 \in Int /\ 53 \in Int
        OBVIOUS
      <3> QED BY <3>1, FS_Interval, Zenon
    <2> QED BY <1>4, <2>1, FS_Subset, FS_CardinalityType
  <1>6. /\ banked \subseteq BankedWeek /\ nextBanked \in Nat \ {0}
        /\ \A b \in banked : b.id < nextBanked
        /\ \A b, d \in banked : b.id = d.id \/ b.checkIn = d.checkIn => b = d
    BY DEF WeekInv, RowsKept
  <1>7. ASSUME NEW i \in q.creates
        PROVE  Rank(i) \in Nat /\ Rank(i) < Cardinality(q.creates)
    <2>1. i \notin {j \in q.creates : j < i}
      BY <1>4
    <2> QED BY <1>5, <2>1, SmallerSet
  <1>8. ASSUME NEW i \in q.creates, NEW k \in q.creates, i < k
        PROVE  Rank(i) < Rank(k)
    <2>1. /\ i \notin {j \in q.creates : j < i} /\ i \in {j \in q.creates : j < k}
          /\ {j \in q.creates : j < i} \subseteq {j \in q.creates : j < k}
      BY <1>4, <1>8
    <2>2. IsFiniteSet({j \in q.creates : j < k})
      BY <1>5, FS_Subset
    <2> QED BY <2>1, <2>2, SmallerSet
  <1>9. ASSUME NEW x \in left
        PROVE  /\ Regraded(x) \in BankedWeek
               /\ Regraded(x).id = x.id /\ Regraded(x).checkIn = x.checkIn
               /\ x \in banked /\ x.id < nextBanked /\ x.id \in Nat /\ x.checkIn \in Nat
    <2>1. x \in BankedWeek
      BY <1>6
    <2>2. CASE \E u \in q.updates : u[1] = x.id
      <3> DEFINE season == (CHOOSE u \in q.updates : u[1] = x.id)[2]
      <3>1. season \in WeekSeasons
        BY <1>3, <2>2 DEF Saving
      <3>2. Regraded(x) = [x EXCEPT !.season = season]
        BY <2>2
      <3> HIDE DEF season, Regraded
      <3> QED BY <1>6, <2>1, <3>1, <3>2 DEF BankedWeek
    <2>3. CASE ~\E u \in q.updates : u[1] = x.id
      BY <1>6, <2>1, <2>3 DEF BankedWeek
    <2> QED BY <2>2, <2>3
  <1>10. ASSUME NEW i \in q.creates
         PROVE  /\ New(i) \in BankedWeek
                /\ New(i).id = nextBanked + Rank(i) /\ New(i).checkIn = Fridays(q.year)[i]
                /\ New(i).id >= nextBanked /\ New(i).id < nextBanked + Cardinality(q.creates)
                /\ i \in Int
    <2>1. i \in Nat /\ i \in Int
      BY <1>4
    <2>2. {<<q.year, i>>} \in {L \in SUBSET (Int \X Nat) : \A v, w \in L : v = w}
      BY <1>3, <2>1
    <2>3. nextBanked + Rank(i) \in Nat \ {0} /\ nextBanked + Rank(i) >= nextBanked
          /\ nextBanked + Rank(i) < nextBanked + Cardinality(q.creates)
      <3> HIDE DEF Rank
      <3> QED BY <1>5, <1>6, <1>7
    <2> HIDE DEF q, Rank
    <2> QED BY <1>3, <1>4, <2>1, <2>2, <2>3 DEF BankedWeek
  <1>11. ASSUME NEW x \in left, NEW i \in q.creates
         PROVE  x.checkIn # Fridays(q.year)[i]
    <2>1. x.checkIn \notin (q.fridays[i] - 6)..(q.fridays[i] + 6)
      BY <1>1 DEF Refusable
    <2>2. q.fridays[i] \in Nat
      BY <1>4
    <2> HIDE DEF q
    <2> QED BY <2>1, <2>2, <1>3, <1>9
  <1>12. ASSUME NEW i \in q.creates, NEW k \in q.creates,
                New(i).id = New(k).id \/ New(i).checkIn = New(k).checkIn
         PROVE  i = k
    <2>1. CASE New(i).checkIn = New(k).checkIn
      BY <2>1, <1>3, <1>4, <1>10, FridaysApart
    <2>2. CASE New(i).id = New(k).id
      <3>1. Rank(i) \in Nat /\ Rank(k) \in Nat /\ nextBanked \in Nat
        BY <1>6, <1>7
      <3>2. nextBanked + Rank(i) = nextBanked + Rank(k)
        BY <2>2, <1>10
      <3>3. i < k => Rank(i) < Rank(k)
        BY <1>8
      <3>4. k < i => Rank(k) < Rank(i)
        BY <1>8
      <3>5. i \in Int /\ k \in Int
        BY <1>10
      <3> HIDE DEF Rank, q
      <3> QED BY <3>1, <3>2, <3>3, <3>4, <3>5
    <2> QED BY <1>12, <2>1, <2>2
  <1> HIDE DEF Regraded, New, Rank, left, q
  <1>13. ASSUME NEW b \in banked'
         PROVE  /\ b \in BankedWeek /\ b.id < nextBanked'
                /\ \/ \E x \in left : b = Regraded(x)
                   \/ \E i \in q.creates : b = New(i)
    <2>1. CASE \E x \in left : b = Regraded(x)
      <3>1. PICK x \in left : b = Regraded(x)
        BY <2>1
      <3> QED BY <3>1, <1>1, <1>5, <1>6, <1>9
    <2>2. CASE \E i \in q.creates : b = New(i)
      BY <2>2, <1>1, <1>10
    <2> QED BY <1>1, <2>1, <2>2
  <1>14. ASSUME NEW b \in banked', NEW d \in banked', b.id = d.id \/ b.checkIn = d.checkIn
         PROVE  b = d
    <2>1. CASE \E x, y \in left : b = Regraded(x) /\ d = Regraded(y)
      BY <2>1, <1>6, <1>9, <1>14
    <2>2. CASE \E x \in left, i \in q.creates : b = Regraded(x) /\ d = New(i)
      <3>1. PICK x \in left, i \in q.creates : b = Regraded(x) /\ d = New(i)
        BY <2>2
      <3>2. b.checkIn # d.checkIn
        BY <3>1, <1>9, <1>10, <1>11
      <3>3. b.id \in Nat /\ d.id \in Nat /\ b.id < nextBanked /\ d.id >= nextBanked
        BY <3>1, <1>9, <1>10 DEF BankedWeek
      <3> QED BY <1>6, <1>14, <3>2, <3>3
    <2>3. CASE \E x \in left, i \in q.creates : d = Regraded(x) /\ b = New(i)
      <3>1. PICK x \in left, i \in q.creates : d = Regraded(x) /\ b = New(i)
        BY <2>3
      <3>2. b.checkIn # d.checkIn
        BY <3>1, <1>9, <1>10, <1>11
      <3>3. b.id \in Nat /\ d.id \in Nat /\ d.id < nextBanked /\ b.id >= nextBanked
        BY <3>1, <1>9, <1>10 DEF BankedWeek
      <3> QED BY <1>6, <1>14, <3>2, <3>3
    <2>4. CASE \E i, k \in q.creates : b = New(i) /\ d = New(k)
      BY <2>4, <1>12, <1>14
    <2> QED BY <1>13, <2>1, <2>2, <2>3, <2>4
  <1>15. nextBanked' \in Nat \ {0}
    BY <1>1, <1>5, <1>6
  <1>16. RowsKept'
    BY <1>13, <1>14, <1>15 DEF RowsKept
  <1>17. WeekInv'
    BY <1>1, <1>2, <1>16 DEF WeekInv, RequestsKept, Generates
  <1>18. ASSUME NEW b \in banked'
         PROVE  \/ \E x \in banked : x.id = b.id /\ x.checkIn = b.checkIn
                \/ b.checkIn \in FriStarts(generateWeeks(q.year))
    <2>1. CASE \E x \in left : b = Regraded(x)
      BY <2>1, <1>9
    <2>2. CASE \E i \in q.creates : b = New(i)
      BY <2>2, <1>3, <1>4, <1>10, FridaysNat
    <2> QED BY <1>13, <2>1, <2>2
  <1> QED BY <1>1, <1>17, <1>18 DEF q

(* Every step keeps the invariant.                                         *)
LEMMA WeekSteps ==
  ASSUME WeekInv, [WeekNext]_weekVars
  PROVE  WeekInv'
  <1>1. ASSUME NEW c \in Clerks, NEW year \in WeekYears,
               AddYear(c, year) \/ DropYear(c, year) \/ OpenYear(c, year)
        PROVE  WeekInv'
    BY <1>1, WeekAdd, WeekPage
  <1>2. ASSUME NEW c \in Clerks, CreateYear(c) \/ CountBanked(c) \/ DeleteYear(c)
        PROVE  WeekInv'
    BY <1>2, WeekAdd, WeekCreate
  <1>3. ASSUME NEW c \in Clerks, LoadCalendar(c) \/ DiffBank(c) \/ RefuseBank(c) \/ CommitBank(c) \/ ClearRows(c)
        PROVE  WeekInv'
    BY <1>3, WeekLoad, WeekDiff, WeekCommit, WeekClear
  <1>4. ASSUME NEW c \in Clerks, ClearYear(c)
        PROVE  WeekInv'
    BY <1>4, WeekLoad DEF ClearYear
  <1>5. CASE UNCHANGED weekVars
    BY <1>5 DEF weekVars, WeekInv, Generates, RowsKept
  <1> QED BY <1>1, <1>2, <1>3, <1>4, <1>5, WeekSubmit DEF WeekNext

(* It always holds.                                                        *)
LEMMA WeekInvariant == Spec => []WeekInv
  BY WeekDesk, WeekInitInv, WeekSteps, PTL DEF Spec

(* The calendar of any years the weeks of which are generated by the       *)
(* program tiles: 52 or 53 weeks that start on the Fridays of the year and *)
(* end where the next begins, over the end of the year too, and the        *)
(* preview of a year says what adding it will make.                        *)
THEOREM YearsTile == Spec => []WeeksTile
  <1>1. WeekInv => WeeksTile
    BY GeneratedTile DEF WeekInv
  <1> QED BY <1>1, WeekInvariant, PTL

(* One clerk at most drops years of the calendar or banks weeks.           *)
OneBanker ==
  \A c, d \in Clerks :
    {"dropYear", "bank"} \cap Ops[c] # {} /\ {"dropYear", "bank"} \cap Ops[d] # {} => c = d

(* What a drop has looked up stays true until it deletes, and so does what *)
(* a save has, until it writes.                                            *)
KeepInv ==
  \A c \in Clerks :
    LET q == weekRequest[c] IN
    /\ q.op \in {"strand", "drop", "calendar", "diff", "save"} => {"dropYear", "bank"} \cap Ops[c] # {}
    /\ q.op = "drop" => \A b \in banked : b.checkIn \notin q.fridays
    /\ q.op \in {"diff", "save"} => q.year \in DOMAIN weeks

(* Where a clerk's request is at each step, and the tables it leaves.      *)
LEMMA KeepMoves ==
  ASSUME WeekInv, KeepInv, NEW c \in Clerks, NEW q,
         weekRequest' = [weekRequest EXCEPT ![c] = q],
         q.op \in {"strand", "drop", "calendar", "diff", "save"} => {"dropYear", "bank"} \cap Ops[c] # {},
         q.op = "drop" => \A b \in banked' : b.checkIn \notin q.fridays,
         q.op \in {"diff", "save"} => q.year \in DOMAIN weeks',
         \A d \in Clerks \ {c} :
           /\ weekRequest[d].op = "drop" => \A b \in banked' : b.checkIn \notin weekRequest[d].fridays
           /\ weekRequest[d].op \in {"diff", "save"} => weekRequest[d].year \in DOMAIN weeks'
  PROVE  KeepInv'
  <1>1. weekRequest'[c] = q /\ \A d \in Clerks \ {c} : weekRequest'[d] = weekRequest[d]
    BY DEF WeekInv
  <1> QED BY <1>1 DEF KeepInv

(* While only c's request changes.                                         *)
LEMMA KeepAsks ==
  ASSUME WeekInv, KeepInv, NEW c \in Clerks, NEW q, AskWeek(c, q) \/ WeekGoOn(c, q),
         q.op \in {"strand", "drop", "calendar", "diff", "save"} => {"dropYear", "bank"} \cap Ops[c] # {},
         q.op = "drop" => \A b \in banked : b.checkIn \notin q.fridays,
         q.op \in {"diff", "save"} => q.year \in DOMAIN weeks
  PROVE  KeepInv' /\ weeks' = weeks /\ banked' = banked
  <1>1. weekRequest' = [weekRequest EXCEPT ![c] = q] /\ UNCHANGED <<weeks, banked>>
    BY DEF AskWeek, WeekGoOn
  <1>2. \A d \in Clerks \ {c} :
           /\ weekRequest[d].op = "drop" => \A b \in banked' : b.checkIn \notin weekRequest[d].fridays
           /\ weekRequest[d].op \in {"diff", "save"} => weekRequest[d].year \in DOMAIN weeks'
    BY <1>1 DEF KeepInv
  <1> QED BY <1>1, <1>2, KeepMoves

(* The weeks of banked check-ins stay where they are.                      *)
WeeksKept ==
  \A b \in banked' :
    b.id >= nextBanked \/ InCalendar(weeks, b.checkIn) => InCalendar(weeks', b.checkIn)

(* A year is added.                                                        *)
LEMMA KeepAdd ==
  ASSUME WeekInv, KeepInv, NEW c \in Clerks,
         \/ \E year \in WeekYears : AddYear(c, year) \/ DropYear(c, year)
         \/ CountBanked(c) \/ ClearYear(c)
         \/ \E keyed : SubmitBank(c, keyed)
  PROVE  KeepInv' /\ weeks' = weeks /\ banked' = banked
  <1>1. ASSUME NEW year \in WeekYears, AddYear(c, year)
        PROVE  KeepInv' /\ weeks' = weeks /\ banked' = banked
    BY <1>1, KeepAsks DEF AddYear
  <1>2. ASSUME NEW year \in WeekYears, DropYear(c, year)
        PROVE  KeepInv' /\ weeks' = weeks /\ banked' = banked
    <2> DEFINE q == [op |-> "strand", year |-> year, fridays |-> FriStarts(weeks[year])]
    <2>1. AskWeek(c, q) /\ "dropYear" \in Ops[c] /\ q.op = "strand"
      BY <1>2 DEF DropYear, AsksWeek
    <2> HIDE DEF q
    <2> QED BY <2>1, KeepAsks
  <1>3. ASSUME CountBanked(c)
        PROVE  KeepInv' /\ weeks' = weeks /\ banked' = banked
    <2> DEFINE q == weekRequest[c]
    <2>1. /\ q.op = "strand" /\ {"dropYear", "bank"} \cap Ops[c] # {}
          /\ WeekGoOn(c, IF BankedAgainst(q) # {} THEN NotAsking ELSE [q EXCEPT !.op = "drop"])
      BY <1>3 DEF CountBanked, KeepInv
    <2>2. CASE BankedAgainst(q) # {}
      BY <2>1, <2>2, KeepAsks DEF NotAsking
    <2>3. CASE BankedAgainst(q) = {}
      <3> DEFINE r == [q EXCEPT !.op = "drop"]
      <3>1. r.op = "drop" /\ r.fridays = q.fridays
        BY <2>1
      <3>2. \A b \in banked : b.checkIn \notin r.fridays
        BY <2>3, <3>1 DEF BankedAgainst
      <3> HIDE DEF r, q
      <3> QED BY <2>1, <2>3, <3>1, <3>2, KeepAsks DEF r
    <2> QED BY <2>2, <2>3
  <1>4. ASSUME ClearYear(c)
        PROVE  KeepInv' /\ weeks' = weeks /\ banked' = banked
    BY <1>4, KeepAsks DEF ClearYear
  <1>5. ASSUME NEW keyed, SubmitBank(c, keyed)
        PROVE  KeepInv' /\ weeks' = weeks /\ banked' = banked
    <2>1. PICK q : AskWeek(c, q) /\ q.op = "calendar" /\ "bank" \in Ops[c]
      BY <1>5 DEF SubmitBank, AsksWeek
    <2> QED BY <2>1, KeepAsks
  <1> QED BY <1>1, <1>2, <1>3, <1>4, <1>5

(* A save banks weeks that the calendar has.                               *)
LEMMA KeepSave ==
  ASSUME WeekInv, KeepInv, NEW c \in Clerks, LoadCalendar(c) \/ DiffBank(c) \/ RefuseBank(c)
  PROVE  KeepInv' /\ weeks' = weeks /\ banked' = banked
  <1> DEFINE q == weekRequest[c]
  <1>0. q.op \in {"calendar", "diff", "save"} /\ {"dropYear", "bank"} \cap Ops[c] # {}
    BY DEF LoadCalendar, DiffBank, RefuseBank, KeepInv
  <1>1. CASE LoadCalendar(c)
    <2> DEFINE rows == Calendar(q.year)
               r == [op |-> "diff", year |-> q.year, shown |-> q.shown,
                     fridays |-> [i \in DOMAIN rows |-> rows[i].friStart]]
    <2>1. /\ q.op = "calendar"
          /\ WeekGoOn(c, IF DOMAIN q.shown \subseteq DOMAIN rows THEN r ELSE NotAsking)
      BY <1>1 DEF LoadCalendar
    <2>2. Shown(q)
      BY <2>1, WhatIsAsked
    <2>3. ASSUME DOMAIN q.shown \subseteq DOMAIN rows PROVE q.year \in DOMAIN weeks
      <3>1. q.year \in WeekYears /\ DOMAIN q.shown = DOMAIN Fridays(q.year)
        BY <2>2 DEF Shown
      <3>2. PICK n \in {52, 53} : DOMAIN Fridays(q.year) = 1..n
        BY <3>1, YearNumber, FridaysOf
      <3>3. 1 \in DOMAIN rows
        BY <2>3, <3>1, <3>2
      <3>4. rows # <<>>
        BY <3>3
      <3> QED BY <3>4, CalendarRows
    <2>4. r.op = "diff" /\ r.year = q.year /\ NotAsking.op = "idle"
      BY DEF NotAsking
    <2> HIDE DEF r, q, rows
    <2>5. CASE DOMAIN q.shown \subseteq DOMAIN rows
      BY <1>0, <2>1, <2>3, <2>4, <2>5, KeepAsks
    <2>6. CASE ~(DOMAIN q.shown \subseteq DOMAIN rows)
      BY <1>0, <2>1, <2>4, <2>6, KeepAsks
    <2> QED BY <2>5, <2>6
  <1>2. CASE DiffBank(c)
    <2>1. PICK r : /\ WeekGoOn(c, r)
                   /\ r = NotAsking \/ (r.op = "save" /\ r.year = q.year)
      BY <1>2 DEF DiffBank
    <2>2. q.op = "diff" /\ q.year \in DOMAIN weeks
      BY <1>2 DEF DiffBank, KeepInv
    <2>3. NotAsking.op = "idle"
      BY DEF NotAsking
    <2> HIDE DEF q
    <2> QED BY <1>0, <2>1, <2>2, <2>3, KeepAsks
  <1>3. CASE RefuseBank(c)
    BY <1>3, KeepAsks DEF RefuseBank, NotAsking
  <1> QED BY <1>1, <1>2, <1>3

(* A year is dropped, with no week of it at the bank.                      *)
LEMMA KeepCalendar ==
  ASSUME OneBanker, WeekInv, KeepInv, NEW c \in Clerks, CreateYear(c) \/ DeleteYear(c)
  PROVE  KeepInv' /\ WeeksKept
  <1> DEFINE q == weekRequest[c]
  <1>1. /\ weekRequest' = [weekRequest EXCEPT ![c] = NotAsking] /\ NotAsking.op = "idle"
        /\ banked' = banked /\ nextBanked' = nextBanked
    BY DEF CreateYear, DeleteYear, WeekDone, NotAsking
  <1>2. \A d \in Clerks \ {c} :
          weekRequest[d].op = "drop" => \A b \in banked' : b.checkIn \notin weekRequest[d].fridays
    BY <1>1 DEF KeepInv
  <1>3. \A d \in Clerks \ {c} :
          weekRequest[d].op \in {"diff", "save"} => weekRequest[d].year \in DOMAIN weeks'
    <2>1. CASE CreateYear(c)
      <3>1. DOMAIN weeks \subseteq DOMAIN weeks'
        BY <2>1 DEF CreateYear
      <3> QED BY <3>1 DEF KeepInv
    <2>2. CASE DeleteYear(c)
      <3>1. {"dropYear", "bank"} \cap Ops[c] # {}
        BY <2>2 DEF DeleteYear, KeepInv
      <3>2. ASSUME NEW d \in Clerks \ {c}, weekRequest[d].op \in {"diff", "save"}
            PROVE  FALSE
        <4>1. {"dropYear", "bank"} \cap Ops[d] # {}
          BY <3>2 DEF KeepInv
        <4> QED BY <3>1, <4>1 DEF OneBanker
      <3> QED BY <3>2
    <2> QED BY <2>1, <2>2
  <1>4. KeepInv'
    BY <1>1, <1>2, <1>3, KeepMoves
  <1>5. ASSUME NEW b \in banked, b.id >= nextBanked \/ InCalendar(weeks, b.checkIn)
        PROVE  InCalendar(weeks', b.checkIn)
    <2>1. b.id < nextBanked /\ b.id \in Nat /\ nextBanked \in Nat
      BY DEF WeekInv, RowsKept, BankedWeek
    <2>2. PICK y \in DOMAIN weeks : b.checkIn \in FriStarts(weeks[y])
      BY <1>5, <2>1 DEF InCalendar
    <2>3. CASE CreateYear(c)
      <3>1. y \in DOMAIN weeks' /\ weeks'[y] = weeks[y]
        BY <2>3 DEF CreateYear
      <3> QED BY <2>2, <3>1 DEF InCalendar
    <2>4. CASE DeleteYear(c)
      <3>1. q.op = "drop" /\ \A x \in banked : x.checkIn \notin q.fridays
        BY <2>4 DEF DeleteYear, KeepInv
      <3>2. q.fridays = FriStarts(generateWeeks(q.year))
        BY <3>1, WhatIsAsked
      <3>3. b.checkIn \notin FriStarts(generateWeeks(q.year))
        BY <3>1, <3>2
      <3>4. y # q.year
        BY <2>2, <3>3 DEF WeekInv, Generates
      <3>5. y \in DOMAIN weeks' /\ weeks'[y] = weeks[y]
        BY <2>4, <3>4 DEF DeleteYear
      <3> QED BY <2>2, <3>5 DEF InCalendar
    <2> QED BY <2>3, <2>4
  <1> QED BY <1>1, <1>4, <1>5 DEF WeeksKept

(* The bank is cleared.                                                    *)
LEMMA KeepBank ==
  ASSUME OneBanker, WeekInv, KeepInv, NEW c \in Clerks, CommitBank(c) \/ ClearRows(c)
  PROVE  KeepInv' /\ WeeksKept
  <1> DEFINE q == weekRequest[c]
  <1>1. /\ weekRequest' = [weekRequest EXCEPT ![c] = NotAsking] /\ NotAsking.op = "idle"
        /\ weeks' = weeks
    BY DEF CommitBank, ClearRows, WeekDone, NotAsking
  <1>2. \A b \in banked : b.id < nextBanked /\ b.id \in Nat /\ nextBanked \in Nat
    BY DEF WeekInv, RowsKept, BankedWeek
  <1>3. \A d \in Clerks \ {c} :
          weekRequest[d].op \in {"diff", "save"} => weekRequest[d].year \in DOMAIN weeks'
    BY <1>1 DEF KeepInv
  <1>4. CASE CommitBank(c)
    <2>1. q.op = "save" /\ {"dropYear", "bank"} \cap Ops[c] # {} /\ q.year \in DOMAIN weeks
      BY <1>4 DEF CommitBank, KeepInv
    <2>2. ASSUME NEW d \in Clerks \ {c}, weekRequest[d].op = "drop"
          PROVE  FALSE
      <3>1. {"dropYear", "bank"} \cap Ops[d] # {}
        BY <2>2 DEF KeepInv
      <3> QED BY <2>1, <3>1 DEF OneBanker
    <2>3. KeepInv'
      BY <1>1, <1>3, <2>2, KeepMoves
    <2>4. ASSUME NEW b \in banked', b.id >= nextBanked \/ InCalendar(weeks, b.checkIn)
          PROVE  InCalendar(weeks', b.checkIn)
      <3>1. CASE \E x \in banked : x.id = b.id /\ x.checkIn = b.checkIn
        BY <1>1, <1>2, <2>4, <3>1
      <3>2. CASE b.checkIn \in FriStarts(generateWeeks(q.year))
        BY <1>1, <2>1, <3>2 DEF InCalendar, WeekInv, Generates
      <3> QED BY <1>4, <3>1, <3>2, WeekCommit
    <2> QED BY <2>3, <2>4 DEF WeeksKept
  <1>5. CASE ClearRows(c)
    <2>1. banked' \subseteq banked
      BY <1>5 DEF ClearRows
    <2>2. \A d \in Clerks \ {c} :
            weekRequest[d].op = "drop" => \A b \in banked' : b.checkIn \notin weekRequest[d].fridays
      BY <2>1 DEF KeepInv
    <2>3. KeepInv'
      BY <1>1, <1>3, <2>2, KeepMoves
    <2> QED BY <1>1, <1>2, <2>1, <2>3 DEF WeeksKept
  <1> QED BY <1>4, <1>5

(* Every step keeps it.                                                    *)
LEMMA KeepSteps ==
  ASSUME OneBanker, WeekInv, KeepInv, [WeekNext]_weekVars
  PROVE  /\ KeepInv'
         /\ <<weeks, banked>>' # <<weeks, banked>> => WeeksKept
  <1>1. ASSUME NEW c \in Clerks, NEW year \in WeekYears, OpenYear(c, year)
        PROVE  KeepInv' /\ weeks' = weeks /\ banked' = banked
    BY <1>1 DEF OpenYear, KeepInv
  <1>2. CASE UNCHANGED weekVars
    BY <1>2 DEF weekVars, KeepInv
  <1> QED BY <1>1, <1>2, KeepAdd, KeepSave, KeepCalendar, KeepBank DEF WeekNext

(* Nothing is asked at first.                                              *)
LEMMA KeepInit == WeekInit => KeepInv
  BY DEF WeekInit, KeepInv, NotAsking

(* As long as one clerk at most drops years of the calendar or banks       *)
(* weeks, the week of a check-in at the bank keeps its place in the        *)
(* calendar: deleteYear looks at the bank before it deletes, and no save   *)
(* is under way meanwhile.                                                 *)
THEOREM BankedWeeksKept == OneBanker => (Spec => BankedKeepCalendar)
  <1> SUFFICES ASSUME OneBanker PROVE Spec => BankedKeepCalendar
    OBVIOUS
  <1>1. Init => KeepInv
    BY WeekDesk, KeepInit
  <1>2. WeekInv /\ KeepInv /\ [Next]_vars => KeepInv'
    BY WeekDesk, KeepSteps
  <1>3. WeekInv /\ KeepInv /\ [Next]_vars =>
          [<<weeks, banked>>' # <<weeks, banked>> =>
             \A b \in banked' :
               b.id >= nextBanked \/ InCalendar(weeks, b.checkIn) => InCalendar(weeks', b.checkIn)]_weekVars
    BY WeekDesk, KeepSteps DEF WeeksKept
  <1> QED BY <1>1, <1>2, <1>3, WeekInvariant, PTL DEF Spec, BankedKeepCalendar

(***************************************************************************)
(* The back office.                                                        *)
(***************************************************************************)
(* Whoever works at which desk, what the four of them keep has its types:  *)
(* no row of a chart, a holiday, a month or a week is ever written that    *)
(* the tables could not hold.                                              *)
THEOREM BackOfficeTypeCorrect == Spec => []TypeOK
  <1>1. HolidayInv => HolidayTypeOK
    BY HolidaysTyped
  <1>2. WeekInv => WeekTypeOK
    BY WeekTypes
  <1>3. SetupTypeOK /\ HolidayInv /\ SeasonInv /\ WeekInv => TypeOK
    BY <1>1, <1>2, SeasonTypes DEF TypeOK
  <1> QED BY <1>3, SetupTypeCorrect, HolidayInvariant, SeasonInvariant, WeekInvariant, PTL
=============================================================================
