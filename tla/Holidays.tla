------------------------------ MODULE Holidays ------------------------------
(***************************************************************************)
(* Public and school holidays (Resorts Setup 8):                           *)
(*   backend/src/controllers/holidays.controller.ts                        *)
(*   frontend/src/pages/resorts/Holidays.tsx                               *)
(*                                                                         *)
(* A public holiday is a day, of the year it is in; a school holiday is a  *)
(* range of days of an academic year that is keyed.  Ranges of one         *)
(* academic year must not overlap nor share a name, which two look-ups     *)
(* before the write see to; the table itself only keeps a name from        *)
(* starting twice on a day.  A year is started as a clone of the one       *)
(* before.                                                                 *)
(*                                                                         *)
(* Left out: the name search and the year filter of the list, audit rows,  *)
(* running the seed again (it would bring back what staff have corrected). *)
(***************************************************************************)
EXTENDS CalendarDates, FiniteSets

CONSTANTS
  HolidayDates,   \* dates that are keyed
  HolidayNames,   \* descriptions
  SeededHolidays  \* what seed-holidays wrote: type, start, end, year, name

NoDate == <<0, 0, 0>>
HolidayTypes == {"PUBLIC", "SCHOOL"}

VARIABLES
  holidays,       \* the table
  nextHoliday,    \* ids given out so far
  holidayRequest, \* what each clerk has asked for
  holidayEdits    \* requests so far

holidayVars == <<holidays, nextHoliday, holidayRequest, holidayEdits>>

Quiet == [op |-> "idle"]

HolidaySeed ==
  [type : HolidayTypes, start : Years \X (1..12) \X (1..31),
   end : (Years \X (1..12) \X (1..31)) \cup {NoDate}, year : Years, name : HolidayNames]
ASSUME SeedAssumption ==
  /\ SeededHolidays \subseteq HolidaySeed
  /\ IsFiniteSet(SeededHolidays)
  /\ \A h \in SeededHolidays :
       /\ ValidDate(h.start)
       /\ IF h.type = "PUBLIC" THEN h.end = NoDate /\ h.year = h.start[1]
          ELSE ValidDate(h.end) /\ Utc(h.start) <= Utc(h.end)
  /\ \A g, h \in SeededHolidays :
       <<g.type, g.start, g.name>> = <<h.type, h.start, h.name>> => g = h
  /\ HolidayDates \subseteq Years \X (1..12) \X (1..31)
  /\ \A d \in HolidayDates : ValidDate(d)

-----------------------------------------------------------------------------
(* A school range covers its days, a public holiday its one.               *)
DaysOff(h) == Utc(h.start) .. IF h.end = NoDate THEN Utc(h.start) ELSE Utc(h.end)

HolidayInit ==
  /\ \E f \in [SeededHolidays -> 1..Cardinality(SeededHolidays)] :
       /\ \A g, h \in SeededHolidays :
            g # h => f[g] # f[h] /\ (Utc(g.start) < Utc(h.start) => f[g] < f[h])
       /\ holidays = {[id |-> f[h], type |-> h.type, start |-> h.start, end |-> h.end,
                       year |-> h.year, name |-> h.name] : h \in SeededHolidays}
  /\ nextHoliday = Cardinality(SeededHolidays) + 1
  /\ holidayRequest = [c \in Clerks |-> Quiet]
  /\ holidayEdits = 0

School(year) == {h \in holidays : h.type = "SCHOOL" /\ h.year = year}

(* Mutation: a range may start on the last day of another.                 *)
MutHasOverlap(year, start, end, self) ==
  \E h \in School(year) :
    h.id # self /\ Utc(h.start) < Utc(end) /\ Utc(h.end) >= Utc(start)

(* self is the row being edited, 0 for a new one.                          *)
hasOverlap(year, start, end, self) ==
  \E h \in School(year) :
    h.id # self /\ Utc(h.start) <= Utc(end) /\ Utc(h.end) >= Utc(start)

descriptionTaken(year, name, self) ==
  \E h \in School(year) : h.id # self /\ h.name = name

Asks(c, op) == holidayRequest[c] = Quiet /\ op \in Ops[c] /\ holidayEdits < MaxEdits
AskHoliday(c, q) ==
  /\ holidayRequest' = [holidayRequest EXCEPT ![c] = q]
  /\ holidayEdits' = holidayEdits + 1
  /\ UNCHANGED <<holidays, nextHoliday>>
GoOn(c, q) ==
  /\ holidayRequest' = [holidayRequest EXCEPT ![c] = q]
  /\ UNCHANGED <<holidays, nextHoliday, holidayEdits>>

(* The form of a school holiday, blank (0) or filled from a listed row:    *)
(* Save is enabled while the dates are in order.                           *)
SubmitSchool(c, id, start, end, year, name) ==
  /\ Asks(c, "school")
  /\ Utc(start) <= Utc(end)
  /\ AskHoliday(c, [op |-> IF id = 0 THEN "overlap" ELSE "load", type |-> "SCHOOL",
                    id |-> id, start |-> start, end |-> end, year |-> year, name |-> name])

(* A public holiday is sent without an end and a year.                     *)
SubmitPublic(c, id, start, name) ==
  /\ Asks(c, "public")
  /\ AskHoliday(c, [op |-> IF id = 0 THEN "write" ELSE "load", type |-> "PUBLIC",
                    id |-> id, start |-> start, end |-> NoDate, year |-> start[1],
                    name |-> name])

(* updateHoliday: the row must be there; its type stays.                   *)
LoadHoliday(c) ==
  LET q == holidayRequest[c] IN
  /\ q.op = "load"
  /\ GoOn(c, IF \A h \in holidays : h.id # q.id THEN Quiet
             ELSE [q EXCEPT !.op = IF q.type = "SCHOOL" THEN "overlap" ELSE "write"])

CheckOverlap(c) ==
  LET q == holidayRequest[c] IN
  /\ q.op = "overlap"
  /\ GoOn(c, IF hasOverlap(q.year, q.start, q.end, q.id) THEN Quiet
             ELSE [q EXCEPT !.op = "name"])

CheckName(c) ==
  LET q == holidayRequest[c] IN
  /\ q.op = "name"
  /\ GoOn(c, IF descriptionTaken(q.year, q.name, q.id) THEN Quiet
             ELSE [q EXCEPT !.op = "write"])

(* The write, refused by the unique index or for a row that is gone.       *)
WriteHoliday(c) ==
  LET q == holidayRequest[c]
      others == {h \in holidays : h.id # q.id}
      gone == q.id # 0 /\ others = holidays
      row == [id |-> IF q.id = 0 THEN nextHoliday ELSE q.id, type |-> q.type,
              start |-> q.start, end |-> q.end, year |-> q.year, name |-> q.name]
  IN
  /\ q.op = "write"
  /\ IF gone \/ \E h \in others : h.type = q.type /\ h.start = q.start /\ h.name = q.name
     THEN GoOn(c, Quiet)
     ELSE /\ holidays' = others \cup {row}
          /\ nextHoliday' = IF q.id = 0 THEN nextHoliday + 1 ELSE nextHoliday
          /\ holidayRequest' = [holidayRequest EXCEPT ![c] = Quiet]
          /\ UNCHANGED holidayEdits

DeleteHoliday(c, h) ==
  /\ Asks(c, "dropHoliday")
  /\ h \in holidays
  /\ holidays' = holidays \ {h}
  /\ holidayEdits' = holidayEdits + 1
  /\ UNCHANGED <<nextHoliday, holidayRequest>>

(* cloneHolidayYear: the source is read, the target year counted.          *)
CloneRead(c, type, year) ==
  LET source == {h \in holidays : h.type = type /\ h.year = year} IN
  /\ Asks(c, "cloneHoliday") /\ year + 1 \in Years
  /\ source # {}
  /\ AskHoliday(c, [op |-> "count", type |-> type, year |-> year + 1, source |-> source])

CloneCount(c) ==
  LET q == holidayRequest[c] IN
  /\ q.op = "count"
  /\ GoOn(c, IF \E h \in holidays : h.type = q.type /\ h.year = q.year THEN Quiet
             ELSE [q EXCEPT !.op = "clone"])

(* Both ends go to the same month and day of the next year.                *)
Shifted(h) == IF h.end = NoDate THEN NoDate ELSE NextYear(h.end)

(* createMany with skipDuplicates, by start: of two rows with one type,    *)
(* start and name, or one that is in the table, the first stays.           *)
CloneWrite(c) ==
  LET q == holidayRequest[c]
      Key(h) == <<q.type, NextYear(h.start), h.name>>
      Rank(h) == Cardinality({g \in q.source : g.id < h.id})
      inserted == {h \in q.source :
                     /\ \A g \in holidays : <<g.type, g.start, g.name>> # Key(h)
                     /\ \A g \in q.source : Key(g) = Key(h) => Utc(h.start) <= Utc(g.start)}
  IN
  /\ q.op = "clone"
  /\ holidays' = holidays \cup
       {[id |-> nextHoliday + Rank(h), type |-> q.type, start |-> NextYear(h.start),
         end |-> Shifted(h), year |-> q.year, name |-> h.name] : h \in inserted}
  /\ nextHoliday' = nextHoliday + Cardinality(q.source)
  /\ holidayRequest' = [holidayRequest EXCEPT ![c] = Quiet]
  /\ UNCHANGED holidayEdits

HolidayNext ==
  \E c \in Clerks :
    \/ \E id \in {0} \cup {h.id : h \in {g \in holidays : g.type = "SCHOOL"}},
          start, end \in HolidayDates, year \in Years, name \in HolidayNames :
            SubmitSchool(c, id, start, end, year, name)
    \/ \E id \in {0} \cup {h.id : h \in {g \in holidays : g.type = "PUBLIC"}},
          start \in HolidayDates, name \in HolidayNames : SubmitPublic(c, id, start, name)
    \/ LoadHoliday(c) \/ CheckOverlap(c) \/ CheckName(c) \/ WriteHoliday(c)
    \/ \E h \in holidays : DeleteHoliday(c, h)
    \/ \E type \in HolidayTypes, year \in Years : CloneRead(c, type, year)
    \/ CloneCount(c) \/ CloneWrite(c)

-----------------------------------------------------------------------------
HolidayTypeOK ==
  /\ \A h \in holidays :
       /\ h.id \in 1..(nextHoliday - 1)
       /\ h.type \in HolidayTypes /\ h.year \in Years /\ h.name \in HolidayNames
       /\ ValidDate(h.start)
       /\ IF h.type = "PUBLIC" THEN h.end = NoDate /\ h.year = h.start[1]
          ELSE ValidDate(h.end) /\ DaysOff(h) # {}
  /\ \A g, h \in holidays :
       g.id = h.id \/ <<g.type, g.start, g.name>> = <<h.type, h.start, h.name>> => g = h
  /\ \A c \in Clerks :
       holidayRequest[c].op \in {"idle", "load", "overlap", "name", "write", "count", "clone"}
  /\ holidayEdits \in Nat

(* "Term breaks shouldn't overlap within an academic year" and "One TERM 1 *)
(* SCHOOL HOLIDAYS per academic year", whatever is keyed, corrected and    *)
(* cloned (one clerk keeping the school holidays): two of them have        *)
(* different names and no day in common.  The one exception is a clone out *)
(* of a leap year, which puts 29 February on the 1 March that another      *)
(* break may start with.                                                   *)
SchoolBreaksDistinct ==
  \A g, h \in holidays :
    g # h /\ g.type = "SCHOOL" /\ h.type = "SCHOOL" /\ g.year = h.year =>
      /\ g.name # h.name
      /\ \A day \in DaysOff(g) \cap DaysOff(h) :
           \E y \in {g.end[1], h.end[1]} : day = Utc(<<y, 3, 1>>)
=============================================================================
