---------------------------- MODULE MCBackOffice ----------------------------
(* The back office for TLC.  A resort, at home until its product is        *)
(* changed, with the chart of the later of two years: one clerk saves      *)
(* charts, the other deletes them and keeps the masters.  The calendars    *)
(* around the leap day of 2028; the year 2028 of the RCI calendar is still *)
(* to be added, though a week of it is banked.                             *)
EXTENDS BackOffice, TLC

CONSTANTS a, b

MCOps ==
  a :> {"school", "public", "cloneHoliday", "cloneSeason", "grade", "dropYear", "bank"} @@
  b :> {"dropHoliday", "grade", "dropMonth", "addYear", "clear"}

Feb(d) == <<2028, 2, d>>
Mar(d) == <<2028, 3, d>>

MCHolidayDates == {Feb(28), Feb(29), Mar(1)}
MCSeeded ==
  {[type |-> "SCHOOL", start |-> Feb(28), end |-> Feb(29), year |-> 2028, name |-> "TERM 1"],
   [type |-> "PUBLIC", start |-> Mar(1), end |-> NoDate, year |-> 2028, name |-> "TERM 1"]}

MCSeasons ==
  <<<<Feb(1), "S">>, <<Feb(29), "G">>, <<Feb(29), "S">>, <<Feb(1), "?">>>>

MCWeeks == {firstFriday(2027) + 51 * 7, firstFriday(2028)}
MCCovered == {firstFriday(2027) + 52 * 7, firstFriday(2028), firstFriday(2028) + 7}
MCSetupOps == a :> {"chart"} @@ b :> {"purge", "product", "resort", "lvc", "type"}
MCMigrated ==
  [products |-> "02" :> "A" @@ "25" :> "U",
   resorts |-> "CP-PBR" :> [coCode |-> "02", id |-> 0],
   lvcCodes |-> "LVC-CLC" :> [coCode |-> "25", id |-> 0],
   types |-> {<<"CP-PBR", "SLEEP2">>},
   points |->
     {[resort |-> "CP-PBR", type |-> "SLEEP2", year |-> 2011, eff |-> 1, charged |-> NoCode],
      [resort |-> "CP-PBR", type |-> "SLEEP2", year |-> 2012, eff |-> 1, charged |-> NoCode],
      [resort |-> "CP-PBR", type |-> "SLEEP4", year |-> 2012, eff |-> 2, charged |-> NoCode]}]
=============================================================================
