----------------------------- MODULE BackOffice -----------------------------
(***************************************************************************)
(* What Resorts Setup and RCI keep for the desks that sell and book: the   *)
(* masters with the charts of season points, and the three calendars.  No  *)
(* request of one reads or writes a table of another, so that a behaviour  *)
(* follows one of them.                                                    *)
(***************************************************************************)
EXTENDS ResortSetup, Holidays, CpSeasons, RciWeeks

VARIABLE desk  \* what is worked on

vars == <<setupVars, holidayVars, seasonVars, weekVars, desk>>

Init ==
  /\ SetupInit /\ HolidayInit /\ SeasonInit /\ WeekInit
  /\ desk \in {"setup", "holidays", "seasons", "weeks"}

Next ==
  /\ \/ /\ desk = "setup" /\ SetupNext
        /\ UNCHANGED <<holidayVars, seasonVars, weekVars>>
     \/ /\ desk = "holidays" /\ HolidayNext
        /\ UNCHANGED <<setupVars, seasonVars, weekVars>>
     \/ /\ desk = "seasons" /\ SeasonNext
        /\ UNCHANGED <<setupVars, holidayVars, weekVars>>
     \/ /\ desk = "weeks" /\ WeekNext
        /\ UNCHANGED <<setupVars, holidayVars, seasonVars>>
  /\ UNCHANGED desk

Spec == Init /\ [][Next]_vars

TypeOK == SetupTypeOK /\ HolidayTypeOK /\ SeasonTypeOK /\ WeekTypeOK
=============================================================================
