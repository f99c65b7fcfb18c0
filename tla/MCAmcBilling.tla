---------------------------- MODULE MCAmcBilling ----------------------------
(* Small instances of AmcBilling for TLC: a CP schedule whose counter row  *)
(* does not exist yet, an LHC schedule, and a schedule of one year.  The   *)
(* configurations say which start with an older invoice or fully billed.   *)
EXTENDS AmcBilling

CONSTANTS cp, lhc, short

MCCoCode == [s \in Schedules |-> IF s = cp THEN "02" ELSE "03"]
MCTotal == [s \in Schedules |-> IF s = short THEN 1 ELSE 2]
MCFirstDue == [s \in Schedules |-> 12]
MCLegacyNo == [s \in Legacy |-> 1]
=============================================================================
