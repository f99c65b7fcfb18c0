------------------------- MODULE MCAvailabilityGrid -------------------------
(* A small resort for TLC: two units of one apartment type out of two, two *)
(* days, one RCI week of both days, and a batch that names both units.     *)
EXTENDS AvailabilityGrid, TLC

CONSTANTS a, b, u, v, T4, T6

MCDays == 1..2
MCAllOps == [c \in Clerks |-> OpNames]
MCSplitOps == a :> {"addUnit", "addBlock"}
  @@ b :> {"addMaint", "updateMaint", "deleteMaint", "saveBank", "deleteBank"}
MCRegistered == u :> T4 @@ v :> T4
MCBatches == {{u, v}}
=============================================================================
