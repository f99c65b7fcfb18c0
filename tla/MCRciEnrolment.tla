-------------------------- MODULE MCRciEnrolment ---------------------------
(* Two memberships with an agreement each for TLC; the migrated rows have  *)
(* one number under both.  The first clerk adds and edits with another,    *)
(* the other adds PENDING enrolments and deletes.                          *)
EXTENDS RciEnrolment, TLC

CONSTANTS a, b

MCOps == a :> {"create", "edit"} @@ b :> {"create", "delete"}
MCTyped == a :> {"n2"} @@ b :> {"PENDING"}
MCMembership == "M1/1" :> "M1" @@ "M2/1" :> "M2"
MCMigrated ==
  {[id |-> <<Informix, 1>>, serialNo |-> 1, agreement |-> "M1/1", rciNo |-> "n1"],
   [id |-> <<Informix, 2>>, serialNo |-> 2, agreement |-> "M2/1", rciNo |-> "n1"]}
=============================================================================
