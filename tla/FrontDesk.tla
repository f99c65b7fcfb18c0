----------------------------- MODULE FrontDesk -----------------------------
(***************************************************************************)
(* What the people at the front desk do: reports, the card of entitlements *)
(* of an agreement, the forms of members and of agreements, and the lists  *)
(* these are found in.  No request of one of them waits for another, so    *)
(* that a behaviour follows one desk.                                      *)
(***************************************************************************)
EXTENDS Entitlement, Members, Listings

VARIABLE desk  \* what is worked with

vars == <<reportVars, cardVars, formVars, listVars, desk>>

Init ==
  /\ ReportInit /\ EntitlementInit /\ FormInit /\ ListInit
  /\ desk \in {"reports", "card", "members", "agreement", "lists"}

Next ==
  /\ \/ /\ desk = "reports" /\ ReportNext
        /\ UNCHANGED <<cardVars, formVars, listVars>>
     \/ /\ desk = "card" /\ EntitlementNext
        /\ UNCHANGED <<reportVars, formVars, listVars>>
     \/ /\ \/ desk = "members" /\ MemberDesk
           \/ desk = "agreement" /\ AgreementDesk
        /\ UNCHANGED <<reportVars, cardVars, listVars>>
     \/ /\ desk = "lists" /\ ListNext
        /\ UNCHANGED <<reportVars, cardVars, formVars>>
  /\ UNCHANGED desk

Spec == Init /\ [][Next]_vars

TypeOK == ReportTypeOK /\ EntitlementTypeOK /\ FormTypeOK /\ ListTypeOK
=============================================================================
