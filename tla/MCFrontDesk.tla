----------------------------- MODULE MCFrontDesk -----------------------------
(* The front desk for TLC: eight agreements at the edges of the reports (a *)
(* leap day and the day after, both ends of the payback scheme, an end     *)
(* date before the term, no term, a transferred agreement, a company no    *)
(* report counts), and what was booked on them; two members, one still to  *)
(* come; an agreement with one nominee; and searches whose last page is    *)
(* full, half full and empty.                                              *)
EXTENDS FrontDesk

Of(co, m, type, date, end, term) ==
  [coCode |-> co, member |-> m, memberType |-> type, MJ |-> FALSE, TT |-> FALSE,
   agreementDate |-> date, endDate |-> end, termYears |-> term, price |-> 10 * term]

MCAgmt ==
  <<Of("03", "ann", "INDIVIDUAL", 19940927, None, 33),
    Of("15", "ltd", "CORPORATE", 20120711, 20270315, 20),
    Of("02", "ann", "INDIVIDUAL", 20000229, None, 27),
    Of("03", "ltd", "CORPORATE", 20120712, None, 15),
    Of("03", "bob", "INDIVIDUAL", 20130101, None, 0),
    [Of("15", "bob", "INDIVIDUAL", 19970702, None, 33) EXCEPT !.TT = TRUE],
    Of("09", "bob", "INDIVIDUAL", 20000301, None, 27),
    Of("15", "ltd", "CORPORATE", 20160301, None, 13)>>

Status(s, y) == [acctClassify |-> s, changedIn |-> y]
MCAcct0 ==
  <<Status("NA", None), Status("NA", None), Status("NA", None), Status("SU", 2023),
    Status("PT", None), Status("PT", 2022), Status("NA", None), Status("NA", None)>>

MCScheme0 ==
  <<None, [type |-> "21K", topUp |-> FALSE, pbsIndc |-> FALSE], None,
    [type |-> None, topUp |-> FALSE, pbsIndc |-> TRUE],
    None, None, None, None>>

MCClaims0 ==
  {[agmt |-> 4, no |-> 1, ND |-> FALSE, LHB |-> TRUE, claimAmt |-> 5],
   [agmt |-> 4, no |-> 2, ND |-> TRUE, LHB |-> FALSE, claimAmt |-> 3],
   [agmt |-> 2, no |-> 1, ND |-> FALSE, LHB |-> FALSE, claimAmt |-> 2]}

MCFilters ==
  LET companies == {"LHC", "CP"}
  IN [r \in ReportNames |->
       CASE r \in {"summary", "value"} -> companies
         [] r = "expiring" -> {<<3, 2027>>}
         [] r = "agreements" -> {[coCode |-> "", memberType |-> "INDIVIDUAL"],
                                 [coCode |-> "LHC", memberType |-> "INDIVIDUAL"],
                                 [coCode |-> "LHC", memberType |-> "CORPORATE"]}
         [] r = "members" -> {[coCode |-> "", acctClassify |-> "NA"],
                              [coCode |-> "03", acctClassify |-> ""]}
         [] OTHER -> {""}]

(* Years of no, some, all and more than all nights; points that were kept. *)
Nights(a, s) == <<0, 5, 7, 8>>[((a + s) % 4) + 1]
MCNights ==
  [a \in Agreements |->
    IF Agmt[a].coCode = "02" THEN <<>>
    ELSE [s \in 1..Agmt[a].termYears |->
           [nightsUsed |-> Nights(a, s), actualNights |-> Nights(a, s + 1),
            weekendUsed |-> s % 2]]]
MCPoints ==
  [a \in Agreements |->
    IF Agmt[a].coCode # "02" THEN {}
    ELSE {[useYear |-> y * 10000 + 301, totalPts |-> 10, acrusePts |-> 2,
           balPts |-> 2 + (y % 3)] : y \in 2025..2028}]

MCDept == [c \in Clerks |->
  CASE c = "ann" -> "IT" [] c = "bob" -> "Credit" [] OTHER -> "Member Services"]
MCMembers ==
  [no \in Numbers |->
    IF no = "m1" THEN [f \in Columns |-> IF f = "resStateCode" THEN "x" ELSE Null] ELSE Null]
MCAgreement ==
  [acctClassify |-> "SU", suCode |-> "s", canCode |-> Null,
   nominees |-> [s \in Slots |->
     IF s = 1 THEN [f \in NomColumns |-> IF f = "fullName" THEN "x" ELSE Null] ELSE Null]]

MCTotal ==
  [search \in Texts \X Texts |->
    CASE search = <<"", "">> -> 195 [] search = <<"text", "">> -> 45
      [] search = <<"", "text">> -> 160 [] OTHER -> 0]
=============================================================================
