------------------------------- MODULE Reports -------------------------------
(***************************************************************************)
(* The reports over the agreements and the payback scheme:                 *)
(*   backend/src/controllers/reports/*.report.ts   preview and generate    *)
(*   frontend/src/pages/{reports,agreements,members,pbs}/*Report.tsx       *)
(*                                                                         *)
(* A page previews the report for the filter that was applied, a download  *)
(* reads again for the filter in the form.  Each report counts or lists    *)
(* the same agreements with a query and a loop of its own.                 *)
(*                                                                         *)
(* Abstractions.  A date is the number yyyymmdd.  A request reads one      *)
(* state: one whose statements are separated by a change gives a document  *)
(* that is not compared, as is one read before the change (Stale).  PDF    *)
(* and Excel are the lines of the document, its group headers, columns and *)
(* totals; personal data, layout, the AMC counts of a line and audit rows  *)
(* are left out.  The pay-by-month report is part of PbsClaims.            *)
(***************************************************************************)
EXTENDS Integers, SequencesExt

CONSTANTS
  Agreements,    \* agreement rows, ordered by number (1, 2, ...)
  Agmt,          \* what no report changes of an agreement, see AgmtRow
  Acct0,         \* the migrated status of each and the year it was set
  Scheme0,       \* the migrated payback schemes
  Claims0,       \* the claims, see ClaimRow
  Filters,       \* bound: the filters chosen in the form of each report
  PreviewLimit,  \* PREVIEW_LIMIT
  ThisYear,      \* the year at first
  MaxYears,      \* bound: turns of the year
  MaxChanges,    \* bound: changes of status, schemes and claims
  None,          \* SQL NULL, an empty field, nothing
  Stale          \* a preview read before the last change

Statuses == {"NA", "SU", "PT", "TM"}
CoCodes == {"02", "03", "15"}
ReportNames == {"expiry", "summary", "expiring", "value", "agreements",
                "members", "notInPbs", "variance", "claims"}

AgmtRow ==
  [coCode : STRING, member : STRING, memberType : {"INDIVIDUAL", "CORPORATE"},
   MJ : BOOLEAN, TT : BOOLEAN, agreementDate : Nat, endDate : Nat \cup {None},
   termYears : Nat, price : Int]

AcctRow == [acctClassify : Statuses, changedIn : Nat \cup {None}]
SchemeRow == [type : {"19K", "21K", None}, topUp : BOOLEAN, pbsIndc : BOOLEAN]
(* The number tells the claims of an agreement apart, as their id does.     *)
ClaimRow == [agmt : Agreements, no : Nat, ND : BOOLEAN, LHB : BOOLEAN, claimAmt : Nat]

ASSUME AgreementsAssumption ==
  /\ Agreements \subseteq Nat /\ IsFiniteSet(Agreements)
  /\ Agmt \in [Agreements -> AgmtRow]
  /\ Acct0 \in [Agreements -> AcctRow]
ASSUME SchemesAssumption ==
  /\ Scheme0 \in [Agreements -> SchemeRow \cup {None}]
  /\ Claims0 \subseteq ClaimRow
  /\ \A c, d \in Claims0 : c.agmt = d.agmt /\ c.no = d.no => c = d
ASSUME BoundsAssumption ==
  PreviewLimit \in Nat \ {0} /\ ThisYear \in Nat /\ MaxYears \in Nat /\ MaxChanges \in Nat
ASSUME FiltersAssumption ==
  DOMAIN Filters = ReportNames /\ Filters["summary"] \subseteq {"LHC", "CP"}

VARIABLES
  acct,     \* acctClassify and the year of statusChangeDate
  scheme,   \* the PbsScheme of an agreement
  claims,   \* PbsClaim rows
  now,      \* the current year
  changes,  \* bound: changes so far
  screen,   \* the report page: its form, what was applied, the preview
  file      \* the last download, while nothing has changed since

db == <<acct, scheme, claims, now, changes>>
reportVars == <<acct, scheme, claims, now, changes, screen, file>>

-----------------------------------------------------------------------------
(* Dates.                                                                  *)
YearOf(date) == date \div 10000
MonthOf(date) == (date \div 100) % 100
Leap(y) == (y % 4 = 0 /\ y % 100 # 0) \/ y % 400 = 0

(* setFullYear: 29 February of an ordinary year is 1 March.                *)
addYears(date, n) ==
  LET d == date + 10000 * n
  IN IF d % 10000 = 229 /\ ~Leap(YearOf(d)) THEN YearOf(d) * 10000 + 301 ELSE d

computeExpiry(a) ==
  IF Agmt[a].endDate # None THEN Agmt[a].endDate
  ELSE addYears(Agmt[a].agreementDate, Agmt[a].termYears)

(* Mutation: the term counts although the agreement ends earlier.          *)
MutExpiryYear(a) == YearOf(Agmt[a].agreementDate) + Agmt[a].termYears

ExpiryYear(a) ==
  IF Agmt[a].endDate # None THEN YearOf(Agmt[a].endDate)
  ELSE YearOf(Agmt[a].agreementDate) + Agmt[a].termYears

-----------------------------------------------------------------------------
(* Agreements by status, company and order.                                *)
With(statuses) == {a \in Agreements : acct[a].acctClassify \in statuses}
Live == With({"NA", "SU", "PT"})

(* buildCoCodeWhere; "" is all companies.                                  *)
OfCompany(company) ==
  LET codes == CASE company = "" -> {Agmt[a].coCode : a \in Agreements}
                 [] company = "LHC" -> {"03", "15"}
                 [] company = "CP" -> {"02"}
                 [] OTHER -> {company}
  IN {a \in Agreements : Agmt[a].coCode \in codes}

(* Ascending by a key; rows of equal key come in the order of numbers.     *)
(* The rank of a row is the number of rows before it.                      *)
Before(key, a, b) == key[a] < key[b] \/ (key[a] = key[b] /\ a < b)

SortedBy(S, key) ==
  LET rank == [a \in S |-> Cardinality({b \in S : Before(key, b, a)})]
  IN [i \in 1..Cardinality(S) |-> CHOOSE a \in S : rank[a] = i - 1]

Lines(agmts, line(_)) == [i \in DOMAIN agmts |-> line(agmts[i])]

Total(rows, column(_)) == SumFunction([y \in DOMAIN rows |-> column(y)])
ColumnTotals(rows, columns) == [c \in columns |-> Total(rows, LAMBDA y : rows[y][c])]

(* A report that lists rows announces how many, and a preview shows the    *)
(* first of them.                                                          *)
Listing(rows) == [rows |-> rows, total |-> Len(rows)]
Shown(rows) == SubSeq(rows, 1, IF Len(rows) < PreviewLimit THEN Len(rows) ELSE PreviewLimit)

-----------------------------------------------------------------------------
(* Analysis of agreement expiry: every year with its counts per company    *)
(* and the counts up to it.                                                *)
ExpiryReport ==
  LET N(years, companies, statuses) ==
        Cardinality({a \in companies \cap With(statuses) : ExpiryYear(a) \in years})
      LHC == OfCompany("LHC")
      CP == OfCompany("CP")
      years == {ExpiryYear(a) : a \in Live}
      rows == [y \in years |->
        [lhcNa |-> N({y}, LHC, {"NA"}), lhcNonNa |-> N({y}, LHC, {"SU", "PT"}),
         cpNa  |-> N({y}, CP, {"NA"}),  cpNonNa  |-> N({y}, CP, {"SU", "PT"}),
         cumNa |-> N({z \in years : z <= y}, LHC \cup CP, {"NA"}),
         cumNonNa |-> N({z \in years : z <= y}, LHC \cup CP, {"SU", "PT"})]]
      combined(y) == rows[y].lhcNa + rows[y].lhcNonNa + rows[y].cpNa + rows[y].cpNonNa
  IN [rows |-> rows, total |-> Total(rows, combined)]

(* The total row of the PDF and of the spreadsheet: the counts summed, the *)
(* cumulative ones taken from the last row.                                *)
ExpiryColumns == {"lhcNa", "lhcNonNa", "cpNa", "cpNonNa"}
Cumulative(row) == <<row.cumNa, row.cumNonNa>>

drawTotalRow(rows) ==
  IF rows = <<>> THEN None
  ELSE [sums |-> ColumnTotals(rows, ExpiryColumns), cum |-> Cumulative(rows[Max(DOMAIN rows)])]

(* The page sums the rows it was sent itself.                              *)
ExpiryTable(rows) ==
  IF rows = <<>> THEN None
  ELSE [sums |-> ColumnTotals(rows, ExpiryColumns), cum |-> Cumulative(rows[Max(DOMAIN rows)])]

(* Summary of expiring members: the other statuses by the years they last. *)
YearsInStatus(a) ==
  IF acct[a].changedIn = None THEN 0 ELSE now - acct[a].changedIn

UpToThree(a) == YearsInStatus(a) <= 3

SummaryReport(company) ==
  LET agmts == OfCompany(company) \cap Live
      N(y, statuses, some(_)) ==
        Cardinality({a \in agmts \cap With(statuses) : ExpiryYear(a) = y /\ some(a)})
      rows == [y \in {ExpiryYear(a) : a \in agmts} |->
        [naRa  |-> N(y, {"NA"}, LAMBDA a : TRUE),
         suLe3 |-> N(y, {"SU"}, UpToThree), suGt3 |-> N(y, {"SU"}, LAMBDA a : ~UpToThree(a)),
         ptLe3 |-> N(y, {"PT"}, UpToThree), ptGt3 |-> N(y, {"PT"}, LAMBDA a : ~UpToThree(a))]]
      all(y) == rows[y].naRa + rows[y].suLe3 + rows[y].suGt3 + rows[y].ptLe3 + rows[y].ptGt3
  IN [rows |-> rows, total |-> Total(rows, all)]

SummaryColumns == {"naRa", "suLe3", "suGt3", "ptLe3", "ptGt3"}
GrandTotal(rows) == IF rows = <<>> THEN None ELSE ColumnTotals(rows, SummaryColumns)
SummaryTable(rows) == IF rows = <<>> THEN None ELSE ColumnTotals(rows, SummaryColumns)

(* List of expiring members of a month, companies in the order 03, 15, 02. *)
Expiring(period) ==
  {a \in Agreements \ With({"TM"}) :
     <<MonthOf(computeExpiry(a)), YearOf(computeExpiry(a))>> = period}

CompanyRank(a) ==
  CASE Agmt[a].coCode = "03" -> 0 [] Agmt[a].coCode = "15" -> 1
    [] Agmt[a].coCode = "02" -> 2 [] OTHER -> 3

ExpiringReport(period) ==
  LET order == [a \in Expiring(period) |-> CompanyRank(a) * 100000000 + computeExpiry(a)]
  IN Listing(Lines(SortedBy(Expiring(period), order),
       LAMBDA a : [agmt |-> a, coCode |-> Agmt[a].coCode, acctClassify |-> acct[a].acctClassify]))

(* A header is printed whenever the company of the next line is another.   *)
Headers(rows) ==
  {i \in DOMAIN rows : i > 1 => rows[i].coCode # rows[i - 1].coCode}

(* Remaining value: what the years left of an active agreement are worth.  *)
valuePerYear(a) == IF Agmt[a].termYears = 0 THEN 0 ELSE Agmt[a].price \div Agmt[a].termYears
ValueAt(a, y) == LET v == (YearOf(computeExpiry(a)) - y) * valuePerYear(a)
                 IN IF v > 0 THEN v ELSE 0

ValueReport(company) ==
  LET agreementDate == [a \in Agreements |-> Agmt[a].agreementDate]
  IN Listing(Lines(SortedBy(OfCompany(company) \cap With({"NA"}), agreementDate),
       LAMBDA a : [agmt |-> a, expiryYear |-> YearOf(computeExpiry(a)),
                   remainingValue |-> ValueAt(a, now)]))

(* The years of the columns, announced by the preview.                     *)
YearCols(rows) ==
  (now + 1)..(IF rows = <<>> THEN now + 1 ELSE Max({rows[i].expiryYear : i \in DOMAIN rows}))

(* The columns of the spreadsheet: a year's sum and count of positive ones. *)
YearTotals(rows) ==
  LET values(y) == {i \in DOMAIN rows : ValueAt(rows[i].agmt, y) > 0}
  IN [y \in YearCols(rows) |->
       [count |-> Cardinality(values(y)),
        sum |-> SumFunction([i \in values(y) |-> ValueAt(rows[i].agmt, y)])]]

(* Agreement detail: active agreements of a company and a member type.     *)
AgreementReport(filter) ==
  LET number == [a \in Agreements |-> a]
  IN Listing(SortedBy({a \in OfCompany(filter.coCode) \cap With({"NA"}) :
                         Agmt[a].memberType = filter.memberType}, number))

(* Member listing: members with an agreement that fits, and only those, in *)
(* one line with the companies and statuses these have.                    *)
MemberLine(m, fits) ==
  LET agreementDate == [a \in Agreements |-> Agmt[a].agreementDate]
      agmts == {a \in fits : Agmt[a].member = m}
  IN [member |-> m, agmtNos |-> SortedBy(agmts, agreementDate),
      coCodes |-> {Agmt[a].coCode : a \in agmts},
      statuses |-> {acct[a].acctClassify : a \in agmts}]

MemberReport(filter) ==
  LET fits == OfCompany(filter.coCode)
                \cap With(IF filter.acctClassify = "" THEN Statuses ELSE {filter.acctClassify})
      number == [a \in Agreements |-> a]
      firsts == {a \in Agreements : /\ \E b \in fits : Agmt[b].member = Agmt[a].member
                                    /\ \A b \in Agreements : Agmt[b].member = Agmt[a].member => a <= b}
  IN Listing(Lines(SortedBy(firsts, number), LAMBDA a : MemberLine(Agmt[a].member, fits)))

(* Entitled to the payback scheme but not in it, and the comparison of the *)
(* scheme an agreement should have with the one it has.  Here and in the   *)
(* claim report a scheme is joined to its own agreement; the code joins by *)
(* company and number, so that the claim of a transferred agreement is     *)
(* listed with its successor if that has the number.                       *)
Zurich(a) ==
  IF scheme[a] # None THEN IF scheme[a].pbsIndc THEN scheme[a].type ELSE None ELSE None

Rightful(a) ==
  CASE Agmt[a].agreementDate <= 19970702 -> "19K"
    [] Agmt[a].agreementDate <= 20120712 -> "21K"
    [] OTHER -> "ERROR"

SoldBy(last) ==
  {a \in OfCompany("LHC") : /\ ~Agmt[a].TT /\ ~Agmt[a].MJ
                            /\ Agmt[a].agreementDate \in 19940927..last}

NotInPbsReport ==
  LET key == [a \in Agreements |->
               (IF Agmt[a].coCode = "03" THEN 0 ELSE 100000000) + Agmt[a].agreementDate]
      Covered(a) == IF scheme[a] = None THEN FALSE ELSE scheme[a].pbsIndc
  IN Listing(SortedBy({a \in SoldBy(20120711) \cap With({"NA"}) : ~Covered(a)}, key))

VarianceAgreements ==
  SoldBy(20120712) \cup
  {a \in OfCompany("03") :
     /\ ~Agmt[a].TT /\ ~Agmt[a].MJ
     /\ IF scheme[a] = None THEN FALSE ELSE scheme[a].topUp /\ scheme[a].pbsIndc}

VarianceReport ==
  LET rows == {a \in VarianceAgreements : ~(Zurich(a) = None /\ a \in With({"TM"}))}
      agreementDate == [a \in Agreements |-> Agmt[a].agreementDate]
  IN Listing(Lines(SortedBy(rows, agreementDate),
       LAMBDA a : [agmt |-> a, rightful |-> Rightful(a), zurich |-> Zurich(a)]))

(* Claims: natural deaths on a sheet of their own.                         *)
ClaimReport ==
  LET sheet(nd) == {c \in claims : c.ND = nd /\ ~Agmt[c.agmt].TT}
  IN [rows |-> [claims |-> sheet(FALSE), nd |-> sheet(TRUE)],
      total |-> Cardinality(sheet(FALSE)) + Cardinality(sheet(TRUE))]

SumAmt(rows) == SumFunction([c \in rows |-> c.claimAmt])

(* The figures above the page, and those under a sheet (which has what is  *)
(* paid to LHB when it has the column Pay To).                             *)
ClaimMeta(r) ==
  LET lhbRows == {c \in r.claims : c.LHB}
  IN [totalClaimAmt |-> SumAmt(r.claims), totalLhbAmt |-> SumAmt(lhbRows),
      lhbCases |-> Cardinality(lhbRows), totalNdAmt |-> SumAmt(r.nd)]

buildSheet(rows, includePayTo) ==
  LET lhb == {c \in rows : c.LHB}
  IN [total |-> SumAmt(rows),
      payTo |-> IF includePayTo THEN <<SumAmt(lhb), Cardinality(lhb)>> ELSE <<>>]

-----------------------------------------------------------------------------
(* What GET .../preview and GET .../generate read and answer.              *)
Build(report, filter) ==
  CASE report = "expiry" -> ExpiryReport
    [] report = "summary" -> SummaryReport(filter)
    [] report = "expiring" -> ExpiringReport(filter)
    [] report = "value" -> ValueReport(filter)
    [] report = "agreements" -> AgreementReport(filter)
    [] report = "members" -> MemberReport(filter)
    [] report = "notInPbs" -> NotInPbsReport
    [] report = "variance" -> VarianceReport
    [] report = "claims" -> ClaimReport

Cut == {"expiring", "value", "agreements", "members"}

(* What is shown besides the rows.                                         *)
PreviewFoot(report, r) ==
  CASE report = "expiry" -> ExpiryTable(r.rows)
    [] report = "summary" -> SummaryTable(r.rows)
    [] report = "value" -> YearCols(r.rows)
    [] report = "claims" -> ClaimMeta(r.rows)
    [] OTHER -> None

GenerateFoot(report, r) ==
  CASE report = "expiry" -> drawTotalRow(r.rows)
    [] report = "summary" -> GrandTotal(r.rows)
    [] report = "value" -> DOMAIN YearTotals(r.rows)
    [] report = "claims" ->
         LET sheet == buildSheet(r.rows.claims, TRUE)
         IN [totalClaimAmt |-> sheet.total, totalLhbAmt |-> sheet.payTo[1],
             lhbCases |-> sheet.payTo[2], totalNdAmt |-> buildSheet(r.rows.nd, FALSE).total]
    [] OTHER -> None

Preview(report, filter) ==
  LET r == Build(report, filter)
  IN [report |-> report, filter |-> filter, total |-> r.total, full |-> FALSE,
      foot |-> PreviewFoot(report, r), columns |-> None, headers |-> {},
      rows |-> IF report \in Cut THEN Shown(r.rows) ELSE r.rows]

Generate(report, filter) ==
  LET r == Build(report, filter)
  IN [report |-> report, filter |-> filter, total |-> r.total, full |-> TRUE,
      foot |-> GenerateFoot(report, r), rows |-> r.rows,
      columns |-> IF report = "value" THEN YearTotals(r.rows) ELSE None,
      headers |-> IF report = "expiring" THEN Headers(r.rows) ELSE {}]

OpenPage(report, filter) == [report |-> report, filter |-> filter, preview |-> None]

ReportInit ==
  /\ acct = Acct0 /\ scheme = Scheme0 /\ claims = Claims0
  /\ now = ThisYear /\ changes = 0
  /\ screen \in {OpenPage("expiry", f) : f \in Filters["expiry"]}
  /\ file = None

(* A link of the menu: a page with an empty form and no preview.           *)
Open ==
  /\ \E report \in ReportNames : \E f \in Filters[report] : screen' = OpenPage(report, f)
  /\ UNCHANGED <<db, file>>

(* The form: the preview stays that of the filter that was applied, except *)
(* that another member type clears it.                                     *)
Choose ==
  /\ \E f \in Filters[screen.report] :
       LET cleared == screen.report = "agreements" /\ f.memberType # screen.filter.memberType
       IN screen' = [screen EXCEPT !.filter = f, !.preview = IF cleared THEN None ELSE @]
  /\ UNCHANGED <<db, file>>

(* Preview: read now, or kept by the query client from before a change.    *)
Apply ==
  /\ \/ screen' = [screen EXCEPT !.preview = Preview(screen.report, screen.filter)]
     \/ changes > 0 /\ screen' = [screen EXCEPT !.preview = Stale]
  /\ UNCHANGED <<db, file>>

Download ==
  /\ file' = Generate(screen.report, screen.filter)
  /\ UNCHANGED <<db, screen>>

(* What is on the screen is as old as the change.                          *)
Outdated ==
  /\ file' = None
  /\ screen' = IF screen.preview = None THEN screen ELSE [screen EXCEPT !.preview = Stale]

Change == changes < MaxChanges /\ changes' = changes + 1 /\ Outdated

(* PATCH /api/agreements/:id/status, see AmcBilling.                       *)
ChangeStatus ==
  /\ Change
  /\ \E a \in Agreements, new \in Statuses :
       acct' = [acct EXCEPT ![a] =
         [acctClassify |-> new, changedIn |-> IF new = "NA" THEN None ELSE now]]
  /\ UNCHANGED <<scheme, claims, now>>

(* PUT /api/pbs/:id, see PbsClaims.                                        *)
SaveScheme ==
  /\ Change
  /\ \E a \in Agreements, row \in SchemeRow :
       scheme[a] # None /\ scheme' = [scheme EXCEPT ![a] = row]
  /\ UNCHANGED <<acct, claims, now>>

(* Mutation: the claim is added in its new form.                           *)
MutEditClaim ==
  /\ Change
  /\ \E c \in claims, nd \in BOOLEAN :
       claims' = claims \cup {[c EXCEPT !.ND = nd, !.no = @ - 2]}
  /\ UNCHANGED <<acct, scheme, now>>

(* PUT and DELETE of a claim, see PbsClaims.                               *)
EditClaim ==
  /\ Change
  /\ \E c \in claims :
       \/ \E nd \in BOOLEAN : claims' = (claims \ {c}) \cup {[c EXCEPT !.ND = nd]}
       \/ claims' = claims \ {c}
  /\ UNCHANGED <<acct, scheme, now>>

YearTurns ==
  /\ now < ThisYear + MaxYears /\ now' = now + 1
  /\ Outdated
  /\ UNCHANGED <<acct, scheme, claims, changes>>

ReportNext == Open \/ Choose \/ Apply \/ Download
          \/ ChangeStatus \/ SaveScheme \/ EditClaim \/ YearTurns

-----------------------------------------------------------------------------
ReportTypeOK ==
  /\ acct \in [Agreements -> AcctRow]
  /\ scheme \in [Agreements -> SchemeRow \cup {None}]
  /\ claims \subseteq ClaimRow
  /\ now \in ThisYear..(ThisYear + MaxYears) /\ changes \in 0..MaxChanges
  /\ screen.report \in ReportNames /\ screen.filter \in Filters[screen.report]

ListedIn(doc) ==
  CASE doc.report = "members" -> UNION {ToSet(doc.rows[i].agmtNos) : i \in DOMAIN doc.rows}
    [] doc.report \in {"agreements", "notInPbs"} -> ToSet(doc.rows)
    [] OTHER -> {doc.rows[i].agmt : i \in DOMAIN doc.rows}

SameReport(x, y) ==
  x.report = y.report /\ x.filter = y.filter =>
    /\ x.total = y.total /\ x.foot = y.foot
    /\ IF x.report \in Cut THEN IsPrefix(x.rows, y.rows) ELSE x.rows = y.rows

(* The management report counts what the summary of either company counts. *)
ExpiryIsSummary(x, y) ==
  x.report = "expiry" /\ y.report = "summary" =>
    \A year \in DOMAIN x.rows \cup DOMAIN y.rows :
      LET e == x.rows[year]
          s == y.rows[year]
          e2 == IF y.filter = "LHC" THEN <<e.lhcNa, e.lhcNonNa>> ELSE <<e.cpNa, e.cpNonNa>>
      IN /\ year \in DOMAIN x.rows
         /\ e2 = IF year \in DOMAIN y.rows
                 THEN <<s.naRa, s.suLe3 + s.suGt3 + s.ptLe3 + s.ptGt3>> ELSE <<0, 0>>

(* It ends with all live agreements, and has the expiring ones in it.      *)
ExpiryIsAll(x, y) ==
  x.report = "expiry" /\ x.rows # <<>> =>
    LET sums == x.foot.sums
        Listed(active) ==
          Cardinality({i \in DOMAIN y.rows : /\ y.rows[i].coCode \in CoCodes
                                             /\ (y.rows[i].acctClassify = "NA") = active})
    IN /\ x.foot.cum = <<sums.lhcNa + sums.cpNa, sums.lhcNonNa + sums.cpNonNa>>
       /\ x.foot.cum[1] + x.foot.cum[2] = x.total
       /\ y.report = "expiring" /\ Listed(TRUE) + Listed(FALSE) > 0 =>
            LET e == x.rows[y.filter[2]]
            IN /\ Listed(TRUE) <= e.lhcNa + e.cpNa
               /\ Listed(FALSE) <= e.lhcNonNa + e.cpNonNa

(* The remaining values are of the active agreements of the summary, with  *)
(* the years they end in, and a column of the spreadsheet counts no more   *)
(* than those that end after its year (if no fees are above the price: a   *)
(* price below zero is worth something in the years after the end).        *)
ValueIsSummary(x, y) ==
  x.report = "value" /\ y.report = "summary" /\ x.filter = y.filter =>
    LET Active(years) == SumFunction([year \in years |-> y.rows[year].naRa])
    IN /\ x.total = Active(DOMAIN y.rows)
       /\ x.full => \A year \in DOMAIN y.rows :
            Cardinality({i \in DOMAIN x.rows : x.rows[i].expiryYear = year}) = Active({year})
       /\ x.columns # None /\ (\A a \in Agreements : Agmt[a].price >= 0) => \A year \in DOMAIN x.columns :
            x.columns[year].count <= Active({z \in DOMAIN y.rows : z > year})

(* A member type's agreements are in the remaining values of the company   *)
(* and, as active agreements, in the listing of members.                   *)
AgreementsAreListed(x, y) ==
  x.report = "agreements" =>
    /\ y.report = "value" /\ y.filter = x.filter.coCode => x.total <= y.total
    /\ \/ y.full /\ y.report = "value" /\ y.filter = x.filter.coCode
       \/ y.full /\ y.report = "members" /\ y.filter.acctClassify \in {"", "NA"}
                   /\ y.filter.coCode = ""
       => ListedIn(x) \subseteq ListedIn(y)

(* Who is missing from the scheme is in the comparison, without a scheme   *)
(* and with one he is entitled to.                                         *)
MissingIsVariance(x, y) ==
  x.report = "notInPbs" /\ y.report = "variance" =>
    /\ ListedIn(x) \subseteq ListedIn(y)
    /\ \A i \in DOMAIN y.rows : y.rows[i].agmt \in ListedIn(x) =>
         y.rows[i].zurich = None /\ y.rows[i].rightful # "ERROR"

(* A claim is on one of the two sheets, whatever form it was saved in.     *)
ClaimOnOneSheet(x) ==
  x.report = "claims" =>
    \A c \in x.rows.claims, d \in x.rows.nd : <<c.agmt, c.no>> # <<d.agmt, d.no>>

(* A company of the expiring members has one header (other companies than  *)
(* these come last, by date of expiry).                                    *)
HeadersAreGroups(x) ==
  x.report = "expiring" /\ x.full =>
    Cardinality({i \in x.headers : x.rows[i].coCode \in CoCodes}) =
      Cardinality({x.rows[i].coCode : i \in DOMAIN x.rows} \cap CoCodes)

Agree(x, y) ==
  /\ ExpiryIsSummary(x, y) /\ ExpiryIsAll(x, y)
  /\ ValueIsSummary(x, y) /\ AgreementsAreListed(x, y)
  /\ MissingIsVariance(x, y) /\ ClaimOnOneSheet(x) /\ HeadersAreGroups(x)

(* Whatever report is on a screen and whatever report was downloaded last, *)
(* with nothing changed since they were read: they agree where they speak  *)
(* of the same agreements.  Ten queries repeat the rules of expiry, status *)
(* and company, each in its own loop.                                      *)
ReportsReconcile ==
  screen.preview \notin {None, Stale} /\ file # None =>
    /\ SameReport(screen.preview, file)
    /\ Agree(screen.preview, file) /\ Agree(file, screen.preview)
=============================================================================
