------------------------- MODULE CaseAndAlertProofs -------------------------
(* Theorems about cases and the alerts issued from them.  Of CaseWorkflow and  *)
(* CaseViews, for every number of cases, reports and concurrent requests: the  *)
(* optimistic lock is enough to keep every case on the lifecycle of            *)
(* CaseContract, and what readers are told is true.  Of AlertIssuance, for any *)
(* number of clients, posts, alerts and cancellations: one alert for a key     *)
(* that is kept, the history of an alert, and that an alert's case was         *)
(* verified before it.                                                         *)
EXTENDS AlertIssuance, CaseViews, FiniteSetTheorems, TLAPS

-----------------------------------------------------------------------------
(* The inductive invariant. *)

\* A case exists from its first version on, and only then has evidence.
RowsExist ==
  \A c \in Case :
    /\ cases[c].status = "ABSENT" <=> cases[c].version = 0
    /\ \A r \in Report : <<c, r>> \in case_reports => cases[c].version # 0

\* A loaded row is an earlier row of its case, and the present one if the
\* versions are equal: what advance_case_version relies on.
LoadedIsEarlier ==
  \A q \in Request : job[q] # NoRequest /\ job[q].step # "row" =>
    LET now == cases[job[q].case] IN
    /\ job[q].row.version # 0 /\ job[q].row.version <= now.version
    /\ job[q].row.version = now.version => job[q].row = now

CaseInv == CaseTypeOK /\ RowsExist /\ LoadedIsEarlier

-----------------------------------------------------------------------------
(* What is stored. *)

\* The row the aggregate leaves in memory (link_report, transition_to) is a row
\* of a case with the next version.
LEMMA NewRowIsNext ==
  ASSUME NEW j \in Job, j.row.version # 0, j.row.status # "ABSENT"
  PROVE  /\ NewRow(j) \in CaseRow
         /\ NewRow(j).version = j.row.version + 1
         /\ NewRow(j).status # "ABSENT"
         /\ NewRow(j).status = IF j.change = "LINK" THEN j.row.status ELSE j.change
<1>1. /\ j.row \in CaseRow
      /\ j.change \in Change
  BY DEF Job
<1>2. j.row.version \in Nat /\ j.row.status \in CaseStatus
  BY <1>1 DEF CaseRow
<1>3. j.change = "LINK" \/ j.change \in CaseStatus
  BY <1>1 DEF Change
<1>4. "ABSENT" \notin CaseStatus
  BY DEF CaseStatus
<1>5. QED
  BY <1>2, <1>3, <1>4 DEF NewRow, CaseRow

\* What a store that passes the version check does: it goes one version up from
\* the present row, which is the loaded one.
LEMMA StoreIsNext ==
  ASSUME CaseInv, NEW q \in Request, Store(q)
  PROVE  /\ job[q] \in Job /\ job[q].case \in Case
         /\ job[q].row = cases[job[q].case]
         /\ NewRow(job[q]) \in CaseRow
         /\ NewRow(job[q]).version = cases[job[q].case].version + 1
         /\ NewRow(job[q]).status # "ABSENT"
         /\ cases[job[q].case].version \in Nat \ {0}
<1>1. job[q] # NoRequest /\ job[q].step = "store" /\ ~Refused(job[q])
  BY DEF Store
<1>2. job[q] \in Job /\ job[q].case \in Case /\ cases[job[q].case] \in CaseRow
  BY <1>1 DEF CaseInv, CaseTypeOK, Job
<1>3. cases[job[q].case].version = job[q].row.version
  BY <1>1 DEF Refused, VersionMatches
<1>4. job[q].row = cases[job[q].case] /\ job[q].row.version # 0
  BY <1>1, <1>3 DEF CaseInv, LoadedIsEarlier
<1>5. job[q].row.status # "ABSENT"
  BY <1>2, <1>4 DEF CaseInv, RowsExist
<1>6. cases[job[q].case].version \in Nat
  BY <1>2 DEF CaseRow
<1>7. QED
  BY <1>2, <1>4, <1>5, <1>6, NewRowIsNext

-----------------------------------------------------------------------------
(* The steps. *)

\* No case, no request at first.
LEMMA CaseInitInv == CaseInit => CaseInv
<1> SUFFICES ASSUME CaseInit PROVE CaseInv
  OBVIOUS
<1>1. NoCase \in CaseRow /\ NoCase.status = "ABSENT" /\ NoCase.version = 0
  BY DEF NoCase, CaseRow
<1>2. CaseTypeOK
  BY <1>1 DEF CaseInit, CaseTypeOK
<1>3. RowsExist /\ LoadedIsEarlier
  BY <1>1 DEF CaseInit, RowsExist, LoadedIsEarlier
<1>4. QED
  BY <1>2, <1>3 DEF CaseInv

\* create_case: the first row of a case nobody can have loaded.
LEMMA CreateCaseInv ==
  ASSUME CaseInv, NEW c \in Case, NEW r \in Report, CreateCase(c, r)
  PROVE  CaseInv'
<1> USE DEF CaseInv
<1> DEFINE row == [status |-> "REPORTED", version |-> 1]
<1>1. row \in CaseRow /\ row.status = "REPORTED" /\ row.version = 1
  BY DEF CaseRow, CaseStatus
<1>2. /\ cases' = [cases EXCEPT ![c] = row]
      /\ cases'[c] = row /\ \A d \in Case \ {c} : cases'[d] = cases[d]
  BY DEF CreateCase, CaseTypeOK
<1>3. CaseTypeOK'
  <2>1. cases' \in [Case -> CaseRow]
    BY <1>1, <1>2 DEF CaseTypeOK
  <2>2. [case |-> c, version |-> 1, entered |-> "REPORTED"]
          \in [case : Case, version : Nat, entered : Change]
    BY DEF Change, CaseStatus
  <2>3. case_events' \subseteq [case : Case, version : Nat, entered : Change]
    BY <2>2 DEF CreateCase, CaseTypeOK
  <2>4. /\ reports' \in [Report -> {"RECEIVED", "UNDER_REVIEW", "LINKED_TO_CASE"}]
        /\ case_reports' \subseteq Case \X Report
    BY DEF CreateCase, InsertLink, CaseTypeOK
  <2>5. QED
    BY <2>1, <2>3, <2>4 DEF CreateCase, CaseTypeOK
<1>4. RowsExist'
  <2>1. \A d \in Case, s \in Report :
          <<d, s>> \in case_reports' => d = c \/ <<d, s>> \in case_reports
    BY DEF CreateCase, InsertLink
  <2>2. QED
    BY <1>1, <1>2, <2>1 DEF RowsExist
<1>5. LoadedIsEarlier'
  <2>1. cases[c].version = 0
    BY DEF CreateCase, NoCase
  <2>2. ASSUME NEW q \in Request, job[q] # NoRequest, job[q].step # "row"
        PROVE  job[q].case # c /\ job[q].case \in Case
    <3>1. job[q] \in Job
      BY <2>2 DEF CaseTypeOK
    <3>2. job[q].row.version \in Nat /\ job[q].case \in Case
      BY <3>1 DEF Job, CaseRow
    <3>3. QED
      BY <2>1, <2>2, <3>2 DEF LoadedIsEarlier
  <2>3. job' = job
    BY DEF CreateCase
  <2>4. QED
    BY <1>2, <2>2, <2>3 DEF LoadedIsEarlier
<1>6. QED
  BY <1>3, <1>4, <1>5

\* Steps that leave cases and links alone, and load nothing but the present row.
LEMMA RequestStepInv ==
  ASSUME CaseInv, UNCHANGED <<cases, case_reports>>, CaseTypeOK',
         \A q \in Request :
           \/ job'[q] = job[q] \/ job'[q] = NoRequest \/ job'[q].step = "row"
           \/ /\ job[q] # NoRequest /\ job'[q].case = job[q].case
              /\ \/ job[q].step # "row" /\ job'[q].row = job[q].row
                 \/ /\ job'[q].row = cases[job[q].case]
                    /\ cases[job[q].case].version # 0
  PROVE  CaseInv'
<1> USE DEF CaseInv
<1>1. RowsExist'
  BY DEF RowsExist
<1>2. ASSUME NEW q \in Request, job'[q] # NoRequest, job'[q].step # "row"
      PROVE  LET now == cases'[job'[q].case] IN
             /\ job'[q].row.version # 0 /\ job'[q].row.version <= now.version
             /\ job'[q].row.version = now.version => job'[q].row = now
  <2>1. CASE job'[q] = job[q]
    BY <1>2, <2>1 DEF LoadedIsEarlier
  <2>2. CASE /\ job[q] # NoRequest /\ job[q].step # "row"
             /\ job'[q].case = job[q].case /\ job'[q].row = job[q].row
    BY <2>2 DEF LoadedIsEarlier
  <2>3. CASE /\ job[q] # NoRequest /\ job'[q].case = job[q].case
             /\ job'[q].row = cases[job[q].case] /\ cases[job[q].case].version # 0
    <3>1. cases[job[q].case].version \in Nat
      BY <2>3 DEF CaseTypeOK, Job, CaseRow
    <3>2. QED
      BY <2>3, <3>1
  <2>4. QED
    BY <1>2, <2>1, <2>2, <2>3
<1>3. LoadedIsEarlier'
  BY <1>2 DEF LoadedIsEarlier
<1>4. QED
  BY <1>1, <1>3

\* mark_under_review
LEMMA StartReportReviewInv ==
  ASSUME CaseInv, NEW r \in Report, StartReportReview(r)
  PROVE  CaseInv'
<1>1. CaseTypeOK'
  BY DEF StartReportReview, CaseInv, CaseTypeOK
<1>2. UNCHANGED <<cases, case_reports, job>>
  BY DEF StartReportReview
<1>3. QED
  BY <1>1, <1>2, RequestStepInv

\* A request begins.
LEMMA BeginInv ==
  ASSUME CaseInv, NEW q \in Request, NEW c \in Case, NEW change \in Change,
         NEW r \in Report \cup {NoReport}, Begin(q, c, change, r)
  PROVE  CaseInv'
<1> DEFINE new == [case |-> c, change |-> change, report |-> r, step |-> "row",
                   row |-> NoCase, reports |-> {}]
<1>1. new \in Job
  BY DEF Begin, Job, CaseRow, NoCase
<1>2. job' = [job EXCEPT ![q] = new] /\ response' = [response EXCEPT ![q] = NoRequest]
  BY DEF Begin
<1>3. job' \in [Request -> Job \cup {NoRequest}]
  BY <1>1, <1>2 DEF CaseInv, CaseTypeOK
<1>4. CaseTypeOK'
  BY <1>2, <1>3 DEF Begin, CaseInv, CaseTypeOK
<1>5. \A p \in Request : job'[p] = job[p] \/ job'[p].step = "row"
  BY <1>2 DEF CaseInv, CaseTypeOK
<1>6. QED
  BY <1>4, <1>5, RequestStepInv DEF Begin

\* A request goes on in memory (find_by_id).
LEMMA ProgressIsJob ==
  ASSUME CaseInv, NEW j \in Job, NEW step \in {"row", "reports", "store"},
         NEW row \in CaseRow, NEW linked \in SUBSET Report
  PROVE  /\ Progress(j, step, row, linked) \in Job
         /\ Progress(j, step, row, linked).case = j.case
         /\ Progress(j, step, row, linked).row = row
  BY DEF Job, Progress

LEMMA ReadRowInv ==
  ASSUME CaseInv, NEW q \in Request, ReadRow(q)
  PROVE  CaseInv'
<1> DEFINE row == cases[job[q].case]
           new == IF row = NoCase THEN NoRequest
                                  ELSE Progress(job[q], "reports", row, {})
<1>1. job[q] # NoRequest /\ job[q] \in Job /\ job' = [job EXCEPT ![q] = new]
  BY DEF ReadRow, CaseInv, CaseTypeOK
<1>2. job[q].case \in Case /\ row \in CaseRow
  BY <1>1 DEF CaseInv, CaseTypeOK, Job
<1>3. /\ Progress(job[q], "reports", row, {}) \in Job
      /\ Progress(job[q], "reports", row, {}).case = job[q].case
      /\ Progress(job[q], "reports", row, {}).row = row
  BY <1>1, <1>2, ProgressIsJob
<1>4. CaseTypeOK'
  <2>1. job' \in [Request -> Job \cup {NoRequest}]
    BY <1>1, <1>3 DEF CaseInv, CaseTypeOK
  <2>2. QED
    BY <2>1 DEF ReadRow, CaseInv, CaseTypeOK
<1>5. row = NoCase \/ row.version # 0
  <2>1. row.version = 0 => row.status = "ABSENT"
    BY <1>2 DEF CaseInv, RowsExist
  <2>2. QED
    BY <1>2, <2>1 DEF CaseRow, NoCase
<1>6. \A p \in Request : job'[p] = IF p = q THEN new ELSE job[p]
  BY <1>1 DEF CaseInv, CaseTypeOK
<1>7. QED
  BY <1>1, <1>3, <1>4, <1>5, <1>6, RequestStepInv DEF ReadRow

LEMMA ReadReportsInv ==
  ASSUME CaseInv, NEW q \in Request, ReadReports(q)
  PROVE  CaseInv'
<1> DEFINE new == Progress(job[q], "store", job[q].row, ReportsOf(job[q].case))
<1>1. /\ job[q] # NoRequest /\ job[q] \in Job /\ job[q].step = "reports"
      /\ job' = [job EXCEPT ![q] = new]
  BY DEF ReadReports, CaseInv, CaseTypeOK
<1>2. job[q].row \in CaseRow /\ ReportsOf(job[q].case) \subseteq Report
  BY <1>1 DEF Job, ReportsOf
<1>3. new \in Job /\ new.case = job[q].case /\ new.row = job[q].row
  BY <1>1, <1>2, ProgressIsJob
<1>4. CaseTypeOK'
  <2>1. job' \in [Request -> Job \cup {NoRequest}]
    BY <1>1, <1>3 DEF CaseInv, CaseTypeOK
  <2>2. QED
    BY <2>1 DEF ReadReports, CaseInv, CaseTypeOK
<1>5. \A p \in Request : job'[p] = IF p = q THEN new ELSE job[p]
  BY <1>1 DEF CaseInv, CaseTypeOK
<1>6. QED
  BY <1>1, <1>3, <1>4, <1>5, RequestStepInv DEF ReadReports

\* A request ends without a store: refused, or failed at any step.
LEMMA EndInv ==
  ASSUME CaseInv, NEW q \in Request, Refuse(q) \/ Fail(q)
  PROVE  CaseInv'
<1>1. /\ job' = [job EXCEPT ![q] = NoRequest]
      /\ UNCHANGED <<reports, cases, case_reports, case_events, response>>
  BY DEF Refuse, Fail
<1>2. CaseTypeOK' /\ \A p \in Request : job'[p] = job[p] \/ job'[p] = NoRequest
  BY <1>1 DEF CaseInv, CaseTypeOK
<1>3. QED
  BY <1>1, <1>2, RequestStepInv

\* link_report and apply_review: one version up, so what others have loaded of
\* the case is an earlier row from now on.
LEMMA StoreInv ==
  ASSUME CaseInv, NEW q \in Request, Store(q)
  PROVE  CaseInv'
<1> USE DEF CaseInv
<1> DEFINE j == job[q]
           row == NewRow(j)
           entry == [case |-> j.case, version |-> row.version, entered |-> j.change]
           body == [case |-> j.case, status |-> row.status,
                    version |-> row.version, reports |-> NewReports(j)]
<1>1. /\ j \in Job /\ j.case \in Case /\ j.row = cases[j.case]
      /\ row \in CaseRow /\ row.version = cases[j.case].version + 1
      /\ row.status # "ABSENT" /\ cases[j.case].version \in Nat \ {0}
  BY StoreIsNext
<1>2. /\ cases' = [cases EXCEPT ![j.case] = row]
      /\ cases'[j.case] = row
      /\ \A d \in Case \ {j.case} : cases'[d] = cases[d]
  BY <1>1 DEF Store, CaseTypeOK
<1>3. /\ j.change = "LINK" => j.report \in Report
      /\ \/ UNCHANGED <<case_reports, reports>>
         \/ j.change = "LINK" /\ InsertLink(j.case, j.report)
  <2>1. j.change # "LINK" \/ j.report \in Report
    BY <1>1, CaseAssumption DEF Job
  <2>2. QED
    BY <2>1 DEF Store
<1>4. CaseTypeOK'
  <2>1. cases' \in [Case -> CaseRow]
    BY <1>1, <1>2 DEF CaseTypeOK
  <2>2. entry \in [case : Case, version : Nat, entered : Change]
    BY <1>1 DEF Job, CaseRow
  <2>3. case_events' = case_events \cup {entry}
    BY DEF Store
  <2>4. body \in Body
    <3>1. row.status \in CaseStatus /\ row.version \in Nat
      BY <1>1 DEF CaseRow
    <3>2. NewReports(j) \subseteq Report
      BY <1>1, <1>3 DEF NewReports, Job
    <3>3. QED
      BY <1>1, <3>1, <3>2 DEF Body
  <2>5. /\ response' = [response EXCEPT ![q] = body]
        /\ job' = [job EXCEPT ![q] = NoRequest]
    BY DEF Store
  <2>6. /\ response' \in [Request -> Body \cup {NoRequest}]
        /\ job' \in [Request -> Job \cup {NoRequest}]
    BY <2>4, <2>5 DEF CaseTypeOK
  <2>7. /\ reports' \in [Report -> {"RECEIVED", "UNDER_REVIEW", "LINKED_TO_CASE"}]
        /\ case_reports' \subseteq Case \X Report
    BY <1>1, <1>3 DEF InsertLink, CaseTypeOK
  <2>8. QED
    BY <2>1, <2>2, <2>3, <2>6, <2>7 DEF CaseTypeOK
<1>5. RowsExist'
  <2>1. \A d \in Case, s \in Report :
          <<d, s>> \in case_reports' => d = j.case \/ <<d, s>> \in case_reports
    BY <1>3 DEF InsertLink
  <2>2. QED
    BY <1>1, <1>2, <2>1 DEF RowsExist
<1>6. LoadedIsEarlier'
  <2>1. \A p \in Request : job'[p] = IF p = q THEN NoRequest ELSE job[p]
    BY DEF Store, CaseTypeOK
  <2>2. ASSUME NEW p \in Request, job'[p] # NoRequest, job'[p].step # "row"
        PROVE  LET now == cases'[job'[p].case] IN
               /\ job'[p].row.version # 0 /\ job'[p].row.version <= now.version
               /\ job'[p].row.version = now.version => job'[p].row = now
    <3>1. job'[p] = job[p] /\ job[p] \in Job
      BY <2>1, <2>2 DEF CaseTypeOK
    <3>2. job[p].row.version \in Nat /\ job[p].case \in Case
      BY <3>1 DEF Job, CaseRow
    <3>3. CASE job[p].case = j.case
      <4>1. job[p].row.version # 0 /\ job[p].row.version <= cases[j.case].version
        BY <2>2, <3>1, <3>3 DEF LoadedIsEarlier
      <4>2. QED
        BY <1>1, <1>2, <3>1, <3>2, <3>3, <4>1
    <3>4. CASE job[p].case # j.case
      BY <1>2, <2>2, <3>1, <3>2, <3>4 DEF LoadedIsEarlier
    <3>5. QED
      BY <3>3, <3>4
  <2>3. QED
    BY <2>2 DEF LoadedIsEarlier
<1>7. QED
  BY <1>4, <1>5, <1>6

\* Every step keeps the invariant.
LEMMA CaseStepInv == CaseInv /\ [CaseNext]_caseVars => CaseInv'
<1> SUFFICES ASSUME CaseInv, [CaseNext]_caseVars PROVE CaseInv'
  OBVIOUS
<1>1. CASE UNCHANGED caseVars
  BY <1>1 DEF caseVars, CaseInv, CaseTypeOK, RowsExist, LoadedIsEarlier
<1>2. CASE \E c \in Case, r \in Report : CreateCase(c, r)
  BY <1>2, CreateCaseInv
<1>3. CASE \E r \in Report : StartReportReview(r)
  BY <1>3, StartReportReviewInv
<1>4. ASSUME NEW q \in Request,
             \E c \in Case, change \in Change, r \in Report \cup {NoReport} :
               Begin(q, c, change, r)
      PROVE  CaseInv'
  BY <1>4, BeginInv
<1>5. ASSUME NEW q \in Request,
             ReadRow(q) \/ ReadReports(q) \/ Refuse(q) \/ Store(q) \/ Fail(q)
      PROVE  CaseInv'
  BY <1>5, ReadRowInv, ReadReportsInv, EndInv, StoreInv
<1>6. QED
  BY <1>1, <1>2, <1>3, <1>4, <1>5 DEF CaseNext

-----------------------------------------------------------------------------
(* The theorems. *)

\* The invariant holds in every reachable state of the workflow.
THEOREM CaseInvariant == CaseSpec => []CaseInv
<1>1. QED
  BY CaseInitInv, CaseStepInv, PTL DEF CaseSpec

\* Type correctness of the workflow.
THEOREM CaseTypeCorrect == CaseSpec => []CaseTypeOK
<1>1. CaseInv => CaseTypeOK
  BY DEF CaseInv
<1>2. QED
  BY <1>1, CaseInvariant, PTL

-----------------------------------------------------------------------------
(* The workflow implements CaseContract. *)

\* create_case opens a case with a report that is evidence for no other.
LEMMA CreateCaseOpens ==
  ASSUME CaseInv, NEW c \in Case, NEW r \in Report, CreateCase(c, r)
  PROVE  Contract!Open(c, r)
<1>1. cases[c] = NoCase /\ cases' = [cases EXCEPT ![c] = [status |-> "REPORTED", version |-> 1]]
  BY DEF CreateCase
<1>2. cases[c].status = "ABSENT" /\ cases[c].version = 0
  BY <1>1 DEF NoCase
<1>3. Contract!Free(r)
  BY DEF CreateCase, Linked, Contract!Free, ReportsOf
<1>4. [d \in Case |-> cases'[d].status] =
        [[d \in Case |-> cases[d].status] EXCEPT ![c] = "REPORTED"]
  BY <1>1 DEF CaseInv, CaseTypeOK
<1>5. ReportsOf(c) = {}
  BY <1>2 DEF ReportsOf, CaseInv, RowsExist
<1>6. case_reports' = case_reports \cup {<<c, r>>}
  BY DEF CreateCase, InsertLink
<1>7. ReportsOf(c)' = {r} /\ \A d \in Case \ {c} : ReportsOf(d)' = ReportsOf(d)
  BY <1>5, <1>6 DEF ReportsOf
<1>8. [d \in Case |-> ReportsOf(d)'] = [[d \in Case |-> ReportsOf(d)] EXCEPT ![c] = {r}]
  BY <1>7
<1>9. QED
  BY <1>2, <1>3, <1>4, <1>8 DEF Contract!Open

\* A store is one edge of the lifecycle, or one more report for the case.
LEMMA StoreMoves ==
  ASSUME CaseInv, NEW q \in Request, Store(q)
  PROVE  \E c \in Case : Contract!Move(c) \/ \E r \in Report : Contract!Attach(c, r)
<1> PICK c \in Case : c = job[q].case
  BY StoreIsNext
<1> DEFINE j == job[q]
           row == NewRow(job[q])
<1>1. /\ j \in Job /\ j.case = c /\ j.row = cases[c]
      /\ cases[c].version \in Nat \ {0}
  BY StoreIsNext
<1>2. /\ ~Refused(j)
      /\ cases' = [cases EXCEPT ![c] = row]
  BY DEF Store
<1>3. cases[c].status # "ABSENT"
  BY <1>1 DEF CaseInv, RowsExist
<1>4. [d \in Case |-> cases'[d].status] =
        [[d \in Case |-> cases[d].status] EXCEPT ![c] = row.status]
  BY <1>1, <1>2 DEF CaseInv, CaseTypeOK
<1>5. CASE j.change = "LINK"
  <2>1. j.report \in Report
    BY <1>1, <1>5, CaseAssumption DEF Job
  <2>2. Contract!Free(j.report)
    BY <1>2, <1>5 DEF Refused, Linked, Contract!Free, ReportsOf
  <2>3. row.status = cases[c].status
    BY <1>1, <1>5 DEF NewRow
  <2>4. [d \in Case |-> cases'[d].status] = [d \in Case |-> cases[d].status]
    BY <1>2, <1>1, <2>3 DEF CaseInv, CaseTypeOK
  <2>5. case_reports' = case_reports \cup {<<c, j.report>>}
    BY <1>5 DEF Store, InsertLink
  <2>6. /\ ReportsOf(c)' = ReportsOf(c) \cup {j.report}
        /\ \A d \in Case \ {c} : ReportsOf(d)' = ReportsOf(d)
    BY <2>1, <2>5 DEF ReportsOf
  <2>7. [d \in Case |-> ReportsOf(d)'] =
          [[d \in Case |-> ReportsOf(d)] EXCEPT ![c] = ReportsOf(c) \cup {j.report}]
    BY <2>6
  <2>8. Contract!Attach(c, j.report)
    BY <1>1, <1>3, <2>2, <2>4, <2>7 DEF Contract!Attach
  <2>9. QED
    BY <2>1, <2>8
<1>6. CASE j.change # "LINK"
  <2>1. row.status = j.change
    BY <1>6 DEF NewRow
  <2>2. <<cases[c].status, j.change>> \in Contract!Edges
    BY <1>1, <1>2, <1>6 DEF Refused, Legal, IsAllowed, Contract!Edges
  <2>3. case_reports' = case_reports
    BY <1>6 DEF Store
  <2>4. [d \in Case |-> ReportsOf(d)'] = [d \in Case |-> ReportsOf(d)]
    BY <2>3 DEF ReportsOf
  <2>5. Contract!Move(c)
    <3> DEFINE edge == <<cases[c].status, j.change>>
    <3>1. edge \in Contract!Edges /\ edge[1] = cases[c].status /\ edge[2] = j.change
      BY <2>2
    <3>2. QED
      BY <1>1, <1>4, <2>1, <2>4, <3>1 DEF Contract!Move
  <2>6. QED
    BY <2>5
<1>7. QED
  BY <1>5, <1>6

\* Every step of the workflow is a step of the contract or leaves its variables
\* alone.
LEMMA CaseStepMaps ==
  CaseInv /\ [CaseNext]_caseVars => [Contract!Next]_(Contract!vars)
<1> SUFFICES ASSUME CaseInv, [CaseNext]_caseVars
             PROVE  Contract!Next \/ UNCHANGED Contract!vars
  OBVIOUS
<1>1. ASSUME UNCHANGED <<cases, case_reports>> PROVE UNCHANGED Contract!vars
  BY <1>1 DEF Contract!vars, ReportsOf
<1>2. CASE UNCHANGED caseVars
  BY <1>1, <1>2 DEF caseVars
<1>3. CASE \E c \in Case, r \in Report : CreateCase(c, r)
  BY <1>3, CreateCaseOpens DEF Contract!Next
<1>4. CASE \E q \in Request : Store(q)
  <2>1. PICK c \in Case : Contract!Move(c) \/ \E r \in Report : Contract!Attach(c, r)
    BY <1>4, StoreMoves
  <2>2. QED
    BY <2>1 DEF Contract!Next
<1>5. CASE \E r \in Report : StartReportReview(r)
  BY <1>1, <1>5 DEF StartReportReview
<1>6. CASE \E q \in Request, c \in Case, change \in Change, r \in Report \cup {NoReport} :
             Begin(q, c, change, r)
  BY <1>1, <1>6 DEF Begin
<1>7. CASE \E q \in Request : ReadRow(q) \/ ReadReports(q) \/ Refuse(q) \/ Fail(q)
  BY <1>1, <1>7 DEF ReadRow, ReadReports, Refuse, Fail
<1>8. QED
  BY <1>2, <1>3, <1>4, <1>5, <1>6, <1>7 DEF CaseNext

\* The initial states map to initial states, and every step to a step or a
\* stutter: cases stay on the lifecycle whatever requests race.
THEOREM CaseRefinement == CaseSpec => ImplementsContract
<1>1. CaseInit => Contract!Init
  BY DEF CaseInit, Contract!Init, NoCase, ReportsOf
<1>2. QED
  BY <1>1, CaseInvariant, CaseStepMaps, PTL DEF CaseSpec, ImplementsContract, Contract!Spec


-----------------------------------------------------------------------------
(* The history of a case. *)

MovesOf(E) == {e \in E : e.entered # "LINK"}
Earlier(E, e) == {f \in MovesOf(E) : f.version < e.version}
NewestOf(S) == CHOOSE f \in S : \A g \in S : g.version <= f.version

\* The events E of a case with the given status and version are its history.
Path(E, status, version) ==
  /\ {e.version : e \in E} = 1..version
  /\ \A e, f \in E : e.version = f.version => e = f
  /\ MovesOf(E) # {} => NewestOf(MovesOf(E)).entered = status
  /\ \A e \in MovesOf(E) : IF Earlier(E, e) = {}
                             THEN e.entered = "REPORTED"
                             ELSE IsAllowed(NewestOf(Earlier(E, e)).entered, e.entered)

\* A history goes on by an event of the next version that links a report or enters a
\* status along an edge.
LEMMA PathGrows ==
  ASSUME NEW E, NEW status, NEW version \in Nat, Path(E, status, version),
         NEW n, n.version = version + 1,
         NEW next,
         \/ n.entered = "LINK" /\ next = status
         \/ /\ n.entered # "LINK" /\ n.entered = next
            /\ IF MovesOf(E) = {} THEN next = "REPORTED" ELSE IsAllowed(status, next)
  PROVE  Path(E \cup {n}, next, version + 1)
<1> DEFINE F == E \cup {n}
<1>1. \A e \in E : e.version \in 1..version
  BY DEF Path
<1>2. \A e \in E : e.version \in Nat /\ e.version < n.version
  BY <1>1
<1>3. {e.version : e \in F} = 1..(version + 1)
  <2>1. {e.version : e \in F} = (1..version) \cup {version + 1}
    BY DEF Path
  <2>2. (1..version) \cup {version + 1} = 1..(version + 1)
    OBVIOUS
  <2> QED  BY <2>1, <2>2
<1>4. \A e, f \in F : e.version = f.version => e = f
  BY <1>2 DEF Path
<1>5. \A e \in E : Earlier(F, e) = Earlier(E, e)
  BY <1>2 DEF Earlier, MovesOf
<1>6. CASE n.entered = "LINK" /\ next = status
  <2>1. MovesOf(F) = MovesOf(E)  BY <1>6 DEF MovesOf
  <2>2. \A e \in MovesOf(F) : Earlier(F, e) = Earlier(E, e)
    BY <1>5, <2>1 DEF MovesOf
  <2> QED  BY <1>3, <1>4, <1>6, <2>1, <2>2 DEF Path
<1>7. CASE /\ n.entered # "LINK" /\ n.entered = next
           /\ IF MovesOf(E) = {} THEN next = "REPORTED" ELSE IsAllowed(status, next)
  <2>1. MovesOf(F) = MovesOf(E) \cup {n}  BY <1>7 DEF MovesOf
  <2>2. NewestOf(MovesOf(F)) = n
    <3>1. n \in MovesOf(F) /\ \A g \in MovesOf(F) : g.version <= n.version
      BY <1>2, <2>1 DEF MovesOf
    <3>2. ASSUME NEW f \in MovesOf(F), \A g \in MovesOf(F) : g.version <= f.version
          PROVE  f = n
      BY <1>2, <2>1, <3>1, <3>2 DEF MovesOf
    <3> QED  BY <3>1, <3>2 DEF NewestOf
  <2>3. Earlier(F, n) = MovesOf(E)
    BY <1>2, <2>1 DEF Earlier, MovesOf
  <2>4. IF Earlier(F, n) = {} THEN n.entered = "REPORTED"
                              ELSE IsAllowed(NewestOf(Earlier(F, n)).entered, n.entered)
    BY <1>7, <2>3 DEF Path
  <2>5. ASSUME NEW e \in MovesOf(F), e # n
        PROVE  IF Earlier(F, e) = {} THEN e.entered = "REPORTED"
                                     ELSE IsAllowed(NewestOf(Earlier(F, e)).entered, e.entered)
    <3>1. e \in MovesOf(E) /\ e \in E  BY <2>1, <2>5 DEF MovesOf
    <3>2. Earlier(F, e) = Earlier(E, e)  BY <1>5, <3>1
    <3> QED  BY <3>1, <3>2 DEF Path
  <2> QED  BY <1>3, <1>4, <1>7, <2>2, <2>4, <2>5 DEF Path
<1> QED  BY <1>6, <1>7

\* Only a new case and a store change the tables of cases.
LEMMA CaseTablesChange ==
  ASSUME [CaseNext]_caseVars
  PROVE  \/ /\ UNCHANGED <<cases, case_events, case_reports>>
            /\ UNCHANGED reports \/ \E r \in Report : StartReportReview(r)
         \/ \E c \in Case, r \in Report : CreateCase(c, r)
         \/ \E q \in Request : Store(q)
<1>1. ASSUME NEW r \in Report, StartReportReview(r)
      PROVE  UNCHANGED <<cases, case_events, case_reports>>
  BY <1>1 DEF StartReportReview
<1>2. ASSUME NEW q \in Request,
             \/ \E c \in Case, change \in Change, r \in Report \cup {NoReport} :
                  Begin(q, c, change, r)
             \/ ReadRow(q) \/ ReadReports(q) \/ Refuse(q) \/ Fail(q)
      PROVE  UNCHANGED <<cases, case_events, case_reports, reports>>
  BY <1>2 DEF Begin, ReadRow, ReadReports, Refuse, Fail
<1> QED  BY <1>1, <1>2 DEF CaseNext, caseVars

\* Every case has its history, which begins with a status.
HistoriesKept ==
  \A c \in Case :
    /\ Path(EventsOf(c), cases[c].status, cases[c].version)
    /\ cases[c].version # 0 => MovesOf(EventsOf(c)) # {}

\* The first event of a case.
LEMMA CreateCasePath ==
  ASSUME CaseInv, HistoriesKept, NEW c \in Case, NEW r \in Report, CreateCase(c, r)
  PROVE  HistoriesKept'
<1> DEFINE n == [case |-> c, version |-> 1, entered |-> "REPORTED"]
<1>1. cases[c].version = 0 /\ cases[c].status = "ABSENT"
  BY DEF CreateCase, NoCase
<1>2. case_events' = case_events \cup {n}
  BY DEF CreateCase
<1>3. cases'[c] = [status |-> "REPORTED", version |-> 1]
      /\ \A d \in Case : d # c => cases'[d] = cases[d]
  BY DEF CreateCase, CaseInv, CaseTypeOK
<1>4. EventsOf(c)' = EventsOf(c) \cup {n} /\ \A d \in Case : d # c => EventsOf(d)' = EventsOf(d)
  BY <1>2 DEF EventsOf
<1>5. EventsOf(c) = {}
  <2>1. {e.version : e \in EventsOf(c)} = 1..0  BY <1>1 DEF HistoriesKept, Path
  <2>2. 1..0 = {}  OBVIOUS
  <2> QED  BY <2>1, <2>2
<1>6. MovesOf(EventsOf(c)) = {}  BY <1>5 DEF MovesOf
<1>7. Path(EventsOf(c), "ABSENT", 0)  BY <1>1 DEF HistoriesKept
<1>8. n.version = 0 + 1 /\ n.entered = "REPORTED" /\ n.entered # "LINK"
  OBVIOUS
<1>9. Path(EventsOf(c) \cup {n}, "REPORTED", 0 + 1)
  <2> HIDE DEF n
  <2> QED  BY <1>6, <1>7, <1>8, PathGrows
<1>10. MovesOf(EventsOf(c)') # {}
  BY <1>4, <1>8 DEF MovesOf
<1>11. ASSUME NEW d \in Case
       PROVE  /\ Path(EventsOf(d)', cases'[d].status, cases'[d].version)
              /\ cases'[d].version # 0 => MovesOf(EventsOf(d)') # {}
  <2>1. CASE d = c
    BY <1>3, <1>4, <1>9, <1>10, <2>1
  <2>2. CASE d # c
    BY <1>3, <1>4, <2>2 DEF HistoriesKept
  <2> QED  BY <2>1, <2>2
<1> QED
  BY <1>11 DEF HistoriesKept, Path, MovesOf, Earlier, NewestOf

\* An event that a request stores.
LEMMA StorePath ==
  ASSUME CaseInv, HistoriesKept, NEW q \in Request, Store(q)
  PROVE  HistoriesKept'
<1> PICK c \in Case : c = job[q].case
  BY StoreIsNext
<1> PICK j \in Job : j = job[q]
  BY StoreIsNext
<1> PICK row \in CaseRow : row = NewRow(j)
  BY StoreIsNext
<1> DEFINE n == [case |-> c, version |-> row.version, entered |-> j.change]
<1>1. /\ j \in Job /\ c \in Case /\ j.row = cases[c]
      /\ row.version = cases[c].version + 1
      /\ cases[c].version \in Nat \ {0}
  BY StoreIsNext
<1>2. /\ cases' = [cases EXCEPT ![c] = row]
      /\ case_events' = case_events \cup {n}
      /\ Legal(j)
  BY DEF Store, Refused
<1>3. row.status = IF j.change = "LINK" THEN cases[c].status ELSE j.change
  BY <1>1 DEF NewRow
<1>4. cases'[c] = row /\ \A d \in Case : d # c => cases'[d] = cases[d]
  BY <1>1, <1>2 DEF CaseInv, CaseTypeOK
<1>5. n.case = c /\ n.version = cases[c].version + 1 /\ n.entered = j.change
  BY <1>1
<1> HIDE DEF n
<1>6. EventsOf(c)' = EventsOf(c) \cup {n} /\ \A d \in Case : d # c => EventsOf(d)' = EventsOf(d)
  BY <1>2, <1>5 DEF EventsOf
<1>7. Path(EventsOf(c), cases[c].status, cases[c].version) /\ MovesOf(EventsOf(c)) # {}
  BY <1>1 DEF HistoriesKept
<1>8. j.change # "LINK" => IsAllowed(cases[c].status, j.change)
  BY <1>1, <1>2 DEF Legal
<1>9. Path(EventsOf(c) \cup {n}, row.status, cases[c].version + 1)
  <2>1. CASE j.change = "LINK"
    BY <1>1, <1>3, <1>5, <1>7, <2>1, PathGrows
  <2>2. CASE j.change # "LINK"
    BY <1>1, <1>3, <1>5, <1>7, <1>8, <2>2, PathGrows
  <2> QED  BY <2>1, <2>2
<1>10. MovesOf(EventsOf(c)') # {}
  BY <1>6, <1>7 DEF MovesOf
<1>11. ASSUME NEW d \in Case
       PROVE  /\ Path(EventsOf(d)', cases'[d].status, cases'[d].version)
              /\ cases'[d].version # 0 => MovesOf(EventsOf(d)') # {}
  <2>1. CASE d = c
    BY <1>1, <1>4, <1>6, <1>9, <1>10, <2>1
  <2>2. CASE d # c
    BY <1>4, <1>6, <2>2 DEF HistoriesKept
  <2> QED  BY <2>1, <2>2
<1> QED
  BY <1>11 DEF HistoriesKept, Path, MovesOf, Earlier, NewestOf

\* Nothing has happened to a case at the start.
LEMMA HistoriesBegin == CaseInit => HistoriesKept
<1> SUFFICES ASSUME CaseInit, NEW c \in Case
             PROVE  /\ Path(EventsOf(c), cases[c].status, cases[c].version)
                    /\ cases[c].version # 0 => MovesOf(EventsOf(c)) # {}
  BY DEF HistoriesKept
<1>1. EventsOf(c) = {} /\ cases[c].version = 0  BY DEF CaseInit, EventsOf, NoCase
<1>2. MovesOf({}) = {} /\ 1..0 = {}  BY DEF MovesOf
<1> QED  BY <1>1, <1>2 DEF Path

\* Every step keeps the histories.
LEMMA HistoriesStay ==
  ASSUME CaseInv, HistoriesKept, [CaseNext]_caseVars
  PROVE  HistoriesKept'
<1>1. CASE UNCHANGED <<cases, case_events, case_reports>>
  BY <1>1 DEF HistoriesKept, EventsOf
<1> QED  BY <1>1, CreateCasePath, StorePath, CaseTablesChange

\* The events of a case are its whole history, whatever requests race (advance_case_version).
THEOREM CaseHistory == CaseSpec => []HistoryIsPath
<1> DEFINE Inv == CaseInv /\ HistoriesKept
<1>1. CaseInit => Inv
  BY CaseInitInv, HistoriesBegin
<1>2. Inv /\ [CaseNext]_caseVars => Inv'
  BY CaseStepInv, HistoriesStay
<1>3. Inv => HistoryIsPath
  BY DEF HistoriesKept, HistoryIsPath, Path, MovesOf, Earlier, NewestOf
<1> QED  BY <1>1, <1>2, <1>3, PTL DEF CaseSpec

-----------------------------------------------------------------------------
(* Links. *)

LinkEvents(c) == {e \in EventsOf(c) : e.entered = "LINK"}

\* A report's status and its one link.
StatusFollowsLink ==
  /\ \A r \in Report :
       reports[r] = "LINKED_TO_CASE" <=> \E c \in Case : <<c, r>> \in case_reports
  /\ \A c, d \in Case, r \in Report :
       <<c, r>> \in case_reports /\ <<d, r>> \in case_reports => c = d

\* The reports of a case and the events that linked them.
LinksCounted ==
  \A c \in Case :
    /\ IsFiniteSet(ReportsOf(c)) /\ IsFiniteSet(LinkEvents(c))
    /\ cases[c].version # 0 => Cardinality(ReportsOf(c)) = 1 + Cardinality(LinkEvents(c))

LinksKept == StatusFollowsLink /\ LinksCounted

\* insert_case_report_link with the unique index on reports.
LEMMA LinkInserted ==
  ASSUME CaseTypeOK, StatusFollowsLink, NEW c \in Case, NEW r \in Report,
         ~ Linked(c, r), InsertLink(c, r)
  PROVE  /\ StatusFollowsLink'
         /\ r \notin ReportsOf(c) /\ ReportsOf(c)' = ReportsOf(c) \cup {r}
         /\ \A d \in Case : d # c => ReportsOf(d)' = ReportsOf(d)
<1>1. case_reports' = case_reports \cup {<<c, r>>}
  BY DEF InsertLink
<1>2. reports'[r] = "LINKED_TO_CASE" /\ \A s \in Report : s # r => reports'[s] = reports[s]
  BY DEF InsertLink, CaseTypeOK
<1>3. \A d \in Case : <<d, r>> \notin case_reports
  BY DEF Linked
<1>4. StatusFollowsLink'
  BY <1>1, <1>2, <1>3 DEF StatusFollowsLink
<1>5. r \notin ReportsOf(c) /\ ReportsOf(c)' = ReportsOf(c) \cup {r}
  BY <1>1, <1>3 DEF ReportsOf
<1>6. \A d \in Case : d # c => ReportsOf(d)' = ReportsOf(d)
  BY <1>1 DEF ReportsOf
<1> QED  BY <1>4, <1>5, <1>6

\* The first link of a case is made with the case.
LEMMA CreateCaseLinks ==
  ASSUME CaseInv, HistoriesKept, LinksKept, NEW c \in Case, NEW r \in Report,
         CreateCase(c, r)
  PROVE  LinksKept'
<1>1. cases[c].version = 0 /\ ~ Linked(c, r) /\ InsertLink(c, r)
  BY DEF CreateCase, NoCase
<1>2. /\ StatusFollowsLink'
      /\ ReportsOf(c)' = ReportsOf(c) \cup {r}
      /\ \A d \in Case : d # c => ReportsOf(d)' = ReportsOf(d)
  BY <1>1, LinkInserted DEF CaseInv, LinksKept
<1>3. ReportsOf(c) = {}
  BY <1>1 DEF ReportsOf, CaseInv, RowsExist
<1>4. \A d \in Case : LinkEvents(d)' = LinkEvents(d)
  BY DEF CreateCase, LinkEvents, EventsOf
<1>5. LinkEvents(c) = {}
  <2>1. {e.version : e \in EventsOf(c)} = 1..0  BY <1>1 DEF HistoriesKept, Path
  <2>2. 1..0 = {}  OBVIOUS
  <2> QED  BY <2>1, <2>2 DEF LinkEvents
<1>6. \A d \in Case : d # c => cases'[d] = cases[d]
  BY DEF CreateCase, CaseInv, CaseTypeOK
<1>7. ASSUME NEW d \in Case
      PROVE  /\ IsFiniteSet(ReportsOf(d)') /\ IsFiniteSet(LinkEvents(d)')
             /\ cases'[d].version # 0 =>
                  Cardinality(ReportsOf(d)') = 1 + Cardinality(LinkEvents(d)')
  <2>1. CASE d = c
    <3>1. ReportsOf(d)' = {r} /\ LinkEvents(d)' = {}  BY <1>2, <1>3, <1>4, <1>5, <2>1
    <3>2. IsFiniteSet({r}) /\ Cardinality({r}) = 1  BY FS_Singleton
    <3>3. IsFiniteSet({}) /\ Cardinality({}) = 0  BY FS_EmptySet
    <3> QED  BY <3>1, <3>2, <3>3
  <2>2. CASE d # c
    BY <1>2, <1>4, <1>6, <2>2 DEF LinksKept, LinksCounted
  <2> QED  BY <2>1, <2>2
<1> QED  BY <1>2, <1>7 DEF LinksKept, LinksCounted, ReportsOf, LinkEvents, EventsOf

\* A later link comes with its event, a change of status with neither.
LEMMA StoreLinks ==
  ASSUME CaseInv, HistoriesKept, LinksKept, NEW q \in Request, Store(q)
  PROVE  LinksKept'
<1> PICK c \in Case : c = job[q].case
  BY StoreIsNext
<1> PICK j \in Job : j = job[q]
  BY StoreIsNext
<1> PICK row \in CaseRow : row = NewRow(j)
  BY StoreIsNext
<1> DEFINE n == [case |-> c, version |-> row.version, entered |-> j.change]
<1>1. /\ row.version = cases[c].version + 1
      /\ cases[c].version \in Nat \ {0}
  BY StoreIsNext
<1>2. /\ cases' = [cases EXCEPT ![c] = row]
      /\ case_events' = case_events \cup {n}
      /\ ~ Refused(j)
  BY DEF Store
<1>3. \A d \in Case : d # c => cases'[d] = cases[d]
  BY <1>2 DEF CaseInv, CaseTypeOK
<1>4. n.case = c /\ n.version = cases[c].version + 1 /\ n.entered = j.change
  BY <1>1
<1> HIDE DEF n
<1>5. n \notin EventsOf(c)
  <2>1. {e.version : e \in EventsOf(c)} = 1..cases[c].version  BY DEF HistoriesKept, Path
  <2>2. n.version \notin 1..cases[c].version  BY <1>1, <1>4
  <2> QED  BY <2>1, <2>2
<1>6. \A d \in Case : d # c => LinkEvents(d)' = LinkEvents(d)
  BY <1>2, <1>4 DEF LinkEvents, EventsOf
<1>7. CASE j.change = "LINK"
  <2> PICK r \in Report : r = j.report
    BY <1>7 DEF Job
  <2>1. ~ Linked(c, r)  BY <1>2, <1>7 DEF Refused, Linked
  <2>2. InsertLink(c, r)  BY <1>7 DEF Store
  <2>3. /\ StatusFollowsLink'
        /\ r \notin ReportsOf(c) /\ ReportsOf(c)' = ReportsOf(c) \cup {r}
        /\ \A d \in Case : d # c => ReportsOf(d)' = ReportsOf(d)
    BY <2>1, <2>2, LinkInserted DEF CaseInv, LinksKept
  <2>4. LinkEvents(c)' = LinkEvents(c) \cup {n} /\ n \notin LinkEvents(c)
    BY <1>2, <1>4, <1>5, <1>7 DEF LinkEvents, EventsOf
  <2>5. /\ IsFiniteSet(ReportsOf(c)) /\ IsFiniteSet(LinkEvents(c))
        /\ Cardinality(ReportsOf(c)) = 1 + Cardinality(LinkEvents(c))
    BY <1>1 DEF LinksKept, LinksCounted
  <2>6. /\ IsFiniteSet(ReportsOf(c) \cup {r})
        /\ Cardinality(ReportsOf(c) \cup {r}) = Cardinality(ReportsOf(c)) + 1
    BY <2>3, <2>5, FS_AddElement
  <2>7. /\ IsFiniteSet(LinkEvents(c) \cup {n})
        /\ Cardinality(LinkEvents(c) \cup {n}) = Cardinality(LinkEvents(c)) + 1
    BY <2>4, <2>5, FS_AddElement
  <2>8. Cardinality(LinkEvents(c)) \in Nat
    BY <2>5, FS_CardinalityType
  <2>9. ASSUME NEW d \in Case
        PROVE  /\ IsFiniteSet(ReportsOf(d)') /\ IsFiniteSet(LinkEvents(d)')
               /\ cases'[d].version # 0 =>
                    Cardinality(ReportsOf(d)') = 1 + Cardinality(LinkEvents(d)')
    <3>1. CASE d = c
      <4>1. ReportsOf(d)' = ReportsOf(c) \cup {r} /\ LinkEvents(d)' = LinkEvents(c) \cup {n}
        BY <2>3, <2>4, <3>1
      <4>2. Cardinality(ReportsOf(c) \cup {r}) = 1 + Cardinality(LinkEvents(c) \cup {n})
        BY <2>5, <2>6, <2>7, <2>8
      <4> QED  BY <2>6, <2>7, <4>1, <4>2
    <3>2. CASE d # c
      BY <1>3, <1>6, <2>3, <3>2 DEF LinksKept, LinksCounted
    <3> QED  BY <3>1, <3>2
  <2> QED  BY <2>3, <2>9 DEF LinksKept, LinksCounted, ReportsOf, LinkEvents, EventsOf
<1>8. CASE j.change # "LINK"
  <2>1. UNCHANGED <<case_reports, reports>>  BY <1>8 DEF Store
  <2>2. \A d \in Case : LinkEvents(d)' = LinkEvents(d)
    BY <1>2, <1>4, <1>8 DEF LinkEvents, EventsOf
  <2>3. ASSUME NEW d \in Case
        PROVE  /\ IsFiniteSet(ReportsOf(d)') /\ IsFiniteSet(LinkEvents(d)')
               /\ cases'[d].version # 0 =>
                    Cardinality(ReportsOf(d)') = 1 + Cardinality(LinkEvents(d)')
    <3>1. ReportsOf(d)' = ReportsOf(d)  BY <2>1 DEF ReportsOf
    <3>2. cases[d].version # 0 \/ d # c  BY <1>1
    <3> QED  BY <1>1, <1>3, <2>2, <3>1, <3>2 DEF LinksKept, LinksCounted
  <2> QED
    BY <2>1, <2>3 DEF LinksKept, StatusFollowsLink, LinksCounted, ReportsOf, LinkEvents, EventsOf
<1> QED  BY <1>7, <1>8

\* Nothing is linked at the start.
LEMMA LinksBegin == CaseInit => LinksKept
<1> SUFFICES ASSUME CaseInit PROVE LinksKept
  OBVIOUS
<1>1. \A c \in Case : ReportsOf(c) = {} /\ LinkEvents(c) = {} /\ cases[c].version = 0
  BY DEF CaseInit, ReportsOf, LinkEvents, EventsOf, NoCase
<1>2. LinksCounted  BY <1>1, FS_EmptySet DEF LinksCounted
<1>3. StatusFollowsLink  BY DEF CaseInit, StatusFollowsLink
<1> QED  BY <1>2, <1>3 DEF LinksKept

\* Every step keeps the links.
LEMMA LinksStay ==
  ASSUME CaseInv, HistoriesKept, LinksKept, [CaseNext]_caseVars
  PROVE  LinksKept'
<1>1. ASSUME UNCHANGED <<cases, case_events, case_reports>>
      PROVE  LinksCounted' /\ (UNCHANGED reports => StatusFollowsLink')
  BY <1>1 DEF LinksKept, LinksCounted, StatusFollowsLink, ReportsOf, LinkEvents, EventsOf
<1>2. ASSUME UNCHANGED <<cases, case_events, case_reports>>,
             NEW r \in Report, StartReportReview(r)
      PROVE  StatusFollowsLink'
  <2>1. \A s \in Report : reports'[s] = "LINKED_TO_CASE" <=> reports[s] = "LINKED_TO_CASE"
    BY <1>2 DEF StartReportReview, CaseInv, CaseTypeOK
  <2> QED  BY <1>2, <2>1 DEF LinksKept, StatusFollowsLink
<1> QED  BY <1>1, <1>2, CreateCaseLinks, StoreLinks, CaseTablesChange DEF LinksKept

\* A report is evidence for one case exactly while it is LINKED_TO_CASE, and every link but
\* the first is an event (create, link_report, mark_under_review).
THEOREM CaseLinks == CaseSpec => []LinksAgree
<1> DEFINE Inv == CaseInv /\ HistoriesKept /\ LinksKept
<1>1. CaseInit => Inv
  BY CaseInitInv, HistoriesBegin, LinksBegin
<1>2. Inv /\ [CaseNext]_caseVars => Inv'
  BY CaseStepInv, HistoriesStay, LinksStay
<1>3. Inv => LinksAgree
  <2> SUFFICES ASSUME Inv PROVE LinksAgree
    OBVIOUS
  <2>1. \A p, s \in case_reports : p[2] = s[2] => p = s
    BY DEF LinksKept, StatusFollowsLink, CaseInv, CaseTypeOK
  <2>2. ASSUME NEW c \in Case, cases[c] # NoCase
        PROVE  cases[c].version # 0
    <3>1. cases[c] \in CaseRow  BY DEF CaseInv, CaseTypeOK
    <3>2. cases[c].version = 0 => cases[c].status = "ABSENT"  BY DEF CaseInv, RowsExist
    <3> QED  BY <2>2, <3>1, <3>2 DEF CaseRow, NoCase
  <2> QED
    BY <2>1, <2>2 DEF LinksAgree, LinksKept, StatusFollowsLink, LinksCounted, LinkEvents
<1> QED  BY <1>1, <1>2, <1>3, PTL DEF CaseSpec

-----------------------------------------------------------------------------
(* Answers. *)

\* One case in one step: it stays as it is, or has one event and one version more.
LEMMA CaseMoves ==
  ASSUME CaseInv, [CaseNext]_caseVars, NEW c \in Case
  PROVE  \/ /\ cases'[c] = cases[c]
            /\ EventsOf(c)' = EventsOf(c) /\ ReportsOf(c)' = ReportsOf(c)
         \/ \E n :
              /\ EventsOf(c)' = EventsOf(c) \cup {n}
              /\ n.version = cases[c].version + 1 /\ cases'[c].version = n.version
              /\ \/ n.entered = "LINK" /\ cases'[c].status = cases[c].status
                    /\ cases[c].version # 0
                 \/ n.entered # "LINK" /\ cases'[c].status = n.entered
<1>1. CASE UNCHANGED <<cases, case_events, case_reports>>
  BY <1>1 DEF EventsOf, ReportsOf
<1>2. ASSUME NEW d \in Case, NEW r \in Report, CreateCase(d, r)
      PROVE  \/ /\ cases'[c] = cases[c]
                /\ EventsOf(c)' = EventsOf(c) /\ ReportsOf(c)' = ReportsOf(c)
             \/ \E n :
                  /\ EventsOf(c)' = EventsOf(c) \cup {n}
                  /\ n.version = cases[c].version + 1 /\ cases'[c].version = n.version
                  /\ n.entered # "LINK" /\ cases'[c].status = n.entered
  <2> DEFINE n == [case |-> d, version |-> 1, entered |-> "REPORTED"]
  <2>1. n.case = d /\ n.version = 1 /\ n.entered = "REPORTED"  OBVIOUS
  <2>2. /\ case_events' = case_events \cup {n} /\ case_reports' = case_reports \cup {<<d, r>>}
        /\ cases' = [cases EXCEPT ![d] = [status |-> "REPORTED", version |-> 1]]
        /\ cases[d] = NoCase
    BY <1>2 DEF CreateCase, InsertLink
  <2> HIDE DEF n
  <2>3. CASE d = c
    <3>1. cases'[c] = [status |-> "REPORTED", version |-> 1] /\ cases[c].version = 0
      BY <2>2, <2>3 DEF CaseInv, CaseTypeOK, NoCase
    <3>2. EventsOf(c)' = EventsOf(c) \cup {n}  BY <2>1, <2>2, <2>3 DEF EventsOf
    <3> QED  BY <2>1, <3>1, <3>2
  <2>4. CASE d # c
    BY <2>1, <2>2, <2>4 DEF EventsOf, ReportsOf, CaseInv, CaseTypeOK
  <2> QED  BY <2>3, <2>4
<1>3. ASSUME NEW q \in Request, Store(q)
      PROVE  \/ /\ cases'[c] = cases[c]
                /\ EventsOf(c)' = EventsOf(c) /\ ReportsOf(c)' = ReportsOf(c)
             \/ \E n :
                  /\ EventsOf(c)' = EventsOf(c) \cup {n}
                  /\ n.version = cases[c].version + 1 /\ cases'[c].version = n.version
                  /\ \/ n.entered = "LINK" /\ cases'[c].status = cases[c].status
                        /\ cases[c].version # 0
                     \/ n.entered # "LINK" /\ cases'[c].status = n.entered
  <2> PICK d \in Case : d = job[q].case
    BY <1>3, StoreIsNext
  <2> PICK j \in Job : j = job[q]
    BY <1>3, StoreIsNext
  <2> PICK row \in CaseRow : row = NewRow(j)
    BY <1>3, StoreIsNext
  <2> DEFINE n == [case |-> d, version |-> row.version, entered |-> j.change]
  <2>1. n.case = d /\ n.version = row.version /\ n.entered = j.change  OBVIOUS
  <2>2. row.version = cases[d].version + 1 /\ cases[d].version # 0 /\ j.row = cases[d]
    BY <1>3, StoreIsNext
  <2>3. /\ cases' = [cases EXCEPT ![d] = row] /\ case_events' = case_events \cup {n}
        /\ \/ case_reports' = case_reports
           \/ case_reports' = case_reports \cup {<<d, j.report>>}
    BY <1>3 DEF Store, InsertLink
  <2>4. row.status = IF j.change = "LINK" THEN cases[d].status ELSE j.change
    BY <2>2 DEF NewRow
  <2> HIDE DEF n
  <2>5. CASE d = c
    <3>1. cases'[c] = row  BY <2>3, <2>5 DEF CaseInv, CaseTypeOK
    <3>2. EventsOf(c)' = EventsOf(c) \cup {n}  BY <2>1, <2>3, <2>5 DEF EventsOf
    <3> QED  BY <2>1, <2>2, <2>4, <2>5, <3>1, <3>2
  <2>6. CASE d # c
    BY <2>1, <2>3, <2>6 DEF EventsOf, ReportsOf, CaseInv, CaseTypeOK
  <2> QED  BY <2>5, <2>6
<1> QED  BY <1>1, <1>2, <1>3, CaseTablesChange

\* The events E lead through the version and the status of a row.
Told(E, row) ==
  LET moves == {f \in E : f.entered # "LINK" /\ f.version <= row.version} IN
  /\ 1..row.version \subseteq {f.version : f \in E}
  /\ \E f \in moves : f.entered = row.status /\ \A g \in moves : g.version <= f.version

\* Those of a case lead through its present row.
HistoriesTold == \A c \in Case : cases[c].version # 0 => Told(EventsOf(c), cases[c])

\* An event beyond a row changes nothing of what leads to it.
LEMMA ToldStays ==
  ASSUME NEW E, NEW row, row.version \in Nat, Told(E, row),
         NEW n, n.version \in Nat, n.version > row.version
  PROVE  Told(E \cup {n}, row)
<1>1. {f \in E \cup {n} : f.entered # "LINK" /\ f.version <= row.version}
        = {f \in E : f.entered # "LINK" /\ f.version <= row.version}
  OBVIOUS
<1>2. 1..row.version \subseteq {f.version : f \in E \cup {n}}  BY DEF Told
<1> QED  BY <1>1, <1>2 DEF Told

\* The versions of the events are those the case has had.
LEMMA EventVersions ==
  ASSUME CaseInv, HistoriesKept, NEW c \in Case
  PROVE  /\ cases[c].version \in Nat
         /\ {e.version : e \in EventsOf(c)} = 1..cases[c].version
         /\ \A e \in EventsOf(c) : e.version \in 1..cases[c].version
<1>1. {e.version : e \in EventsOf(c)} = 1..cases[c].version  BY DEF HistoriesKept, Path
<1> QED  BY <1>1 DEF CaseInv, CaseTypeOK, CaseRow

LEMMA ToldStay ==
  ASSUME CaseInv, HistoriesKept, HistoriesTold, [CaseNext]_caseVars
  PROVE  HistoriesTold'
<1>1. ASSUME NEW c \in Case, cases'[c].version # 0
      PROVE  Told(EventsOf(c)', cases'[c])
  <2>1. CASE cases'[c] = cases[c] /\ EventsOf(c)' = EventsOf(c)
    BY <1>1, <2>1 DEF HistoriesTold
  <2>2. ASSUME NEW n,
               EventsOf(c)' = EventsOf(c) \cup {n},
               n.version = cases[c].version + 1, cases'[c].version = n.version,
               \/ n.entered = "LINK" /\ cases'[c].status = cases[c].status
                  /\ cases[c].version # 0
               \/ n.entered # "LINK" /\ cases'[c].status = n.entered
        PROVE  Told(EventsOf(c)', cases'[c])
    <3> DEFINE E == EventsOf(c)
               k == cases[c].version
               moves == {f \in E \cup {n} : f.entered # "LINK" /\ f.version <= k + 1}
               old == {f \in E : f.entered # "LINK" /\ f.version <= k}
    <3>1. k \in Nat /\ {e.version : e \in E} = 1..k /\ \A e \in E : e.version \in 1..k
      BY EventVersions
    <3>2. 1..(k + 1) \subseteq {f.version : f \in E \cup {n}}
      <4>1. 1..(k + 1) = (1..k) \cup {k + 1}  BY <3>1
      <4> HIDE DEF E
      <4> QED  BY <2>2, <3>1, <4>1
    <3>3. \E f \in moves : f.entered = cases'[c].status /\ \A g \in moves : g.version <= f.version
      <4>1. CASE n.entered = "LINK" /\ cases'[c].status = cases[c].status /\ k # 0
        <5>1. PICK f \in old :
                f.entered = cases[c].status /\ \A g \in old : g.version <= f.version
          BY <4>1 DEF HistoriesTold, Told
        <5>2. moves = old  BY <2>2, <3>1, <4>1
        <5> QED  BY <4>1, <5>1, <5>2
      <4>2. CASE n.entered # "LINK" /\ cases'[c].status = n.entered
        <5>1. n \in moves  BY <2>2, <3>1, <4>2
        <5>2. \A g \in moves : g.version <= n.version  BY <2>2
        <5> QED  BY <4>2, <5>1, <5>2
      <4> QED  BY <2>2, <4>1, <4>2
    <3> QED  BY <2>2, <3>2, <3>3 DEF Told
  <2> QED  BY <2>1, <2>2, CaseMoves
<1> QED  BY <1>1 DEF HistoriesTold, Told

\* A request about to store has loaded the reports of the version it has loaded, unless the
\* case has moved on (find_by_id reads them after the row).
LoadedReports ==
  \A q \in Request :
    job[q] # NoRequest /\ job[q].step = "store"
      /\ job[q].row.version = cases[job[q].case].version =>
    job[q].reports = ReportsOf(job[q].case)

\* What a request holds after a step of any of them.
LEMMA JobSteps ==
  ASSUME CaseInv, [CaseNext]_caseVars, NEW q \in Request
  PROVE  \/ job'[q] = job[q] \/ job'[q] = NoRequest
         \/ job'[q].step \in {"row", "reports"}
         \/ /\ job[q] # NoRequest /\ job[q].step = "reports"
            /\ job'[q].case = job[q].case /\ job'[q].row = job[q].row
            /\ job'[q].reports = ReportsOf(job[q].case)
            /\ UNCHANGED <<cases, case_reports, case_events>>
<1>1. job \in [Request -> Job \cup {NoRequest}]  BY DEF CaseInv, CaseTypeOK
<1>2. CASE \E c \in Case, r \in Report : CreateCase(c, r)  BY <1>2 DEF CreateCase
<1>3. CASE \E r \in Report : StartReportReview(r)  BY <1>3 DEF StartReportReview
<1>4. CASE UNCHANGED caseVars  BY <1>4 DEF caseVars
<1>5. ASSUME NEW p \in Request, Refuse(p) \/ Store(p) \/ Fail(p)
      PROVE  job'[q] = job[q] \/ job'[q] = NoRequest
  BY <1>1, <1>5 DEF Refuse, Store, Fail
<1>6. ASSUME NEW p \in Request, NEW c \in Case, NEW change \in Change,
             NEW r \in Report \cup {NoReport}, Begin(p, c, change, r)
      PROVE  job'[q] = job[q] \/ job'[q].step = "row"
  BY <1>1, <1>6 DEF Begin
<1>7. ASSUME NEW p \in Request, ReadRow(p)
      PROVE  job'[q] = job[q] \/ job'[q] = NoRequest \/ job'[q].step = "reports"
  BY <1>1, <1>7 DEF ReadRow, Progress
<1>8. ASSUME NEW p \in Request, ReadReports(p)
      PROVE  \/ job'[q] = job[q]
             \/ /\ job[q] # NoRequest /\ job[q].step = "reports"
                /\ job'[q].case = job[q].case /\ job'[q].row = job[q].row
                /\ job'[q].reports = ReportsOf(job[q].case)
                /\ UNCHANGED <<cases, case_reports, case_events>>
  BY <1>1, <1>8 DEF ReadReports, Progress
<1> QED  BY <1>2, <1>3, <1>4, <1>5, <1>6, <1>7, <1>8 DEF CaseNext

LEMMA LoadedReportsStay ==
  ASSUME CaseInv, LoadedReports, [CaseNext]_caseVars
  PROVE  LoadedReports'
<1>1. ASSUME NEW q \in Request, job'[q] # NoRequest, job'[q].step = "store",
             job'[q].row.version = cases'[job'[q].case].version
      PROVE  job'[q].reports = ReportsOf(job[q].case)'
  <2>1. CASE job'[q] = job[q]
    <3>1. job[q] \in Job /\ job[q].case \in Case
      BY <1>1, <2>1 DEF CaseInv, CaseTypeOK, Job
    <3> PICK c \in Case : c = job[q].case
      BY <3>1
    <3>2. /\ job[q].row.version <= cases[c].version /\ cases[c].version \in Nat
          /\ job[q].row.version \in Nat
      BY <1>1, <2>1, <3>1 DEF CaseInv, LoadedIsEarlier, CaseTypeOK, CaseRow, Job
    <3>3. cases'[c].version # cases[c].version + 1
      BY <1>1, <2>1, <3>2
    <3>4. cases'[c] = cases[c] /\ ReportsOf(c)' = ReportsOf(c)
      BY <3>3, CaseMoves
    <3>5. ReportsOf(job[q].case)' = ReportsOf(c)'  BY <2>1 DEF ReportsOf
    <3> QED  BY <1>1, <2>1, <3>4, <3>5 DEF LoadedReports
  <2>2. CASE /\ job'[q].case = job[q].case
             /\ job'[q].reports = ReportsOf(job[q].case)
             /\ UNCHANGED <<cases, case_reports, case_events>>
    BY <2>2 DEF ReportsOf
  <2> QED  BY <1>1, <2>1, <2>2, JobSteps
<1> QED  BY <1>1 DEF LoadedReports

\* The 200 response to a change shows the case and its reports as it stored them.
LEMMA StoreAnswers ==
  ASSUME CaseInv, LoadedReports, NEW q \in Request, Store(q), NEW p \in Request,
         response'[p] # response[p]
  PROVE  LET b == response'[p] IN
         /\ cases'[b.case] = [status |-> b.status, version |-> b.version]
         /\ b.reports = {r \in Report : <<b.case, r>> \in case_reports'}
<1> PICK c \in Case : c = job[q].case
  BY StoreIsNext
<1> PICK j \in Job : j = job[q]
  BY StoreIsNext
<1>1. /\ j.row = cases[c] /\ j.step = "store" /\ j # NoRequest /\ ~Refused(j)
      /\ NewRow(j) \in CaseRow
      /\ cases' = [cases EXCEPT ![c] = NewRow(j)]
  BY StoreIsNext DEF Store
<1>2. j.reports = ReportsOf(c)  BY <1>1 DEF LoadedReports
<1>3. p = q /\ response'[p] = [case |-> c, status |-> NewRow(j).status,
                               version |-> NewRow(j).version, reports |-> NewReports(j)]
  BY DEF Store, CaseInv, CaseTypeOK
<1>4. cases'[c] = [status |-> NewRow(j).status, version |-> NewRow(j).version]
  BY <1>1 DEF CaseInv, CaseTypeOK, NewRow
<1>5. NewReports(j) = {r \in Report : <<c, r>> \in case_reports'}
  <2>1. CASE j.change = "LINK"
    <3>1. j.report \in Report  BY <2>1 DEF Job
    <3>2. case_reports' = case_reports \cup {<<c, j.report>>}
      BY <2>1 DEF Store, InsertLink
    <3> QED  BY <1>2, <2>1, <3>1, <3>2 DEF NewReports, ReportsOf
  <2>2. CASE j.change # "LINK"
    BY <1>2, <2>2 DEF Store, NewReports, ReportsOf
  <2> QED  BY <2>1, <2>2
<1> QED  BY <1>3, <1>4, <1>5

\* What a reader has been shown so far is no further than the case, and agrees with it.
ShownTruly(v) ==
  /\ v \in View
  /\ v.step # "history" => v.events = {}
  /\ \A c \in OnPage(v) :
       /\ v.rows[c].version \in 1..cases[c].version
       /\ Told(EventsOf(c), v.rows[c])
       /\ v.step # "rows" =>
            Cardinality(v.reports[c]) >= LinksUpTo(EventsOf(c), v.rows[c].version)
  /\ v.step # "rows" =>
       \A c, d \in OnPage(v) : c = d \/ v.reports[c] \cap v.reports[d] = {}
  /\ \A e \in v.events : e.case \in OnPage(v) /\ Told(v.events, v.rows[e.case])

ReadersInv ==
  /\ view \in [Request -> View \cup {NoRequest}]
  /\ \A q \in Request : view[q] # NoRequest => ShownTruly(view[q])

LEMMA ShownAgrees ==
  ASSUME NEW v, ShownTruly(v)
  PROVE  ViewAgrees(v)
BY DEF ShownTruly, ViewAgrees, Told

\* It stays so while cases move on.
LEMMA ShownStays ==
  ASSUME CaseInv, HistoriesKept, [CaseNext]_caseVars, NEW v, ShownTruly(v)
  PROVE  ShownTruly(v)'
<1>1. ASSUME NEW c \in OnPage(v)
      PROVE  /\ v.rows[c].version \in 1..cases'[c].version
             /\ Told(EventsOf(c)', v.rows[c])
             /\ LinksUpTo(EventsOf(c)', v.rows[c].version)
                  = LinksUpTo(EventsOf(c), v.rows[c].version)
  <2> DEFINE row == v.rows[c]
  <2>1. /\ c \in Case /\ row.version \in 1..cases[c].version /\ Told(EventsOf(c), row)
        /\ cases[c].version \in Nat
    BY EventVersions DEF ShownTruly, OnPage
  <2> HIDE DEF row
  <2>2. CASE cases'[c] = cases[c] /\ EventsOf(c)' = EventsOf(c)
    BY <2>1, <2>2 DEF row
  <2>3. ASSUME NEW n,
               EventsOf(c)' = EventsOf(c) \cup {n},
               n.version = cases[c].version + 1, cases'[c].version = n.version
        PROVE  /\ row.version \in 1..cases'[c].version
               /\ Told(EventsOf(c)', row)
               /\ LinksUpTo(EventsOf(c)', row.version) = LinksUpTo(EventsOf(c), row.version)
    <3>1. n.version > row.version /\ n.version \in Nat /\ row.version \in Nat
      BY <2>1, <2>3
    <3>2. Told(EventsOf(c) \cup {n}, row)  BY <2>1, <3>1, ToldStays
    <3>3. {e \in EventsOf(c) \cup {n} :
             e.version <= row.version /\ (e.entered = "LINK" \/ e.version = 1)}
            = {e \in EventsOf(c) :
                 e.version <= row.version /\ (e.entered = "LINK" \/ e.version = 1)}
      BY <3>1
    <3>4. LinksUpTo(EventsOf(c) \cup {n}, row.version) = LinksUpTo(EventsOf(c), row.version)
      BY <3>3 DEF LinksUpTo
    <3>5. row.version \in 1..cases'[c].version  BY <2>1, <2>3, <3>1
    <3> QED  BY <2>3, <3>2, <3>4, <3>5
  <2>4. \/ cases'[c] = cases[c] /\ EventsOf(c)' = EventsOf(c)
        \/ \E n : /\ EventsOf(c)' = EventsOf(c) \cup {n}
                  /\ n.version = cases[c].version + 1 /\ cases'[c].version = n.version
    BY <2>1, CaseMoves, Zenon
  <2> QED  BY <2>2, <2>3, <2>4 DEF row
<1>2. ASSUME NEW c \in OnPage(v)
      PROVE  /\ Told(EventsOf(c), v.rows[c])'
             /\ LinksUpTo(EventsOf(c), v.rows[c].version)'
                  = LinksUpTo(EventsOf(c), v.rows[c].version)
  <2>1. Told(EventsOf(c), v.rows[c])'  BY <1>1 DEF Told
  <2>2. LinksUpTo(EventsOf(c), v.rows[c].version)'
          = LinksUpTo(EventsOf(c), v.rows[c].version)
    BY <1>1 DEF LinksUpTo
  <2> QED  BY <2>1, <2>2
<1>3. \A e : Told(v.events, v.rows[e.case]) => Told(v.events, v.rows[e.case])'
  BY DEF Told
<1>4. OnPage(v)' = OnPage(v)  BY DEF OnPage
<1> QED  BY <1>1, <1>2, <1>3, <1>4 DEF ShownTruly

\* The statement on case_reports finds at least what the rows account for: it was run later.
LEMMA LinksAccounted ==
  ASSUME CaseInv, HistoriesKept, LinksKept, NEW c \in Case, cases[c].version # 0, NEW k
  PROVE  Cardinality(ReportsOf(c)) >= LinksUpTo(EventsOf(c), k)
<1> DEFINE L == LinkEvents(c)
           F == {e \in EventsOf(c) : e.version = 1}
           U == {e \in EventsOf(c) : e.version <= k /\ (e.entered = "LINK" \/ e.version = 1)}
<1>1. IsFiniteSet(L) /\ Cardinality(ReportsOf(c)) = 1 + Cardinality(L) /\ Cardinality(L) \in Nat
  BY FS_CardinalityType DEF LinksKept, LinksCounted
<1>2. PICK f \in EventsOf(c) : f.version = 1
  <2>1. 1 \in {e.version : e \in EventsOf(c)}  BY EventVersions
  <2> QED  BY <2>1
<1>3. F = {f}  BY <1>2 DEF HistoriesKept, Path
<1>4. U \subseteq L \cup {f}  BY <1>3 DEF LinkEvents
<1> HIDE DEF L, F, U
<1>5. IsFiniteSet(L \cup {f}) /\ Cardinality(L \cup {f}) <= Cardinality(L) + 1
  <2>1. /\ IsFiniteSet(L \cup {f})
        /\ \/ Cardinality(L \cup {f}) = Cardinality(L)
           \/ Cardinality(L \cup {f}) = Cardinality(L) + 1
    BY <1>1, FS_AddElement
  <2> QED  BY <1>1, <2>1
<1>6. /\ IsFiniteSet(U) /\ Cardinality(U) <= Cardinality(L \cup {f})
      /\ Cardinality(U) \in Nat /\ Cardinality(L \cup {f}) \in Nat
  BY <1>4, <1>5, FS_Subset, FS_CardinalityType
<1> QED  BY <1>1, <1>5, <1>6 DEF U, LinksUpTo

\* What is shown changes for one reader at a time.
LEMMA OneShown ==
  ASSUME ReadersInv, UNCHANGED <<cases, case_reports, case_events>>, NEW q \in Request,
         NEW v \in View \cup {NoRequest}, view' = [view EXCEPT ![q] = v],
         v # NoRequest => ShownTruly(v)
  PROVE  ReadersInv'
<1>1. \A u : ShownTruly(u)' <=> ShownTruly(u)
  BY DEF ShownTruly, EventsOf, OnPage, Told, LinksUpTo
<1>2. \A p \in Request : view'[p] = IF p = q THEN v ELSE view[p]  BY DEF ReadersInv
<1>3. view' \in [Request -> View \cup {NoRequest}]  BY DEF ReadersInv
<1> QED  BY <1>1, <1>2, <1>3 DEF ReadersInv

LEMMA ReadRowsShown ==
  ASSUME CaseInv, HistoriesTold, ReadersInv, NEW q \in Request, NEW page \in SUBSET Case,
         ReadRows(q, page)
  PROVE  ReadersInv'
<1> DEFINE rows == [c \in Case |-> IF c \in page THEN cases[c] ELSE NoCase]
           none == [c \in Case |-> {}]
           v == [step |-> "rows", rows |-> rows, reports |-> none, events |-> {}]
<1>1. view' = [view EXCEPT ![q] = v] /\ UNCHANGED <<cases, case_reports, case_events>>
  BY DEF ReadRows
<1>2. rows \in [Case -> CaseRow] /\ none \in [Case -> SUBSET Report]
  BY DEF CaseInv, CaseTypeOK, CaseRow, NoCase
<1>3. \A c \in Case : rows[c] = IF c \in page THEN cases[c] ELSE NoCase
  OBVIOUS
<1> HIDE DEF rows, none
<1>4. v \in View /\ v.step = "rows" /\ v.rows = rows /\ v.events = {}
  BY <1>2 DEF View
<1> HIDE DEF v
<1>5. ASSUME NEW c \in OnPage(v)
      PROVE  v.rows[c].version \in 1..cases[c].version /\ Told(EventsOf(c), v.rows[c])
  <2>1. c \in Case /\ v.rows[c] = cases[c] /\ cases[c] # NoCase
    BY <1>3, <1>4 DEF OnPage
  <2>2. cases[c] \in CaseRow  BY <2>1 DEF CaseInv, CaseTypeOK
  <2>3. cases[c].version = 0 => cases[c].status = "ABSENT"  BY <2>1 DEF CaseInv, RowsExist
  <2>4. cases[c].version \in Nat \ {0}  BY <2>1, <2>2, <2>3 DEF CaseRow, NoCase
  <2> QED  BY <2>1, <2>4 DEF HistoriesTold
<1>6. ShownTruly(v)  BY <1>4, <1>5 DEF ShownTruly
<1> QED  BY <1>1, <1>4, <1>6, OneShown

LEMMA ReadLinksShown ==
  ASSUME CaseInv, HistoriesKept, LinksKept, ReadersInv, NEW q \in Request, ReadLinks(q)
  PROVE  ReadersInv'
<1> DEFINE linked == [c \in Case |-> IF c \in OnPage(view[q]) THEN ReportsOf(c) ELSE {}]
           v == [view[q] EXCEPT !.step = "links", !.reports = linked]
<1>1. /\ view[q] # NoRequest /\ view[q] \in View /\ ShownTruly(view[q])
      /\ view[q].step = "rows" /\ UNCHANGED <<cases, case_reports, case_events>>
  BY DEF ReadLinks, ReadersInv, caseVars, ShownTruly
<1>2. view' = [view EXCEPT ![q] = v]
  BY <1>1 DEF ReadLinks, ReadersInv
<1>3. /\ linked \in [Case -> SUBSET Report]
      /\ \A c \in OnPage(view[q]) : c \in Case /\ linked[c] = ReportsOf(c)
  BY DEF ReportsOf, OnPage
<1> HIDE DEF linked
<1>4. /\ v \in View /\ v.step = "links" /\ v.rows = view[q].rows /\ v.reports = linked
      /\ v.events = view[q].events
  BY <1>1, <1>3 DEF View
<1> HIDE DEF v
<1>5. OnPage(v) = OnPage(view[q])  BY <1>4 DEF OnPage
<1>6. ASSUME NEW c \in OnPage(v)
      PROVE  /\ v.rows[c].version \in 1..cases[c].version
             /\ Told(EventsOf(c), v.rows[c])
             /\ Cardinality(v.reports[c]) >= LinksUpTo(EventsOf(c), v.rows[c].version)
  <2>1. /\ c \in Case /\ v.reports[c] = ReportsOf(c)
        /\ v.rows[c].version \in 1..cases[c].version /\ Told(EventsOf(c), v.rows[c])
    BY <1>1, <1>3, <1>4, <1>5 DEF ShownTruly
  <2>2. cases[c].version # 0  BY <2>1, EventVersions
  <2> QED  BY <2>1, <2>2, LinksAccounted
<1>7. \A c, d \in OnPage(v) : c = d \/ v.reports[c] \cap v.reports[d] = {}
  <2>1. \A c, d \in Case : c = d \/ ReportsOf(c) \cap ReportsOf(d) = {}
    BY DEF ReportsOf, LinksKept, StatusFollowsLink
  <2> QED  BY <1>3, <1>4, <1>5, <2>1
<1>8. v.events = {}  BY <1>1, <1>4 DEF ShownTruly
<1>9. ShownTruly(v)  BY <1>4, <1>6, <1>7, <1>8 DEF ShownTruly
<1> QED  BY <1>1, <1>2, <1>4, <1>9, OneShown

LEMMA ReadHistoryShown ==
  ASSUME ReadersInv, NEW q \in Request, NEW c \in Case, ReadHistory(q, c), CaseInv
  PROVE  ReadersInv'
<1> DEFINE E == {e \in case_events : e.case = c}
           v == [view[q] EXCEPT !.step = "history", !.events = E]
<1>1. /\ view[q] # NoRequest /\ view[q] \in View /\ ShownTruly(view[q])
      /\ view[q].step = "links" /\ c \in OnPage(view[q])
      /\ UNCHANGED <<cases, case_reports, case_events>>
  BY DEF ReadHistory, ReadersInv, caseVars, ShownTruly
<1>2. view' = [view EXCEPT ![q] = v]
  BY <1>1 DEF ReadHistory, ReadersInv
<1>3. /\ E = EventsOf(c) /\ E \subseteq [case : Case, version : Nat, entered : Change]
      /\ \A e \in E : e.case = c
  BY DEF EventsOf, CaseInv, CaseTypeOK
<1> HIDE DEF E
<1>4. /\ v \in View /\ v.step = "history" /\ v.rows = view[q].rows
      /\ v.reports = view[q].reports /\ v.events = E
  BY <1>1, <1>3 DEF View
<1> HIDE DEF v
<1>5. OnPage(v) = OnPage(view[q])  BY <1>4 DEF OnPage
<1>6. \A e \in v.events : e.case \in OnPage(v) /\ Told(v.events, v.rows[e.case])
  BY <1>1, <1>3, <1>4, <1>5 DEF ShownTruly
<1>7. ShownTruly(v)  BY <1>1, <1>4, <1>5, <1>6 DEF ShownTruly
<1> QED  BY <1>1, <1>2, <1>4, <1>7, OneShown

\* A reader's first statement ends what the slot answered before and changes nothing else.
LEMMA ReadRowsQuiet ==
  ASSUME CaseInv, NEW q \in Request, NEW page \in SUBSET Case, ReadRows(q, page)
  PROVE  /\ CaseInv'
         /\ UNCHANGED <<reports, cases, case_reports, case_events, job>>
         /\ \A p \in Request : response'[p] = response[p] \/ response'[p] = NoRequest
<1>1. /\ UNCHANGED <<reports, cases, case_reports, case_events, job>>
      /\ response' = [response EXCEPT ![q] = NoRequest]
  BY DEF ReadRows
<1>2. response \in [Request -> Body \cup {NoRequest}]  BY DEF CaseInv, CaseTypeOK
<1>3. CaseTypeOK'  BY <1>1, <1>2 DEF CaseInv, CaseTypeOK
<1> QED  BY <1>1, <1>2, <1>3, RequestStepInv

AnswersInv ==
  CaseInv /\ HistoriesKept /\ HistoriesTold /\ LinksKept /\ LoadedReports /\ ReadersInv

\* A step of the workflow beside the readers.
LEMMA AnswersGoOn ==
  ASSUME AnswersInv, [CaseNext]_caseVars, UNCHANGED view
  PROVE  AnswersInv'
<1>1. ASSUME NEW q \in Request, view'[q] # NoRequest
      PROVE  ShownTruly(view[q])'
  <2>1. ShownTruly(view[q])  BY <1>1 DEF AnswersInv, ReadersInv
  <2>2. \A v : ShownTruly(v) => ShownTruly(v)'
    BY ShownStays DEF AnswersInv
  <2> PICK v : v = view[q]
    OBVIOUS
  <2>3. view[q]' = v  OBVIOUS
  <2> QED  BY <2>1, <2>2, <2>3
<1>2. ReadersInv'  BY <1>1 DEF AnswersInv, ReadersInv
<1> QED
  BY <1>2, CaseStepInv, HistoriesStay, ToldStay, LinksStay, LoadedReportsStay DEF AnswersInv

\* Every step keeps what answers rest on.
LEMMA AnswersStay ==
  ASSUME AnswersInv, [ViewNext]_viewVars
  PROVE  AnswersInv'
<1>1. CASE [CaseNext]_caseVars /\ UNCHANGED view
  BY <1>1, AnswersGoOn
<1>2. ASSUME NEW q \in Request, NEW page \in SUBSET Case, ReadRows(q, page)
      PROVE  AnswersInv'
  <2>1. /\ CaseInv' /\ UNCHANGED <<reports, cases, case_reports, case_events, job>>
    BY <1>2, ReadRowsQuiet DEF AnswersInv
  <2>2. ReadersInv'  BY <1>2, ReadRowsShown DEF AnswersInv
  <2>3. HistoriesKept' /\ HistoriesTold'
    BY <2>1 DEF AnswersInv, HistoriesKept, HistoriesTold, EventsOf
  <2>4. LinksKept'
    <3>1. LinksKept  BY DEF AnswersInv
    <3>2. StatusFollowsLink'  BY <2>1, <3>1 DEF LinksKept, StatusFollowsLink
    <3>3. LinksCounted'
      BY <2>1, <3>1 DEF LinksKept, LinksCounted, ReportsOf, LinkEvents, EventsOf
    <3> QED  BY <3>2, <3>3 DEF LinksKept
  <2>5. LoadedReports'
    BY <2>1 DEF AnswersInv, LoadedReports, ReportsOf
  <2> QED  BY <2>1, <2>2, <2>3, <2>4, <2>5 DEF AnswersInv
<1>3. ASSUME NEW q \in Request,
             ReadLinks(q) \/ EndView(q) \/ \E c \in Case : ReadHistory(q, c)
      PROVE  AnswersInv'
  <2>1. UNCHANGED caseVars  BY <1>3 DEF ReadLinks, EndView, ReadHistory
  <2>2. [CaseNext]_caseVars  BY <2>1
  <2>3. /\ CaseInv' /\ HistoriesKept' /\ HistoriesTold' /\ LinksKept' /\ LoadedReports'
    BY <2>2, CaseStepInv, HistoriesStay, ToldStay, LinksStay, LoadedReportsStay DEF AnswersInv
  <2>4. CASE EndView(q)
    <3>1. UNCHANGED <<cases, case_reports, case_events>>  BY <2>1 DEF caseVars
    <3>2. view' = [view EXCEPT ![q] = NoRequest]  BY <2>4 DEF EndView
    <3>3. ReadersInv'  BY <3>1, <3>2, OneShown DEF AnswersInv
    <3> QED  BY <2>3, <3>3 DEF AnswersInv
  <2>5. CASE ReadLinks(q) \/ \E c \in Case : ReadHistory(q, c)
    <3>1. ReadersInv'  BY <2>5, ReadLinksShown, ReadHistoryShown DEF AnswersInv
    <3> QED  BY <2>3, <3>1 DEF AnswersInv
  <2> QED  BY <1>3, <2>4, <2>5
<1> QED  BY <1>1, <1>2, <1>3 DEF ViewNext, viewVars

\* What a step of anyone answers to a change.
LEMMA ChangesAnswered ==
  ASSUME AnswersInv, [ViewNext]_viewVars, NEW q \in Request,
         response'[q] # response[q], response'[q] # NoRequest
  PROVE  LET b == response'[q] IN
         /\ cases'[b.case] = [status |-> b.status, version |-> b.version]
         /\ b.reports = {r \in Report : <<b.case, r>> \in case_reports'}
<1>1. ASSUME NEW p \in Request,
             \/ \E c \in Case, change \in Change, r \in Report \cup {NoReport} :
                  Begin(p, c, change, r)
             \/ ReadRow(p) \/ ReadReports(p) \/ Refuse(p) \/ Fail(p)
             \/ \E page \in SUBSET Case : ReadRows(p, page)
             \/ ReadLinks(p) \/ EndView(p) \/ \E c \in Case : ReadHistory(p, c)
      PROVE  response'[q] = response[q] \/ response'[q] = NoRequest
  BY <1>1 DEF Begin, ReadRow, ReadReports, Refuse, Fail, ReadRows, ReadLinks, EndView,
              ReadHistory, caseVars, AnswersInv, CaseInv, CaseTypeOK
<1>2. ASSUME \/ \E c \in Case, r \in Report : CreateCase(c, r)
             \/ \E r \in Report : StartReportReview(r)
             \/ UNCHANGED viewVars
      PROVE  response'[q] = response[q]
  BY <1>2 DEF CreateCase, StartReportReview, viewVars, caseVars
<1>3. \E p \in Request : Store(p)
  BY <1>1, <1>2 DEF ViewNext, CaseNext
<1> QED  BY <1>3, StoreAnswers DEF AnswersInv

\* A 200 response to a change shows what it stored, and one to a reader agrees with the
\* version it shows, although both are put together from two reads that no transaction
\* holds together, for any number of cases, reports and requests (find_by_id, list).
THEOREM AnswersAreTrue == ViewSpec => AnsweredTruly
<1> DEFINE Truly ==
      /\ \A q \in Request :
           LET b == response'[q] IN
           b # response[q] /\ b # NoRequest =>
             /\ cases'[b.case] = [status |-> b.status, version |-> b.version]
             /\ b.reports = {r \in Report : <<b.case, r>> \in case_reports'}
      /\ (\A q \in Request : view[q] # NoRequest => ViewAgrees(view[q]))'
<1>1. ViewInit => AnswersInv
  BY CaseInitInv, HistoriesBegin, LinksBegin DEF ViewInit, AnswersInv, HistoriesTold,
     LoadedReports, ReadersInv, CaseInit, NoCase
<1>2. AnswersInv /\ [ViewNext]_viewVars => AnswersInv'
  BY AnswersStay
<1>3. AnswersInv => \A q \in Request : view[q] # NoRequest => ViewAgrees(view[q])
  BY ShownAgrees DEF AnswersInv, ReadersInv
<1>4. AnswersInv' => (\A q \in Request : view[q] # NoRequest => ViewAgrees(view[q]))'
  BY <1>3, PTL
<1>5. AnswersInv /\ [ViewNext]_viewVars => [Truly]_viewVars
  BY <1>2, <1>4, ChangesAnswered
<1> QED  BY <1>1, <1>2, <1>5, PTL DEF ViewSpec, AnsweredTruly

-----------------------------------------------------------------------------
(* Alerts. *)

Stored(a) == alerts[a] # NoAlert

Created(a, f) == [alert |-> a, version |-> 1, type |-> "ALERT_CREATED", actor |-> f]
Cancelled(a, x) == [alert |-> a, version |-> 2, type |-> "ALERT_CANCELLED", actor |-> x]
EventsOfAlert(a) == {e \in alert_events : e.alert = a}

\* The events of an alert, by its status.
StoryTold ==
  \A a \in Alert :
    \/ alerts[a] = NoAlert /\ EventsOfAlert(a) = {}
    \/ /\ alerts[a].status = "ACTIVE" /\ alerts[a].version = 1
       /\ \E f \in Form : EventsOfAlert(a) = {Created(a, f)}
    \/ /\ alerts[a].status = "CANCELLED" /\ alerts[a].version = 2
       /\ \E f \in Form, x \in Canceller : EventsOfAlert(a) = {Created(a, f), Cancelled(a, x)}

\* What a cancellation has in memory is the alert as it was created.
LoadedAsCreated ==
  \A x \in Canceller : cancelling[x] # Nothing =>
    Stored(cancelling[x].alert) /\ cancelling[x].version = 1

\* The unique index on keys, and whose key an alert has.
KeysUnique ==
  \A a, b \in Alert :
    Stored(a) /\ Stored(b) /\ alerts[a].key = alerts[b].key /\ alerts[a].key # NoKey => a = b

KeyOfItsClient ==
  \A a \in Alert, f \in Form : Created(a, f) \in alert_events =>
    Stored(a) /\ \E n \in Try : alerts[a].key = KeyFor(f, n)

ShownIsThere ==
  \A f \in Form : form[f] = "shown" => \E a \in Alert : Created(a, f) \in alert_events

\* The record of a verification.
Verified(c) == \E e \in case_events : e.case = c /\ e.entered = "VERIFIED"

LaterIsOnRecord == \A c \in Case : VerifiedOrLater(cases[c].status) => Verified(c)

AcceptedIsVerified ==
  \A f \in Form, n \in Try : post[<<f, n>>] = "accepted" => Verified(caseOf[f])

AlertInv ==
  /\ CaseInv /\ AlertTypeOK
  /\ StoryTold /\ LoadedAsCreated
  /\ KeysUnique /\ KeyOfItsClient /\ ShownIsThere
  /\ LaterIsOnRecord /\ AcceptedIsVerified /\ AlertsFollowVerification

-----------------------------------------------------------------------------
(* Types. *)

\* A key is a pair or none.
LEMMA KeyTyped ==
  ASSUME NEW f \in Form, NEW n \in Try
  PROVE  /\ KeyFor(f, n) \in (Form \X Try) \cup {NoKey}
         /\ keying[f] = "kept" => KeyFor(f, n) = <<f, 1>> /\ KeyFor(f, n) # NoKey
<1>1. keying[f] \in {"fresh", "kept", "none"} /\ 1 \in Try
  BY AlertAssumption DEF Try
<1> QED  BY <1>1 DEF KeyFor, NoKey

\* An answer ends a post and may close the form.
LEMMA AnswerTyped ==
  ASSUME AlertTypeOK, NEW f \in Form, NEW n \in Try, NEW page \in {"open", "shown"},
         Answer(f, n, page)
  PROVE  /\ post' \in [Form \X Try -> {"unsent", "sent", "accepted", "done"}]
         /\ form' \in [Form -> {"open", "waiting", "shown"}]
         /\ tries' = tries
         /\ \A g \in Form, m \in Try : post'[<<g, m>>] = "accepted" => post[<<g, m>>] = "accepted"
         /\ \A g \in Form : form'[g] = "shown" => form[g] = "shown" \/ (g = f /\ page = "shown")
<1>1. <<f, n>> \in Form \X Try /\ post' = [post EXCEPT ![<<f, n>>] = "done"]
  BY DEF Answer
<1>2. post' \in [Form \X Try -> {"unsent", "sent", "accepted", "done"}]
  BY <1>1 DEF AlertTypeOK
<1>3. ASSUME NEW g \in Form, NEW m \in Try, post'[<<g, m>>] = "accepted"
      PROVE  post[<<g, m>>] = "accepted"
  BY <1>1, <1>3 DEF AlertTypeOK
<1>4. /\ form' \in [Form -> {"open", "waiting", "shown"}]
      /\ tries' = tries
      /\ \A g \in Form : form'[g] = "shown" => form[g] = "shown" \/ (g = f /\ page = "shown")
  BY DEF AlertTypeOK, Answer
<1> QED  BY <1>2, <1>3, <1>4

\* A row that is cancelled is a row.
LEMMA CancelledTyped ==
  ASSUME NEW row \in AlertRow
  PROVE  [row EXCEPT !.status = "CANCELLED", !.version = 2] \in AlertRow
<1> DEFINE K == (Form \X Try) \cup {NoKey}
           V == 1..2
           S == {"ACTIVE", "CANCELLED"}
<1>1. AlertRow = [status : S, version : V, case : Case, key : K]
  BY DEF AlertRow
<1>2. 2 \in V /\ "CANCELLED" \in S
  OBVIOUS
<1> HIDE DEF K, V, S
<1>3. [row EXCEPT !.status = "CANCELLED"] \in AlertRow
  BY <1>1, <1>2
<1> QED  BY <1>1, <1>2, <1>3

\* Every step of the clients and of the alerts' endpoints keeps the types.
LEMMA AlertTypesKept ==
  ASSUME AlertTypeOK, LoadedAsCreated, AlertNext
  PROVE  AlertTypeOK'
<1>1. ASSUME NEW f \in Form, Submit(f)
      PROVE  AlertTypeOK'
  <2>1. tries[f] + 1 \in Try /\ tries[f] + 1 \in 0 .. MaxTries
    BY <1>1, AlertAssumption DEF Submit, AlertTypeOK, Try
  <2> QED  BY <1>1, <2>1 DEF Submit, AlertTypeOK
<1>2. ASSUME NEW f \in Form, LoseAnswer(f)
      PROVE  AlertTypeOK'
  BY <1>2 DEF LoseAnswer, AlertTypeOK
<1>3. ASSUME NEW f \in Form, NEW n \in Try, CheckCase(f, n)
      PROVE  AlertTypeOK'
  <2>1. CASE Answer(f, n, "open")
    BY <1>3, <2>1, AnswerTyped DEF CheckCase, AlertTypeOK
  <2>2. CASE ~ Answer(f, n, "open")
    BY <1>3, <2>2 DEF CheckCase, AlertTypeOK, clientVars
  <2> QED  BY <2>1, <2>2
<1>4. ASSUME NEW f \in Form, NEW n \in Try, RefuseDuplicate(f, n) \/ PostFails(f, n)
      PROVE  AlertTypeOK'
  BY <1>4, AnswerTyped DEF RefuseDuplicate, PostFails, AlertTypeOK
<1>5. ASSUME NEW f \in Form, NEW n \in Try, NEW a \in Alert, InsertAlert(f, n, a)
      PROVE  AlertTypeOK'
  <2>1. [status |-> "ACTIVE", version |-> 1, case |-> caseOf[f], key |-> KeyFor(f, n)]
          \in AlertRow
    BY KeyTyped, AlertAssumption DEF AlertRow
  <2>2. alerts' \in [Alert -> AlertRow \cup {NoAlert}]
    BY <1>5, <2>1 DEF InsertAlert, AlertTypeOK
  <2>3. alert_events' \subseteq [alert : Alert, version : 1..2,
                                 type : {"ALERT_CREATED", "ALERT_CANCELLED"},
                                 actor : Form \cup Canceller]
    BY <1>5 DEF InsertAlert, AlertTypeOK
  <2> QED  BY <1>5, <2>2, <2>3, AnswerTyped DEF InsertAlert, AlertTypeOK
<1>6. ASSUME NEW x \in Canceller, NEW a \in Alert, LoadToCancel(x, a)
      PROVE  AlertTypeOK'
  <2>1. alerts[a] \in AlertRow  BY <1>6 DEF LoadToCancel, AlertTypeOK
  <2>2. [alert |-> a, version |-> alerts[a].version] \in Loaded
    BY <2>1 DEF Loaded, AlertRow
  <2> QED  BY <1>6, <2>2 DEF LoadToCancel, AlertTypeOK, clientVars
<1>7. ASSUME NEW x \in Canceller, StoreCancel(x)
      PROVE  AlertTypeOK'
  <2> DEFINE l == cancelling[x]
  <2>1. l \in Loaded /\ l.alert \in Alert /\ alerts[l.alert] # NoAlert /\ l.version = 1
    BY <1>7 DEF StoreCancel, AlertTypeOK, Loaded, LoadedAsCreated, Stored
  <2>2. Raised(l) = 2  BY <2>1 DEF Raised
  <2>3. alerts[l.alert] \in AlertRow  BY <2>1 DEF AlertTypeOK
  <2>4. cancelling' \in [Canceller -> Loaded \cup {Nothing}] /\ UNCHANGED <<form, tries, post>>
    BY <1>7 DEF StoreCancel, AlertTypeOK, clientVars
  <2>5. CASE UNCHANGED <<alerts, alert_events>>
    BY <2>4, <2>5 DEF AlertTypeOK
  <2>6. CASE /\ alerts' = [alerts EXCEPT ![l.alert] =
                  [@ EXCEPT !.status = "CANCELLED", !.version = Raised(l)]]
             /\ alert_events' = alert_events \cup
                  {[alert |-> l.alert, version |-> Raised(l),
                    type |-> "ALERT_CANCELLED", actor |-> x]}
    <3> DEFINE new == [alerts[l.alert] EXCEPT !.status = "CANCELLED", !.version = 2]
    <3>1. new \in AlertRow
      BY <2>3, CancelledTyped
    <3>2. alerts' = [alerts EXCEPT ![l.alert] = new]
      BY <2>1, <2>2, <2>6 DEF AlertTypeOK
    <3>3. alerts' \in [Alert -> AlertRow \cup {NoAlert}]
      BY <2>1, <3>1, <3>2 DEF AlertTypeOK
    <3>4. alert_events' \subseteq [alert : Alert, version : 1..2,
                                   type : {"ALERT_CREATED", "ALERT_CANCELLED"},
                                   actor : Form \cup Canceller]
      BY <2>1, <2>2, <2>6 DEF AlertTypeOK
    <3> QED  BY <2>4, <3>3, <3>4 DEF AlertTypeOK
  <2> QED  BY <1>7, <2>5, <2>6 DEF StoreCancel
<1> QED  BY <1>1, <1>2, <1>3, <1>4, <1>5, <1>6, <1>7 DEF AlertNext

-----------------------------------------------------------------------------
(* The three ways in which the tables of alerts change. *)

\* An alert is inserted, one is cancelled, or the tables stay.
Inserted(f, n, a) ==
  /\ a \in Alert /\ alerts[a] = NoAlert /\ ~ KeyUsed(KeyFor(f, n))
  /\ alerts' = [alerts EXCEPT ![a] =
       [status |-> "ACTIVE", version |-> 1, case |-> caseOf[f], key |-> KeyFor(f, n)]]
  /\ alert_events' = alert_events \cup {Created(a, f)}

Removed(x, a) ==
  /\ a \in Alert /\ alerts[a] # NoAlert /\ alerts[a].version = 1
  /\ alerts' = [alerts EXCEPT ![a] = [@ EXCEPT !.status = "CANCELLED", !.version = 2]]
  /\ alert_events' = alert_events \cup {Cancelled(a, x)}

\* Every step of the endpoints is one of the three.
LEMMA TablesChange ==
  ASSUME AlertTypeOK, LoadedAsCreated, AlertNext
  PROVE  \/ UNCHANGED <<alerts, alert_events>>
         \/ \E f \in Form, n \in Try, a \in Alert : InsertAlert(f, n, a) /\ Inserted(f, n, a)
         \/ \E x \in Canceller, a \in Alert : Removed(x, a)
<1>1. ASSUME NEW f \in Form, NEW n \in Try, NEW a \in Alert, InsertAlert(f, n, a)
      PROVE  Inserted(f, n, a)
  BY <1>1 DEF InsertAlert, Inserted, Created
<1>2. ASSUME NEW x \in Canceller, StoreCancel(x)
      PROVE  \/ UNCHANGED <<alerts, alert_events>>
             \/ \E a \in Alert : Removed(x, a)
  <2> DEFINE l == cancelling[x]
  <2>1. l.alert \in Alert /\ alerts[l.alert] # NoAlert /\ l.version = 1
    BY <1>2 DEF StoreCancel, AlertTypeOK, Loaded, LoadedAsCreated, Stored
  <2>2. Raised(l) = 2  BY <2>1 DEF Raised
  <2>3. CASE VersionCurrent(l) /\ ~ UNCHANGED <<alerts, alert_events>>
    BY <1>2, <2>1, <2>2, <2>3 DEF StoreCancel, Removed, Cancelled, VersionCurrent
  <2> QED  BY <1>2, <2>3 DEF StoreCancel
<1>3. ASSUME NEW f \in Form, NEW n \in Try,
             Submit(f) \/ LoseAnswer(f) \/ CheckCase(f, n) \/ RefuseDuplicate(f, n)
               \/ PostFails(f, n)
      PROVE  UNCHANGED <<alerts, alert_events>>
  BY <1>3 DEF Submit, LoseAnswer, CheckCase, RefuseDuplicate, PostFails
<1>4. ASSUME NEW f \in Form, Submit(f) \/ LoseAnswer(f)
      PROVE  UNCHANGED <<alerts, alert_events>>
  BY <1>4 DEF Submit, LoseAnswer
<1>5. ASSUME NEW x \in Canceller, NEW a \in Alert, LoadToCancel(x, a)
      PROVE  UNCHANGED <<alerts, alert_events>>
  BY <1>5 DEF LoadToCancel
<1> QED  BY <1>1, <1>2, <1>3, <1>4, <1>5 DEF AlertNext

\* An insert leaves other alerts alone and makes an active one.
LEMMA InsertedRow ==
  ASSUME AlertTypeOK, NEW f \in Form, NEW n \in Try, NEW a \in Alert, Inserted(f, n, a)
  PROVE  /\ \A b \in Alert : b # a => alerts'[b] = alerts[b]
         /\ alerts'[a] # NoAlert
         /\ alerts'[a].status = "ACTIVE" /\ alerts'[a].version = 1
         /\ alerts'[a].case = caseOf[f] /\ alerts'[a].key = KeyFor(f, n)
<1> DEFINE new == [status |-> "ACTIVE", version |-> 1, case |-> caseOf[f],
                   key |-> KeyFor(f, n)]
<1>1. alerts' = [alerts EXCEPT ![a] = new]  BY DEF Inserted
<1>2. alerts'[a] = new /\ \A b \in Alert : b # a => alerts'[b] = alerts[b]
  BY <1>1 DEF AlertTypeOK
<1>3. new.status # NoAlert.status  BY DEF NoAlert
<1> QED  BY <1>2, <1>3

\* A cancelled alert keeps its case and its key.
LEMMA RemovedRow ==
  ASSUME AlertTypeOK, NEW x \in Canceller, NEW a \in Alert, Removed(x, a)
  PROVE  /\ \A b \in Alert : b # a => alerts'[b] = alerts[b]
         /\ alerts'[a] # NoAlert
         /\ alerts'[a].status = "CANCELLED" /\ alerts'[a].version = 2
         /\ alerts'[a].case = alerts[a].case /\ alerts'[a].key = alerts[a].key
<1> DEFINE new == [alerts[a] EXCEPT !.status = "CANCELLED", !.version = 2]
<1>1. alerts[a] \in AlertRow  BY DEF Removed, AlertTypeOK
<1>2. /\ new.status = "CANCELLED" /\ new.version = 2
      /\ new.case = alerts[a].case /\ new.key = alerts[a].key
  BY <1>1 DEF AlertRow
<1>3. alerts'[a] = new /\ \A b \in Alert : b # a => alerts'[b] = alerts[b]
  BY DEF Removed, AlertTypeOK
<1>4. new.status # NoAlert.status  BY <1>2 DEF NoAlert
<1> QED  BY <1>2, <1>3, <1>4

-----------------------------------------------------------------------------
(* The history of an alert. *)

\* The events of other alerts stay, and each alert gets its own.
LEMMA StoryStays ==
  ASSUME AlertTypeOK, LoadedAsCreated, StoryTold, AlertNext
  PROVE  StoryTold'
<1> SUFFICES ASSUME NEW b \in Alert
             PROVE  \/ alerts'[b] = NoAlert /\ EventsOfAlert(b)' = {}
                    \/ /\ alerts'[b].status = "ACTIVE" /\ alerts'[b].version = 1
                       /\ \E f \in Form : EventsOfAlert(b)' = {Created(b, f)}
                    \/ /\ alerts'[b].status = "CANCELLED" /\ alerts'[b].version = 2
                       /\ \E f \in Form, x \in Canceller :
                            EventsOfAlert(b)' = {Created(b, f), Cancelled(b, x)}
  BY DEF StoryTold, Created, Cancelled
<1>0. \/ alerts[b] = NoAlert /\ EventsOfAlert(b) = {}
      \/ /\ alerts[b].status = "ACTIVE" /\ alerts[b].version = 1
         /\ \E f \in Form : EventsOfAlert(b) = {Created(b, f)}
      \/ /\ alerts[b].status = "CANCELLED" /\ alerts[b].version = 2
         /\ \E f \in Form, x \in Canceller :
              EventsOfAlert(b) = {Created(b, f), Cancelled(b, x)}
  BY DEF StoryTold
<1>1. ASSUME alerts'[b] = alerts[b], EventsOfAlert(b)' = EventsOfAlert(b)
      PROVE  \/ alerts'[b] = NoAlert /\ EventsOfAlert(b)' = {}
             \/ /\ alerts'[b].status = "ACTIVE" /\ alerts'[b].version = 1
                /\ \E f \in Form : EventsOfAlert(b)' = {Created(b, f)}
             \/ /\ alerts'[b].status = "CANCELLED" /\ alerts'[b].version = 2
                /\ \E f \in Form, x \in Canceller :
                     EventsOfAlert(b)' = {Created(b, f), Cancelled(b, x)}
  BY <1>0, <1>1
<1>2. CASE UNCHANGED <<alerts, alert_events>>
  BY <1>1, <1>2 DEF EventsOfAlert
<1>3. ASSUME NEW f \in Form, NEW n \in Try, NEW a \in Alert, Inserted(f, n, a)
      PROVE  \/ alerts'[b] = alerts[b] /\ EventsOfAlert(b)' = EventsOfAlert(b)
             \/ /\ alerts'[b].status = "ACTIVE" /\ alerts'[b].version = 1
                /\ EventsOfAlert(b)' = {Created(b, f)}
  <2>1. CASE b # a
    BY <1>3, <2>1, InsertedRow DEF Inserted, EventsOfAlert, Created
  <2>2. CASE b = a
    <3>1. alerts[b] = NoAlert  BY <1>3, <2>2 DEF Inserted
    <3>2. NoAlert.status \notin {"ACTIVE", "CANCELLED"}  BY DEF NoAlert
    <3>3. EventsOfAlert(b) = {}  BY <1>0, <3>1, <3>2
    <3>4. EventsOfAlert(b)' = EventsOfAlert(b) \cup {Created(b, f)}
      BY <1>3, <2>2 DEF Inserted, EventsOfAlert, Created
    <3> QED  BY <1>3, <2>2, <3>3, <3>4, InsertedRow
  <2> QED  BY <2>1, <2>2
<1>4. ASSUME NEW x \in Canceller, NEW a \in Alert, Removed(x, a)
      PROVE  \/ alerts'[b] = alerts[b] /\ EventsOfAlert(b)' = EventsOfAlert(b)
             \/ /\ alerts'[b].status = "CANCELLED" /\ alerts'[b].version = 2
                /\ \E f \in Form : EventsOfAlert(b)' = {Created(b, f), Cancelled(b, x)}
  <2>1. CASE b # a
    <3>1. alert_events' = alert_events \cup {Cancelled(a, x)}
      BY <1>4 DEF Removed
    <3>2. EventsOfAlert(b)' = EventsOfAlert(b)
      BY <2>1, <3>1 DEF EventsOfAlert, Cancelled
    <3> QED  BY <1>4, <2>1, <3>2, RemovedRow
  <2>2. CASE b = a
    <3>1. alerts[b] # NoAlert /\ alerts[b].version = 1  BY <1>4, <2>2 DEF Removed
    <3>2. PICK f \in Form : EventsOfAlert(b) = {Created(b, f)}  BY <1>0, <3>1
    <3>3. EventsOfAlert(b)' = EventsOfAlert(b) \cup {Cancelled(b, x)}
      <4>1. alert_events' = alert_events \cup {Cancelled(b, x)}
        BY <1>4, <2>2 DEF Removed
      <4> QED  BY <4>1 DEF EventsOfAlert, Cancelled
    <3>4. EventsOfAlert(b)' = {Created(b, f), Cancelled(b, x)}  BY <3>2, <3>3
    <3> QED  BY <1>4, <2>2, <3>4, RemovedRow
  <2> QED  BY <2>1, <2>2
<1> QED  BY <1>1, <1>2, <1>3, <1>4, TablesChange

\* An alert stays, and a cancellation loads it as it was created.
LEMMA LoadedStaysAsCreated ==
  ASSUME AlertTypeOK, LoadedAsCreated, StoryTold, AlertNext
  PROVE  LoadedAsCreated'
<1> SUFFICES ASSUME NEW x \in Canceller, cancelling'[x] # Nothing
             PROVE  /\ alerts'[cancelling'[x].alert] # NoAlert
                    /\ cancelling'[x].version = 1
  BY DEF LoadedAsCreated, Stored
<1>1. \A a \in Alert : alerts[a] # NoAlert => alerts'[a] # NoAlert
  <2>1. ASSUME NEW f \in Form, NEW n \in Try, NEW b \in Alert, Inserted(f, n, b)
        PROVE  \A a \in Alert : alerts[a] # NoAlert => alerts'[a] # NoAlert
    BY <2>1, InsertedRow
  <2>2. ASSUME NEW y \in Canceller, NEW b \in Alert, Removed(y, b)
        PROVE  \A a \in Alert : alerts[a] # NoAlert => alerts'[a] # NoAlert
    BY <2>2, RemovedRow
  <2> QED  BY <2>1, <2>2, TablesChange
<1>2. CASE cancelling'[x] = cancelling[x]
  <2>1. cancelling[x].alert \in Alert  BY <1>2 DEF AlertTypeOK, Loaded
  <2> QED  BY <1>1, <1>2, <2>1 DEF LoadedAsCreated, Stored
<1>3. ASSUME NEW a \in Alert, LoadToCancel(x, a)
      PROVE  /\ alerts'[cancelling'[x].alert] # NoAlert
             /\ cancelling'[x].version = 1
  <2>1. cancelling'[x] = [alert |-> a, version |-> alerts[a].version]
    BY <1>3 DEF LoadToCancel, AlertTypeOK
  <2>2. alerts[a] # NoAlert /\ alerts[a].version = 1
    BY <1>3 DEF LoadToCancel, StoryTold
  <2> QED  BY <1>1, <2>1, <2>2
<1>4. cancelling'[x] = cancelling[x] \/ \E a \in Alert : LoadToCancel(x, a)
  <2>1. ASSUME NEW y \in Canceller, StoreCancel(y) \/ \E a \in Alert : LoadToCancel(y, a)
        PROVE  cancelling'[x] = cancelling[x] \/ \E a \in Alert : LoadToCancel(x, a)
    BY <2>1 DEF StoreCancel, LoadToCancel, AlertTypeOK
  <2>2. ASSUME NEW f \in Form, Submit(f) \/ LoseAnswer(f)
        PROVE  cancelling' = cancelling
    BY <2>2 DEF Submit, LoseAnswer
  <2>3. ASSUME NEW f \in Form, NEW n \in Try,
               \/ CheckCase(f, n) \/ RefuseDuplicate(f, n) \/ PostFails(f, n)
               \/ \E a \in Alert : InsertAlert(f, n, a)
        PROVE  cancelling' = cancelling
    BY <2>3 DEF CheckCase, RefuseDuplicate, PostFails, InsertAlert
  <2> QED  BY <2>1, <2>2, <2>3 DEF AlertNext
<1> QED  BY <1>2, <1>3, <1>4

-----------------------------------------------------------------------------
(* Keys, and what a client is shown. *)

\* A key is used once, whatever becomes of its alert.
LEMMA KeysStayUnique ==
  ASSUME AlertTypeOK, LoadedAsCreated, KeysUnique, AlertNext
  PROVE  KeysUnique'
<1> SUFFICES ASSUME NEW a \in Alert, NEW b \in Alert,
                    alerts'[a] # NoAlert, alerts'[b] # NoAlert,
                    alerts'[a].key = alerts'[b].key, alerts'[a].key # NoKey
             PROVE  a = b
  BY DEF KeysUnique, Stored, NoKey, NoAlert
<1>1. CASE UNCHANGED <<alerts, alert_events>>
  BY <1>1 DEF KeysUnique, Stored
<1>2. ASSUME NEW f \in Form, NEW n \in Try, NEW c \in Alert, Inserted(f, n, c)
      PROVE  a = b
  <2>1. KeyFor(f, n) # NoKey => \A d \in Alert : alerts[d] # NoAlert => alerts[d].key # KeyFor(f, n)
    BY <1>2 DEF Inserted, KeyUsed
  <2>2. /\ \A d \in Alert : d # c => alerts'[d] = alerts[d]
        /\ alerts'[c].key = KeyFor(f, n)
    BY <1>2, InsertedRow
  <2> QED  BY <2>1, <2>2 DEF KeysUnique, Stored
<1>3. ASSUME NEW x \in Canceller, NEW c \in Alert, Removed(x, c)
      PROVE  a = b
  <2>1. /\ \A d \in Alert : d # c => alerts'[d] = alerts[d]
        /\ alerts'[c].key = alerts[c].key
    BY <1>3, RemovedRow
  <2>2. alerts[c] # NoAlert  BY <1>3 DEF Removed
  <2> QED  BY <2>1, <2>2 DEF KeysUnique, Stored
<1> QED  BY <1>1, <1>2, <1>3, TablesChange

\* An alert keeps the key its client sent.
LEMMA KeyStaysWithClient ==
  ASSUME AlertTypeOK, LoadedAsCreated, KeyOfItsClient, AlertNext
  PROVE  KeyOfItsClient'
<1> SUFFICES ASSUME NEW a \in Alert, NEW f \in Form, Created(a, f) \in alert_events'
             PROVE  alerts'[a] # NoAlert /\ \E n \in Try : alerts'[a].key = KeyFor(f, n)
  BY DEF KeyOfItsClient, Stored, Created, KeyFor, NoKey
<1>1. CASE UNCHANGED <<alerts, alert_events>>
  BY <1>1 DEF KeyOfItsClient, Stored
<1>2. ASSUME NEW g \in Form, NEW n \in Try, NEW c \in Alert, Inserted(g, n, c)
      PROVE  alerts'[a] # NoAlert /\ \E m \in Try : alerts'[a].key = KeyFor(f, m)
  <2>1. CASE Created(a, f) \in alert_events
    <3>1. alerts[a] # NoAlert /\ \E m \in Try : alerts[a].key = KeyFor(f, m)
      BY <2>1 DEF KeyOfItsClient, Stored
    <3>2. a # c  BY <1>2, <3>1 DEF Inserted
    <3> QED  BY <1>2, <3>1, <3>2, InsertedRow
  <2>2. CASE Created(a, f) = Created(c, g)
    <3>1. a = c /\ f = g  BY <2>2 DEF Created
    <3> QED  BY <1>2, <3>1, InsertedRow
  <2> QED  BY <1>2, <2>1, <2>2 DEF Inserted
<1>3. ASSUME NEW x \in Canceller, NEW c \in Alert, Removed(x, c)
      PROVE  alerts'[a] # NoAlert /\ \E m \in Try : alerts'[a].key = KeyFor(f, m)
  <2>1. alert_events' = alert_events \cup {Cancelled(c, x)}  BY <1>3 DEF Removed
  <2>2. Created(a, f) \in alert_events  BY <2>1 DEF Created, Cancelled
  <2>3. alerts[a] # NoAlert /\ \E m \in Try : alerts[a].key = KeyFor(f, m)
    BY <2>2 DEF KeyOfItsClient, Stored
  <2> QED  BY <1>3, <2>3, RemovedRow
<1> QED  BY <1>1, <1>2, <1>3, TablesChange

\* A client is shown what its post inserted.
LEMMA ShownStaysThere ==
  ASSUME AlertTypeOK, LoadedAsCreated, ShownIsThere, AlertNext
  PROVE  ShownIsThere'
<1> SUFFICES ASSUME NEW f \in Form, form'[f] = "shown"
             PROVE  \E a \in Alert : Created(a, f) \in alert_events'
  BY DEF ShownIsThere, Created
<1>1. alert_events \subseteq alert_events'
  BY TablesChange DEF Inserted, Removed
<1>2. CASE form[f] = "shown"
  BY <1>1, <1>2 DEF ShownIsThere
<1>3. ASSUME NEW g \in Form, NEW n \in Try, NEW a \in Alert, InsertAlert(g, n, a)
      PROVE  form[f] = "shown" \/ Created(a, f) \in alert_events'
  <2>1. form[f] = "shown" \/ f = g  BY <1>3, AnswerTyped DEF InsertAlert
  <2> QED  BY <1>3, <2>1 DEF InsertAlert, Created
<1>4. ASSUME NEW g \in Form, NEW n \in Try,
             CheckCase(g, n) \/ RefuseDuplicate(g, n) \/ PostFails(g, n)
      PROVE  form[f] = "shown"
  <2>1. Answer(g, n, "open") \/ form' = form
    BY <1>4 DEF CheckCase, RefuseDuplicate, PostFails, clientVars
  <2> QED  BY <2>1, AnswerTyped
<1>5. ASSUME NEW g \in Form, Submit(g) \/ LoseAnswer(g)
      PROVE  form[f] = "shown"
  BY <1>5 DEF Submit, LoseAnswer, AlertTypeOK
<1>6. ASSUME NEW x \in Canceller, StoreCancel(x) \/ \E a \in Alert : LoadToCancel(x, a)
      PROVE  form[f] = "shown"
  BY <1>6 DEF StoreCancel, LoadToCancel, clientVars
<1> QED  BY <1>2, <1>3, <1>4, <1>5, <1>6 DEF AlertNext

-----------------------------------------------------------------------------
(* Verification. *)

\* A case that is past its verification has it on record.
LEMMA LaterStaysOnRecord ==
  ASSUME CaseInv, LaterIsOnRecord, [CaseNext]_caseVars
  PROVE  LaterIsOnRecord' /\ case_events \subseteq case_events'
<1>1. ASSUME NEW c \in Case, NEW r \in Report, CreateCase(c, r)
      PROVE  LaterIsOnRecord' /\ case_events \subseteq case_events'
  <2>1. case_events \subseteq case_events'  BY <1>1 DEF CreateCase
  <2>2. ASSUME NEW d \in Case, VerifiedOrLater(cases'[d].status)
        PROVE  VerifiedOrLater(cases[d].status)
    BY <1>1, <2>2 DEF CreateCase, VerifiedOrLater, CaseInv, CaseTypeOK
  <2> QED  BY <2>1, <2>2 DEF LaterIsOnRecord, Verified, VerifiedOrLater
<1>2. ASSUME NEW q \in Request, Store(q)
      PROVE  LaterIsOnRecord' /\ case_events \subseteq case_events'
  <2> DEFINE j == job[q]
  <2>1. j \in Job /\ j.case \in Case /\ j.row = cases[j.case]  BY <1>2, StoreIsNext
  <2>2. /\ cases' = [cases EXCEPT ![j.case] = NewRow(j)]
        /\ case_events' = case_events \cup
             {[case |-> j.case, version |-> NewRow(j).version, entered |-> j.change]}
        /\ Legal(j)
    BY <1>2 DEF Store, Refused
  <2>3. case_events \subseteq case_events'  BY <2>2
  <2>4. ASSUME NEW d \in Case, VerifiedOrLater(cases'[d].status)
        PROVE  \E e \in case_events' : e.case = d /\ e.entered = "VERIFIED"
    <3>1. CASE VerifiedOrLater(cases[d].status)
      BY <2>3, <3>1 DEF LaterIsOnRecord, Verified
    <3>2. CASE d # j.case
      BY <2>2, <2>4, <3>1, <3>2 DEF CaseInv, CaseTypeOK
    <3>3. CASE d = j.case /\ ~ VerifiedOrLater(cases[d].status)
      <4>1. cases'[d].status = IF j.change = "LINK" THEN j.row.status ELSE j.change
        BY <2>1, <2>2, <3>3 DEF CaseInv, CaseTypeOK, NewRow
      <4>2. j.change # "LINK" /\ VerifiedOrLater(j.change)
        BY <2>1, <2>4, <3>3, <4>1
      <4>3. IsAllowed(cases[d].status, j.change)
        BY <2>1, <2>2, <3>3, <4>2 DEF Legal
      <4>4. j.change = "VERIFIED"
        BY <3>3, <4>2, <4>3 DEF IsAllowed, VerifiedOrLater
      <4> DEFINE e == [case |-> j.case, version |-> NewRow(j).version, entered |-> j.change]
      <4>5. e \in case_events'  BY <2>2
      <4>6. e.case = d /\ e.entered = "VERIFIED"  BY <3>3, <4>4
      <4> QED  BY <4>5, <4>6
    <3> QED  BY <3>1, <3>2, <3>3
  <2> QED  BY <2>3, <2>4 DEF LaterIsOnRecord, Verified, VerifiedOrLater
<1>3. ASSUME UNCHANGED <<cases, case_events>>
      PROVE  LaterIsOnRecord' /\ case_events \subseteq case_events'
  BY <1>3 DEF LaterIsOnRecord, Verified, VerifiedOrLater
<1>4. ASSUME NEW r \in Report, StartReportReview(r)
      PROVE  UNCHANGED <<cases, case_events>>
  BY <1>4 DEF StartReportReview
<1>5. ASSUME NEW q \in Request,
             \/ \E c \in Case, change \in Change, r \in Report \cup {NoReport} :
                  Begin(q, c, change, r)
             \/ ReadRow(q) \/ ReadReports(q) \/ Refuse(q) \/ Fail(q)
      PROVE  UNCHANGED <<cases, case_events>>
  BY <1>5 DEF Begin, ReadRow, ReadReports, Refuse, Fail
<1>6. CASE UNCHANGED caseVars
  BY <1>3, <1>6 DEF caseVars
<1> QED  BY <1>1, <1>2, <1>3, <1>4, <1>5, <1>6 DEF CaseNext

\* What was verified when the case was read stays verified.
LEMMA VerifiedStays ==
  ASSUME AlertTypeOK, LoadedAsCreated, LaterIsOnRecord, AcceptedIsVerified,
         AlertsFollowVerification, AlertNext, UNCHANGED caseVars
  PROVE  AcceptedIsVerified' /\ AlertsFollowVerification'
<1>0. UNCHANGED <<cases, case_events>>  BY DEF caseVars
<1>1. ASSUME NEW g \in Form, NEW m \in Try, post'[<<g, m>>] = "accepted"
      PROVE  Verified(caseOf[g])
  <2>1. CASE post[<<g, m>>] = "accepted"
    BY <2>1 DEF AcceptedIsVerified
  <2>2. ASSUME NEW f \in Form, NEW n \in Try, CheckCase(f, n),
               post'[<<g, m>>] # post[<<g, m>>]
        PROVE  Verified(caseOf[g])
    <3>1. CASE Answer(f, n, "open")
      BY <1>1, <2>1, <3>1, AnswerTyped
    <3>2. CASE VerifiedOrLater(cases[caseOf[f]].status) /\ <<g, m>> = <<f, n>>
      BY <3>2, AlertAssumption DEF LaterIsOnRecord
    <3>3. CASE post' = [post EXCEPT ![<<f, n>>] = "accepted"] /\ <<g, m>> # <<f, n>>
      BY <2>2, <3>3 DEF AlertTypeOK
    <3> QED  BY <2>2, <3>1, <3>2, <3>3 DEF CheckCase
  <2>3. ASSUME NEW f \in Form, NEW n \in Try,
               \/ RefuseDuplicate(f, n) \/ PostFails(f, n)
               \/ \E a \in Alert : InsertAlert(f, n, a)
        PROVE  post[<<g, m>>] = "accepted"
    <3>1. Answer(f, n, "open") \/ Answer(f, n, "shown")
      BY <2>3 DEF RefuseDuplicate, PostFails, InsertAlert
    <3> QED  BY <1>1, <3>1, AnswerTyped
  <2>4. ASSUME NEW f \in Form, Submit(f) \/ LoseAnswer(f)
        PROVE  post[<<g, m>>] = "accepted"
    <3>1. CASE LoseAnswer(f)  BY <1>1, <3>1 DEF LoseAnswer
    <3>2. CASE Submit(f)
      <4> DEFINE k == <<f, tries[f] + 1>>
      <4>1. post' = [post EXCEPT ![k] = "sent"]  BY <3>2 DEF Submit
      <4> HIDE DEF k
      <4> QED  BY <1>1, <4>1 DEF AlertTypeOK
    <3> QED  BY <2>4, <3>1, <3>2
  <2>5. ASSUME NEW x \in Canceller, StoreCancel(x) \/ \E a \in Alert : LoadToCancel(x, a)
        PROVE  post' = post
    BY <2>5 DEF StoreCancel, LoadToCancel
  <2> QED  BY <1>1, <2>1, <2>2, <2>3, <2>4, <2>5 DEF AlertNext
<1>2. AcceptedIsVerified'
  BY <1>0, <1>1 DEF AcceptedIsVerified, Verified
<1>3. ASSUME NEW a \in Alert, alerts'[a] # NoAlert
      PROVE  Verified(alerts'[a].case)
  <2>1. ASSUME alerts[a] # NoAlert
        PROVE  Verified(alerts[a].case)
    BY <2>1 DEF AlertsFollowVerification, Verified
  <2>2. CASE UNCHANGED <<alerts, alert_events>>
    BY <1>3, <2>1, <2>2
  <2>3. ASSUME NEW f \in Form, NEW n \in Try, NEW b \in Alert,
               InsertAlert(f, n, b), Inserted(f, n, b)
        PROVE  Verified(alerts'[a].case)
    <3>1. post[<<f, n>>] = "accepted"  BY <2>3 DEF InsertAlert
    <3>2. Verified(caseOf[f])  BY <3>1 DEF AcceptedIsVerified
    <3> QED  BY <1>3, <2>1, <2>3, <3>2, InsertedRow
  <2>4. ASSUME NEW x \in Canceller, NEW b \in Alert, Removed(x, b)
        PROVE  Verified(alerts'[a].case)
    <3>1. alerts[b] # NoAlert  BY <2>4 DEF Removed
    <3> QED  BY <1>3, <2>1, <2>4, <3>1, RemovedRow
  <2> QED  BY <2>2, <2>3, <2>4, TablesChange
<1> QED  BY <1>0, <1>2, <1>3 DEF AlertsFollowVerification, Verified

-----------------------------------------------------------------------------
(* The invariant. *)

\* It holds at the start.
LEMMA AlertInitially ==
  ASSUME Init
  PROVE  AlertInv
<1>1. CaseInv /\ cases = [c \in Case |-> NoCase]  BY CaseInitInv DEF Init, CaseInit
<1>2. AlertTypeOK
  BY AlertAssumption DEF Init, AlertTypeOK
<1>3. StoryTold /\ LoadedAsCreated /\ KeysUnique /\ KeyOfItsClient
  BY DEF Init, StoryTold, EventsOfAlert, LoadedAsCreated, KeysUnique, KeyOfItsClient, Stored
<1>4. ShownIsThere /\ AcceptedIsVerified /\ AlertsFollowVerification
  <2>1. \A f \in Form, n \in Try : <<f, n>> \in Form \X Try
    OBVIOUS
  <2>2. post = [p \in Form \X Try |-> "unsent"]
    BY DEF Init
  <2>3. \A f \in Form, n \in Try : post[<<f, n>>] = "unsent"
    BY <2>1, <2>2
  <2> QED  BY <2>3 DEF Init, ShownIsThere, AcceptedIsVerified, AlertsFollowVerification
<1>5. LaterIsOnRecord
  BY <1>1 DEF LaterIsOnRecord, VerifiedOrLater, NoCase
<1> QED  BY <1>1, <1>2, <1>3, <1>4, <1>5 DEF AlertInv

\* Every step keeps it: a step of the cases, of the alerts, or none.
LEMMA AlertInductive ==
  ASSUME AlertInv, [Next]_vars
  PROVE  AlertInv'
<1>1. ASSUME [CaseNext]_caseVars, UNCHANGED alertVars
      PROVE  AlertInv'
  <2>1. CaseInv' /\ LaterIsOnRecord' /\ case_events \subseteq case_events'
    BY <1>1, CaseStepInv, LaterStaysOnRecord DEF AlertInv
  <2>2. UNCHANGED <<alerts, alert_events, form, tries, post, cancelling>>
    BY <1>1 DEF alertVars, clientVars
  <2>3. AlertTypeOK'
    BY <2>2 DEF AlertInv, AlertTypeOK
  <2>4. StoryTold' /\ LoadedAsCreated' /\ KeysUnique' /\ KeyOfItsClient' /\ ShownIsThere'
    BY <2>2 DEF AlertInv, StoryTold, EventsOfAlert, LoadedAsCreated, KeysUnique,
      KeyOfItsClient, ShownIsThere, Stored, Created, Cancelled
  <2>5. AcceptedIsVerified' /\ AlertsFollowVerification'
    BY <2>1, <2>2 DEF AlertInv, AcceptedIsVerified, AlertsFollowVerification, Verified
  <2> QED  BY <2>1, <2>3, <2>4, <2>5 DEF AlertInv
<1>2. ASSUME AlertNext, UNCHANGED caseVars
      PROVE  AlertInv'
  <2>1. CaseInv' /\ LaterIsOnRecord'
    BY <1>2, CaseStepInv, LaterStaysOnRecord DEF AlertInv
  <2>2. AlertTypeOK' /\ StoryTold' /\ LoadedAsCreated'
    BY <1>2, AlertTypesKept, StoryStays, LoadedStaysAsCreated DEF AlertInv
  <2>3. KeysUnique' /\ KeyOfItsClient' /\ ShownIsThere'
    BY <1>2, KeysStayUnique, KeyStaysWithClient, ShownStaysThere DEF AlertInv
  <2>4. AcceptedIsVerified' /\ AlertsFollowVerification'
    BY <1>2, VerifiedStays DEF AlertInv
  <2> QED  BY <2>1, <2>2, <2>3, <2>4 DEF AlertInv
<1>3. CASE UNCHANGED vars
  BY <1>1, <1>3 DEF vars
<1> QED  BY <1>1, <1>2, <1>3 DEF Next

\* What the invariant says of clients that keep their key.
LEMMA OneForAKey ==
  ASSUME AlertInv
  PROVE  KeptKeyMakesOne
<1>1. \A f \in Form : \A a \in AlertsOf(f) : a \in Alert /\ Created(a, f) \in alert_events
  <2> SUFFICES ASSUME NEW f \in Form, NEW e \in alert_events,
                      e.type = "ALERT_CREATED", e.actor = f
               PROVE  e.alert \in Alert /\ Created(e.alert, f) \in alert_events
    BY DEF AlertsOf
  <2>1. e.alert \in Alert  BY DEF AlertInv, AlertTypeOK
  <2>2. e \in EventsOfAlert(e.alert)  BY DEF EventsOfAlert
  <2>3. ASSUME NEW g \in Form, e = Created(e.alert, g)
        PROVE  Created(e.alert, f) \in alert_events
    BY <2>3 DEF Created
  <2>4. ASSUME NEW x \in Canceller
        PROVE  e # Cancelled(e.alert, x)
    BY DEF Cancelled
  <2>5. \E g \in Form : e = Created(e.alert, g)
    BY <2>1, <2>2, <2>4 DEF AlertInv, StoryTold
  <2> QED  BY <2>1, <2>3, <2>5
<1>2. ASSUME NEW f \in Form, keying[f] = "kept"
      PROVE  Cardinality(AlertsOf(f)) <= 1
  <2>1. ASSUME NEW a \in AlertsOf(f), NEW b \in AlertsOf(f)
        PROVE  a = b
    <3>1. a \in Alert /\ b \in Alert /\ Stored(a) /\ Stored(b)
      BY <1>1 DEF AlertInv, KeyOfItsClient
    <3>2. alerts[a].key = <<f, 1>> /\ alerts[b].key = <<f, 1>> /\ <<f, 1>> # NoKey
      BY <1>1, <1>2, KeyTyped DEF AlertInv, KeyOfItsClient
    <3> QED  BY <3>1, <3>2 DEF AlertInv, KeysUnique
  <2>2. CASE AlertsOf(f) = {}
    BY <2>2, FS_EmptySet
  <2>3. ASSUME NEW a \in AlertsOf(f)
        PROVE  Cardinality(AlertsOf(f)) <= 1
    <3>1. AlertsOf(f) = {a}  BY <2>1
    <3>2. Cardinality({a}) = 1  BY FS_Singleton
    <3> QED  BY <3>1, <3>2
  <2> QED  BY <2>2, <2>3
<1>3. ASSUME NEW f \in Form, form[f] = "shown"
      PROVE  AlertsOf(f) # {}
  <2>1. PICK a \in Alert : Created(a, f) \in alert_events
    BY <1>3 DEF AlertInv, ShownIsThere
  <2>2. Created(a, f).type = "ALERT_CREATED" /\ Created(a, f).actor = f  BY DEF Created
  <2> QED  BY <2>1, <2>2 DEF AlertsOf
<1> QED  BY <1>2, <1>3 DEF KeptKeyMakesOne

\* What the invariant says of the history of an alert.
LEMMA HistoryOfAnAlert ==
  ASSUME AlertInv
  PROVE  AlertHistory
<1> SUFFICES ASSUME NEW a \in Alert
             PROVE  LET events == EventsOfAlert(a)
                        Typed(type) == {e \in events : e.type = type}
                    IN IF alerts[a] = NoAlert THEN events = {}
                       ELSE /\ Cardinality(events) = alerts[a].version
                            /\ Cardinality(Typed("ALERT_CREATED")) = 1
                            /\ alerts[a].status = "CANCELLED" <=> Typed("ALERT_CANCELLED") # {}
  BY DEF AlertHistory, EventsOfAlert
<1> DEFINE events == EventsOfAlert(a)
           Typed(type) == {e \in events : e.type = type}
<1>1. CASE alerts[a] = NoAlert
  <2>1. NoAlert.status \notin {"ACTIVE", "CANCELLED"}  BY DEF NoAlert
  <2> QED  BY <1>1, <2>1 DEF AlertInv, StoryTold
<1>2. ASSUME alerts[a] # NoAlert, alerts[a].status = "ACTIVE", alerts[a].version = 1,
             NEW f \in Form, events = {Created(a, f)}
      PROVE  /\ Cardinality(events) = alerts[a].version
             /\ Cardinality(Typed("ALERT_CREATED")) = 1
             /\ alerts[a].status = "CANCELLED" <=> Typed("ALERT_CANCELLED") # {}
  <2>1. Typed("ALERT_CREATED") = {Created(a, f)} /\ Typed("ALERT_CANCELLED") = {}
    BY <1>2 DEF Created
  <2> HIDE DEF Typed, events
  <2> QED  BY <1>2, <2>1, FS_Singleton
<1>3. ASSUME alerts[a] # NoAlert, alerts[a].status = "CANCELLED", alerts[a].version = 2,
             NEW f \in Form, NEW x \in Canceller,
             events = {Created(a, f), Cancelled(a, x)}
      PROVE  /\ Cardinality(events) = alerts[a].version
             /\ Cardinality(Typed("ALERT_CREATED")) = 1
             /\ alerts[a].status = "CANCELLED" <=> Typed("ALERT_CANCELLED") # {}
  <2>1. Created(a, f) # Cancelled(a, x)  BY DEF Created, Cancelled
  <2>2. /\ Typed("ALERT_CREATED") = {Created(a, f)}
        /\ Typed("ALERT_CANCELLED") = {Cancelled(a, x)}
    BY <1>3 DEF Created, Cancelled
  <2> HIDE DEF Typed, events
  <2>3. IsFiniteSet({Created(a, f)}) /\ Cardinality({Created(a, f)}) = 1
    BY FS_Singleton
  <2>4. events = {Created(a, f)} \cup {Cancelled(a, x)} /\ Cancelled(a, x) \notin {Created(a, f)}
    BY <1>3, <2>1
  <2> DEFINE one == {Created(a, f)}
  <2>5. Cardinality(one \cup {Cancelled(a, x)}) = Cardinality(one) + 1
    BY <2>3, <2>4, FS_AddElement
  <2>6. Cardinality(events) = 2
    BY <2>3, <2>4, <2>5
  <2> QED  BY <1>3, <2>2, <2>3, <2>6
<1> QED  BY <1>1, <1>2, <1>3 DEF AlertInv, StoryTold

-----------------------------------------------------------------------------
(* The theorems. *)

\* The invariant holds in every reachable state.
THEOREM AlertInvariant == Spec => []AlertInv
<1> QED  BY AlertInitially, AlertInductive, PTL DEF Spec

\* Types of the tables and requests of alerts (postgres/alerts.rs, apps/api/src/alerts.rs).
THEOREM AlertTypes == Spec => []AlertTypeOK
<1>1. AlertInv => AlertTypeOK  BY DEF AlertInv
<1> QED  BY <1>1, AlertInvariant, PTL

\* A client that keeps its Idempotency-Key makes one alert at most, for any number of
\* posts, and none is shown an alert that is not there (insert_alert).
THEOREM KeptKeyTheorem == Spec => []KeptKeyMakesOne
<1> QED  BY OneForAKey, AlertInvariant, PTL

\* An alert is created once and cancelled at most once, by one of any number of
\* requests that loaded it (PostgresAlertRepository::cancel).
THEOREM AlertHistoryTheorem == Spec => []AlertHistory
<1> QED  BY HistoryOfAnAlert, AlertInvariant, PTL

\* No alert without a verification of its case on record, although the case is read
\* before the alert is written and may change in between (create_alert).
THEOREM VerificationTheorem == Spec => []AlertsFollowVerification
<1>1. AlertInv => AlertsFollowVerification  BY DEF AlertInv
<1> QED  BY <1>1, AlertInvariant, PTL
=============================================================================
