---------------------------- MODULE CaseWorkflow ----------------------------
(***************************************************************************)
(* Cases and the reports linked to them: the Case aggregate                *)
(* (domain/src/case.rs), the requests that change one                      *)
(* (apps/api/src/cases.rs, reports.rs) and the transactions that store it  *)
(* (infrastructure/src/postgres/cases.rs).                                 *)
(*                                                                         *)
(* A request loads the aggregate in two reads, changes it in memory and    *)
(* stores it in one transaction that checks the version; any other request *)
(* may run between these steps.                                            *)
(***************************************************************************)
EXTENDS Naturals, FiniteSets

CONSTANTS
  Case, Report,
  NoReport,       \* what a change of status links
  Request,        \* requests the API serves at the same time
  NoRequest       \* an idle slot

CaseStatus == {"REPORTED", "UNDER_REVIEW", "VERIFIED", "ACTIVE",
               "RESOLVED", "CANCELLED", "REJECTED"}

\* Linking is the one change that is not a change of status.
Change == CaseStatus \cup {"LINK"}

CaseRow == [status : CaseStatus \cup {"ABSENT"}, version : Nat]
NoCase  == [status |-> "ABSENT", version |-> 0]

Job == {j \in [case : Case, change : Change, report : Report \cup {NoReport},
               step : {"row", "reports", "store"}, row : CaseRow,
               reports : SUBSET Report] : j.report = NoReport <=> j.change # "LINK"}

Body == [case : Case, status : CaseStatus, version : Nat, reports : SUBSET Report]

ASSUME CaseAssumption ==
  NoReport \notin Report /\ NoRequest \notin Job /\ NoRequest \notin Body

VARIABLES
  reports,       \* [Report -> status]: the reports table
  cases,         \* [Case -> CaseRow]: the cases table
  case_reports,  \* <<case, report>> rows
  case_events,   \* [case, version, entered] rows; linking enters "LINK"
  job,           \* [Request -> Job or NoRequest]
  response       \* [Request -> last 200 body, or NoRequest]

caseVars == <<reports, cases, case_reports, case_events, job, response>>

CaseTypeOK ==
  /\ reports \in [Report -> {"RECEIVED", "UNDER_REVIEW", "LINKED_TO_CASE"}]
  /\ cases \in [Case -> CaseRow]
  /\ case_reports \subseteq Case \X Report
  /\ case_events \subseteq [case : Case, version : Nat, entered : Change]
  /\ job \in [Request -> Job \cup {NoRequest}]
  /\ response \in [Request -> Body \cup {NoRequest}]

CaseInit ==
  /\ reports = [r \in Report |-> "RECEIVED"]
  /\ cases = [c \in Case |-> NoCase]
  /\ case_reports = {}
  /\ case_events = {}
  /\ job = [q \in Request |-> NoRequest]
  /\ response = [q \in Request |-> NoRequest]

-----------------------------------------------------------------------------
(* The aggregate. *)

\* Mutant: a verified case may be closed as rejected.
IsAllowedLenient(from, to) ==
  <<from, to>> \in {<<"REPORTED", "UNDER_REVIEW">>,
                    <<"UNDER_REVIEW", "VERIFIED">>, <<"UNDER_REVIEW", "REJECTED">>,
                    <<"VERIFIED", "ACTIVE">>, <<"VERIFIED", "REJECTED">>,
                    <<"ACTIVE", "RESOLVED">>, <<"ACTIVE", "CANCELLED">>}

\* is_allowed_transition
IsAllowed(from, to) ==
  <<from, to>> \in {<<"REPORTED", "UNDER_REVIEW">>,
                    <<"UNDER_REVIEW", "VERIFIED">>, <<"UNDER_REVIEW", "REJECTED">>,
                    <<"VERIFIED", "ACTIVE">>, <<"VERIFIED", "CANCELLED">>,
                    <<"ACTIVE", "RESOLVED">>, <<"ACTIVE", "CANCELLED">>}

\* link_report refuses a report the loaded aggregate already has; transition_to
\* refuses an edge that is not in the lifecycle.
Legal(j) ==
  IF j.change = "LINK" THEN j.report \notin j.reports
                       ELSE IsAllowed(j.row.status, j.change)

\* Mutant: linking does not raise the version.
NewRowLinkUnversioned(j) ==
  IF j.change = "LINK" THEN j.row
                       ELSE [status |-> j.change, version |-> j.row.version + 1]

\* The aggregate after link_report or transition_to.
NewRow(j) == [status  |-> IF j.change = "LINK" THEN j.row.status ELSE j.change,
              version |-> j.row.version + 1]

NewReports(j) == IF j.change = "LINK" THEN j.reports \cup {j.report} ELSE j.reports

ReportsOf(c) == {r \in Report : <<c, r>> \in case_reports}

-----------------------------------------------------------------------------
(* The transactions. *)

\* Mutant: the primary key alone, a report may be in several cases.
LinkedHere(c, r) == <<c, r>> \in case_reports

\* case_reports_report_id_unique
Linked(c, r) == \E d \in Case : <<d, r>> \in case_reports

\* Mutant: the UPDATE does not look at the version.
Exists(j) == cases[j.case] # NoCase

\* advance_case_version matches the version the aggregate was loaded with.
VersionMatches(j) == cases[j.case].version = j.row.version

\* insert_case_report_link and mark_report_linked_to_case
InsertLink(c, r) ==
  /\ case_reports' = case_reports \cup {<<c, r>>}
  /\ reports' = [reports EXCEPT ![r] = "LINKED_TO_CASE"]

\* create_case: one transaction, rolled back when the report is linked already.
CreateCase(c, r) ==
  /\ cases[c] = NoCase
  /\ ~Linked(c, r)
  /\ InsertLink(c, r)
  /\ cases' = [cases EXCEPT ![c] = [status |-> "REPORTED", version |-> 1]]
  /\ case_events' = case_events \cup
                      {[case |-> c, version |-> 1, entered |-> "REPORTED"]}
  /\ UNCHANGED <<job, response>>

\* mark_under_review, conditional on RECEIVED.
StartReportReview(r) ==
  /\ reports[r] = "RECEIVED"
  /\ reports' = [reports EXCEPT ![r] = "UNDER_REVIEW"]
  /\ UNCHANGED <<cases, case_reports, case_events, job, response>>

-----------------------------------------------------------------------------
(* Requests. *)

\* link_report, create_case_event, verify_case or resolve_case is called.
Begin(q, c, change, r) ==
  /\ job[q] = NoRequest
  /\ r = NoReport <=> change # "LINK"
  /\ job' = [job EXCEPT ![q] =
       [case |-> c, change |-> change, report |-> r, step |-> "row",
        row |-> NoCase, reports |-> {}]]
  /\ response' = [response EXCEPT ![q] = NoRequest]
  /\ UNCHANGED <<reports, cases, case_reports, case_events>>

\* The request with what it has loaded so far.
Progress(j, step, row, linked) ==
  [case |-> j.case, change |-> j.change, report |-> j.report, step |-> step,
   row |-> row, reports |-> linked]

\* find_by_id, first read; an unknown case ends the request (404).
ReadRow(q) ==
  /\ job[q] # NoRequest /\ job[q].step = "row"
  /\ job' = [job EXCEPT ![q] =
       IF cases[job[q].case] = NoCase THEN NoRequest
       ELSE Progress(job[q], "reports", cases[job[q].case], {})]
  /\ UNCHANGED <<reports, cases, case_reports, case_events, response>>

\* find_by_id, second read.
ReadReports(q) ==
  /\ job[q] # NoRequest /\ job[q].step = "reports"
  /\ job' = [job EXCEPT ![q] =
       Progress(job[q], "store", job[q].row, ReportsOf(job[q].case))]
  /\ UNCHANGED <<reports, cases, case_reports, case_events, response>>

\* Refused in memory, by the version check, or because another case took the
\* report meanwhile; or the request fails: nothing is stored.
Refused(j) ==
  ~Legal(j) \/ ~VersionMatches(j) \/ (j.change = "LINK" /\ Linked(j.case, j.report))

Refuse(q) ==
  /\ job[q] # NoRequest /\ job[q].step = "store"
  /\ Refused(job[q])
  /\ job' = [job EXCEPT ![q] = NoRequest]
  /\ UNCHANGED <<reports, cases, case_reports, case_events, response>>

\* link_report and apply_review of the repository, then the 200 response built
\* from the aggregate in memory.
Store(q) ==
  LET j == job[q] IN
  /\ j # NoRequest /\ j.step = "store"
  /\ ~Refused(j)
  /\ cases' = [cases EXCEPT ![j.case] = NewRow(j)]
  /\ case_events' = case_events \cup
       {[case |-> j.case, version |-> NewRow(j).version, entered |-> j.change]}
  /\ IF j.change = "LINK" THEN InsertLink(j.case, j.report)
                          ELSE UNCHANGED <<case_reports, reports>>
  /\ response' = [response EXCEPT ![q] =
       [case |-> j.case, status |-> NewRow(j).status,
        version |-> NewRow(j).version, reports |-> NewReports(j)]]
  /\ job' = [job EXCEPT ![q] = NoRequest]

\* A database error or a crash ends a request at any step; its open
\* transaction is rolled back.
Fail(q) ==
  /\ job[q] # NoRequest
  /\ job' = [job EXCEPT ![q] = NoRequest]
  /\ UNCHANGED <<reports, cases, case_reports, case_events, response>>

CaseNext ==
  \/ \E c \in Case, r \in Report : CreateCase(c, r)
  \/ \E r \in Report : StartReportReview(r)
  \/ \E q \in Request :
       \/ \E c \in Case, change \in Change, r \in Report \cup {NoReport} : Begin(q, c, change, r)
       \/ ReadRow(q) \/ ReadReports(q) \/ Refuse(q) \/ Store(q) \/ Fail(q)

CaseSpec == CaseInit /\ [][CaseNext]_caseVars

-----------------------------------------------------------------------------
(* Properties. *)

EventsOf(c) == {e \in case_events : e.case = c}

\* case_events is the whole story of a case: versions 1, 2, ... without a gap
\* or a repetition, starting at REPORTED, each status entered along an edge
\* from the status before it, and ending in the stored status, whatever
\* requests raced (advance_case_version).
HistoryIsPath ==
  \A c \in Case :
    LET moves == {e \in EventsOf(c) : e.entered # "LINK"}
        Before(e) == {f \in moves : f.version < e.version}
        Newest(S) == CHOOSE f \in S : \A g \in S : g.version <= f.version
    IN /\ {e.version : e \in EventsOf(c)} = 1..cases[c].version
       /\ \A e, f \in EventsOf(c) : e.version = f.version => e = f
       /\ moves # {} => Newest(moves).entered = cases[c].status
       /\ \A e \in moves : IF Before(e) = {}
                             THEN e.entered = "REPORTED"
                             ELSE IsAllowed(Newest(Before(e)).entered, e.entered)

\* A report is LINKED_TO_CASE exactly while it is evidence for a case, for one
\* case only, and each link but the first is an event of that case (create and
\* link_report change both tables in one transaction; mark_under_review never
\* takes a linked report back).
LinksAgree ==
  /\ \A r \in Report :
       reports[r] = "LINKED_TO_CASE" <=> \E c \in Case : <<c, r>> \in case_reports
  /\ \A p, q \in case_reports : p[2] = q[2] => p = q
  /\ \A c \in Case : cases[c] # NoCase =>
       Cardinality(ReportsOf(c)) =
         1 + Cardinality({e \in EventsOf(c) : e.entered = "LINK"})

\* The workflow implements the contract.
Contract == INSTANCE CaseContract
              WITH status <- [c \in Case |-> cases[c].status],
                   evidence <- [c \in Case |-> ReportsOf(c)]

\* Every step of the workflow is a step of the contract or leaves it alone.
ImplementsContract == Contract!Spec

=============================================================================
