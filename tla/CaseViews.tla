------------------------------ MODULE CaseViews ------------------------------
(* Reading cases while others change them: get_case, list_cases and        *)
(* list_case_events of apps/api/src/cases.rs over find_by_id, list and     *)
(* list_events of postgres/cases.rs.  An answer is put together from a     *)
(* statement on cases and a statement on case_reports that is no part of a *)
(* transaction; a client asks for the history after that.                  *)
EXTENDS CaseWorkflow

VARIABLE view  \* [Request -> View or NoRequest]: a slot that reads changes nothing

viewVars == <<caseVars, view>>

\* NoCase marks what is not on the page.
View ==
  [step : {"rows", "links", "history"}, rows : [Case -> CaseRow],
   reports : [Case -> SUBSET Report],
   events : SUBSET [case : Case, version : Nat, entered : Change]]

ViewTypeOK == CaseTypeOK /\ view \in [Request -> View \cup {NoRequest}]

ViewInit == CaseInit /\ view = [q \in Request |-> NoRequest]

OnPage(v) == {c \in Case : v.rows[c] # NoCase}

\* find_by_id, or list with a filter, a limit and an offset: some cases, in one statement.
\* With none of them the request is over.
ReadRows(q, page) ==
  /\ job[q] = NoRequest /\ view[q] = NoRequest
  /\ page # {} /\ \A c \in page : cases[c] # NoCase
  /\ view' = [view EXCEPT ![q] =
       [step |-> "rows", rows |-> [c \in Case |-> IF c \in page THEN cases[c] ELSE NoCase],
        reports |-> [c \in Case |-> {}], events |-> {}]]
  /\ response' = [response EXCEPT ![q] = NoRequest]
  /\ UNCHANGED <<reports, cases, case_reports, case_events, job>>

\* The reports of all cases on the page, in one statement, and the answer.
ReadLinks(q) ==
  /\ view[q] # NoRequest /\ view[q].step = "rows"
  /\ view' = [view EXCEPT ![q].step = "links",
       ![q].reports = [c \in Case |-> IF c \in OnPage(view[q]) THEN ReportsOf(c) ELSE {}]]
  /\ UNCHANGED caseVars

\* list_case_events for one of the cases that were answered.
ReadHistory(q, c) ==
  /\ view[q] # NoRequest /\ view[q].step = "links" /\ c \in OnPage(view[q])
  /\ view' = [view EXCEPT ![q].step = "history",
                          ![q].events = {e \in case_events : e.case = c}]
  /\ UNCHANGED caseVars

\* The client goes on, or persistence_failed at any point.
EndView(q) ==
  /\ view[q] # NoRequest
  /\ view' = [view EXCEPT ![q] = NoRequest]
  /\ UNCHANGED caseVars

ViewNext ==
  \/ CaseNext /\ (\A q \in Request : view[q] # NoRequest => job'[q] = NoRequest) /\ UNCHANGED view
  \/ \E q \in Request :
       \/ \E page \in SUBSET Case : ReadRows(q, page)
       \/ ReadLinks(q) \/ EndView(q)
       \/ \E c \in Case : ReadHistory(q, c)

ViewSpec == ViewInit /\ [][ViewNext]_viewVars

-----------------------------------------------------------------------------
(* Properties. *)

\* The links the events up to a version account for: that of CASE_CREATED and one for
\* every REPORT_LINKED.
LinksUpTo(events, version) ==
  Cardinality({e \in events : e.version <= version /\ (e.entered = "LINK" \/ e.version = 1)})

\* What an answer shows of a case is never behind the version it shows: all reports linked up
\* to it are there, perhaps more, and none in two cases of one page; the history that is
\* asked for afterwards has no gap and leads through that version and its status.
ViewAgrees(v) ==
  /\ v.step # "rows" =>
       /\ \A c \in OnPage(v) :
            Cardinality(v.reports[c]) >= LinksUpTo(EventsOf(c), v.rows[c].version)
       /\ \A c, d \in OnPage(v) : c = d \/ v.reports[c] \cap v.reports[d] = {}
  /\ \A e \in v.events :
       LET row   == v.rows[e.case]
           moves == {f \in v.events : f.entered # "LINK" /\ f.version <= row.version}
       IN /\ 1..row.version \subseteq {f.version : f \in v.events}
          /\ \E f \in moves :
               f.entered = row.status /\ \A g \in moves : g.version <= f.version

\* A 200 response to a change shows exactly what it stored, although its aggregate was loaded
\* in two reads, since a torn load never passes the version check; and a 200 response to a
\* reader, from the same two reads, agrees with the version it shows (find_by_id, list).
AnsweredTruly ==
  [][/\ \A q \in Request :
          LET b == response'[q] IN
          b # response[q] /\ b # NoRequest =>
            /\ cases'[b.case] = [status |-> b.status, version |-> b.version]
            /\ b.reports = {r \in Report : <<b.case, r>> \in case_reports'}
     /\ (\A q \in Request : view[q] # NoRequest => ViewAgrees(view[q]))']_viewVars
=============================================================================
