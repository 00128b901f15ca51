---------------------------- MODULE ReviewerLists ----------------------------
(* Reading a whole list page after page: list_audit_events, list_reports   *)
(* and list_cases of apps/api over the lists of postgres/audit_events.rs,  *)
(* reports.rs and cases.rs.  Each page is a query of its own, cut by LIMIT *)
(* and OFFSET, from a table that grows at its head, where rows appear out  *)
(* of order because they carry the time their transaction began, and that  *)
(* may be sorted by what changes.  Two rows are never of the same          *)
(* microsecond here.                                                       *)
EXTENDS AlertPages

CONSTANTS
  MaxRows,   \* bound: rows whose insertion begins
  Asked,     \* limits that are asked for
  NoWalk

ASSUME ListsAssumption == MaxRows \in Nat /\ Asked \subseteq Nat \ {0}

VARIABLES
  table,   \* which of the three is read
  rows,    \* its rows, the head of the list at the end, not all of them committed
  walk     \* a client that asks for page after page, until one is empty

listVars == <<table, rows, walk>>

Table == {"audit_events", "reports", "cases"}

\* The filters: any combination of columns of an audit event, all of which never change, or
\* the status of a report or a case, which does.
ListRow ==
  [id : 1 .. MaxRows, fits : BOOLEAN, state : {"begun", "committed", "undone"}]

\* owed: what was there at the beginning, has not changed since and is not shown yet.
Walk ==
  [filtered : BOOLEAN, limit : 1 .. MaxLimit, at : 0 .. MaxRows, over : BOOLEAN,
   owed : SUBSET (1 .. MaxRows), shrunk : BOOLEAN]

ListsTypeOK ==
  /\ table \in Table /\ rows \in Seq(ListRow) /\ Len(rows) <= MaxRows
  /\ walk = NoWalk \/ walk \in Walk

ListsInit == table \in Table /\ rows = <<>> /\ walk = NoWalk

-----------------------------------------------------------------------------
(* What happens to the tables. *)

\* record, insert_audit_event, insert_report, insert_case: the default of the time column is
\* now(), the beginning of the transaction.
BeginRow(fits) ==
  /\ Len(rows) < MaxRows
  /\ rows' = Append(rows, [id |-> Len(rows) + 1, fits |-> fits, state |-> "begun"])
  /\ UNCHANGED <<table, walk>>

CommitRow(i) ==
  /\ rows[i].state = "begun"
  /\ rows' = [rows EXCEPT ![i].state = "committed"]
  /\ UNCHANGED <<table, walk>>

RollBackRow(i) ==
  /\ rows[i].state = "begun"
  /\ rows' = [rows EXCEPT ![i].state = "undone"]
  /\ UNCHANGED <<table, walk>>

\* What is said of the walk when a row changes: which one, and whether the list it walks
\* through becomes shorter.
Touched(id, leaves) ==
  IF walk = NoWalk \/ walk.over THEN walk
  ELSE [walk EXCEPT !.owed = @ \ {id}, !.shrunk = @ \/ (walk.filtered /\ leaves)]

\* mark_under_review, mark_report_linked_to_case: the status of a report, in its place.
ChangeReport(i) ==
  /\ table = "reports" /\ rows[i].state = "committed"
  /\ rows' = [rows EXCEPT ![i].fits = ~@]
  /\ walk' = Touched(rows[i].id, rows[i].fits)
  /\ UNCHANGED table

\* advance_case_version: updated_at becomes the time at which the transaction began, which
\* is before or after that of others; the case moves from i to j.
MoveCase(i, j, fits) ==
  /\ table = "cases" /\ rows[i].state = "committed" /\ i <= j
  /\ rows' = [k \in DOMAIN rows |->
       IF k < i \/ k > j THEN rows[k]
       ELSE IF k < j THEN rows[k + 1] ELSE [rows[i] EXCEPT !.fits = fits]]
  /\ walk' = Touched(rows[i].id, rows[i].fits /\ ~fits)
  /\ UNCHANGED table

-----------------------------------------------------------------------------
(* Reading. *)

\* The three queries, as sets of places in the list.
Selected(filtered) ==
  {i \in DOMAIN rows : rows[i].state = "committed" /\ (filtered => rows[i].fits)}

BeginWalk(filtered, asked) ==
  /\ walk = NoWalk
  /\ walk' = [filtered |-> filtered, limit |-> Lesser(asked, MaxLimit), at |-> 0,
              over |-> FALSE, shrunk |-> FALSE,
              owed |-> {rows[i].id : i \in Selected(filtered)}]
  /\ UNCHANGED <<table, rows>>

\* The next page starts after as many rows as were shown; an empty one is the end.
NextPage ==
  LET page == Cut(Selected(walk.filtered), walk.at, walk.limit) IN
  /\ walk # NoWalk /\ ~walk.over
  /\ walk' = [walk EXCEPT !.at = @ + Cardinality(page),
       !.owed = @ \ {rows[i].id : i \in page}, !.over = page = {}]
  /\ UNCHANGED <<table, rows>>

EndWalk == walk # NoWalk /\ walk' = NoWalk /\ UNCHANGED <<table, rows>>

ListsNext ==
  \/ \E fits \in BOOLEAN : BeginRow(fits)
  \/ \E i \in DOMAIN rows :
       \/ CommitRow(i) \/ RollBackRow(i) \/ ChangeReport(i)
       \/ \E j \in DOMAIN rows, fits \in BOOLEAN : MoveCase(i, j, fits)
  \/ \E filtered \in BOOLEAN, asked \in Asked : BeginWalk(filtered, asked)
  \/ NextPage \/ EndWalk

ListsSpec == ListsInit /\ [][ListsNext]_listVars

-----------------------------------------------------------------------------
(* Properties. *)

\* Whoever reads on until a page is empty has seen every row that was there at the beginning and
\* did not change meanwhile, some perhaps twice: all of the audit trail, whatever is written
\* to it meanwhile, and all of the reports and cases, unless one left the status asked for and
\* the rows after it moved up.
WalkMissesNothing == walk # NoWalk /\ walk.over /\ ~walk.shrunk => walk.owed = {}

\* The pages of alerts, and those of the other lists.
ListsFaithful == PagesFaithful /\ WalkMissesNothing
=============================================================================
