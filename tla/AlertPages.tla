----------------------------- MODULE AlertPages -----------------------------
(* Reading alerts while they are created and cancelled: get_alert and      *)
(* list_alerts of apps/api/src/alerts.rs over find_by_id and list of       *)
(* postgres/alerts.rs.  Pages are cut by LIMIT and OFFSET from a table that *)
(* grows at its head; a reviewer who is no platform admin is answered from *)
(* a scan of many such queries, each a transaction of its own.             *)
EXTENDS Integers, Sequences, FiniteSets

CONSTANTS
  MaxAlerts,  \* bound: alerts whose creation begins
  Batch,      \* rows of a query of the scan; 100 in the code
  MaxLimit,   \* MAX_LIMIT
  Limits,     \* limits that are asked for
  Offsets,    \* offsets that are asked for
  Filters,    \* status filters that are asked for
  NoRead

ASSUME PagesAssumption ==
  /\ MaxAlerts \in Nat /\ Batch \in Nat \ {0} /\ MaxLimit \in Nat \ {0}
  /\ Limits \subseteq Nat /\ Offsets \subseteq Nat
  /\ Filters \subseteq {"any", "ACTIVE", "CANCELLED"}

VARIABLES
  board,  \* rows of table alerts in the order of created_at, not all of them committed
  read    \* the request that reads

pageVars == <<board, read>>

\* Whose an alert is, seen from the reviewer who reads: issued by the reviewer's own
\* organization, matched by a subscription of its consumer, or neither.
Relation == {"own", "matched", "foreign"}
Reader == {"admin", "subscribed", "unsubscribed"}

BoardRow ==
  [relation : Relation, status : {"ACTIVE", "CANCELLED"},
   state : {"begun", "committed", "undone"}]

\* An alert of an answer: its place on the board, and its status as it was read.
Shown == [id : 1 .. MaxAlerts, status : {"ACTIVE", "CANCELLED"}]

\* start: what the answer would be if all were read at once at the beginning.
Reading ==
  [op : {"get", "list"}, reader : Reader, filter : Filters \cup {"any"}, limit : 0 .. MaxLimit,
   offset : Offsets \cup {0}, at : Nat, matched : Nat, selected : Seq(Shown),
   stage : {"scanning", "selected", "recorded"},
   start : Seq(1 .. MaxAlerts), calm : {"quiet", "grew", "changed"}]

PagesTypeOK ==
  /\ board \in Seq(BoardRow) /\ Len(board) <= MaxAlerts
  /\ read = NoRead \/ read \in Reading

PagesInit == board = <<>> /\ read = NoRead

-----------------------------------------------------------------------------
(* create and cancel, as far as the lists see them. *)

\* What happens to the list while it is scanned.
Disturbed(calm) ==
  IF read = NoRead \/ read.stage # "scanning" \/ read.calm = "changed" THEN read
  ELSE [read EXCEPT !.calm = calm]

\* created_at is the time at which the transaction begins.
BeginCreate(relation) ==
  /\ Len(board) < MaxAlerts
  /\ board' = Append(board, [relation |-> relation, status |-> "ACTIVE", state |-> "begun"])
  /\ UNCHANGED read

CommitCreate(n) ==
  /\ board[n].state = "begun"
  /\ board' = [board EXCEPT ![n].state = "committed"]
  /\ read' = Disturbed("grew")

\* Duplicate, or an error.
RollBackCreate(n) ==
  /\ board[n].state = "begun"
  /\ board' = [board EXCEPT ![n].state = "undone"]
  /\ UNCHANGED read

CancelOnBoard(n) ==
  /\ board[n].state = "committed" /\ board[n].status = "ACTIVE"
  /\ board' = [board EXCEPT ![n].status = "CANCELLED"]
  /\ read' = Disturbed("changed")

-----------------------------------------------------------------------------
(* Queries: sets of places on the board. *)

\* PostgresAlertRepository::list; the filter by visibility, which never changes, is left out.
Fitting(filter) ==
  {n \in DOMAIN board : board[n].state = "committed" /\ filter \in {"any", board[n].status}}

Lesser(m, n) == IF m < n THEN m ELSE n

\* ORDER BY created_at DESC: how far down the list n is.
Place(found, n) == Cardinality({m \in found : m >= n})

\* LIMIT and OFFSET.
Cut(found, offset, limit) == {n \in found : Place(found, n) \in offset + 1 .. offset + limit}

NewestFirst(found) ==
  [k \in 1 .. Cardinality(found) |-> CHOOSE n \in found : Place(found, n) = k]

Ids(rows) == [k \in DOMAIN rows |-> rows[k].id]
RowsOf(ids) == [k \in DOMAIN ids |-> [id |-> ids[k], status |-> board[ids[k]].status]]

-----------------------------------------------------------------------------
(* Reading. *)

\* AlertAccess::can_read
MayRead(reader, n) ==
  \/ reader = "admin" \/ board[n].relation = "own"
  \/ reader = "subscribed" /\ board[n].relation = "matched"

ReadableOf(reader, found) == {n \in found : MayRead(reader, n)}

Nobody(reader, limit) == reader = "unsubscribed" \/ (reader = "subscribed" /\ limit = 0)

\* list_alerts up to alert_access.
BeginList(reader, filter, asked, offset) ==
  LET limit == Lesser(asked, MaxLimit) IN
  /\ read = NoRead
  /\ read' = [op |-> "list", reader |-> reader, filter |-> filter, limit |-> limit,
              offset |-> offset, at |-> 0, matched |-> 0, selected |-> <<>>,
              stage |-> IF Nobody(reader, limit) THEN "selected" ELSE "scanning",
              start |-> NewestFirst(Cut(ReadableOf(reader, Fitting(filter)), offset, limit)),
              calm |-> "quiet"]
  /\ UNCHANGED board

\* A platform admin's page is one query.
ListForAdmin ==
  /\ read # NoRead /\ read.stage = "scanning" /\ read.reader = "admin"
  /\ read' = [read EXCEPT
       !.selected = RowsOf(NewestFirst(Cut(Fitting(read.filter), read.offset, read.limit))),
       !.stage = "selected"]
  /\ UNCHANGED board

\* Mutant: the page is cut before the rules are applied.
ScanBatchCutFirst ==
  LET batch == Cut(Fitting(read.filter), read.at, Batch)
      fresh == Cut(batch, read.offset - Lesser(read.matched, read.offset),
                   read.limit - Len(read.selected))
      chosen == read.selected \o RowsOf(NewestFirst(ReadableOf(read.reader, fresh)))
      ended == Cardinality(batch) < Batch \/ Len(chosen) = read.limit
  IN
  /\ read # NoRead /\ read.stage = "scanning" /\ read.reader = "subscribed"
  /\ read' = [read EXCEPT !.selected = chosen, !.matched = @ + Cardinality(batch),
                          !.at = @ + Batch,
                          !.stage = IF ended THEN "selected" ELSE "scanning"]
  /\ UNCHANGED board

\* One turn of the loop: of what can be read, the first offset are skipped.
ScanBatch ==
  LET batch  == Cut(Fitting(read.filter), read.at, Batch)
      mine   == ReadableOf(read.reader, batch)
      fresh  == Cut(mine, read.offset - Lesser(read.matched, read.offset),
                    read.limit - Len(read.selected))
      chosen == read.selected \o RowsOf(NewestFirst(fresh))
      ended  == Cardinality(batch) < Batch \/ Len(chosen) = read.limit
  IN
  /\ read # NoRead /\ read.stage = "scanning" /\ read.reader = "subscribed"
  /\ read' = [read EXCEPT !.selected = chosen, !.matched = @ + Cardinality(mine),
                          !.at = @ + Batch,
                          !.stage = IF ended THEN "selected" ELSE "scanning"]
  /\ UNCHANGED board

\* get_alert: what cannot be read is 404.
GetAlert(reader, n) ==
  /\ read = NoRead
  /\ board[n].state = "committed" /\ MayRead(reader, n)
  /\ read' = [op |-> "get", reader |-> reader, filter |-> "any", limit |-> 0, offset |-> 0,
              at |-> 0, matched |-> 0, selected |-> RowsOf(<<n>>), stage |-> "selected",
              start |-> <<n>>, calm |-> "quiet"]
  /\ UNCHANGED board

\* audit_alert_read comes before the answer.
RecordView ==
  /\ read # NoRead /\ read.stage = "selected"
  /\ read' = [read EXCEPT !.stage = "recorded"]
  /\ UNCHANGED board

\* Answered, or persistence_failed at any point.
EndRead == read # NoRead /\ read' = NoRead /\ UNCHANGED board

PagesNext ==
  \/ \E relation \in Relation : BeginCreate(relation)
  \/ \E n \in DOMAIN board : CommitCreate(n) \/ RollBackCreate(n) \/ CancelOnBoard(n)
  \/ \E reader \in Reader, filter \in Filters, limit \in Limits, offset \in Offsets :
       BeginList(reader, filter, limit, offset)
  \/ \E reader \in Reader, n \in DOMAIN board : GetAlert(reader, n)
  \/ ListForAdmin \/ ScanBatch \/ RecordView \/ EndRead

PagesSpec == PagesInit /\ [][PagesNext]_pageVars

-----------------------------------------------------------------------------
(* Properties. *)

\* However a scan is cut into queries, it answers the page that one query would have answered,
\* as long as nothing changes meanwhile; alerts that appear meanwhile push others into the next
\* query, which may repeat them, but a page that is not full lacks none from its beginning
\* (list_alerts: "Apply subscription rules BEFORE pagination").  In any case it shows no alert
\* that the reviewer may not read, in a status other than the one asked for, or that was
\* rolled back.  For a reviewer without a subscription it is empty.
PagesFaithful ==
  read # NoRead /\ read.stage = "recorded" =>
    LET shown == Ids(read.selected) IN
    /\ \A k \in DOMAIN shown :
         /\ board[shown[k]].state = "committed" /\ MayRead(read.reader, shown[k])
         /\ read.filter \in {"any", read.selected[k].status}
    /\ read.op = "list" /\ read.reader = "unsubscribed" => shown = <<>>
    /\ read.op = "list" /\ read.reader # "unsubscribed" =>
         /\ Len(shown) <= read.limit
         /\ read.calm = "quiet" => shown = read.start
         /\ read.calm = "grew" /\ read.offset = 0 /\ Len(shown) < read.limit =>
              \A i \in DOMAIN read.start : \E j \in DOMAIN shown : shown[j] = read.start[i]
=============================================================================
