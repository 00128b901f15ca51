---------------------------- MODULE DeliveryViews ----------------------------
(* Reading deliveries while workers and callbacks move them on:            *)
(* list_deliveries_for_alert and get_delivery of apps/api/src/deliveries.rs *)
(* over find_by_alert_id, find_by_id and find_attempts of                  *)
(* postgres/deliveries.rs.  A list is one statement; the detail of a       *)
(* delivery is two, and no transaction holds them together.                *)
EXTENDS DeliveryEngine

CONSTANT Reader  \* requests of reviewers that are served at the same time

VARIABLE view  \* [Reader -> View or NoCallback]

viewVars == <<vars, view>>

\* NoRow marks what was not read.
View == [step : {"list", "row", "detail"}, rows : [Delivery -> Row],
         attempts : SUBSET AttemptRow]

ViewTypeOK == TypeOK /\ view \in [Reader -> View \cup {NoCallback}]

ViewInit == Init /\ view = [q \in Reader |-> NoCallback]

\* find_by_alert_id, here of the one alert there is.
ListDeliveries(q) ==
  /\ view[q] = NoCallback
  /\ view' = [view EXCEPT ![q] = [step |-> "list", rows |-> deliveries, attempts |-> {}]]
  /\ UNCHANGED vars

\* get_delivery: find_by_id; what is not there is 404.
FindDelivery(q, d) ==
  /\ view[q] = NoCallback /\ deliveries[d] # NoRow
  /\ view' = [view EXCEPT ![q] =
       [step |-> "row", rows |-> [e \in Delivery |-> IF e = d THEN deliveries[d] ELSE NoRow],
        attempts |-> {}]]
  /\ UNCHANGED vars

Shown(v) == {d \in Delivery : v.rows[d] # NoRow}

\* Mutant: the attempt a row counts is taken to be still in flight.
AttemptsShownBefore(v) ==
  {a \in delivery_attempts : a.delivery \in Shown(v)
     /\ a.number < v.rows[a.delivery].attempt_count}

\* find_attempts, ORDER BY attempt_number.
AttemptsShown(v) == {a \in delivery_attempts : a.delivery \in Shown(v)}

FindAttempts(q) ==
  /\ view[q] # NoCallback /\ view[q].step = "row"
  /\ view' = [view EXCEPT ![q].step = "detail", ![q].attempts = AttemptsShown(view[q])]
  /\ UNCHANGED vars

\* Answered, or persistence_failed.
EndView(q) ==
  /\ view[q] # NoCallback
  /\ view' = [view EXCEPT ![q] = NoCallback]
  /\ UNCHANGED vars

ViewNext ==
  \/ Next /\ UNCHANGED view
  \/ \E q \in Reader :
       \/ ListDeliveries(q) \/ FindAttempts(q) \/ EndView(q)
       \/ \E d \in Delivery : FindDelivery(q, d)

ViewSpec == ViewInit /\ [][ViewNext]_viewVars

-----------------------------------------------------------------------------
(* Properties. *)

\* A reviewer who asks why a delivery failed is given the reason: the detail of a delivery has
\* an attempt for every one its row says is over, in order and without a gap, although the
\* row was read first, and the one the status follows from is among them; an attempt shown
\* beyond the row is the next thing that happened (get_delivery).  And a list never shows a
\* fallback under way beside an endpoint before it that is not given up.
ViewsExplain ==
  \A q \in Reader : view[q] # NoCallback =>
    LET v == view[q] IN
    /\ v.step = "list" =>
         \A d \in Delivery : v.rows[d].attempt_count > 0 =>
           \A e \in Lower(d) : v.rows[e].status = "FAILED_PERMANENTLY"
    /\ v.step = "detail" =>
         \A d \in Shown(v) :
           LET row  == v.rows[d]
               over == IF row.status = "SENDING" THEN row.attempt_count - 1
                       ELSE row.attempt_count
               numbers == {a.number : a \in v.attempts}
           IN /\ 1..over \subseteq numbers
              /\ \A n \in numbers : 1..n \subseteq numbers
              /\ \A a, b \in v.attempts : a.number = b.number => a = b
              /\ \A a \in v.attempts : a.number < row.attempt_count => a.outcome = "retryable"
              /\ \A a \in v.attempts : a.number = over /\ row.status # "SENDING" =>
                   /\ Reached(row) <=> a.outcome = "sent"
                   /\ row.status = "FAILED_PERMANENTLY" <=>
                        a.outcome = "permanent" \/ (a.number = MaxAttempts /\ a.outcome # "sent")
              /\ Reached(row) \/ row.status = "FAILED_PERMANENTLY" =>
                   \A n \in numbers : n <= over
=============================================================================
