------------------------ MODULE DeliveryEngineProofs ------------------------
(***************************************************************************)
(* Proofs about DeliveryEngine for every set of deliveries, recipients,    *)
(* workers, handlers and event ids, every batch size, attempt limit and    *)
(* number of faults.                                                       *)
(***************************************************************************)
EXTENDS DeliveryViews, FiniteSetTheorems, TLAPS

-----------------------------------------------------------------------------
(* The aggregate. *)

\* Every transition of the aggregate yields a row (crates/domain/src/delivery.rs).
LEMMA TransitionsYieldRows ==
  ASSUME NEW row \in Row
  PROVE  /\ NoRow \in Row
         /\ PlanOne \in Row
         /\ StartAttempt(row) \in Row
         /\ RecordSuccess(row) \in Row
         /\ RecordDelivered(row) \in Row
         /\ \A retryable \in BOOLEAN : RecordFailure(row, retryable) \in Row
<1>1. NoRow \in Row /\ PlanOne \in Row
  BY DEF Row, DeliveryStatus, NoRow, PlanOne
<1>2. /\ StartAttempt(row) \in Row
      /\ RecordSuccess(row) \in Row
      /\ RecordDelivered(row) \in Row
  BY DEF Row, DeliveryStatus, StartAttempt, RecordSuccess, RecordDelivered
<1>3. ASSUME NEW retryable \in BOOLEAN
      PROVE  RecordFailure(row, retryable) \in Row
  <2>1. WillRetry(row, retryable) \in BOOLEAN
    BY DEF WillRetry
  <2>2. row.version + 1 \in Nat
    BY DEF Row
  <2>3. QED
    BY <2>1, <2>2 DEF RecordFailure, Row, DeliveryStatus
<1>4. QED
  BY <1>1, <1>2, <1>3

\* What persisting an answer does to a row in SENDING (record_success,
\* record_failure): it leaves SENDING and keeps the count; it retries only
\* below the limit.
LEMMA OutcomeOfSending ==
  ASSUME NEW row \in Row, NEW result \in Answer,
         row.status = "SENDING", row.attempt_count \in 1..MaxAttempts
  PROVE  LET new == Outcome(row, result) IN
         /\ new \in Row
         /\ new.version = row.version + 1
         /\ new.attempt_count = row.attempt_count
         /\ new.status \in {"SENT", "RETRYING", "FAILED_PERMANENTLY"}
         /\ new.status = "SENT" <=> result = "sent"
         /\ new.status = "RETRYING" => new.attempt_count < MaxAttempts
  BY RetryPolicyAssumption
  DEF Row, DeliveryStatus, Answer, Outcome, RecordSuccess, RecordFailure, WillRetry

\* Starting an attempt of a claimable row (start_attempt): the count grows by
\* one and stays within the limit.
LEMMA StartOfWaiting ==
  ASSUME NEW row \in Row, CanStartAttempt(row),
         row.status = "QUEUED" => row.attempt_count = 0,
         row.status = "RETRYING" => row.attempt_count < MaxAttempts
  PROVE  /\ StartAttempt(row) \in Row
         /\ StartAttempt(row) # NoRow
         /\ StartAttempt(row).status = "SENDING"
         /\ StartAttempt(row).attempt_count = row.attempt_count + 1
         /\ StartAttempt(row).attempt_count \in 1..MaxAttempts
         /\ row.attempt_count < MaxAttempts
<1>1. row.attempt_count \in Nat /\ row.attempt_count < MaxAttempts
  BY RetryPolicyAssumption DEF Row, CanStartAttempt
<1>2. /\ StartAttempt(row).status = "SENDING"
      /\ StartAttempt(row).attempt_count = row.attempt_count + 1
  BY DEF StartAttempt
<1>3. StartAttempt(row) # NoRow
  BY <1>2 DEF NoRow
<1>4. QED
  BY <1>1, <1>2, <1>3, TransitionsYieldRows, RetryPolicyAssumption

\* The lower tiers of a lower tier are lower tiers, and tier 0 has none.
LEMMA TiersOrdered ==
  ASSUME NEW d \in Delivery
  PROVE  /\ Lower(d) \subseteq Delivery
         /\ d \notin Lower(d)
         /\ tier[d] = 0 => Lower(d) = {}
<1>1. \A e \in Delivery : tier[e] \in Nat
  BY EngineAssumption
<1>2. ~(tier[d] < tier[d])
  BY <1>1
<1>3. tier[d] = 0 => \A e \in Delivery : ~(tier[e] < tier[d])
  BY <1>1
<1>4. QED
  BY <1>2, <1>3 DEF Lower

\* An open gate with the rows planned in order means every lower tier was given up.
LEMMA OpenGateMeansGivenUp ==
  ASSUME NEW d \in Delivery, GateOpen(d), PlannedInOrder,
         deliveries[d].status # "ABSENT"
  PROVE  \A e \in Lower(d) : deliveries[e].status = "FAILED_PERMANENTLY"
  BY TiersOrdered DEF GateOpen, PlannedInOrder

-----------------------------------------------------------------------------
(* The inductive invariant. *)

\* The engine starts in a state of the invariant.
LEMMA InitInv == Init => EngineInv
<1> SUFFICES ASSUME Init PROVE EngineInv
  OBVIOUS
<1>1. NoRow \in Row /\ NoRow.status = "ABSENT"
  BY DEF Row, NoRow
<1>2. TypeOK
  BY <1>1, EngineAssumption DEF Init, TypeOK, Answer
<1>3. RowsWellFormed /\ PlannedInOrder /\ FallbackGate
  BY DEF Init, RowsWellFormed, PlannedInOrder, FallbackGate, NoRow, Lower
<1>4. OwnedExclusively /\ SentIsReached /\ LoadedIsReceipt
  BY DEF Init, OwnedExclusively, Held, SentIsReached, LoadedIsReceipt
<1>5. QED
  BY <1>2, <1>3, <1>4 DEF EngineInv

\* Steps that touch neither rows, attempts, batches nor loaded webhooks keep
\* everything but the types of what they do touch.
LEMMA UntouchedInv ==
  ASSUME EngineInv, TypeOK',
         UNCHANGED <<deliveries, delivery_attempts, batch, loaded>>,
         \A h \in Handler : loaded[h] # NoRow => handling'[h] = handling[h]
  PROVE  EngineInv'
<1>1. RowsWellFormed' /\ PlannedInOrder' /\ FallbackGate' /\ SentIsReached'
  BY DEF EngineInv, RowsWellFormed, PlannedInOrder, FallbackGate, SentIsReached
<1>2. OwnedExclusively'
  BY DEF EngineInv, OwnedExclusively, Held
<1>3. LoadedIsReceipt'
  BY DEF EngineInv, LoadedIsReceipt, Matches
<1>4. QED
  BY <1>1, <1>2, <1>3 DEF EngineInv

\* create_planned keeps the invariant: the new row is fresh, comes after the
\* rows of the lower tiers, and replaces no row.
LEMMA CreatePlannedInv ==
  ASSUME EngineInv, NEW d \in Delivery, CreatePlanned(d)
  PROVE  EngineInv'
<1> USE DEF EngineInv, CreatePlanned, dbVars, workerVars, apiVars, providerVars, history
<1>1. /\ PlanOne \in Row /\ PlanOne # NoRow
      /\ PlanOne.status = "QUEUED" /\ PlanOne.attempt_count = 0 /\ PlanOne.wait = "none"
      /\ NoRow.status = "ABSENT"
  BY DEF PlanOne, Row, NoRow, DeliveryStatus
<1>2. /\ deliveries'[d] = PlanOne
      /\ \A e \in Delivery \ {d} : deliveries'[e] = deliveries[e]
  BY DEF TypeOK
<1>3. TypeOK'
  <2>1. EventOf(d, PlanOne) \in EventRow
    BY <1>1 DEF EventOf, EventRow, Row, DeliveryStatus, PlanOne
  <2>2. QED
    BY <1>1, <2>1 DEF TypeOK
<1>4. RowsWellFormed'
  BY <1>1, <1>2 DEF RowsWellFormed
<1>5. PlannedInOrder'
  <2>1. \A e \in Lower(d) : deliveries[e].status # "ABSENT"
    BY TiersOrdered DEF RowsWellFormed
  <2>2. QED
    BY <1>1, <1>2, <2>1, TiersOrdered DEF PlannedInOrder
<1>6. OwnedExclusively'
  BY <1>1, <1>2 DEF OwnedExclusively, Held
<1>7. FallbackGate'
  BY <1>1, <1>2, TiersOrdered DEF FallbackGate
<1>8. SentIsReached'
  BY <1>1, <1>2 DEF SentIsReached, Reached, TypeOK, AttemptRow
<1>9. LoadedIsReceipt'
  BY <1>1, <1>2 DEF LoadedIsReceipt, Matches, Reached, Callback, Message
<1>10. QED
  BY <1>3, <1>4, <1>5, <1>6, <1>7, <1>8, <1>9

\* The end of a backoff changes no status and no counter.
LEMMA BackoffElapsesInv ==
  ASSUME EngineInv, NEW d \in Delivery, BackoffElapses(d)
  PROVE  EngineInv'
<1> USE DEF EngineInv, BackoffElapses, dbVars, workerVars, apiVars, providerVars, history
<1>1. /\ deliveries'[d] = [deliveries[d] EXCEPT !.wait = "none"]
      /\ \A e \in Delivery \ {d} : deliveries'[e] = deliveries[e]
      /\ deliveries[d] \in Row
  BY DEF TypeOK
<1>2. \A e \in Delivery :
        /\ deliveries'[e].status = deliveries[e].status
        /\ deliveries'[e].attempt_count = deliveries[e].attempt_count
        /\ deliveries'[e].version = deliveries[e].version
        /\ deliveries'[e] \in Row
  BY <1>1 DEF TypeOK, Row
<1>3. deliveries[d].status = "RETRYING"
  BY DEF RowsWellFormed
<1>4. TypeOK'
  BY <1>2 DEF TypeOK
<1>5. RowsWellFormed' /\ PlannedInOrder' /\ FallbackGate'
  BY <1>1, <1>2, <1>3, TiersOrdered DEF RowsWellFormed, PlannedInOrder, FallbackGate
<1>6. OwnedExclusively'
  BY <1>1, <1>3 DEF OwnedExclusively, Held
<1>7. SentIsReached' /\ LoadedIsReceipt'
  <2>1. Callback \subseteq [event_id : EventId, message : Message, verdict : Verdict]
    BY DEF Callback
  <2>2. \A h \in Handler : loaded[h] # NoRow => handling[h].message.delivery \in Delivery
    BY <2>1 DEF LoadedIsReceipt, Message
  <2>3. QED
    BY <1>2, <2>2 DEF SentIsReached, LoadedIsReceipt, Reached, Matches, TypeOK, AttemptRow
<1>8. QED
  BY <1>4, <1>5, <1>6, <1>7

\* The rows a claim changes were waiting and are started: claimed is what
\* ClaimNext put in the batch of w.
LEMMA ClaimEffect ==
  ASSUME EngineInv, NEW w \in Worker, ClaimNext(w)
  PROVE  \E claimed \in SUBSET Delivery :
           /\ \A d \in claimed : Claimable(d)
           /\ deliveries' = [d \in Delivery |->
                               IF d \in claimed THEN StartAttempt(deliveries[d])
                                                ELSE deliveries[d]]
           /\ delivery_events' = delivery_events \cup
                                 {EventOf(d, StartAttempt(deliveries[d])) : d \in claimed}
           /\ batch' = [batch EXCEPT ![w] =
                          [d \in Delivery |->
                             IF d \in claimed THEN StartAttempt(deliveries[d])
                                              ELSE NoRow]]
<1>1. PICK locked \in SUBSET {d \in Delivery : Claimable(d)} :
        LET claimed == Oldest({d \in Delivery : Claimable(d)} \ locked) IN
        /\ deliveries' = [d \in Delivery |->
                            IF d \in claimed THEN StartAttempt(deliveries[d])
                                             ELSE deliveries[d]]
        /\ delivery_events' = delivery_events \cup
                              {EventOf(d, StartAttempt(deliveries[d])) : d \in claimed}
        /\ batch' = [batch EXCEPT ![w] =
                       [d \in Delivery |->
                          IF d \in claimed THEN StartAttempt(deliveries[d])
                                           ELSE NoRow]]
  BY DEF ClaimNext
<1> DEFINE claimed == Oldest({d \in Delivery : Claimable(d)} \ locked)
<1>2. claimed \subseteq {d \in Delivery : Claimable(d)}
  BY DEF Oldest
<1>3. claimed \in SUBSET Delivery /\ \A d \in claimed : Claimable(d)
  BY <1>2
<1> HIDE DEF claimed
<1>4. QED
  BY <1>1, <1>3 DEF claimed

\* claim_next keeps the invariant: what it starts was waiting behind an open
\* gate, so no lower tier of it is alive and no other worker holds it.
LEMMA ClaimNextInv ==
  ASSUME EngineInv, NEW w \in Worker, ClaimNext(w)
  PROVE  EngineInv'
<1>1. PICK claimed \in SUBSET Delivery :
        /\ \A d \in claimed : Claimable(d)
        /\ deliveries' = [d \in Delivery |->
                            IF d \in claimed THEN StartAttempt(deliveries[d])
                                             ELSE deliveries[d]]
        /\ delivery_events' = delivery_events \cup
                              {EventOf(d, StartAttempt(deliveries[d])) : d \in claimed}
        /\ batch' = [batch EXCEPT ![w] =
                       [d \in Delivery |->
                          IF d \in claimed THEN StartAttempt(deliveries[d])
                                           ELSE NoRow]]
  BY ClaimEffect
<1>2. UNCHANGED <<delivery_attempts, answer, apiVars, providerVars, history>>
  BY DEF ClaimNext
<1> USE DEF EngineInv
<1>3. \A d \in claimed :
        /\ deliveries[d].status \in {"QUEUED", "RETRYING"}
        /\ \A e \in Lower(d) : deliveries[e].status = "FAILED_PERMANENTLY"
  BY <1>1, OpenGateMeansGivenUp DEF Claimable, CanStartAttempt
<1>4. \A d \in claimed :
        /\ deliveries'[d] = StartAttempt(deliveries[d])
        /\ deliveries'[d] \in Row
        /\ deliveries'[d] # NoRow
        /\ deliveries'[d].status = "SENDING"
        /\ deliveries'[d].wait = "none"
        /\ deliveries'[d].attempt_count \in 1..MaxAttempts
  <2> TAKE d \in claimed
  <2>1. deliveries[d] \in Row /\ CanStartAttempt(deliveries[d])
    BY <1>1 DEF TypeOK, Claimable
  <2>2. /\ deliveries[d].status = "QUEUED" => deliveries[d].attempt_count = 0
        /\ deliveries[d].status = "RETRYING" => deliveries[d].attempt_count < MaxAttempts
    BY DEF RowsWellFormed
  <2>3. deliveries'[d] = StartAttempt(deliveries[d])
    BY <1>1
  <2>4. StartAttempt(deliveries[d]).wait = "none"
    BY DEF StartAttempt
  <2>5. QED
    BY <2>1, <2>2, <2>3, <2>4, StartOfWaiting
<1>5. \A d \in Delivery \ claimed : deliveries'[d] = deliveries[d]
  BY <1>1
<1>6. TypeOK'
  <2>1. {EventOf(d, StartAttempt(deliveries[d])) : d \in claimed} \subseteq EventRow
    BY <1>4 DEF EventOf, EventRow, Row, DeliveryStatus
  <2>2. deliveries' \in [Delivery -> Row]
    BY <1>1, <1>4, <1>5 DEF TypeOK
  <2>3. [d \in Delivery |-> IF d \in claimed THEN StartAttempt(deliveries[d]) ELSE NoRow]
          \in [Delivery -> Row]
    BY <1>4 DEF Row, NoRow
  <2>4. batch' \in [Worker -> [Delivery -> Row]]
    BY <1>1, <2>3 DEF TypeOK
  <2>5. QED
    BY <1>1, <1>2, <2>1, <2>2, <2>4 DEF TypeOK, apiVars, providerVars, history
<1>7. RowsWellFormed'
  BY <1>4, <1>5 DEF RowsWellFormed
<1>8. PlannedInOrder'
  BY <1>3, <1>4, <1>5, TiersOrdered DEF PlannedInOrder
<1>9. OwnedExclusively'
  <2>1. /\ \A d \in Delivery : batch'[w][d] = IF d \in claimed THEN deliveries'[d] ELSE NoRow
        /\ \A v \in Worker \ {w} : batch'[v] = batch[v]
    BY <1>1, <1>4 DEF TypeOK
  <2>2. \A v \in Worker : \A d \in claimed : d \notin Held(v)
    BY <1>3 DEF OwnedExclusively
  <2>3. QED
    BY <1>4, <1>5, <2>1, <2>2 DEF OwnedExclusively, Held
<1>10. FallbackGate'
  BY <1>3, <1>4, <1>5, TiersOrdered DEF FallbackGate
<1>11. SentIsReached'
  BY <1>2, <1>3, <1>5 DEF SentIsReached, Reached, TypeOK, AttemptRow
<1>12. LoadedIsReceipt'
  <2>1. \A h \in Handler : loaded[h] # NoRow =>
          /\ handling[h].message.delivery \in Delivery
          /\ handling[h].message.delivery \notin claimed
    BY <1>3 DEF LoadedIsReceipt, Reached, Callback, Message
  <2>2. QED
    BY <1>2, <1>5, <2>1 DEF LoadedIsReceipt, Matches, apiVars
<1>13. QED
  BY <1>6, <1>7, <1>8, <1>9, <1>10, <1>11, <1>12

\* Recording an answer always finds the version it expects: the worker owns the row.
LEMMA RecordEffect ==
  ASSUME EngineInv, NEW w \in Worker, Record(w)
  PROVE  \E d \in Delivery :
           LET new == Outcome(deliveries[d], answer[w]) IN
           /\ IsCurrent(w, d)
           /\ deliveries[d].status = "SENDING"
           /\ deliveries[d].attempt_count \in 1..MaxAttempts
           /\ deliveries' = [deliveries EXCEPT ![d] = new]
           /\ delivery_events' = delivery_events \cup {EventOf(d, new)}
           /\ delivery_attempts' = delivery_attempts \cup
                {[delivery |-> d, number |-> new.attempt_count, outcome |-> answer[w]]}
           /\ batch' = [batch EXCEPT ![w][d] = NoRow]
<1> USE DEF EngineInv
<1>1. PICK d \in Delivery :
        /\ IsCurrent(w, d)
        /\ ApplyAttemptTransition(d, Outcome(batch[w][d], answer[w]), answer[w])
        /\ batch' = [batch EXCEPT ![w][d] = NoRow]
  BY DEF Record
<1>2. batch[w][d] = deliveries[d] /\ deliveries[d].status = "SENDING"
  BY <1>1 DEF IsCurrent, OwnedExclusively
<1>3. deliveries[d] \in Row /\ deliveries[d].attempt_count \in 1..MaxAttempts
  BY <1>2 DEF RowsWellFormed, TypeOK
<1>4. Outcome(deliveries[d], answer[w]).version = deliveries[d].version + 1
  BY <1>2, <1>3, OutcomeOfSending DEF TypeOK
<1>5. Matches(d, Outcome(deliveries[d], answer[w]))
  BY <1>4 DEF Matches
<1>6. QED
  BY <1>1, <1>2, <1>3, <1>5 DEF ApplyAttemptTransition, Advance

\* Recording keeps the invariant: the row leaves SENDING and the batch together.
LEMMA RecordInv ==
  ASSUME EngineInv, NEW w \in Worker, Record(w)
  PROVE  EngineInv'
<1>1. PICK d \in Delivery :
        LET new == Outcome(deliveries[d], answer[w]) IN
        /\ IsCurrent(w, d)
        /\ deliveries[d].status = "SENDING"
        /\ deliveries[d].attempt_count \in 1..MaxAttempts
        /\ deliveries' = [deliveries EXCEPT ![d] = new]
        /\ delivery_events' = delivery_events \cup {EventOf(d, new)}
        /\ delivery_attempts' = delivery_attempts \cup
             {[delivery |-> d, number |-> new.attempt_count, outcome |-> answer[w]]}
        /\ batch' = [batch EXCEPT ![w][d] = NoRow]
  BY RecordEffect
<1> DEFINE new == Outcome(deliveries[d], answer[w])
<1>2. /\ UNCHANGED <<apiVars, providerVars, history>>
      /\ answer' = [answer EXCEPT ![w] = "none"]
      /\ answer[w] # "none"
  BY DEF Record
<1> USE DEF EngineInv
<1>3. /\ new \in Row
      /\ new.version = deliveries[d].version + 1
      /\ new.attempt_count = deliveries[d].attempt_count
      /\ new.status \in {"SENT", "RETRYING", "FAILED_PERMANENTLY"}
      /\ new.status = "SENT" <=> answer[w] = "sent"
      /\ new.status = "RETRYING" => new.attempt_count < MaxAttempts
  BY <1>1, OutcomeOfSending DEF TypeOK
<1>4. new.wait = "backoff" => new.status = "RETRYING"
  BY DEF Outcome, RecordSuccess, RecordFailure
<1>5. /\ deliveries'[d] = new
      /\ \A e \in Delivery \ {d} : deliveries'[e] = deliveries[e]
  BY <1>1 DEF TypeOK
<1> HIDE DEF new
<1>6. TypeOK'
  <2>1. deliveries' \in [Delivery -> Row]
    BY <1>1, <1>3 DEF TypeOK, new
  <2>2. EventOf(d, new) \in EventRow
    BY <1>3 DEF EventOf, EventRow, Row, DeliveryStatus
  <2>3. [delivery |-> d, number |-> new.attempt_count, outcome |-> answer[w]] \in AttemptRow
    BY <1>2, <1>3 DEF AttemptRow, TypeOK, Row
  <2>4. batch' \in [Worker -> [Delivery -> Row]]
    BY <1>1 DEF TypeOK, Row, NoRow
  <2>5. answer' \in [Worker -> Answer]
    BY <1>2 DEF TypeOK, Answer
  <2>6. delivery_events' \subseteq EventRow /\ delivery_attempts' \subseteq AttemptRow
    BY <1>1, <2>2, <2>3 DEF TypeOK, new
  <2>7. QED
    BY <1>2, <2>1, <2>4, <2>5, <2>6 DEF TypeOK, apiVars, providerVars, history
<1>7. RowsWellFormed'
  BY <1>1, <1>3, <1>4, <1>5 DEF RowsWellFormed
<1>8. PlannedInOrder'
  BY <1>1, <1>3, <1>5, TiersOrdered DEF PlannedInOrder
<1>9. OwnedExclusively'
  <2>1. \A v \in Worker, e \in Delivery :
          batch'[v][e] = IF v = w /\ e = d THEN NoRow ELSE batch[v][e]
    BY <1>1 DEF TypeOK
  <2>2. d \in Held(w) /\ \A v \in Worker \ {w} : d \notin Held(v)
    BY <1>1 DEF IsCurrent, OwnedExclusively
  <2>3. QED
    BY <1>5, <2>1, <2>2 DEF OwnedExclusively, Held
<1>10. FallbackGate'
  BY <1>1, <1>3, <1>5, TiersOrdered DEF FallbackGate
<1>11. SentIsReached'
  <2>1. \A a \in delivery_attempts : a.outcome = "sent" => a.delivery # d
    BY <1>1 DEF SentIsReached, Reached
  <2>2. ASSUME NEW a \in delivery_attempts', a.outcome = "sent"
        PROVE  Reached(deliveries'[a.delivery])
    <3>1. CASE a \in delivery_attempts
      BY <1>5, <2>1, <2>2, <3>1 DEF SentIsReached, TypeOK, AttemptRow, Reached
    <3>2. CASE a = [delivery |-> d, number |-> new.attempt_count, outcome |-> answer[w]]
      BY <1>3, <1>5, <2>2, <3>2 DEF Reached
    <3>3. QED
      BY <1>1, <3>1, <3>2 DEF new
  <2>3. QED
    BY <2>2 DEF SentIsReached, Reached
<1>12. LoadedIsReceipt'
  <2>1. \A h \in Handler : loaded[h] # NoRow =>
          /\ handling[h].message.delivery \in Delivery
          /\ handling[h].message.delivery # d
    BY <1>1 DEF LoadedIsReceipt, Reached, Callback, Message
  <2>2. QED
    BY <1>2, <1>5, <2>1 DEF LoadedIsReceipt, Matches, apiVars
<1>13. QED
  BY <1>6, <1>7, <1>8, <1>9, <1>10, <1>11, <1>12

\* A stopped worker holds nothing; no row changes.
LEMMA AbortInv ==
  ASSUME EngineInv, NEW w \in Worker, Abort(w)
  PROVE  EngineInv'
<1> USE DEF EngineInv, Abort, dbVars, apiVars, providerVars
<1>1. TypeOK'
  <2>1. [d \in Delivery |-> NoRow] \in [Delivery -> Row]
    BY DEF Row, NoRow
  <2>2. faults' \in 0..MaxFaults
    BY EngineAssumption DEF TypeOK
  <2>3. stranded' \subseteq Delivery
    BY DEF TypeOK, Held
  <2>4. QED
    BY <2>1, <2>2, <2>3 DEF TypeOK, Answer
<1>2. OwnedExclusively'
  <2>1. /\ \A d \in Delivery : batch'[w][d] = NoRow
        /\ \A v \in Worker \ {w} : batch'[v] = batch[v]
    BY DEF TypeOK
  <2>2. QED
    BY <2>1 DEF OwnedExclusively, Held
<1>3. RowsWellFormed' /\ PlannedInOrder' /\ FallbackGate' /\ SentIsReached'
  BY DEF RowsWellFormed, PlannedInOrder, FallbackGate, SentIsReached
<1>4. LoadedIsReceipt'
  BY DEF LoadedIsReceipt, Matches
<1>5. QED
  BY <1>1, <1>2, <1>3, <1>4

\* A webhook request that finds an applicable row holds a receipt for it: the
\* row of a known message is SENT or DELIVERED, so only a "delivered" verdict
\* can apply.
LEMMA LoadInv ==
  ASSUME EngineInv, NEW h \in Handler, Load(h)
  PROVE  EngineInv'
<1> USE DEF EngineInv, Load, dbVars, workerVars, providerVars, history
<1> DEFINE c == handling[h]
           d == c.message.delivery
<1>1. c \in Callback /\ d \in Delivery
  BY DEF TypeOK, Callback, Message
<1>2. deliveries[d].status \in {"SENT", "DELIVERED"}
  BY DEF Applicable, KnownMessage, SentIsReached, Reached
<1>3. c.verdict = "delivered" /\ deliveries[d].status = "SENT"
  BY <1>2 DEF Applicable, WebhookLegal, CanRecordDelivered, CanRecordOutcome
<1>4. /\ loaded' = [loaded EXCEPT ![h] = RecordDelivered(deliveries[d])]
      /\ RecordDelivered(deliveries[d]) \in Row
  BY <1>1, <1>3, TransitionsYieldRows DEF WebhookResult, TypeOK
<1>5. TypeOK'
  BY <1>4 DEF TypeOK
<1>6. RowsWellFormed' /\ PlannedInOrder' /\ FallbackGate' /\ SentIsReached'
  BY DEF RowsWellFormed, PlannedInOrder, FallbackGate, SentIsReached
<1>7. OwnedExclusively'
  BY DEF OwnedExclusively, Held
<1>8. LoadedIsReceipt'
  <2>1. /\ loaded'[h] = RecordDelivered(deliveries[d])
        /\ \A g \in Handler \ {h} : loaded'[g] = loaded[g]
    BY <1>4 DEF TypeOK
  <2>2. /\ RecordDelivered(deliveries[d]).status = "DELIVERED"
        /\ RecordDelivered(deliveries[d]).wait = "none"
        /\ RecordDelivered(deliveries[d]).attempt_count = deliveries[d].attempt_count
        /\ RecordDelivered(deliveries[d]).version = deliveries[d].version + 1
    BY DEF RecordDelivered
  <2>3. QED
    BY <1>1, <1>2, <1>3, <2>1, <2>2 DEF LoadedIsReceipt, Matches, Reached
<1>9. QED
  BY <1>5, <1>6, <1>7, <1>8

\* What ApplyWebhook does: it turns a SENT row into a DELIVERED one, or nothing.
LEMMA ApplyWebhookEffect ==
  ASSUME EngineInv, NEW h \in Handler, ApplyWebhook(h)
  PROVE  LET d == handling[h].message.delivery IN
         /\ d \in Delivery
         /\ Reached(deliveries[d])
         /\ UNCHANGED delivery_attempts
         /\ \/ /\ deliveries' = [deliveries EXCEPT ![d] = loaded[h]]
               /\ delivery_events' = delivery_events \cup {EventOf(d, loaded[h])}
            \/ /\ deliveries[d].status = "DELIVERED"
               /\ UNCHANGED <<deliveries, delivery_events>>
<1> DEFINE d == handling[h].message.delivery
<1>1. /\ handling[h] \in Callback /\ handling[h].verdict = "delivered"
      /\ Reached(deliveries[d])
      /\ deliveries[d].status = "SENT" => Matches(d, loaded[h])
  BY DEF EngineInv, LoadedIsReceipt, ApplyWebhook
<1>2. d \in Delivery
  BY <1>1 DEF Callback, Message
<1>3. ApplyTransition(d, loaded[h])
  BY <1>1 DEF ApplyWebhook
<1>4. CASE Matches(d, loaded[h])
  BY <1>1, <1>2, <1>3, <1>4 DEF ApplyTransition, Advance
<1>5. CASE ~Matches(d, loaded[h])
  BY <1>1, <1>2, <1>3, <1>5 DEF ApplyTransition, Advance, Reached
<1>6. QED
  BY <1>4, <1>5

\* A webhook update keeps the invariant.
LEMMA ApplyWebhookInv ==
  ASSUME EngineInv, NEW h \in Handler, ApplyWebhook(h)
  PROVE  EngineInv'
<1> DEFINE d == handling[h].message.delivery
<1>1. /\ d \in Delivery
      /\ Reached(deliveries[d])
      /\ UNCHANGED delivery_attempts
      /\ \/ /\ deliveries' = [deliveries EXCEPT ![d] = loaded[h]]
            /\ delivery_events' = delivery_events \cup {EventOf(d, loaded[h])}
         \/ /\ deliveries[d].status = "DELIVERED"
            /\ UNCHANGED <<deliveries, delivery_events>>
  BY ApplyWebhookEffect
<1>2. /\ handling' = [handling EXCEPT ![h] = NoCallback]
      /\ loaded' = [loaded EXCEPT ![h] = NoRow]
      /\ reply' = [reply EXCEPT ![handling[h].event_id] = "ok"]
      /\ loaded[h] # NoRow
      /\ UNCHANGED <<workerVars, seen, accepted, callbacks, history>>
  BY DEF ApplyWebhook
<1> USE DEF EngineInv
<1>3. /\ loaded[h] \in Row
      /\ loaded[h].status = "DELIVERED" /\ loaded[h].wait = "none"
      /\ loaded[h].attempt_count = deliveries[d].attempt_count
  BY <1>2 DEF LoadedIsReceipt, TypeOK
<1>4. /\ deliveries'[d] = loaded[h] \/ deliveries'[d] = deliveries[d]
      /\ deliveries'[d].status = "DELIVERED"
      /\ \A e \in Delivery \ {d} : deliveries'[e] = deliveries[e]
      /\ deliveries' \in [Delivery -> Row]
  BY <1>1, <1>3 DEF TypeOK
<1> HIDE DEF d
<1>5. TypeOK'
  <2>1. EventOf(d, loaded[h]) \in EventRow
    BY <1>1, <1>3 DEF EventOf, EventRow, Row, DeliveryStatus
  <2>2. NoRow \in Row
    BY DEF Row, NoRow
  <2>3. QED
    BY <1>1, <1>2, <1>4, <2>1, <2>2 DEF TypeOK, workerVars, history
<1>6. RowsWellFormed'
  BY <1>1, <1>3, <1>4 DEF RowsWellFormed, Reached
<1>7. PlannedInOrder'
  BY <1>1, <1>4, TiersOrdered DEF PlannedInOrder, Reached
<1>8. OwnedExclusively'
  <2>1. \A w \in Worker : d \notin Held(w)
    BY <1>1 DEF OwnedExclusively, Reached
  <2>2. QED
    BY <1>2, <1>4, <2>1 DEF OwnedExclusively, Held, workerVars
<1>9. FallbackGate'
  BY <1>1, <1>3, <1>4, TiersOrdered DEF FallbackGate, Reached
<1>10. SentIsReached'
  BY <1>1, <1>4 DEF SentIsReached, Reached, TypeOK, AttemptRow
<1>11. LoadedIsReceipt'
  <2>1. \A g \in Handler : loaded'[g] # NoRow =>
          /\ g # h
          /\ handling'[g] = handling[g]
          /\ loaded'[g] = loaded[g]
    BY <1>2 DEF TypeOK
  <2>2. ASSUME NEW g \in Handler, loaded'[g] # NoRow
        PROVE  LET x == handling'[g].message.delivery IN
               /\ handling'[g] \in Callback
               /\ handling'[g].verdict = "delivered"
               /\ loaded'[g].status = "DELIVERED" /\ loaded'[g].wait = "none"
               /\ Reached(deliveries'[x])
               /\ loaded'[g].attempt_count = deliveries'[x].attempt_count
               /\ deliveries'[x].status = "SENT" => deliveries'[x].version + 1 = loaded'[g].version
    <3> DEFINE x == handling[g].message.delivery
    <3>1. /\ handling[g] \in Callback /\ x \in Delivery
      BY <2>1, <2>2 DEF LoadedIsReceipt, Callback, Message
    <3>2. CASE x = d
      BY <1>3, <1>4, <2>1, <2>2, <3>2 DEF LoadedIsReceipt, Reached
    <3>3. CASE x # d
      BY <1>4, <2>1, <2>2, <3>1, <3>3 DEF LoadedIsReceipt, Reached, Matches
    <3>4. QED
      BY <3>2, <3>3
  <2>3. QED
    BY <2>2 DEF LoadedIsReceipt, Reached, Matches
<1>12. QED
  BY <1>5, <1>6, <1>7, <1>8, <1>9, <1>10, <1>11

\* A handler that gives up or finds nothing to do forgets its callback.
LEMMA ForgetInv ==
  ASSUME EngineInv, NEW h \in Handler, DropMoot(h) \/ WebhookFails(h)
  PROVE  EngineInv'
<1> USE DEF EngineInv
<1>1. /\ UNCHANGED <<dbVars, workerVars>>
      /\ handling' = [handling EXCEPT ![h] = NoCallback]
      /\ loaded' = [loaded EXCEPT ![h] = NoRow]
  <2>1. loaded[h] = NoRow => loaded = [loaded EXCEPT ![h] = NoRow]
    BY DEF TypeOK
  <2>2. QED
    BY <2>1 DEF DropMoot, WebhookFails
<1>2. TypeOK'
  <2>1. NoRow \in Row
    BY DEF Row, NoRow
  <2>2. reply' \in [EventId -> {"none", "ok", "retry"}] /\ moot' \subseteq Callback
    BY DEF TypeOK, DropMoot, WebhookFails
  <2>3. faults' \in 0..MaxFaults
    BY EngineAssumption DEF TypeOK, DropMoot, WebhookFails
  <2>4. UNCHANGED <<seen, accepted, callbacks, stranded>>
    BY DEF DropMoot, WebhookFails
  <2>5. QED
    BY <1>1, <2>1, <2>2, <2>3, <2>4 DEF TypeOK, dbVars, workerVars
<1>3. RowsWellFormed' /\ PlannedInOrder' /\ FallbackGate' /\ SentIsReached'
  BY <1>1 DEF RowsWellFormed, PlannedInOrder, FallbackGate, SentIsReached, dbVars
<1>4. OwnedExclusively'
  BY <1>1 DEF OwnedExclusively, Held, dbVars, workerVars
<1>5. LoadedIsReceipt'
  <2>1. \A g \in Handler : loaded'[g] # NoRow =>
          handling'[g] = handling[g] /\ loaded'[g] = loaded[g]
    BY <1>1 DEF TypeOK
  <2>2. QED
    BY <1>1, <2>1 DEF LoadedIsReceipt, Matches, dbVars
<1>6. QED
  BY <1>2, <1>3, <1>4, <1>5

\* The provider, the replay guard and the sends touch no row, batch or loaded
\* aggregate.
LEMMA ExternalInv ==
  ASSUME EngineInv,
         \/ \E w \in Worker : NoAdapter(w) \/ Send(w) \/ TakeMessage(w)
         \/ \E e \in EventId, m \in Message, v \in Verdict : EmitCallback(e, m, v)
         \/ \E h \in Handler, c \in callbacks :
              RecordIfNew(h, c) \/ IgnoreDuplicate(h, c) \/ ReplayGuardFails(h, c)
  PROVE  EngineInv'
<1> USE DEF dbVars, workerVars, apiVars, providerVars, history
<1>1. CASE \E w \in Worker : NoAdapter(w)
  <2>1. PICK w \in Worker : NoAdapter(w)
    BY <1>1
  <2>2. TypeOK'
    BY <2>1 DEF NoAdapter, EngineInv, TypeOK, Answer
  <2>3. QED
    BY <2>1, <2>2, UntouchedInv DEF NoAdapter
<1>2. CASE \E w \in Worker : Send(w)
  <2>1. PICK w \in Worker : Send(w)
    BY <1>2
  <2>2. TypeOK'
    BY <2>1 DEF Send, EngineInv, TypeOK
  <2>3. QED
    BY <2>1, <2>2, UntouchedInv DEF Send
<1>3. CASE \E w \in Worker : TakeMessage(w)
  <2>1. PICK w \in Worker : TakeMessage(w)
    BY <1>3
  <2>2. PICK d \in Registered :
          /\ IsCurrent(w, d)
          /\ accepted' = accepted \cup {MessageOf(w, d)}
    BY <2>1 DEF TakeMessage, Sending
  <2>3. MessageOf(w, d) \in Message
    <3>1. d \in Delivery /\ batch[w][d] = deliveries[d] /\ deliveries[d].status = "SENDING"
      BY <2>2, EngineAssumption DEF IsCurrent, EngineInv, OwnedExclusively
    <3>2. deliveries[d].attempt_count \in 1..MaxAttempts
      BY <3>1 DEF EngineInv, RowsWellFormed
    <3>3. QED
      BY <3>1, <3>2 DEF Message, MessageOf
  <2>4. TypeOK'
    BY <2>1, <2>2, <2>3 DEF TakeMessage, EngineInv, TypeOK
  <2>5. QED
    BY <2>1, <2>4, UntouchedInv DEF TakeMessage
<1>4. CASE \E e \in EventId, m \in Message, v \in Verdict : EmitCallback(e, m, v)
  <2>1. TypeOK' /\ UNCHANGED <<deliveries, delivery_attempts, batch, loaded, handling>>
    BY <1>4 DEF EmitCallback, Callback, EngineInv, TypeOK
  <2>2. QED
    BY <2>1, UntouchedInv
<1>5. CASE \E h \in Handler, c \in callbacks : RecordIfNew(h, c)
  <2>1. PICK h \in Handler, c \in callbacks : RecordIfNew(h, c)
    BY <1>5
  <2>2. c \in Callback /\ c.event_id \in EventId
    BY <2>1 DEF EngineInv, TypeOK, Callback
  <2>3. TypeOK'
    BY <2>1, <2>2 DEF RecordIfNew, EngineInv, TypeOK
  <2>4. loaded[h] = NoRow
    BY <2>1, NoCallbackAssumption DEF RecordIfNew, EngineInv, LoadedIsReceipt
  <2>5. \A g \in Handler : loaded[g] # NoRow => handling'[g] = handling[g]
    BY <2>1, <2>4 DEF RecordIfNew, EngineInv, TypeOK
  <2>6. QED
    BY <2>1, <2>3, <2>5, UntouchedInv DEF RecordIfNew
<1>6. CASE \E h \in Handler, c \in callbacks : IgnoreDuplicate(h, c) \/ ReplayGuardFails(h, c)
  <2>1. faults' \in 0..MaxFaults
    BY <1>6, EngineAssumption DEF IgnoreDuplicate, ReplayGuardFails, EngineInv, TypeOK
  <2>2. TypeOK' /\ UNCHANGED <<deliveries, delivery_attempts, batch, loaded, handling>>
    BY <1>6, <2>1 DEF IgnoreDuplicate, ReplayGuardFails, EngineInv, TypeOK
  <2>3. QED
    BY <2>2, UntouchedInv
<1>7. QED
  BY <1>1, <1>2, <1>3, <1>4, <1>5, <1>6

\* Every step keeps the invariant.
LEMMA NextInv == EngineInv /\ [Next]_vars => EngineInv'
<1> SUFFICES ASSUME EngineInv, [Next]_vars PROVE EngineInv'
  OBVIOUS
<1>1. CASE UNCHANGED vars
  <2>1. TypeOK' /\ UNCHANGED <<deliveries, delivery_attempts, batch, loaded, handling>>
    BY <1>1 DEF vars, dbVars, workerVars, apiVars, providerVars, history, EngineInv, TypeOK
  <2>2. QED
    BY <2>1, UntouchedInv
<1>2. CASE Next
  BY <1>2, CreatePlannedInv, BackoffElapsesInv, ClaimNextInv, RecordInv, AbortInv,
     LoadInv, ApplyWebhookInv, ForgetInv, ExternalInv
  DEF Next, WorkerStep, HandlerStep
<1>3. QED
  BY <1>1, <1>2

\* The invariant holds in every reachable state.
THEOREM EngineInvariant == Spec => []EngineInv
BY InitInv, NextInv, PTL DEF Spec

\* Type correctness, for all constants.
THEOREM TypeCorrect == Spec => []TypeOK
<1>1. EngineInv => TypeOK
  BY DEF EngineInv
<1>2. QED
  BY <1>1, EngineInvariant, PTL

\* No fallback is started while an endpoint before it may still succeed: the
\* promise of the README about fallback tiers, for any number of workers.
THEOREM FallbackGateHolds == Spec => []FallbackGate
<1>1. EngineInv => FallbackGate
  BY DEF EngineInv
<1>2. QED
  BY <1>1, EngineInvariant, PTL

\* No two workers dispatch the same delivery, and a worker never loses the race
\* for the outcome it records.
THEOREM OwnedExclusivelyHolds == Spec => []OwnedExclusively
<1>1. EngineInv => OwnedExclusively
  BY DEF EngineInv
<1>2. QED
  BY <1>1, EngineInvariant, PTL

\* A webhook that loses the race finds its work done: answering 200 is right.
THEOREM ConflictMeansAppliedHolds == Spec => []ConflictMeansApplied
<1>1. EngineInv => ConflictMeansApplied
  BY DEF EngineInv, LoadedIsReceipt, ConflictMeansApplied, Reached
<1>2. QED
  BY <1>1, EngineInvariant, PTL

\* A version check that fails loses no outcome, whoever ignores it (dispatch_one and
\* receive_webhook).
THEOREM ConflictsLoseNothingHolds == Spec => []ConflictsLoseNothing
BY OwnedExclusivelyHolds, ConflictMeansAppliedHolds, PTL DEF ConflictsLoseNothing

-----------------------------------------------------------------------------
(* The refinement. *)

\* A step that changes no status and no attempt count is invisible.
LEMMA InvisibleStep ==
  ASSUME \A d \in Delivery :
           /\ deliveries'[d].status = deliveries[d].status
           /\ deliveries'[d].attempt_count = deliveries[d].attempt_count
  PROVE  UNCHANGED Contract!cvars
<1>1. phase' = phase
  BY DEF phase
<1>2. tries' = tries
  BY DEF tries
<1>3. QED
  BY <1>1, <1>2 DEF Contract!cvars

\* The phase of a delivery, by its status.
LEMMA PhaseOfStatus ==
  ASSUME NEW d \in Delivery
  PROVE  /\ deliveries[d].status = "ABSENT"             => phase[d] = "unplanned"
         /\ deliveries[d].status = "QUEUED"             => phase[d] = "waiting"
         /\ deliveries[d].status = "SENDING"            => phase[d] = "trying"
         /\ deliveries[d].status = "RETRYING"           => phase[d] = "trying"
         /\ deliveries[d].status = "SENT"               => phase[d] = "reached"
         /\ deliveries[d].status = "DELIVERED"          => phase[d] = "reached"
         /\ deliveries[d].status = "FAILED_PERMANENTLY" => phase[d] = "gaveUp"
         /\ tries[d] = deliveries[d].attempt_count
  BY DEF phase, PhaseOf, tries

\* The same in the next state.
LEMMA PhaseOfStatusNext ==
  ASSUME NEW d \in Delivery
  PROVE  /\ deliveries'[d].status = "ABSENT"             => phase'[d] = "unplanned"
         /\ deliveries'[d].status = "QUEUED"             => phase'[d] = "waiting"
         /\ deliveries'[d].status = "SENDING"            => phase'[d] = "trying"
         /\ deliveries'[d].status = "RETRYING"           => phase'[d] = "trying"
         /\ deliveries'[d].status = "SENT"               => phase'[d] = "reached"
         /\ deliveries'[d].status = "DELIVERED"          => phase'[d] = "reached"
         /\ deliveries'[d].status = "FAILED_PERMANENTLY" => phase'[d] = "gaveUp"
         /\ tries'[d] = deliveries'[d].attempt_count
  BY DEF phase, PhaseOf, tries

\* Planning a delivery is the contract's Plan.
LEMMA CreatePlannedRefines ==
  ASSUME EngineInv, NEW d \in Delivery, CreatePlanned(d)
  PROVE  Contract!Plan(d)
<1>1. /\ deliveries[d].status = "ABSENT" /\ deliveries[d].attempt_count = 0
      /\ deliveries' = [deliveries EXCEPT ![d] = PlanOne]
      /\ PlanOne.status = "QUEUED" /\ PlanOne.attempt_count = 0
      /\ deliveries'[d] = PlanOne
      /\ \A e \in Delivery \ {d} : deliveries'[e] = deliveries[e]
  BY DEF CreatePlanned, NoRow, PlanOne, EngineInv, TypeOK
<1>2. phase[d] = "unplanned"
  BY <1>1, PhaseOfStatus
<1>3. phase' = [phase EXCEPT ![d] = "waiting"]
  <2>1. phase'[d] = "waiting"
    BY <1>1, PhaseOfStatusNext
  <2>2. \A e \in Delivery \ {d} : phase'[e] = phase[e]
    BY <1>1 DEF phase
  <2>3. QED
    BY <2>1, <2>2 DEF phase
<1>4. tries' = tries
  BY <1>1 DEF tries
<1>5. QED
  BY <1>2, <1>3, <1>4 DEF Contract!Plan

\* A claim is one Try of everything it claims.
LEMMA ClaimNextRefines ==
  ASSUME EngineInv, NEW w \in Worker, ClaimNext(w)
  PROVE  \E S \in SUBSET Delivery : Contract!Try(S)
<1>1. PICK claimed \in SUBSET Delivery :
        /\ \A d \in claimed : Claimable(d)
        /\ deliveries' = [d \in Delivery |->
                            IF d \in claimed THEN StartAttempt(deliveries[d])
                                             ELSE deliveries[d]]
  BY ClaimEffect
<1>2. ASSUME NEW d \in claimed
      PROVE  Contract!MayTry(d)
  <2>1. deliveries[d].status \in {"QUEUED", "RETRYING"} /\ GateOpen(d)
    BY <1>1 DEF Claimable, CanStartAttempt
  <2>2. tries[d] < MaxAttempts
    BY <2>1, PhaseOfStatus, RetryPolicyAssumption DEF EngineInv, RowsWellFormed
  <2>3. phase[d] \in {"waiting", "trying"}
    BY <2>1, PhaseOfStatus
  <2>4. \A e \in Lower(d) : phase[e] = "gaveUp"
    BY <2>1, OpenGateMeansGivenUp, PhaseOfStatus, TiersOrdered DEF EngineInv
  <2>5. QED
    BY <2>2, <2>3, <2>4 DEF Contract!MayTry
<1>3. phase' = [d \in Delivery |-> IF d \in claimed THEN "trying" ELSE phase[d]]
  <2>1. \A d \in claimed : phase'[d] = "trying"
    BY <1>1, PhaseOfStatusNext DEF StartAttempt
  <2>2. \A d \in Delivery \ claimed : phase'[d] = phase[d]
    BY <1>1 DEF phase
  <2>3. QED
    BY <2>1, <2>2 DEF phase
<1>4. tries' = [d \in Delivery |-> IF d \in claimed THEN tries[d] + 1 ELSE tries[d]]
  BY <1>1 DEF tries, StartAttempt
<1>5. QED
  BY <1>2, <1>3, <1>4 DEF Contract!Try

\* Recording an answer settles the delivery, or is invisible when it will retry.
LEMMA RecordRefines ==
  ASSUME EngineInv, NEW w \in Worker, Record(w)
  PROVE  \/ \E d \in Delivery, verdict \in {"reached", "gaveUp"} :
              Contract!Settle(d, verdict)
         \/ UNCHANGED Contract!cvars
<1>1. PICK d \in Delivery :
        /\ deliveries[d].status = "SENDING"
        /\ deliveries[d].attempt_count \in 1..MaxAttempts
        /\ deliveries' = [deliveries EXCEPT ![d] = Outcome(deliveries[d], answer[w])]
  BY RecordEffect
<1>2. /\ deliveries'[d] = Outcome(deliveries[d], answer[w])
      /\ \A e \in Delivery \ {d} : deliveries'[e] = deliveries[e]
  BY <1>1 DEF EngineInv, TypeOK
<1>3. /\ deliveries'[d].attempt_count = deliveries[d].attempt_count
      /\ deliveries'[d].status \in {"SENT", "RETRYING", "FAILED_PERMANENTLY"}
  BY <1>1, <1>2, OutcomeOfSending DEF EngineInv, TypeOK
<1>4. tries' = tries
  BY <1>2, <1>3 DEF tries
<1>5. phase[d] = "trying" /\ \A e \in Delivery \ {d} : phase'[e] = phase[e]
  BY <1>1, <1>2, PhaseOfStatus DEF phase
<1>6. CASE deliveries'[d].status = "RETRYING"
  <2>1. phase'[d] = phase[d]
    BY <1>5, <1>6, PhaseOfStatusNext
  <2>2. phase' = phase
    BY <1>5, <2>1 DEF phase
  <2>3. QED
    BY <1>4, <2>2 DEF Contract!cvars
<1>7. ASSUME deliveries'[d].status # "RETRYING"
      PROVE  \E verdict \in {"reached", "gaveUp"} : Contract!Settle(d, verdict)
  <2>1. phase'[d] \in {"reached", "gaveUp"}
    BY <1>3, <1>7, PhaseOfStatusNext
  <2>2. phase' = [phase EXCEPT ![d] = phase'[d]]
    BY <1>5 DEF phase
  <2>3. QED
    BY <1>4, <1>5, <2>1, <2>2 DEF Contract!Settle
<1>8. QED
  BY <1>6, <1>7

\* Every step of the engine is a step of the contract or invisible to it.
LEMMA StepRefines ==
  EngineInv /\ [Next]_vars => [Contract!Next]_(Contract!cvars)
<1> SUFFICES ASSUME EngineInv, [Next]_vars PROVE [Contract!Next]_(Contract!cvars)
  OBVIOUS
<1>1. CASE \E d \in Delivery : CreatePlanned(d)
  BY <1>1, CreatePlannedRefines DEF Contract!Next
<1>2. CASE \E w \in Worker : ClaimNext(w)
  BY <1>2, ClaimNextRefines DEF Contract!Next
<1>3. CASE \E w \in Worker : Record(w)
  BY <1>3, RecordRefines DEF Contract!Next
<1>4. CASE \E d \in Delivery : BackoffElapses(d)
  <2>1. \A d \in Delivery :
          /\ deliveries'[d].status = deliveries[d].status
          /\ deliveries'[d].attempt_count = deliveries[d].attempt_count
    BY <1>4 DEF BackoffElapses, EngineInv, TypeOK, Row
  <2>2. QED
    BY <2>1, InvisibleStep
<1>5. CASE \E h \in Handler : ApplyWebhook(h)
  <2>1. PICK h \in Handler : ApplyWebhook(h)
    BY <1>5
  <2> DEFINE x == handling[h].message.delivery
  <2>2. /\ x \in Delivery
        /\ Reached(deliveries[x])
        /\ deliveries' = [deliveries EXCEPT ![x] = loaded[h]] \/ UNCHANGED deliveries
    BY <2>1, ApplyWebhookEffect
  <2>3. /\ loaded[h].status = "DELIVERED"
        /\ loaded[h].attempt_count = deliveries[x].attempt_count
    BY <2>1 DEF ApplyWebhook, EngineInv, LoadedIsReceipt
  <2> HIDE DEF x
  <2>4. /\ phase' = phase
        /\ tries' = tries
    <3>1. \A e \in Delivery \ {x} : deliveries'[e] = deliveries[e]
      BY <2>2 DEF EngineInv, TypeOK
    <3>2. deliveries'[x] = loaded[h] \/ deliveries'[x] = deliveries[x]
      BY <2>2 DEF EngineInv, TypeOK
    <3>3. phase'[x] = phase[x] /\ tries'[x] = tries[x]
      BY <2>2, <2>3, <3>2, PhaseOfStatus, PhaseOfStatusNext DEF Reached
    <3>4. \A e \in Delivery \ {x} : phase'[e] = phase[e] /\ tries'[e] = tries[e]
      BY <3>1 DEF phase, tries
    <3>5. QED
      BY <3>3, <3>4 DEF phase, tries
  <2>5. QED
    BY <2>4 DEF Contract!cvars
<1>6. CASE UNCHANGED deliveries
  BY <1>6, InvisibleStep
<1>7. CASE Next
  BY <1>1, <1>2, <1>3, <1>4, <1>5, <1>6, <1>7
  DEF Next, WorkerStep, HandlerStep, NoAdapter, Send, TakeMessage, Abort, EmitCallback, RecordIfNew,
      IgnoreDuplicate, ReplayGuardFails, DropMoot, Load, WebhookFails, dbVars
<1>8. CASE UNCHANGED vars
  BY <1>6, <1>8 DEF vars, dbVars
<1>9. QED
  BY <1>7, <1>8

\* The engine starts where the contract starts.
LEMMA InitRefines == Init => Contract!Init
<1> SUFFICES ASSUME Init PROVE Contract!Init
  OBVIOUS
<1>1. \A d \in Delivery : deliveries[d].status = "ABSENT" /\ deliveries[d].attempt_count = 0
  BY DEF Init, NoRow
<1>2. phase = [d \in Delivery |-> "unplanned"]
  BY <1>1, PhaseOfStatus DEF phase
<1>3. tries = [d \in Delivery |-> 0]
  BY <1>1 DEF tries
<1>4. QED
  BY <1>2, <1>3 DEF Contract!Init

\* The engine implements the contract for all constants: bounded tries, one
\* final result per delivery, fallbacks in turn.
THEOREM Refinement == Spec => ImplementsContract
<1>1. Spec => Contract!Init
  BY InitRefines DEF Spec
<1>2. QED
  BY <1>1, EngineInvariant, StepRefines, PTL DEF Spec, ImplementsContract, Contract!Spec


-----------------------------------------------------------------------------
(* What a step does to one delivery. *)

\* At most its timer changes.
Kept(d) ==
  /\ deliveries'[d].status = deliveries[d].status
  /\ deliveries'[d].attempt_count = deliveries[d].attempt_count
  /\ deliveries'[d].version = deliveries[d].version
  /\ EventsOf(d)' = EventsOf(d) /\ AttemptsOf(d)' = AttemptsOf(d)

\* One version up, with its event.
Advanced(d) ==
  /\ deliveries'[d].version = deliveries[d].version + 1
  /\ EventsOf(d)' = EventsOf(d) \cup {EventOf(d, deliveries'[d])}

Planned(d) ==
  /\ Advanced(d) /\ AttemptsOf(d)' = AttemptsOf(d)
  /\ deliveries[d] = NoRow /\ deliveries'[d] = PlanOne

Started(d) ==
  /\ Advanced(d) /\ AttemptsOf(d)' = AttemptsOf(d)
  /\ CanStartAttempt(deliveries[d]) /\ deliveries'[d] = StartAttempt(deliveries[d])

Recorded(d) ==
  /\ Advanced(d)
  /\ deliveries[d].status = "SENDING"
  /\ \E w \in Worker :
       /\ Record(w) /\ IsCurrent(w, d)
       /\ deliveries'[d] = Outcome(deliveries[d], answer[w])
       /\ AttemptsOf(d)' = AttemptsOf(d) \cup
            {[delivery |-> d, number |-> deliveries[d].attempt_count, outcome |-> answer[w]]}

Confirmed(d) ==
  /\ Advanced(d) /\ AttemptsOf(d)' = AttemptsOf(d)
  /\ Reached(deliveries[d]) /\ deliveries'[d].status = "DELIVERED"
  /\ deliveries'[d].attempt_count = deliveries[d].attempt_count
  /\ \E h \in Handler : ApplyWebhook(h) /\ handling[h].message.delivery = d

\* A claim keeps a delivery or starts it.
LEMMA ClaimSteps ==
  ASSUME EngineInv, NEW w \in Worker, ClaimNext(w), NEW d \in Delivery
  PROVE  Kept(d) \/ Started(d)
<1>1. PICK claimed \in SUBSET Delivery :
        /\ \A e \in claimed : Claimable(e)
        /\ deliveries' = [e \in Delivery |->
                            IF e \in claimed THEN StartAttempt(deliveries[e])
                                             ELSE deliveries[e]]
        /\ delivery_events' = delivery_events \cup
                              {EventOf(e, StartAttempt(deliveries[e])) : e \in claimed}
  BY ClaimEffect
<1>2. AttemptsOf(d)' = AttemptsOf(d)
  BY DEF ClaimNext, AttemptsOf
<1>3. CASE d \in claimed
  <2>1. deliveries'[d] = StartAttempt(deliveries[d]) /\ CanStartAttempt(deliveries[d])
    BY <1>1, <1>3 DEF Claimable
  <2>2. EventsOf(d)' = EventsOf(d) \cup {EventOf(d, StartAttempt(deliveries[d]))}
    BY <1>1, <1>3 DEF EventsOf, EventOf
  <2>3. StartAttempt(deliveries[d]).version = deliveries[d].version + 1
    BY DEF StartAttempt
  <2> QED  BY <1>2, <2>1, <2>2, <2>3 DEF Started, Advanced
<1>4. CASE d \notin claimed
  <2>1. deliveries'[d] = deliveries[d]  BY <1>1, <1>4
  <2>2. EventsOf(d)' = EventsOf(d)  BY <1>1, <1>4 DEF EventsOf, EventOf
  <2> QED  BY <1>2, <2>1, <2>2 DEF Kept
<1> QED  BY <1>3, <1>4

\* Recording keeps every delivery but the current one.
LEMMA RecordSteps ==
  ASSUME EngineInv, NEW w \in Worker, Record(w), NEW d \in Delivery
  PROVE  Kept(d) \/ Recorded(d)
<1>1. PICK e \in Delivery :
        LET new == Outcome(deliveries[e], answer[w]) IN
        /\ IsCurrent(w, e)
        /\ deliveries[e].status = "SENDING"
        /\ deliveries[e].attempt_count \in 1..MaxAttempts
        /\ deliveries' = [deliveries EXCEPT ![e] = new]
        /\ delivery_events' = delivery_events \cup {EventOf(e, new)}
        /\ delivery_attempts' = delivery_attempts \cup
             {[delivery |-> e, number |-> new.attempt_count, outcome |-> answer[w]]}
  BY RecordEffect
<1> DEFINE new == Outcome(deliveries[e], answer[w])
<1>2. deliveries[e] \in Row /\ answer[w] \in Answer
  BY DEF EngineInv, TypeOK
<1>3. new.version = deliveries[e].version + 1 /\ new.attempt_count = deliveries[e].attempt_count
  BY <1>1, <1>2, OutcomeOfSending
<1> DEFINE attempt == [delivery |-> e, number |-> new.attempt_count, outcome |-> answer[w]]
<1>4. /\ deliveries' = [deliveries EXCEPT ![e] = new]
      /\ delivery_events' = delivery_events \cup {EventOf(e, new)}
      /\ delivery_attempts' = delivery_attempts \cup {attempt}
  BY <1>1
<1>5. attempt.delivery = e  OBVIOUS
<1>6. attempt = [delivery |-> e, number |-> deliveries[e].attempt_count, outcome |-> answer[w]]
  BY <1>3
<1> HIDE DEF new, attempt
<1>7. CASE d = e
  <2>1. deliveries'[d] = new  BY <1>4, <1>7 DEF EngineInv, TypeOK
  <2>2. EventsOf(d)' = EventsOf(d) \cup {EventOf(d, new)}
    BY <1>4, <1>7 DEF EventsOf, EventOf
  <2>3. AttemptsOf(d)' = AttemptsOf(d) \cup {attempt}
    BY <1>4, <1>5, <1>7 DEF AttemptsOf
  <2> QED  BY <1>1, <1>3, <1>6, <1>7, <2>1, <2>2, <2>3 DEF Recorded, Advanced, new
<1>8. CASE d # e
  <2>1. deliveries'[d] = deliveries[d]  BY <1>4, <1>8 DEF EngineInv, TypeOK
  <2>2. EventsOf(d)' = EventsOf(d) /\ AttemptsOf(d)' = AttemptsOf(d)
    BY <1>4, <1>5, <1>8 DEF EventsOf, EventOf, AttemptsOf
  <2> QED  BY <2>1, <2>2 DEF Kept
<1> QED  BY <1>7, <1>8

\* A webhook update keeps every delivery but the one its message names.
LEMMA WebhookSteps ==
  ASSUME EngineInv, NEW h \in Handler, ApplyWebhook(h), NEW d \in Delivery
  PROVE  Kept(d) \/ Confirmed(d)
<1> PICK e \in Delivery : e = handling[h].message.delivery
  BY ApplyWebhookEffect
<1> PICK new \in Row : new = loaded[h]
  BY DEF EngineInv, TypeOK
<1>1. Reached(deliveries[e]) /\ AttemptsOf(d)' = AttemptsOf(d)
  BY ApplyWebhookEffect DEF AttemptsOf
<1>2. /\ new.status = "DELIVERED" /\ new.attempt_count = deliveries[e].attempt_count
      /\ handling[h].verdict = "delivered" /\ loaded[h] # NoRow
  BY DEF EngineInv, LoadedIsReceipt, ApplyWebhook
<1>3. Advance(e, new)
  BY <1>2 DEF ApplyWebhook, ApplyTransition
<1>4. CASE Matches(e, new) /\ d = e
  <2>1. deliveries'[d] = new /\ new.version = deliveries[d].version + 1
    BY <1>3, <1>4 DEF Advance, Matches, EngineInv, TypeOK
  <2>2. EventsOf(d)' = EventsOf(d) \cup {EventOf(d, new)}
    BY <1>3, <1>4 DEF Advance, EventsOf, EventOf
  <2> QED  BY <1>1, <1>2, <1>4, <2>1, <2>2 DEF Confirmed, Advanced
<1>5. CASE ~ Matches(e, new) \/ d # e
  <2>1. deliveries'[d] = deliveries[d]
    BY <1>3, <1>5 DEF Advance, EngineInv, TypeOK
  <2>2. EventsOf(d)' = EventsOf(d)
    BY <1>3, <1>5 DEF Advance, EventsOf, EventOf
  <2> QED  BY <1>1, <2>1, <2>2 DEF Kept
<1> QED  BY <1>4, <1>5

\* Planning and the clock.
LEMMA PlanningSteps ==
  ASSUME EngineInv, NEW e \in Delivery, CreatePlanned(e) \/ BackoffElapses(e), NEW d \in Delivery
  PROVE  Kept(d) \/ Planned(d)
<1>1. CASE CreatePlanned(e)
  <2>1. AttemptsOf(d)' = AttemptsOf(d)  BY <1>1 DEF CreatePlanned, AttemptsOf
  <2>2. CASE d = e
    <3>1. deliveries[d] = NoRow /\ deliveries'[d] = PlanOne
      BY <1>1, <2>2 DEF CreatePlanned, EngineInv, TypeOK
    <3>2. EventsOf(d)' = EventsOf(d) \cup {EventOf(d, PlanOne)}
      BY <1>1, <2>2 DEF CreatePlanned, EventsOf, EventOf
    <3>3. PlanOne.version = NoRow.version + 1  BY DEF PlanOne, NoRow
    <3> QED  BY <2>1, <3>1, <3>2, <3>3 DEF Planned, Advanced
  <2>3. CASE d # e
    <3>1. deliveries'[d] = deliveries[d]
      BY <1>1, <2>3 DEF CreatePlanned, EngineInv, TypeOK
    <3>2. EventsOf(d)' = EventsOf(d)
      BY <1>1, <2>3 DEF CreatePlanned, EventsOf, EventOf
    <3> QED  BY <2>1, <3>1, <3>2 DEF Kept
  <2> QED  BY <2>2, <2>3
<1>2. CASE BackoffElapses(e)
  <2>1. EventsOf(d)' = EventsOf(d) /\ AttemptsOf(d)' = AttemptsOf(d)
    BY <1>2 DEF BackoffElapses, EventsOf, AttemptsOf
  <2>2. /\ deliveries'[d].status = deliveries[d].status
        /\ deliveries'[d].attempt_count = deliveries[d].attempt_count
        /\ deliveries'[d].version = deliveries[d].version
    BY <1>2 DEF BackoffElapses, EngineInv, TypeOK, Row
  <2> QED  BY <2>1, <2>2 DEF Kept
<1> QED  BY <1>1, <1>2

\* Every step of the engine, seen from one delivery.
LEMMA DeliverySteps ==
  ASSUME EngineInv, [Next]_vars, NEW d \in Delivery
  PROVE  Kept(d) \/ Planned(d) \/ Started(d) \/ Recorded(d) \/ Confirmed(d)
<1>1. ASSUME UNCHANGED dbVars
      PROVE  Kept(d)
  BY <1>1 DEF dbVars, Kept, EventsOf, AttemptsOf
<1>2. CASE UNCHANGED vars
  BY <1>1, <1>2 DEF vars
<1>3. ASSUME NEW w \in Worker, NoAdapter(w) \/ Send(w) \/ TakeMessage(w) \/ Abort(w)
      PROVE  UNCHANGED dbVars
  BY <1>3 DEF NoAdapter, Send, TakeMessage, Abort
<1>4. ASSUME NEW e \in EventId, NEW m \in Message, NEW v \in Verdict, EmitCallback(e, m, v)
      PROVE  UNCHANGED dbVars
  BY <1>4 DEF EmitCallback
<1>5. ASSUME NEW h \in Handler,
             \/ DropMoot(h) \/ Load(h) \/ WebhookFails(h)
             \/ \E c \in callbacks :
                  RecordIfNew(h, c) \/ IgnoreDuplicate(h, c) \/ ReplayGuardFails(h, c)
      PROVE  UNCHANGED dbVars
  BY <1>5 DEF DropMoot, Load, WebhookFails, RecordIfNew, IgnoreDuplicate, ReplayGuardFails
<1> QED  BY <1>1, <1>2, <1>3, <1>4, <1>5, ClaimSteps, RecordSteps, WebhookSteps, PlanningSteps
         DEF Next, WorkerStep, HandlerStep

-----------------------------------------------------------------------------
(* The history of a delivery. *)

\* The events E are the history of a row.
Story(E, row) ==
  /\ {e.version : e \in E} = 1..row.version
  /\ \A e, f \in E : e.version = f.version => e = f
  /\ \A e \in E : e.version = row.version => e.entered = row.status

\* A history goes on by the event of the next version.
LEMMA StoryGoesOn ==
  ASSUME NEW d \in Delivery, NEW E, NEW row \in Row, NEW new, Story(E, row),
         new.version = row.version + 1
  PROVE  Story(E \cup {EventOf(d, new)}, new)
<1> DEFINE n == EventOf(d, new)
<1>1. n.version = row.version + 1 /\ n.entered = new.status
  BY DEF EventOf
<1>2. row.version \in Nat  BY DEF Row
<1>3. \A e \in E : e.version \in 1..row.version  BY DEF Story
<1> HIDE DEF n
<1>4. {e.version : e \in E \cup {n}} = 1..(row.version + 1)
  <2>1. {e.version : e \in E \cup {n}} = (1..row.version) \cup {row.version + 1}
    BY <1>1 DEF Story
  <2>2. (1..row.version) \cup {row.version + 1} = 1..(row.version + 1)
    BY <1>2
  <2> QED  BY <2>1, <2>2
<1>5. \A e, f \in E \cup {n} : e.version = f.version => e = f
  BY <1>1, <1>2, <1>3 DEF Story
<1>6. \A e \in E \cup {n} : e.version = new.version => e.entered = new.status
  BY <1>1, <1>2, <1>3
<1> QED  BY <1>4, <1>5, <1>6 DEF Story, n

\* Every step keeps the history complete.
LEMMA HistoryStaysComplete ==
  ASSUME EngineInv, HistoryComplete, [Next]_vars
  PROVE  HistoryComplete'
<1>1. ASSUME NEW d \in Delivery
      PROVE  Story(EventsOf(d)', deliveries'[d])
  <2>1. Story(EventsOf(d), deliveries[d]) /\ deliveries[d] \in Row
    BY DEF HistoryComplete, Story, EngineInv, TypeOK
  <2>2. CASE Kept(d)
    BY <2>1, <2>2 DEF Kept, Story
  <2>3. CASE Advanced(d)
    BY <2>1, <2>3, StoryGoesOn DEF Advanced
  <2> QED  BY <2>2, <2>3, DeliverySteps DEF Planned, Started, Recorded, Confirmed
<1> QED  BY <1>1 DEF HistoryComplete, Story

\* delivery_events has one event for every version of a row and the newest says its
\* status, whichever of the workers and webhook handlers wrote it (advance_delivery).
THEOREM HistoryCompleteHolds == Spec => []HistoryComplete
<1>1. Init => HistoryComplete
  <2>1. 1..0 = {}  OBVIOUS
  <2> QED  BY <2>1 DEF Init, HistoryComplete, EventsOf, NoRow
<1>2. EngineInv /\ HistoryComplete /\ [Next]_vars => HistoryComplete'
  BY HistoryStaysComplete
<1> QED  BY <1>1, <1>2, EngineInvariant, PTL DEF Spec

-----------------------------------------------------------------------------
(* The ledger of attempts. *)

\* The number of attempts of a row that have ended.
Ended(row) == IF row.status = "SENDING" THEN row.attempt_count - 1 ELSE row.attempt_count

\* The attempts A are the ledger of a row.
Ledger(A, row) ==
  /\ {a.number : a \in A} = 1..Ended(row)
  /\ \A a, b \in A : a.number = b.number => a = b
  /\ \A a \in A :
       IF a.number < row.attempt_count THEN a.outcome = "retryable"
       ELSE /\ Reached(row) <=> a.outcome = "sent"
            /\ row.status = "RETRYING" <=> a.outcome = "retryable" /\ a.number < MaxAttempts
            /\ row.status = "FAILED_PERMANENTLY" <=>
                 a.outcome = "permanent"
                   \/ (a.outcome = "retryable" /\ a.number = MaxAttempts)

\* A started attempt: those before it were retried.
LEMMA LedgerStarted ==
  ASSUME EngineInv, NEW d \in Delivery, NEW A, Ledger(A, deliveries[d]),
         CanStartAttempt(deliveries[d])
  PROVE  Ledger(A, StartAttempt(deliveries[d]))
<1> PICK row \in Row : row = deliveries[d]
  BY DEF EngineInv, TypeOK
<1> DEFINE k == row.attempt_count
           new == StartAttempt(row)
<1>1. k \in Nat /\ row.status \in {"QUEUED", "RETRYING"} /\ (row.status = "QUEUED" => k = 0)
  BY DEF Row, CanStartAttempt, EngineInv, RowsWellFormed
<1>2. new.status = "SENDING" /\ new.attempt_count = k + 1 /\ Ended(row) = k /\ Ended(new) = k
  BY <1>1 DEF StartAttempt, Ended
<1>3. \A a \in A : a.number \in 1..k
  BY <1>2 DEF Ledger
<1>4. \A a \in A : a.outcome = "retryable"
  BY <1>1, <1>3 DEF Ledger, Reached
<1>5. \A a \in A : a.number < new.attempt_count
  BY <1>1, <1>2, <1>3
<1> HIDE DEF k, new
<1> QED  BY <1>2, <1>4, <1>5 DEF Ledger, new

\* An attempt that ends: the status is what its outcome says.
LEMMA LedgerRecorded ==
  ASSUME EngineInv, NEW d \in Delivery, NEW A, Ledger(A, deliveries[d]),
         deliveries[d].status = "SENDING", NEW result \in Answer \ {"none"},
         NEW attempt, attempt.number = deliveries[d].attempt_count, attempt.outcome = result
  PROVE  Ledger(A \cup {attempt}, Outcome(deliveries[d], result))
<1> PICK row \in Row : row = deliveries[d]
  BY DEF EngineInv, TypeOK
<1> DEFINE k == row.attempt_count
           new == Outcome(row, result)
           B == A \cup {attempt}
<1>1. k \in 1..MaxAttempts /\ row.status = "SENDING" /\ MaxAttempts \in Nat
  BY RetryPolicyAssumption DEF EngineInv, RowsWellFormed
<1>2. /\ new.attempt_count = k
      /\ new.status \in {"SENT", "RETRYING", "FAILED_PERMANENTLY"}
      /\ new.status = "SENT" <=> result = "sent"
      /\ new.status = "RETRYING" <=> result = "retryable" /\ k < MaxAttempts
  BY <1>1 DEF Outcome, RecordSuccess, RecordFailure, WillRetry, Answer
<1>3. Ended(row) = k - 1 /\ Ended(new) = k
  BY <1>1, <1>2 DEF Ended
<1>4. {a.number : a \in A} = 1..(k - 1)
  BY <1>3 DEF Ledger
<1>5. attempt.number = k /\ attempt.outcome = result
  OBVIOUS
<1> HIDE DEF k, new
<1>6. \A a \in A : a.number \in 1..(k - 1) /\ a.number < k
  BY <1>1, <1>4
<1>7. {a.number : a \in B} = 1..k
  <2>1. {a.number : a \in B} = (1..(k - 1)) \cup {k}
    BY <1>4, <1>5
  <2>2. (1..(k - 1)) \cup {k} = 1..k
    BY <1>1
  <2> QED  BY <2>1, <2>2
<1>8. \A a, b \in B : a.number = b.number => a = b
  BY <1>1, <1>5, <1>6 DEF Ledger
<1>9. \A a \in A : a.outcome = "retryable"
  BY <1>6 DEF Ledger, k
<1>10. /\ Reached(new) <=> result = "sent"
       /\ new.status = "RETRYING" <=> result = "retryable" /\ k < MaxAttempts
       /\ new.status = "FAILED_PERMANENTLY" <=>
            result = "permanent" \/ (result = "retryable" /\ k = MaxAttempts)
  BY <1>1, <1>2 DEF Reached, Answer
<1>11. \A a \in B :
         IF a.number < new.attempt_count THEN a.outcome = "retryable"
         ELSE /\ Reached(new) <=> a.outcome = "sent"
              /\ new.status = "RETRYING" <=> a.outcome = "retryable" /\ a.number < MaxAttempts
              /\ new.status = "FAILED_PERMANENTLY" <=>
                   a.outcome = "permanent"
                     \/ (a.outcome = "retryable" /\ a.number = MaxAttempts)
  <2> TAKE a \in B
  <2>1. CASE a \in A
    BY <1>2, <1>6, <1>9, <2>1
  <2>2. CASE a = attempt
    <3>1. a.number = k /\ a.outcome = result /\ ~(k < new.attempt_count)
      BY <1>1, <1>2, <1>5, <2>2
    <3> QED  BY <1>10, <3>1
  <2> QED  BY <2>1, <2>2
<1>12. Ledger(B, new)
  BY <1>3, <1>7, <1>8, <1>11 DEF Ledger
<1> QED  BY <1>12 DEF new

\* Every step keeps the ledgers.
LEMMA LedgersStay ==
  ASSUME EngineInv, AttemptLedger, [Next]_vars
  PROVE  AttemptLedger'
<1>1. ASSUME NEW d \in Delivery
      PROVE  Ledger(AttemptsOf(d)', deliveries'[d])
  <2>1. Ledger(AttemptsOf(d), deliveries[d]) /\ deliveries[d] \in Row
    BY DEF AttemptLedger, Ledger, Ended, EngineInv, TypeOK
  <2>2. CASE Kept(d)
    BY <2>1, <2>2 DEF Kept, Ledger, Ended, Reached
  <2>3. CASE Planned(d)
    BY <2>1, <2>3 DEF Planned, Ledger, Ended, NoRow, PlanOne
  <2>4. CASE Started(d)
    BY <2>1, <2>4, LedgerStarted DEF Started
  <2>5. CASE Recorded(d)
    <3>1. PICK w \in Worker :
            /\ answer[w] # "none"
            /\ deliveries'[d] = Outcome(deliveries[d], answer[w])
            /\ AttemptsOf(d)' = AttemptsOf(d) \cup
                 {[delivery |-> d, number |-> deliveries[d].attempt_count, outcome |-> answer[w]]}
      BY <2>5 DEF Recorded, Record
    <3>2. answer[w] \in Answer \ {"none"}  BY <3>1 DEF EngineInv, TypeOK
    <3> DEFINE attempt == [delivery |-> d, number |-> deliveries[d].attempt_count,
                           outcome |-> answer[w]]
    <3>3. attempt.number = deliveries[d].attempt_count /\ attempt.outcome = answer[w]
      OBVIOUS
    <3>4. deliveries[d].status = "SENDING"
      BY <2>5 DEF Recorded
    <3> HIDE DEF attempt
    <3>5. Ledger(AttemptsOf(d) \cup {attempt}, Outcome(deliveries[d], answer[w]))
      BY <2>1, <3>2, <3>3, <3>4, LedgerRecorded
    <3> QED  BY <3>1, <3>5 DEF attempt
  <2>6. CASE Confirmed(d)
    <3>1. Ended(deliveries'[d]) = Ended(deliveries[d])
      BY <2>6 DEF Confirmed, Reached, Ended
    <3>2. /\ Reached(deliveries'[d]) /\ Reached(deliveries[d])
          /\ deliveries'[d].status \notin {"RETRYING", "FAILED_PERMANENTLY"}
          /\ deliveries[d].status \notin {"RETRYING", "FAILED_PERMANENTLY"}
      BY <2>6 DEF Confirmed, Reached
    <3> QED  BY <2>1, <2>6, <3>1, <3>2 DEF Confirmed, Ledger
  <2> QED  BY <2>2, <2>3, <2>4, <2>5, <2>6, DeliverySteps
<1> QED  BY <1>1 DEF AttemptLedger, Ledger, Ended, Reached

\* The attempts of a delivery are numbered without a gap, only the last is no retryable
\* failure, and the status says how it ended (record_success, record_failure), for any
\* attempt limit and number of workers.
THEOREM AttemptLedgerHolds == Spec => []AttemptLedger
<1>1. Init => AttemptLedger
  <2>1. 1..0 = {}  OBVIOUS
  <2> QED  BY <2>1 DEF Init, AttemptLedger, AttemptsOf, NoRow
<1>2. EngineInv /\ AttemptLedger /\ [Next]_vars => AttemptLedger'
  BY LedgersStay
<1> QED  BY <1>1, <1>2, EngineInvariant, PTL DEF Spec

\* Row, attempts and events tell one story (apply_transition, apply_attempt_transition).
THEOREM RecordsCompleteHolds == Spec => []RecordsComplete
BY AttemptLedgerHolds, HistoryCompleteHolds, PTL DEF RecordsComplete

-----------------------------------------------------------------------------
(* Receipts. *)

\* A request handles a callback that was emitted.
HandlesEmitted == \A h \in Handler : handling[h] # NoCallback => handling[h] \in callbacks

\* What a request loaded is the attempt its callback names.
LoadedAsNamed ==
  \A h \in Handler : loaded[h] # NoRow =>
    handling[h].message.attempt = deliveries[handling[h].message.delivery].attempt_count

\* A worker told "sent" holds the delivery whose message the provider took.
SentIsTaken ==
  \A w \in Worker : answer[w] = "sent" =>
    \E d \in Delivery :
      /\ IsCurrent(w, d)
      /\ [delivery |-> d, attempt |-> batch[w][d].attempt_count] \in accepted

ReceiptInv == HandlesEmitted /\ LoadedAsNamed /\ SentIsTaken /\ ReceiptBacked

\* The provider forgets nothing.
LEMMA ProviderRemembers ==
  ASSUME [Next]_vars
  PROVE  accepted \subseteq accepted' /\ callbacks \subseteq callbacks'
BY DEF Next, vars, providerVars, WorkerStep, HandlerStep, CreatePlanned, BackoffElapses,
       ClaimNext, NoAdapter, Send, TakeMessage, Record, Abort, EmitCallback, DropMoot, Load,
       ApplyWebhook, WebhookFails, RecordIfNew, IgnoreDuplicate, ReplayGuardFails

\* How the requests change in one step.
LEMMA RequestSteps ==
  ASSUME EngineInv, [Next]_vars, NEW h \in Handler
  PROVE  \/ handling'[h] = handling[h] /\ loaded'[h] = loaded[h]
         \/ handling'[h] = NoCallback /\ loaded'[h] = NoRow
         \/ handling'[h] \in callbacks /\ handling[h] = NoCallback /\ loaded'[h] = loaded[h]
         \/ Load(h) /\ handling'[h] = handling[h]
<1> USE DEF EngineInv, TypeOK
<1>1. CASE UNCHANGED <<handling, loaded>>
  BY <1>1
<1>2. ASSUME NEW g \in Handler, DropMoot(g) \/ ApplyWebhook(g) \/ WebhookFails(g)
      PROVE  \/ handling'[h] = handling[h] /\ loaded'[h] = loaded[h]
             \/ handling'[h] = NoCallback /\ loaded'[h] = NoRow
  BY <1>2 DEF DropMoot, ApplyWebhook, WebhookFails
<1>3. ASSUME NEW g \in Handler, Load(g)
      PROVE  \/ handling'[h] = handling[h] /\ loaded'[h] = loaded[h]
             \/ Load(h) /\ handling'[h] = handling[h]
  BY <1>3 DEF Load
<1>4. ASSUME NEW g \in Handler, NEW c \in callbacks, RecordIfNew(g, c)
      PROVE  \/ handling'[h] = handling[h] /\ loaded'[h] = loaded[h]
             \/ handling'[h] \in callbacks /\ handling[h] = NoCallback /\ loaded'[h] = loaded[h]
  BY <1>4 DEF RecordIfNew
<1>5. ASSUME \/ UNCHANGED vars
             \/ \E d \in Delivery : CreatePlanned(d) \/ BackoffElapses(d)
             \/ \E w \in Worker : WorkerStep(w) \/ TakeMessage(w) \/ Abort(w)
             \/ \E e \in EventId, m \in Message, v \in Verdict : EmitCallback(e, m, v)
             \/ \E g \in Handler, c \in callbacks :
                  IgnoreDuplicate(g, c) \/ ReplayGuardFails(g, c)
      PROVE  UNCHANGED <<handling, loaded>>
  BY <1>5 DEF vars, apiVars, CreatePlanned, BackoffElapses, WorkerStep, ClaimNext, NoAdapter,
              Send, TakeMessage, Record, Abort, EmitCallback, IgnoreDuplicate, ReplayGuardFails
<1> QED  BY <1>1, <1>2, <1>3, <1>4, <1>5 DEF Next, HandlerStep

\* An attempt count that a receipt is about never changes again.
LEMMA ReachedKeepsCount ==
  ASSUME EngineInv, [Next]_vars, NEW d \in Delivery, Reached(deliveries[d])
  PROVE  deliveries'[d].attempt_count = deliveries[d].attempt_count
BY DeliverySteps DEF Kept, Planned, Started, Recorded, Confirmed, Reached, NoRow, CanStartAttempt

\* The message a callback names is known, so it is that of the last attempt.
LEMMA LoadNamesLast ==
  ASSUME EngineInv, AttemptLedger, NEW h \in Handler, Load(h)
  PROVE  /\ handling[h] \in Callback
         /\ handling[h].message.attempt
              = deliveries[handling[h].message.delivery].attempt_count
<1>1. handling[h] \in Callback
  BY DEF Load, EngineInv, TypeOK
<1> PICK m \in Message : m = handling[h].message
  BY <1>1 DEF Callback
<1> PICK a \in delivery_attempts :
      a.delivery = m.delivery /\ a.number = m.attempt /\ a.outcome = "sent"
  BY DEF Load, Applicable, KnownMessage
<1> DEFINE row == deliveries[m.delivery]
<1>2. row \in Row /\ m.delivery \in Delivery /\ a \in AttemptsOf(m.delivery)
  BY DEF Message, EngineInv, TypeOK, AttemptsOf
<1>3. Ledger(AttemptsOf(m.delivery), row)
  BY <1>2 DEF AttemptLedger, Ledger, Ended, Reached
<1>4. a.number \in 1..Ended(row) /\ ~(a.number < row.attempt_count)
  BY <1>2, <1>3 DEF Ledger
<1>5. row.attempt_count \in Nat  BY <1>2 DEF Row
<1>6. a.number = row.attempt_count
  BY <1>4, <1>5 DEF Ended
<1> QED  BY <1>1, <1>6

\* How a worker changes in one step.
LEMMA WorkerSteps ==
  ASSUME EngineInv, [Next]_vars, NEW w \in Worker
  PROVE  \/ batch'[w] = batch[w] /\ answer'[w] = answer[w]
         \/ answer'[w] = "none"
         \/ ClaimNext(w) /\ answer'[w] = answer[w]
         \/ batch'[w] = batch[w] /\ (NoAdapter(w) \/ Send(w))
<1> USE DEF EngineInv, TypeOK
<1>1. CASE UNCHANGED workerVars
  BY <1>1 DEF workerVars
<1>2. ASSUME NEW v \in Worker, TakeMessage(v) \/ (v # w /\ (WorkerStep(v) \/ Abort(v)))
      PROVE  batch'[w] = batch[w] /\ answer'[w] = answer[w]
  BY <1>2 DEF WorkerStep, ClaimNext, NoAdapter, Send, TakeMessage, Record, Abort, workerVars
<1>3. ASSUME Record(w) \/ Abort(w)
      PROVE  answer'[w] = "none"
  BY <1>3 DEF Record, Abort
<1>4. ASSUME ClaimNext(w)
      PROVE  answer'[w] = answer[w]
  BY <1>4 DEF ClaimNext
<1>5. ASSUME NoAdapter(w) \/ Send(w)
      PROVE  batch'[w] = batch[w]
  BY <1>5 DEF NoAdapter, Send
<1>6. ASSUME \/ UNCHANGED vars
             \/ \E d \in Delivery : CreatePlanned(d) \/ BackoffElapses(d)
             \/ \E e \in EventId, m \in Message, v \in Verdict : EmitCallback(e, m, v)
             \/ \E g \in Handler :
                  \/ HandlerStep(g) \/ WebhookFails(g)
                  \/ \E c \in callbacks :
                       RecordIfNew(g, c) \/ IgnoreDuplicate(g, c) \/ ReplayGuardFails(g, c)
      PROVE  UNCHANGED workerVars
  BY <1>6 DEF vars, CreatePlanned, BackoffElapses, EmitCallback, HandlerStep, DropMoot, Load,
              ApplyWebhook, WebhookFails, RecordIfNew, IgnoreDuplicate, ReplayGuardFails
<1> QED  BY <1>1, <1>2, <1>3, <1>4, <1>5, <1>6 DEF Next, WorkerStep

\* A worker whose batch stays holds the same delivery.
LEMMA SameBatchSameCurrent ==
  ASSUME NEW w \in Worker, NEW d \in Delivery, batch'[w] = batch[w]
  PROVE  IsCurrent(w, d)' <=> IsCurrent(w, d)
BY DEF IsCurrent, Held

LEMMA SentStaysTaken ==
  ASSUME EngineInv, SentIsTaken, [Next]_vars
  PROVE  SentIsTaken'
<1> SUFFICES ASSUME NEW w \in Worker, answer'[w] = "sent"
             PROVE  \E d \in Delivery :
                      /\ IsCurrent(w, d)'
                      /\ [delivery |-> d, attempt |-> batch'[w][d].attempt_count] \in accepted'
  BY DEF SentIsTaken
<1>1. CASE batch'[w] = batch[w] /\ answer'[w] = answer[w]
  BY <1>1, SameBatchSameCurrent, ProviderRemembers DEF SentIsTaken
<1>2. CASE ClaimNext(w) /\ answer'[w] = answer[w]
  BY <1>2 DEF SentIsTaken, ClaimNext, IsCurrent
<1>3. CASE batch'[w] = batch[w] /\ (NoAdapter(w) \/ Send(w))
  <2>1. ~NoAdapter(w)  BY DEF NoAdapter, EngineInv, TypeOK
  <2>2. PICK d \in Delivery :
          /\ IsCurrent(w, d)
          /\ [delivery |-> d, attempt |-> batch[w][d].attempt_count] \in accepted'
    BY <1>3, <2>1, EngineAssumption
    DEF Send, Sending, MessageOf, providerVars, EngineInv, TypeOK, EngineAssumption
  <2> QED  BY <1>3, <2>2, SameBatchSameCurrent
<1> QED  BY <1>1, <1>2, <1>3, WorkerSteps

\* Every step keeps what the requests and the rows say backed.
LEMMA RequestsStayBacked ==
  ASSUME EngineInv, AttemptLedger, ReceiptInv, [Next]_vars
  PROVE  HandlesEmitted' /\ LoadedAsNamed'
<1>1. HandlesEmitted'
  BY RequestSteps, ProviderRemembers DEF ReceiptInv, HandlesEmitted, Load
<1>2. ASSUME NEW h \in Handler, loaded'[h] # NoRow
      PROVE  handling'[h].message.attempt
               = deliveries'[handling'[h].message.delivery].attempt_count
  <2>1. CASE handling'[h] = handling[h] /\ loaded'[h] = loaded[h]
    <3>1. /\ handling[h] \in Callback
          /\ Reached(deliveries[handling[h].message.delivery])
          /\ handling[h].message.attempt
               = deliveries[handling[h].message.delivery].attempt_count
      BY <1>2, <2>1 DEF EngineInv, LoadedIsReceipt, ReceiptInv, LoadedAsNamed
    <3>2. handling[h].message.delivery \in Delivery
      BY <3>1 DEF Callback, Message
    <3> QED  BY <2>1, <3>1, <3>2, ReachedKeepsCount
  <2>2. CASE handling[h] = NoCallback /\ loaded'[h] = loaded[h]
    BY <1>2, <2>2, NoCallbackAssumption DEF EngineInv, LoadedIsReceipt
  <2>3. CASE Load(h) /\ handling'[h] = handling[h]
    BY <2>3, LoadNamesLast DEF Load, dbVars
  <2> QED  BY <1>2, <2>1, <2>2, <2>3, RequestSteps
<1> QED  BY <1>1, <1>2 DEF LoadedAsNamed

LEMMA RowsStayBacked ==
  ASSUME EngineInv, ReceiptInv, [Next]_vars
  PROVE  ReceiptBacked'
<1> DEFINE m(d) == [delivery |-> d, attempt |-> deliveries[d].attempt_count]
<1> SUFFICES ASSUME NEW d \in Delivery
             PROVE  LET n == [delivery |-> d, attempt |-> deliveries'[d].attempt_count] IN
                    /\ Reached(deliveries'[d]) => n \in accepted'
                    /\ deliveries'[d].status = "DELIVERED" =>
                         \E c \in callbacks' : c.message = n /\ c.verdict = "delivered"
  BY DEF ReceiptBacked, Reached
<1>1. /\ Reached(deliveries[d]) => m(d) \in accepted
      /\ deliveries[d].status = "DELIVERED" =>
           \E c \in callbacks : c.message = m(d) /\ c.verdict = "delivered"
  BY DEF ReceiptInv, ReceiptBacked
<1>2. CASE Kept(d)
  BY <1>1, <1>2, ProviderRemembers DEF Kept, Reached
<1>3. CASE Planned(d) \/ Started(d)
  BY <1>3 DEF Planned, Started, PlanOne, StartAttempt, Reached
<1>4. CASE Recorded(d)
  <2>1. PICK w \in Worker :
          IsCurrent(w, d) /\ deliveries'[d] = Outcome(deliveries[d], answer[w])
    BY <1>4 DEF Recorded
  <2>2. /\ deliveries'[d].attempt_count = deliveries[d].attempt_count
        /\ deliveries'[d].status # "DELIVERED"
        /\ Reached(deliveries'[d]) => answer[w] = "sent"
    <3>1. deliveries[d] \in Row /\ deliveries[d].attempt_count \in 1..MaxAttempts
      BY <1>4 DEF Recorded, EngineInv, TypeOK, RowsWellFormed
    <3>2. MaxAttempts \in Nat  BY RetryPolicyAssumption
    <3> QED
      BY <2>1, <3>1, <3>2 DEF Outcome, RecordSuccess, RecordFailure, WillRetry, Reached
  <2>3. ASSUME answer[w] = "sent" PROVE m(d) \in accepted
    <3>1. PICK e \in Delivery :
            /\ IsCurrent(w, e)
            /\ [delivery |-> e, attempt |-> batch[w][e].attempt_count] \in accepted
      BY <2>3 DEF ReceiptInv, SentIsTaken
    <3>2. d <= e /\ e <= d  BY <2>1, <3>1 DEF IsCurrent
    <3>3. e = d  BY <3>2, EngineAssumption DEF EngineAssumption
    <3>4. batch[w][d] = deliveries[d]
      BY <2>1 DEF IsCurrent, EngineInv, OwnedExclusively
    <3> QED  BY <3>1, <3>3, <3>4
  <2> QED  BY <2>2, <2>3, ProviderRemembers
<1>5. CASE Confirmed(d)
  <2>1. PICK h \in Handler : ApplyWebhook(h) /\ handling[h].message.delivery = d
    BY <1>5 DEF Confirmed
  <2>2. /\ handling[h] \in Callback /\ handling[h].verdict = "delivered"
        /\ handling[h].message.attempt = deliveries[d].attempt_count
    BY <2>1 DEF ApplyWebhook, EngineInv, LoadedIsReceipt, ReceiptInv, LoadedAsNamed
  <2>3. handling[h] \in callbacks
    BY <2>2, NoCallbackAssumption DEF ReceiptInv, HandlesEmitted
  <2>4. handling[h].message = m(d)
    BY <2>1, <2>2 DEF Callback, Message
  <2> QED  BY <1>1, <1>5, <2>2, <2>3, <2>4, ProviderRemembers DEF Confirmed
<1> QED  BY <1>2, <1>3, <1>4, <1>5, DeliverySteps

\* Every SENT row names a message the provider took and every DELIVERED row a delivery it
\* reported, on the attempt the row counts, for any number of workers, handlers and faults
\* (dispatch_one, receive_webhook).
THEOREM ReceiptBackedHolds == Spec => []ReceiptBacked
<1>1. Init => ReceiptInv
  BY DEF Init, ReceiptInv, HandlesEmitted, LoadedAsNamed, SentIsTaken, ReceiptBacked, NoRow,
         Reached
<1>2. EngineInv /\ AttemptLedger /\ ReceiptInv /\ [Next]_vars => ReceiptInv'
  <2> SUFFICES ASSUME EngineInv, AttemptLedger, ReceiptInv, [Next]_vars PROVE ReceiptInv'
    OBVIOUS
  <2>1. SentIsTaken'  BY SentStaysTaken DEF ReceiptInv
  <2> QED  BY <2>1, RequestsStayBacked, RowsStayBacked DEF ReceiptInv
<1>3. Spec => []ReceiptInv
  BY <1>1, <1>2, EngineInvariant, AttemptLedgerHolds, PTL DEF Spec
<1> QED  BY <1>3, PTL DEF ReceiptInv

-----------------------------------------------------------------------------
(* What the matching and the provider may rely on. *)

\* All steps but create_planned.
OtherStep ==
  \/ \E d \in Delivery : BackoffElapses(d)
  \/ \E w \in Worker : WorkerStep(w) \/ TakeMessage(w) \/ Abort(w)
  \/ \E e \in EventId, m \in Message, v \in Verdict : EmitCallback(e, m, v)
  \/ \E h \in Handler :
       \/ HandlerStep(h) \/ WebhookFails(h)
       \/ \E c \in callbacks :
            RecordIfNew(h, c) \/ IgnoreDuplicate(h, c) \/ ReplayGuardFails(h, c)

\* Nothing else inserts a row, and nothing deletes one.
LEMMA OnlyPlanningInserts ==
  ASSUME EngineInv, OtherStep, NEW d \in Delivery
  PROVE  deliveries'[d] = NoRow <=> deliveries[d] = NoRow
<1>1. EngineInv'
  BY NextInv DEF OtherStep, Next
<1>2. CASE Kept(d)
  BY <1>1, <1>2 DEF Kept, EngineInv, RowsWellFormed, NoRow
<1>3. CASE Started(d) \/ Recorded(d) \/ Confirmed(d)
  <2>1. deliveries[d].status # "ABSENT"
    BY <1>3 DEF Started, Recorded, Confirmed, CanStartAttempt, Reached
  <2>2. deliveries'[d].version = deliveries[d].version + 1 /\ deliveries[d].version \in Nat
    BY <1>3 DEF Started, Recorded, Confirmed, Advanced, EngineInv, TypeOK, Row
  <2>3. deliveries'[d].version # 0
    BY <2>2
  <2> QED
    BY <2>1, <2>3 DEF NoRow
<1>4. Kept(d) \/ Started(d) \/ Recorded(d) \/ Confirmed(d)
  <2>1. ASSUME UNCHANGED dbVars
        PROVE  Kept(d)
    BY <2>1 DEF dbVars, Kept, EventsOf, AttemptsOf
  <2>2. ASSUME NEW w \in Worker, NoAdapter(w) \/ Send(w) \/ TakeMessage(w) \/ Abort(w)
        PROVE  UNCHANGED dbVars
    BY <2>2 DEF NoAdapter, Send, TakeMessage, Abort
  <2>3. ASSUME NEW e \in EventId, NEW m \in Message, NEW v \in Verdict, EmitCallback(e, m, v)
        PROVE  UNCHANGED dbVars
    BY <2>3 DEF EmitCallback
  <2>4. ASSUME NEW h \in Handler,
               \/ DropMoot(h) \/ Load(h) \/ WebhookFails(h)
               \/ \E c \in callbacks :
                    RecordIfNew(h, c) \/ IgnoreDuplicate(h, c) \/ ReplayGuardFails(h, c)
        PROVE  UNCHANGED dbVars
    BY <2>4 DEF DropMoot, Load, WebhookFails, RecordIfNew, IgnoreDuplicate, ReplayGuardFails
  <2>5. ASSUME NEW e \in Delivery, BackoffElapses(e)
        PROVE  Kept(d)
    <3>1. ~Planned(d)
      BY <2>5 DEF Planned, Advanced, BackoffElapses, EngineInv, TypeOK, Row, NoRow, PlanOne
    <3> QED
      BY <2>5, <3>1, PlanningSteps
  <2> QED
    BY <2>1, <2>2, <2>3, <2>4, <2>5, ClaimSteps, RecordSteps, WebhookSteps
    DEF OtherStep, WorkerStep, HandlerStep
<1> QED
  BY <1>2, <1>3, <1>4

\* Nothing is sent of which no attempt was stored first.
AcceptedIsStarted == \A m \in accepted : deliveries[m.delivery].attempt_count > 0

LEMMA StartedStays ==
  ASSUME EngineInv, [Next]_vars, NEW d \in Delivery, deliveries[d].attempt_count > 0
  PROVE  deliveries'[d].attempt_count > 0
<1>1. deliveries[d] \in Row
  BY DEF EngineInv, TypeOK
<1>2. ~Planned(d)
  BY DEF Planned, NoRow
<1>3. CASE Started(d)
  BY <1>1, <1>3 DEF Started, StartAttempt, Row
<1>4. CASE Recorded(d)
  <2>1. PICK w \in Worker : deliveries'[d] = Outcome(deliveries[d], answer[w])
    BY <1>4 DEF Recorded
  <2>2. Outcome(deliveries[d], answer[w]).attempt_count = deliveries[d].attempt_count
    BY <1>1 DEF Outcome, RecordSuccess, RecordFailure, Row
  <2> QED
    BY <2>1, <2>2
<1> QED
  BY <1>2, <1>3, <1>4, DeliverySteps DEF Kept, Confirmed

LEMMA AcceptedStaysStarted ==
  ASSUME EngineInv, AcceptedIsStarted, [Next]_vars
  PROVE  AcceptedIsStarted'
<1> SUFFICES ASSUME NEW m \in accepted' PROVE deliveries'[m.delivery].attempt_count > 0
  BY DEF AcceptedIsStarted
<1>1. EngineInv'
  BY NextInv
<1>2. m \in Message /\ m.delivery \in Delivery
  BY <1>1 DEF EngineInv, TypeOK, Message
<1>3. CASE m \in accepted
  BY <1>2, <1>3, StartedStays DEF AcceptedIsStarted
<1>4. CASE m \notin accepted
  <2>1. PICK w \in Worker : TakeMessage(w)
    BY <1>4 DEF Next, vars, providerVars, WorkerStep, HandlerStep, CreatePlanned,
       BackoffElapses, ClaimNext, NoAdapter, Send, Record, Abort, EmitCallback, DropMoot, Load,
       ApplyWebhook, WebhookFails, RecordIfNew, IgnoreDuplicate, ReplayGuardFails
  <2>2. IsCurrent(w, m.delivery) /\ deliveries' = deliveries
    BY <1>4, <2>1 DEF TakeMessage, Sending, MessageOf, dbVars
  <2>3. deliveries[m.delivery].status = "SENDING"
    BY <1>2, <2>2 DEF IsCurrent, EngineInv, OwnedExclusively
  <2>4. deliveries[m.delivery].attempt_count \in 1..MaxAttempts
    BY <1>2, <2>3 DEF EngineInv, RowsWellFormed
  <2> QED
    BY <2>2, <2>4, RetryPolicyAssumption
<1> QED
  BY <1>3, <1>4

\* Whatever the provider took is an attempt that was stored before it was sent (claim_next
\* commits before dispatch_one calls the adapter).
THEOREM AcceptedIsStartedHolds == Spec => []AcceptedIsStarted
<1>1. Init => AcceptedIsStarted
  BY DEF Init, AcceptedIsStarted
<1> QED
  BY <1>1, AcceptedStaysStarted, EngineInvariant, PTL DEF Spec

-----------------------------------------------------------------------------
(* What may be left in SENDING. *)

\* A batch has at most BatchSize deliveries: each has fewer than that many older ones
\* among the claimable, and no two have the same number.
LEMMA OldestAreFew ==
  ASSUME NEW S \in SUBSET Nat
  PROVE  IsFiniteSet(Oldest(S)) /\ Cardinality(Oldest(S)) <= BatchSize
<1> DEFINE below(d) == {e \in S : e < d}
           f == [d \in Oldest(S) |-> Cardinality(below(d))]
<1>1. Oldest(S) \subseteq S /\ BatchSize \in Nat
  BY EngineAssumption DEF Oldest, EngineAssumption
<1>2. ASSUME NEW d \in S PROVE IsFiniteSet(below(d)) /\ Cardinality(below(d)) \in Nat
  <2>1. d \in Nat /\ \A e \in below(d) : e \in Nat /\ e < d
    OBVIOUS
  <2>2. \A e \in below(d) : e \in 0 .. d
    BY <2>1
  <2>3. below(d) \in SUBSET (0 .. d)
    BY <2>2
  <2>4. IsFiniteSet(0 .. d)  BY <2>1, FS_Interval
  <2> HIDE DEF below
  <2> QED  BY <2>3, <2>4, FS_Subset, FS_CardinalityType
<1>3. f \in [Oldest(S) -> 0 .. BatchSize - 1]
  <2>1. ASSUME NEW d \in Oldest(S) PROVE Cardinality(below(d)) \in 0 .. BatchSize - 1
    <3>1. Cardinality(below(d)) < BatchSize  BY DEF Oldest
    <3>2. Cardinality(below(d)) \in Nat  BY <1>1, <1>2
    <3> HIDE DEF below
    <3> QED  BY <1>1, <3>1, <3>2
  <2> HIDE DEF below
  <2> QED  BY <2>1
<1>4. ASSUME NEW d \in Oldest(S), NEW e \in Oldest(S), d < e
      PROVE  Cardinality(below(d)) < Cardinality(below(e))
  <2>1. d \in S /\ e \in S /\ d \in Nat /\ e \in Nat  BY <1>1
  <2>2. below(d) \cup {d} \in SUBSET below(e) /\ d \notin below(d)
    <3>1. ASSUME NEW c \in S, c < d PROVE c < e
      <4>1. c \in Nat  OBVIOUS
      <4> HIDE DEF below
      <4> QED  BY <1>4, <2>1, <3>1, <4>1
    <3>2. ~(d < d)  BY <2>1
    <3>3. d \in below(e)  BY <1>4, <2>1
    <3>4. below(d) \subseteq below(e)  BY <3>1
    <3>5. d \notin below(d)  BY <3>2
    <3> HIDE DEF below
    <3> QED  BY <3>3, <3>4, <3>5
  <2>3. Cardinality(below(d) \cup {d}) = Cardinality(below(d)) + 1
    BY <1>2, <2>1, <2>2, FS_AddElement
  <2>4. Cardinality(below(d) \cup {d}) <= Cardinality(below(e))
    BY <1>2, <2>1, <2>2, FS_Subset
  <2>5. Cardinality(below(d)) \in Nat /\ Cardinality(below(e)) \in Nat
    BY <1>2, <2>1
  <2> HIDE DEF below
  <2> QED  BY <2>3, <2>4, <2>5
<1>5. f \in Injection(Oldest(S), 0 .. BatchSize - 1)
  <2>1. ASSUME NEW d \in Oldest(S), NEW e \in Oldest(S), f[d] = f[e] PROVE d = e
    <3>1. d \in Nat /\ e \in Nat /\ Cardinality(below(d)) = Cardinality(below(e))
      BY <1>1, <2>1
    <3>2. ~(d < e) /\ ~(e < d)
      <4>1. Cardinality(below(d)) \in Nat  BY <1>1, <1>2
      <4> HIDE DEF below
      <4> QED  BY <1>4, <3>1, <4>1
    <3> QED  BY <3>1, <3>2
  <2> QED  BY <1>3, <2>1 DEF Injection, IsInjective
<1>6. IsFiniteSet(0 .. BatchSize - 1) /\ Cardinality(0 .. BatchSize - 1) = BatchSize
  BY <1>1, FS_Interval
<1> HIDE DEF f
<1> QED  BY <1>5, <1>6, FS_Injection

\* What a worker holds is one batch, and what the stopped ones held one batch each.
BatchesSmall == \A w \in Worker : IsFiniteSet(Held(w)) /\ Cardinality(Held(w)) <= BatchSize

StrandedSmall == IsFiniteSet(stranded) /\ Cardinality(stranded) <= faults * BatchSize

HeldInv == BatchesSmall /\ StrandedSmall /\ SendingIsHeldOrStranded

\* A claim makes at most one batch of what the worker holds.
LEMMA ClaimIsSmall ==
  ASSUME EngineInv, NEW w \in Worker, ClaimNext(w)
  PROVE  IsFiniteSet(Held(w)') /\ Cardinality(Held(w)') <= BatchSize
<1>1. PICK locked \in SUBSET {d \in Delivery : Claimable(d)} :
        batch' = [batch EXCEPT ![w] =
                    [d \in Delivery |->
                       IF d \in Oldest({e \in Delivery : Claimable(e)} \ locked)
                         THEN StartAttempt(deliveries[d]) ELSE NoRow]]
  BY DEF ClaimNext
<1> DEFINE S == {e \in Delivery : Claimable(e)} \ locked
<1>2. S \in SUBSET Nat  BY EngineAssumption DEF EngineAssumption
<1>3. batch'[w] = [d \in Delivery |-> IF d \in Oldest(S) THEN StartAttempt(deliveries[d])
                                                        ELSE NoRow]
  BY <1>1 DEF EngineInv, TypeOK
<1> HIDE DEF S
<1>4. Held(w)' \in SUBSET Oldest(S)
  BY <1>3 DEF Held
<1>5. IsFiniteSet(Oldest(S)) /\ Cardinality(Oldest(S)) <= BatchSize
  BY <1>2, OldestAreFew
<1>6. /\ IsFiniteSet(Held(w)')
      /\ Cardinality(Held(w)') <= Cardinality(Oldest(S))
  BY <1>4, <1>5, FS_Subset
<1>7. Cardinality(Held(w)') \in Nat /\ Cardinality(Oldest(S)) \in Nat /\ BatchSize \in Nat
  BY <1>5, <1>6, FS_CardinalityType, EngineAssumption DEF EngineAssumption
<1> QED  BY <1>5, <1>6, <1>7

\* Only a claim adds to what a worker holds.
LEMMA HeldSteps ==
  ASSUME EngineInv, [Next]_vars, NEW w \in Worker
  PROVE  Held(w)' \subseteq Held(w) \/ ClaimNext(w)
<1>1. ASSUME NEW v \in Worker, ClaimNext(v), v # w PROVE batch'[w] = batch[w]
  BY <1>1 DEF ClaimNext, EngineInv, TypeOK
<1>2. ASSUME NEW v \in Worker, Record(v) \/ Abort(v) PROVE Held(w)' \subseteq Held(w)
  BY <1>2 DEF Record, Abort, Held, EngineInv, TypeOK
<1>3. ASSUME batch' = batch PROVE batch'[w] = batch[w]
  BY <1>3
<1>4. ASSUME \/ UNCHANGED vars
             \/ \E d \in Delivery : CreatePlanned(d) \/ BackoffElapses(d)
             \/ \E v \in Worker : NoAdapter(v) \/ Send(v) \/ TakeMessage(v)
             \/ \E e \in EventId, m \in Message, v \in Verdict : EmitCallback(e, m, v)
             \/ \E g \in Handler :
                  \/ HandlerStep(g) \/ WebhookFails(g)
                  \/ \E c \in callbacks :
                       RecordIfNew(g, c) \/ IgnoreDuplicate(g, c) \/ ReplayGuardFails(g, c)
      PROVE  batch' = batch
  BY <1>4 DEF vars, workerVars, CreatePlanned, BackoffElapses, NoAdapter, Send, TakeMessage,
              EmitCallback, HandlerStep, DropMoot, Load, ApplyWebhook, WebhookFails, RecordIfNew,
              IgnoreDuplicate, ReplayGuardFails
<1>5. ASSUME batch'[w] = batch[w] PROVE Held(w)' \subseteq Held(w)
  BY <1>5 DEF Held
<1> QED  BY <1>1, <1>2, <1>3, <1>4, <1>5 DEF Next, WorkerStep

LEMMA BatchesStaySmall ==
  ASSUME EngineInv, BatchesSmall, [Next]_vars
  PROVE  BatchesSmall'
<1> SUFFICES ASSUME NEW w \in Worker
             PROVE  IsFiniteSet(Held(w)') /\ Cardinality(Held(w)') <= BatchSize
  BY DEF BatchesSmall
<1>1. CASE ClaimNext(w)
  BY <1>1, ClaimIsSmall
<1>2. CASE Held(w)' \subseteq Held(w)
  <2>1. IsFiniteSet(Held(w)) /\ Cardinality(Held(w)) <= BatchSize
    BY DEF BatchesSmall
  <2>2. IsFiniteSet(Held(w)') /\ Cardinality(Held(w)') <= Cardinality(Held(w))
    <3>1. Held(w)' \in SUBSET Held(w)  BY <1>2
    <3> QED  BY <2>1, <3>1, FS_Subset
  <2>3. Cardinality(Held(w)') \in Nat /\ Cardinality(Held(w)) \in Nat /\ BatchSize \in Nat
    BY <2>1, <2>2, FS_CardinalityType, EngineAssumption DEF EngineAssumption
  <2> QED  BY <2>1, <2>2, <2>3
<1> QED  BY <1>1, <1>2, HeldSteps

\* The product faults * BatchSize grows by a batch with each fault.
LEMMA OneMoreBatch ==
  ASSUME NEW n \in Nat, NEW b \in Nat
  PROVE  n * b \in Nat /\ (n + 1) * b = n * b + b
OBVIOUS

\* Only a stop adds to the stranded, and it adds what one worker held.
LEMMA StrandedSteps ==
  ASSUME EngineInv, [Next]_vars
  PROVE  \/ stranded' = stranded /\ faults' \in {faults, faults + 1}
         \/ \E w \in Worker : Abort(w)
BY DEF Next, vars, history, WorkerStep, HandlerStep, CreatePlanned, BackoffElapses,
       ClaimNext, NoAdapter, Send, TakeMessage, Record, EmitCallback, DropMoot, Load, ApplyWebhook,
       WebhookFails, RecordIfNew, IgnoreDuplicate, ReplayGuardFails

LEMMA StrandedStaysSmall ==
  ASSUME EngineInv, BatchesSmall, StrandedSmall, [Next]_vars
  PROVE  StrandedSmall'
<1>1. /\ faults \in Nat /\ BatchSize \in Nat
      /\ faults * BatchSize \in Nat
      /\ (faults + 1) * BatchSize = faults * BatchSize + BatchSize
  <2>1. faults \in Nat /\ BatchSize \in Nat
    BY EngineAssumption DEF EngineInv, TypeOK, EngineAssumption
  <2> QED  BY <2>1, OneMoreBatch
<1>2. /\ IsFiniteSet(stranded) /\ Cardinality(stranded) \in Nat
      /\ Cardinality(stranded) <= faults * BatchSize
  BY FS_CardinalityType DEF StrandedSmall
<1>3. CASE stranded' = stranded /\ faults' = faults
  BY <1>2, <1>3 DEF StrandedSmall
<1>4. CASE stranded' = stranded /\ faults' = faults + 1
  <2>1. faults' * BatchSize = faults * BatchSize + BatchSize
    BY <1>1, <1>4
  <2>2. Cardinality(stranded) <= faults' * BatchSize
    BY <1>1, <1>2, <2>1
  <2> QED  BY <1>2, <1>4, <2>2 DEF StrandedSmall
<1>5. ASSUME NEW w \in Worker, Abort(w) PROVE StrandedSmall'
  <2>1. stranded' = stranded \cup Held(w) /\ faults' = faults + 1
    BY <1>5 DEF Abort
  <2>2. IsFiniteSet(Held(w)) /\ Cardinality(Held(w)) \in Nat /\ Cardinality(Held(w)) <= BatchSize
    BY FS_CardinalityType DEF BatchesSmall
  <2>3. /\ IsFiniteSet(stranded \cup Held(w))
        /\ Cardinality(stranded \cup Held(w))
             = Cardinality(stranded) + Cardinality(Held(w)) - Cardinality(stranded \cap Held(w))
    BY <1>2, <2>2, FS_Union
  <2>4. Cardinality(stranded \cap Held(w)) \in Nat
    <3>1. stranded \cap Held(w) \in SUBSET stranded  OBVIOUS
    <3> QED  BY <1>2, <3>1, FS_Subset, FS_CardinalityType
  <2>5. Cardinality(stranded \cup Held(w)) <= faults * BatchSize + BatchSize
    BY <1>1, <1>2, <2>2, <2>3, <2>4
  <2>6. faults' * BatchSize = faults * BatchSize + BatchSize
    BY <1>1, <2>1
  <2> QED  BY <2>1, <2>3, <2>5, <2>6 DEF StrandedSmall
<1> QED  BY <1>3, <1>4, <1>5, StrandedSteps

\* No step but a stop takes a delivery that stays in SENDING from its worker.
LEMMA SendingStaysHeld ==
  ASSUME EngineInv, SendingIsHeldOrStranded, [Next]_vars,
         NEW d \in Delivery, deliveries'[d].status = "SENDING"
  PROVE  d \in stranded' \/ \E w \in Worker : d \in Held(w)'
<1> USE DEF EngineInv, TypeOK
<1>1. deliveries[d].status = "SENDING" => d \in stranded \/ \E w \in Worker : d \in Held(w)
  BY DEF SendingIsHeldOrStranded
<1>2. stranded \subseteq stranded'
  BY StrandedSteps DEF Abort
<1>3. ASSUME NEW w \in Worker, ClaimNext(w)
      PROVE  d \in stranded' \/ \E v \in Worker : d \in Held(v)'
  <2>1. PICK claimed \in SUBSET Delivery :
          /\ deliveries' = [e \in Delivery |->
                              IF e \in claimed THEN StartAttempt(deliveries[e])
                                               ELSE deliveries[e]]
          /\ batch' = [batch EXCEPT ![w] =
                         [e \in Delivery |->
                            IF e \in claimed THEN StartAttempt(deliveries[e])
                                             ELSE NoRow]]
    BY <1>3, ClaimEffect
  <2>2. CASE d \in claimed
    <3>1. batch'[w][d] = StartAttempt(deliveries[d])
      BY <2>1, <2>2
    <3>2. StartAttempt(deliveries[d]).status # NoRow.status
      BY DEF StartAttempt, NoRow
    <3> QED  BY <3>1, <3>2 DEF Held
  <2>3. CASE d \notin claimed
    <3>1. deliveries[d].status = "SENDING"
      BY <2>1, <2>3
    <3>2. \A v \in Worker : d \in Held(v) => d \in Held(v)'
      BY <1>3, <2>1 DEF Held, ClaimNext
    <3> QED  BY <1>1, <1>2, <3>1, <3>2
  <2> QED  BY <2>2, <2>3
<1>4. ASSUME NEW w \in Worker, Record(w)
      PROVE  d \in stranded' \/ \E v \in Worker : d \in Held(v)'
  <2>1. PICK e \in Delivery :
          /\ deliveries[e].status = "SENDING" /\ deliveries[e].attempt_count \in 1..MaxAttempts
          /\ deliveries' = [deliveries EXCEPT ![e] = Outcome(deliveries[e], answer[w])]
          /\ batch' = [batch EXCEPT ![w][e] = NoRow]
    BY <1>4, RecordEffect
  <2>2. Outcome(deliveries[e], answer[w]).status # "SENDING"
    BY <2>1, OutcomeOfSending
  <2>3. d # e
    BY <2>1, <2>2
  <2>4. deliveries'[d] = deliveries[d] /\ \A v \in Worker : batch'[v][d] = batch[v][d]
    BY <2>1, <2>3
  <2> QED  BY <1>1, <1>2, <2>4 DEF Held
<1>5. ASSUME NEW w \in Worker, Abort(w)
      PROVE  d \in stranded' \/ \E v \in Worker : d \in Held(v)'
  <2>1. deliveries' = deliveries /\ stranded' = stranded \cup Held(w)
    BY <1>5 DEF Abort, dbVars
  <2>2. \A v \in Worker \ {w} : batch'[v] = batch[v]
    BY <1>5 DEF Abort
  <2> QED  BY <1>1, <2>1, <2>2 DEF Held
<1>6. ASSUME batch' = batch, deliveries[d].status = "SENDING"
      PROVE  d \in stranded' \/ \E v \in Worker : d \in Held(v)'
  BY <1>1, <1>2, <1>6 DEF Held
<1>7. ASSUME NEW e \in Delivery, CreatePlanned(e) \/ BackoffElapses(e)
      PROVE  batch' = batch /\ deliveries[d].status = "SENDING"
  <2>1. Kept(d) \/ Planned(d)
    BY <1>7, PlanningSteps
  <2>2. ~Planned(d)
    BY DEF Planned, PlanOne
  <2> QED  BY <1>7, <2>1, <2>2 DEF Kept, CreatePlanned, BackoffElapses, workerVars
<1>8. ASSUME NEW h \in Handler, ApplyWebhook(h)
      PROVE  batch' = batch /\ deliveries[d].status = "SENDING"
  BY <1>8, WebhookSteps DEF Kept, Confirmed, ApplyWebhook, workerVars
<1>9. ASSUME \/ UNCHANGED vars
             \/ \E v \in Worker : NoAdapter(v) \/ Send(v) \/ TakeMessage(v)
             \/ \E e \in EventId, m \in Message, v \in Verdict : EmitCallback(e, m, v)
             \/ \E g \in Handler :
                  \/ DropMoot(g) \/ Load(g) \/ WebhookFails(g)
                  \/ \E c \in callbacks :
                       RecordIfNew(g, c) \/ IgnoreDuplicate(g, c) \/ ReplayGuardFails(g, c)
      PROVE  batch' = batch /\ deliveries[d].status = "SENDING"
  BY <1>9 DEF vars, workerVars, dbVars, NoAdapter, Send, TakeMessage, EmitCallback, DropMoot, Load,
              WebhookFails, RecordIfNew, IgnoreDuplicate, ReplayGuardFails
<1> QED  BY <1>3, <1>4, <1>5, <1>6, <1>7, <1>8, <1>9 DEF Next, WorkerStep, HandlerStep

\* A delivery is in SENDING only while a worker holds it or because one that held it
\* stopped, and a stop loses no more than one batch, for any number of workers, faults and
\* any batch size (process_batch).
THEOREM SendingTheorem == Spec => []SendingIsHeldOrStranded
<1>1. Init => HeldInv
  <2> SUFFICES ASSUME Init PROVE HeldInv
    OBVIOUS
  <2>1. \A w \in Worker : Held(w) = {}
    BY DEF Init, Held
  <2>2. IsFiniteSet({}) /\ Cardinality({}) = 0
    BY FS_EmptySet
  <2>3. BatchSize \in Nat /\ 0 * BatchSize = 0
    BY EngineAssumption DEF EngineAssumption
  <2>4. stranded = {} /\ faults = 0 /\ \A d \in Delivery : deliveries[d].status = "ABSENT"
    BY DEF Init, NoRow
  <2>5. BatchesSmall /\ StrandedSmall
    BY <2>1, <2>2, <2>3, <2>4 DEF BatchesSmall, StrandedSmall
  <2> QED
    BY <2>4, <2>5 DEF HeldInv, SendingIsHeldOrStranded, StrandedSmall
<1>2. EngineInv /\ HeldInv /\ [Next]_vars => HeldInv'
  BY BatchesStaySmall, StrandedStaysSmall, SendingStaysHeld
  DEF HeldInv, SendingIsHeldOrStranded, StrandedSmall
<1>3. Spec => []HeldInv
  BY <1>1, <1>2, EngineInvariant, PTL DEF Spec
<1> QED  BY <1>3, PTL DEF HeldInv

-----------------------------------------------------------------------------
(* Reviewers that read. *)

\* A row that was read is no further than the row that is stored: its attempts were started
\* and, when it says so, ended; a final status has stayed, and an attempt it waits to repeat
\* failed.
Behind(d, row) ==
  LET now == deliveries[d] IN
  /\ row \in Row /\ row.status # "ABSENT" /\ now.status # "ABSENT"
  /\ row.attempt_count <= now.attempt_count /\ Ended(row) <= Ended(now)
  /\ row.status = "QUEUED" => row.attempt_count = 0
  /\ row.status = "SENDING" => row.attempt_count > 0
  /\ Reached(row) => Reached(now) /\ row.attempt_count = now.attempt_count
  /\ row.status = "FAILED_PERMANENTLY" =>
       now.status = row.status /\ row.attempt_count = now.attempt_count
  /\ row.status = "RETRYING" =>
       \/ now.status = "RETRYING" /\ row.attempt_count = now.attempt_count
       \/ row.attempt_count < now.attempt_count

\* What ViewsExplain asks of the attempts A shown with a row.
Explains(A, row) ==
  LET numbers == {a.number : a \in A} IN
  /\ 1..Ended(row) \subseteq numbers
  /\ \A n \in numbers : 1..n \subseteq numbers
  /\ \A a, b \in A : a.number = b.number => a = b
  /\ \A a \in A : a.number < row.attempt_count => a.outcome = "retryable"
  /\ \A a \in A : a.number = Ended(row) /\ row.status # "SENDING" =>
       /\ Reached(row) <=> a.outcome = "sent"
       /\ row.status = "FAILED_PERMANENTLY" <=>
            a.outcome = "permanent" \/ (a.number = MaxAttempts /\ a.outcome # "sent")
  /\ Reached(row) \/ row.status = "FAILED_PERMANENTLY" => \A n \in numbers : n <= Ended(row)

\* A row is not behind itself by anything.
LEMMA StoredIsBehind ==
  ASSUME EngineInv, NEW d \in Delivery, deliveries[d] # NoRow
  PROVE  Behind(d, deliveries[d])
<1>1. deliveries[d] \in Row  BY DEF EngineInv, TypeOK
<1>2. Ended(deliveries[d]) \in Int  BY <1>1 DEF Row, Ended
<1> QED  BY <1>1, <1>2 DEF Behind, EngineInv, RowsWellFormed, Row, Reached

\* Whatever happens, it falls further behind in the way that Behind allows.
LEMMA BehindStays ==
  ASSUME EngineInv, [Next]_vars, NEW d \in Delivery, NEW row, Behind(d, row)
  PROVE  Behind(d, row)'
<1>1. deliveries[d] \in Row /\ row \in Row  BY DEF EngineInv, TypeOK, Behind
<1>2. /\ deliveries[d].attempt_count \in Nat /\ row.attempt_count \in Nat
      /\ deliveries[d].status = "RETRYING" => deliveries[d].attempt_count > 0
  BY <1>1, RetryPolicyAssumption DEF Row, EngineInv, RowsWellFormed
<1>3. CASE Kept(d)
  BY <1>3 DEF Kept, Behind, Ended, Reached
<1>4. CASE Planned(d)
  BY <1>1, <1>2, <1>4 DEF Planned, Behind, Ended, Reached, NoRow, PlanOne, Row
<1>5. CASE Started(d)
  BY <1>1, <1>2, <1>5 DEF Started, Behind, Ended, Reached, StartAttempt, CanStartAttempt
<1>6. CASE Recorded(d)
  <2>1. PICK w \in Worker : deliveries'[d] = Outcome(deliveries[d], answer[w])
    BY <1>6 DEF Recorded
  <2>2. /\ deliveries'[d].attempt_count = deliveries[d].attempt_count
        /\ deliveries'[d].status \notin {"SENDING", "ABSENT"}
    BY <2>1 DEF Outcome, RecordSuccess, RecordFailure
  <2> QED  BY <1>1, <1>2, <1>6, <2>2 DEF Recorded, Behind, Ended, Reached
<1>7. CASE Confirmed(d)
  BY <1>1, <1>2, <1>7 DEF Confirmed, Behind, Ended, Reached
<1> QED  BY <1>3, <1>4, <1>5, <1>6, <1>7, DeliverySteps

\* The ledger of the stored row explains every row that is behind it.
LEMMA LedgerExplains ==
  ASSUME EngineInv, AttemptLedger, NEW d \in Delivery, NEW row, Behind(d, row)
  PROVE  Explains(AttemptsOf(d), row)
<1> DEFINE now == deliveries[d]
           A   == AttemptsOf(d)
           numbers == {a.number : a \in A}
<1>1. now \in Row /\ row \in Row  BY DEF EngineInv, TypeOK, Behind
<1>2. /\ now.attempt_count \in Nat /\ row.attempt_count \in Nat
      /\ Ended(now) \in Int /\ Ended(row) \in Int
      /\ now.attempt_count <= MaxAttempts
      /\ now.status = "RETRYING" => now.attempt_count < MaxAttempts
  <2>1. now.status # "ABSENT"  BY DEF Behind
  <2>2. now.attempt_count = 0 \/ now.attempt_count \in 1..MaxAttempts
    BY <2>1 DEF EngineInv, RowsWellFormed
  <2> QED
    BY <1>1, <2>1, <2>2, RetryPolicyAssumption DEF Row, Ended, EngineInv, RowsWellFormed
<1>3. Ledger(A, now)  BY DEF AttemptLedger, Ledger, Ended
<1>4. numbers = 1..Ended(now)  BY <1>3 DEF Ledger
<1>5. \A a \in A : a.number \in 1..Ended(now) /\ a.number <= now.attempt_count
  BY <1>1, <1>2, <1>4 DEF Ended
<1>6. \A a \in A : a.number < row.attempt_count => a.outcome = "retryable"
  BY <1>2, <1>3, <1>5 DEF Ledger, Behind
<1>7. ASSUME NEW a \in A, a.number = Ended(row), row.status # "SENDING"
      PROVE  /\ Reached(row) <=> a.outcome = "sent"
             /\ row.status = "FAILED_PERMANENTLY" <=>
                  a.outcome = "permanent" \/ (a.number = MaxAttempts /\ a.outcome # "sent")
  <2>1. a.number = row.attempt_count /\ a.number \in 1..now.attempt_count /\ a.number \in Nat
    BY <1>5, <1>7, <1>2 DEF Ended
  <2>2. row.status # "QUEUED"  BY <2>1 DEF Behind
  <2>3. CASE Reached(row)
    <3>1. Reached(now) /\ ~(a.number < now.attempt_count)
      BY <1>2, <2>1, <2>3 DEF Behind
    <3>2. a.outcome = "sent"  BY <1>3, <3>1 DEF Ledger
    <3> QED  BY <2>3, <3>2 DEF Reached
  <2>4. CASE row.status = "FAILED_PERMANENTLY"
    <3>1. now.status = "FAILED_PERMANENTLY" /\ ~(a.number < now.attempt_count)
      BY <1>2, <2>1, <2>4 DEF Behind
    <3>2. a.outcome = "permanent" \/ (a.outcome = "retryable" /\ a.number = MaxAttempts)
      BY <1>3, <3>1 DEF Ledger
    <3> QED  BY <2>4, <3>2 DEF Reached
  <2>5. CASE row.status = "RETRYING"
    <3>1. a.outcome = "retryable" /\ a.number < MaxAttempts
      <4>1. CASE now.status = "RETRYING" /\ ~(a.number < now.attempt_count)
        BY <1>3, <4>1 DEF Ledger
      <4>2. CASE a.number < now.attempt_count
        BY <1>2, <1>3, <2>1, <4>2, RetryPolicyAssumption DEF Ledger
      <4> QED  BY <1>2, <2>1, <2>5, <4>1, <4>2 DEF Behind
    <3> QED  BY <1>2, <2>1, <2>5, <3>1, RetryPolicyAssumption DEF Reached
  <2>6. row.status \in DeliveryStatus  BY <1>1 DEF Row, Behind
  <2> QED  BY <1>7, <2>2, <2>3, <2>4, <2>5, <2>6 DEF DeliveryStatus, Reached
<1>8. Reached(row) \/ row.status = "FAILED_PERMANENTLY" => \A n \in numbers : n <= Ended(row)
  BY <1>2, <1>4 DEF Behind, Ended, Reached
<1> QED
  BY <1>2, <1>3, <1>4, <1>6, <1>7, <1>8 DEF Explains, Ledger, Behind

\* A list that was answered shows the gate; a row that was read is behind the stored one; a
\* detail that was answered is explained by its attempts.
ViewInv ==
  /\ view \in [Reader -> View \cup {NoCallback}]
  /\ \A q \in Reader : view[q] # NoCallback =>
       /\ view[q] \in View
       /\ view[q].step = "list" =>
            \A d \in Delivery : view[q].rows[d].attempt_count > 0 =>
              \A e \in Lower(d) : view[q].rows[e].status = "FAILED_PERMANENTLY"
       /\ view[q].step # "list" => \E d \in Delivery :
            /\ Shown(view[q]) = {d}
            /\ view[q].step = "row" => Behind(d, view[q].rows[d])
            /\ view[q].step = "detail" => Explains(view[q].attempts, view[q].rows[d])

\* A reader's step is a step of the engine that changes nothing.
LEMMA ReadingIsQuiet == [ViewNext]_viewVars => [Next]_vars
BY DEF ViewNext, viewVars, ListDeliveries, FindAttempts, EndView, FindDelivery

\* What one reader holds while the engine moves on.
LEMMA ViewKept ==
  ASSUME EngineInv, ViewInv, [Next]_vars, UNCHANGED view
  PROVE  ViewInv'
<1>1. ASSUME NEW q \in Reader, view[q] # NoCallback, view[q].step # "list"
      PROVE  \E d \in Delivery :
               /\ Shown(view[q]) = {d}
               /\ view[q].step = "row" => Behind(d, view[q].rows[d])'
               /\ view[q].step = "detail" => Explains(view[q].attempts, view[q].rows[d])
  <2>1. PICK d \in Delivery :
          /\ Shown(view[q]) = {d}
          /\ view[q].step = "row" => Behind(d, view[q].rows[d])
          /\ view[q].step = "detail" => Explains(view[q].attempts, view[q].rows[d])
    BY <1>1 DEF ViewInv
  <2>2. ASSUME view[q].step = "row"  PROVE Behind(d, view[q].rows[d])'
    <3> DEFINE row == view[q].rows[d]
    <3>1. Behind(d, row)  BY <2>1, <2>2
    <3>2. row' = row  OBVIOUS
    <3> HIDE DEF row
    <3>3. \A r : Behind(d, r) => Behind(d, r)'  BY BehindStays
    <3> QED  BY <3>1, <3>2, <3>3 DEF row
  <2> QED  BY <2>1, <2>2
<1> QED  BY <1>1 DEF ViewInv, Shown, Explains

\* What a step of one reader leaves to be shown: its own view.
LEMMA OneViewChanges ==
  ASSUME ViewInv, UNCHANGED vars, NEW q \in Reader, NEW v \in View \cup {NoCallback},
         view' = [view EXCEPT ![q] = v],
         v # NoCallback =>
           /\ v \in View
           /\ v.step = "list" =>
                \A d \in Delivery : v.rows[d].attempt_count > 0 =>
                  \A e \in Lower(d) : v.rows[e].status = "FAILED_PERMANENTLY"
           /\ v.step # "list" => \E d \in Delivery :
                /\ Shown(v) = {d}
                /\ v.step = "row" => Behind(d, v.rows[d])
                /\ v.step = "detail" => Explains(v.attempts, v.rows[d])
  PROVE  ViewInv'
<1>1. UNCHANGED deliveries  BY DEF vars, dbVars
<1>2. \A d, row : Behind(d, row)' <=> Behind(d, row)  BY <1>1 DEF Behind
<1>3. \A p \in Reader : view'[p] = IF p = q THEN v ELSE view[p]  BY DEF ViewInv
<1>4. view' \in [Reader -> View \cup {NoCallback}]  BY DEF ViewInv
<1>5. ASSUME NEW p \in Reader, view'[p] # NoCallback
      PROVE  /\ view'[p] \in View
             /\ view'[p].step = "list" =>
                  \A d \in Delivery : view'[p].rows[d].attempt_count > 0 =>
                    \A e \in Lower(d) : view'[p].rows[e].status = "FAILED_PERMANENTLY"
             /\ view'[p].step # "list" => \E d \in Delivery :
                  /\ Shown(view'[p]) = {d}
                  /\ view'[p].step = "row" => Behind(d, view'[p].rows[d])
                  /\ view'[p].step = "detail" => Explains(view'[p].attempts, view'[p].rows[d])
  <2>1. CASE p = q  BY <1>3, <1>5, <2>1
  <2>2. CASE p # q  BY <1>3, <1>5, <2>2 DEF ViewInv
  <2> QED  BY <2>1, <2>2
<1> QED  BY <1>2, <1>4, <1>5 DEF ViewInv, Shown, Explains

\* Every step of a reader and of the engine keeps what readers are shown true.
LEMMA ViewsStay ==
  ASSUME EngineInv, AttemptLedger, ViewInv, [ViewNext]_viewVars
  PROVE  ViewInv'
<1>1. CASE [Next]_vars /\ UNCHANGED view  BY <1>1, ViewKept
<1>2. ASSUME NEW q \in Reader, ListDeliveries(q)  PROVE ViewInv'
  <2> DEFINE v == [step |-> "list", rows |-> deliveries, attempts |-> {}]
  <2>1. v \in View /\ v.step = "list" /\ v.rows = deliveries
    BY DEF View, EngineInv, TypeOK
  <2>2. view' = [view EXCEPT ![q] = v] /\ UNCHANGED vars  BY <1>2 DEF ListDeliveries
  <2> HIDE DEF v
  <2>3. \A d \in Delivery : v.rows[d].attempt_count > 0 =>
          \A e \in Lower(d) : v.rows[e].status = "FAILED_PERMANENTLY"
    BY <2>1 DEF EngineInv, FallbackGate
  <2> QED  BY <2>1, <2>2, <2>3, OneViewChanges
<1>3. ASSUME NEW q \in Reader, NEW d \in Delivery, FindDelivery(q, d)  PROVE ViewInv'
  <2> DEFINE rows == [e \in Delivery |-> IF e = d THEN deliveries[d] ELSE NoRow]
             v == [step |-> "row", rows |-> rows, attempts |-> {}]
  <2>1. deliveries[d] # NoRow /\ Behind(d, deliveries[d])
    BY <1>3, StoredIsBehind DEF FindDelivery
  <2>2. rows \in [Delivery -> Row] /\ rows[d] = deliveries[d]
    BY TransitionsYieldRows DEF EngineInv, TypeOK
  <2>3. \A e \in Delivery : rows[e] # NoRow <=> e = d
    BY <2>1
  <2>4. view' = [view EXCEPT ![q] = v] /\ UNCHANGED vars  BY <1>3 DEF FindDelivery
  <2> HIDE DEF rows
  <2>5. v \in View /\ v.step = "row" /\ v.rows = rows
    BY <2>2 DEF View
  <2> HIDE DEF v
  <2>6. Shown(v) = {d}  BY <2>3, <2>5 DEF Shown
  <2> QED  BY <2>1, <2>2, <2>4, <2>5, <2>6, OneViewChanges
<1>4. ASSUME NEW q \in Reader, FindAttempts(q)  PROVE ViewInv'
  <2> DEFINE A == AttemptsShown(view[q])
             v == [view[q] EXCEPT !.step = "detail", !.attempts = A]
  <2>1. view[q] # NoCallback /\ view[q].step = "row" /\ view[q] \in View /\ UNCHANGED vars
    BY <1>4 DEF FindAttempts, ViewInv
  <2>2. PICK d \in Delivery : Shown(view[q]) = {d} /\ Behind(d, view[q].rows[d])
    BY <2>1 DEF ViewInv
  <2>3. A = AttemptsOf(d)
    BY <2>2 DEF AttemptsShown, AttemptsOf
  <2>4. A \subseteq AttemptRow  BY DEF AttemptsShown, EngineInv, TypeOK
  <2>5. Explains(A, view[q].rows[d])  BY <2>2, <2>3, LedgerExplains
  <2>6. view' = [view EXCEPT ![q] = v]
    BY <1>4, <2>1 DEF FindAttempts, ViewInv
  <2> HIDE DEF A
  <2>7. v \in View /\ v.step = "detail" /\ v.rows = view[q].rows /\ v.attempts = A
    BY <2>1, <2>4 DEF View
  <2> HIDE DEF v
  <2>8. Shown(v) = {d}  BY <2>2, <2>7 DEF Shown
  <2> QED  BY <2>1, <2>5, <2>6, <2>7, <2>8, OneViewChanges
<1>5. ASSUME NEW q \in Reader, EndView(q)  PROVE ViewInv'
  <2>1. view' = [view EXCEPT ![q] = NoCallback] /\ UNCHANGED vars  BY <1>5 DEF EndView
  <2> QED  BY <2>1, OneViewChanges
<1> QED  BY <1>1, <1>2, <1>3, <1>4, <1>5 DEF ViewNext, viewVars

\* A list shows the gate and the detail of a delivery explains its status by its attempts,
\* although it is read in two statements with the engine running in between, for any number
\* of readers, workers, callbacks and faults (list_deliveries_for_alert, get_delivery).
THEOREM ViewsExplainHolds == ViewSpec => []ViewsExplain
<1>1. ViewInit => EngineInv /\ AttemptLedger /\ ViewInv
  <2>1. 1..0 = {}  OBVIOUS
  <2>2. Init => AttemptLedger  BY <2>1 DEF Init, AttemptLedger, AttemptsOf, NoRow
  <2> QED  BY <2>2, InitInv DEF ViewInit, ViewInv
<1>2. EngineInv /\ AttemptLedger /\ ViewInv /\ [ViewNext]_viewVars
        => (EngineInv /\ AttemptLedger /\ ViewInv)'
  BY ReadingIsQuiet, NextInv, LedgersStay, ViewsStay
<1>3. ViewInv => ViewsExplain
  <2>1. ASSUME ViewInv, NEW q \in Reader, view[q] # NoCallback, view[q].step = "detail"
        PROVE  \A d \in Shown(view[q]) : Explains(view[q].attempts, view[q].rows[d])
    BY <2>1 DEF ViewInv
  <2> QED  BY <2>1 DEF ViewInv, ViewsExplain, Explains, Ended
<1> QED  BY <1>1, <1>2, <1>3, PTL DEF ViewSpec
=============================================================================
