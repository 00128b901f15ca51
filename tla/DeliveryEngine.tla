--------------------------- MODULE DeliveryEngine ---------------------------
(***************************************************************************)
(* The delivery engine: planned delivery rows, the worker processes that   *)
(* claim and dispatch them (apps/worker/src/dispatch.rs), the repository   *)
(* transactions they run (infrastructure/src/postgres/deliveries.rs), the  *)
(* provider that accepts messages and calls back, and the API handler that *)
(* receives those callbacks (apps/api/src/webhooks.rs).                    *)
(*                                                                         *)
(* One action per database transaction or external call.  Between two of   *)
(* them any other process may run, and a worker or a handler may stop: a   *)
(* database error, a shutdown and a crash all drop what it held in memory. *)
(***************************************************************************)
EXTENDS DeliveryLifecycle, FiniteSets

CONSTANTS
  Delivery,      \* planned deliveries, numbered in the order of created_at
  Recipient,     \* (alert, consumer) pairs
  recipient,     \* [Delivery -> Recipient]
  tier,          \* [Delivery -> Nat]: DeliveryPreference::tiers
  Registered,    \* the deliveries whose channel the worker's registry serves
  Worker,        \* worker processes
  BatchSize,     \* rows one poll may claim (BATCH_SIZE)
  Handler,       \* webhook requests the API serves at the same time
  EventId,       \* provider_event_id values: bounds the callbacks
  NoCallback,    \* what an idle handler is handling
  MaxFaults      \* bound on errors, crashes and shutdowns

\* A tier is created after every lower tier of the same recipient, because
\* plan_deliveries lists endpoints in tier order and create_planned inserts
\* them one by one.
ASSUME EngineAssumption ==
  /\ Delivery \subseteq Nat
  /\ recipient \in [Delivery -> Recipient]
  /\ tier \in [Delivery -> Nat]
  /\ Registered \subseteq Delivery
  /\ BatchSize \in Nat \ {0}
  /\ MaxFaults \in Nat
  /\ \A d, e \in Delivery :
       recipient[d] = recipient[e] /\ tier[d] < tier[e] => d < e

Message  == [delivery : Delivery, attempt : 1..MaxAttempts]
Verdict  == {"delivered", "failed_retryable", "failed_permanent"}
Callback == [event_id : EventId, message : Message, verdict : Verdict]

ASSUME NoCallbackAssumption == NoCallback \notin Callback

VARIABLES
  \* database
  deliveries,         \* [Delivery -> Row]: the deliveries table
  delivery_events,    \* rows of delivery_events; the event type is the status entered
  delivery_attempts,  \* rows of delivery_attempts
  seen,               \* webhook_replay_guard: event ids recorded
  \* workers
  batch,              \* [Worker -> [Delivery -> Row]]: claimed aggregates, NoRow if none
  answer,             \* [Worker -> Answer]: what the channel returned for the current one
  \* API
  handling,           \* [Handler -> Callback or NoCallback]
  loaded,             \* [Handler -> Row]: the aggregate to persist, NoRow before the lookup
  \* provider
  accepted,           \* messages the provider took
  callbacks,          \* callbacks it has emitted, all of which it may repeat
  reply,              \* [EventId -> last HTTP answer it got]
  \* history
  moot,               \* callbacks answered 200 as unknown or stale
  stranded,           \* deliveries a stopped worker was holding
  faults              \* errors, crashes and shutdowns so far

dbVars       == <<deliveries, delivery_events, delivery_attempts>>
workerVars   == <<batch, answer>>
apiVars      == <<handling, loaded, seen>>
providerVars == <<accepted, callbacks, reply>>
history      == <<moot, stranded, faults>>
vars == <<dbVars, workerVars, apiVars, providerVars, history>>

Answer == {"none", "sent", "retryable", "permanent"}

EventRow   == [delivery : Delivery, version : Nat, entered : DeliveryStatus]
AttemptRow == [delivery : Delivery, number : Nat, outcome : Answer \ {"none"}]

TypeOK ==
  /\ deliveries \in [Delivery -> Row]
  /\ delivery_events \subseteq EventRow
  /\ delivery_attempts \subseteq AttemptRow
  /\ seen \subseteq EventId
  /\ batch \in [Worker -> [Delivery -> Row]]
  /\ answer \in [Worker -> Answer]
  /\ handling \in [Handler -> Callback \cup {NoCallback}]
  /\ loaded \in [Handler -> Row]
  /\ accepted \subseteq Message
  /\ callbacks \subseteq Callback
  /\ reply \in [EventId -> {"none", "ok", "retry"}]
  /\ moot \subseteq Callback
  /\ stranded \subseteq Delivery
  /\ faults \in 0..MaxFaults

Init ==
  /\ deliveries = [d \in Delivery |-> NoRow]
  /\ delivery_events = {}
  /\ delivery_attempts = {}
  /\ seen = {}
  /\ batch = [w \in Worker |-> [d \in Delivery |-> NoRow]]
  /\ answer = [w \in Worker |-> "none"]
  /\ handling = [h \in Handler |-> NoCallback]
  /\ loaded = [h \in Handler |-> NoRow]
  /\ accepted = {}
  /\ callbacks = {}
  /\ reply = [i \in EventId |-> "none"]
  /\ moot = {}
  /\ stranded = {}
  /\ faults = 0

-----------------------------------------------------------------------------
(* The repository. *)

Lower(d) == {e \in Delivery : recipient[e] = recipient[d] /\ tier[e] < tier[d]}

EventOf(d, row) == [delivery |-> d, version |-> row.version, entered |-> row.status]

\* advance_delivery: the UPDATE matches only while the stored version is the
\* one the aggregate was loaded with.  The event row is written in the same
\* transaction; on a mismatch nothing is written (Conflict).
Matches(d, new) == deliveries[d].version + 1 = new.version

Advance(d, new) ==
  /\ deliveries' = IF Matches(d, new)
                     THEN [deliveries EXCEPT ![d] = new] ELSE deliveries
  /\ delivery_events' = delivery_events \cup
                          (IF Matches(d, new) THEN {EventOf(d, new)} ELSE {})

\* apply_transition: no attempt row.
ApplyTransition(d, new) == Advance(d, new) /\ UNCHANGED delivery_attempts

\* apply_attempt_transition: the attempt row goes in with the new status.
ApplyAttemptTransition(d, new, outcome) ==
  /\ Advance(d, new)
  /\ delivery_attempts' = delivery_attempts \cup
       (IF Matches(d, new)
          THEN {[delivery |-> d, number |-> new.attempt_count, outcome |-> outcome]}
          ELSE {})

\* Mutant: the gate only looks for lower tiers that still wait.
GateOpenWhileSending(d) == \A e \in Lower(d) : ~CanStartAttempt(deliveries[e])

\* The WHERE clause of claim_next.
GateOpen(d) ==
  tier[d] = 0 \/ \A e \in Lower(d) :
                   deliveries[e].status \in {"FAILED_PERMANENTLY", "ABSENT"}

Claimable(d) ==
  /\ CanStartAttempt(deliveries[d])
  /\ deliveries[d].wait = "none"
  /\ GateOpen(d)

\* ORDER BY created_at LIMIT BatchSize
Oldest(S) == {d \in S : Cardinality({e \in S : e < d}) < BatchSize}

Held(w) == {d \in Delivery : batch[w][d] # NoRow}

-----------------------------------------------------------------------------
(* Planning and the clock. *)

\* create_planned, one transaction per delivery, in the order of the list.
CreatePlanned(d) ==
  /\ deliveries[d] = NoRow
  /\ \A e \in Lower(d) : deliveries[e] # NoRow
  /\ deliveries' = [deliveries EXCEPT ![d] = PlanOne]
  /\ delivery_events' = delivery_events \cup {EventOf(d, PlanOne)}
  /\ UNCHANGED <<delivery_attempts, workerVars, apiVars, providerVars, history>>

\* now() passes next_attempt_at.
BackoffElapses(d) ==
  /\ deliveries[d].wait = "backoff"
  /\ deliveries' = [deliveries EXCEPT ![d].wait = "none"]
  /\ UNCHANGED <<delivery_events, delivery_attempts, workerVars, apiVars,
                 providerVars, history>>

-----------------------------------------------------------------------------
(* Workers. *)

\* claim_next.  Rows locked by a claim another worker has open are skipped
\* (SKIP LOCKED): locked is any set of claimable rows, empty when no other
\* worker is between two batches.
ClaimNext(w) ==
  /\ Held(w) = {}
  /\ \E locked \in SUBSET {d \in Delivery : Claimable(d)} :
       LET claimed == Oldest({d \in Delivery : Claimable(d)} \ locked) IN
       /\ locked = {} \/ \E v \in Worker \ {w} : Held(v) = {}
       /\ claimed # {}
       /\ deliveries' = [d \in Delivery |->
                           IF d \in claimed THEN StartAttempt(deliveries[d])
                                            ELSE deliveries[d]]
       /\ delivery_events' = delivery_events \cup
                             {EventOf(d, StartAttempt(deliveries[d])) : d \in claimed}
       /\ batch' = [batch EXCEPT ![w] =
                      [d \in Delivery |->
                         IF d \in claimed THEN StartAttempt(deliveries[d])
                                          ELSE NoRow]]
  /\ UNCHANGED <<delivery_attempts, answer, apiVars, providerVars, history>>

\* The delivery process_batch dispatches next: the oldest it still holds.
IsCurrent(w, d) == d \in Held(w) /\ \A e \in Held(w) : d <= e

\* dispatch_one with no adapter for the channel: a permanent failure, and the
\* provider is never called.
NoAdapter(w) ==
  /\ answer[w] = "none"
  /\ \E d \in Delivery \ Registered : IsCurrent(w, d)
  /\ answer' = [answer EXCEPT ![w] = "permanent"]
  /\ UNCHANGED <<dbVars, batch, apiVars, providerVars, history>>

\* While send has not returned, for the delivery that is current, and its message.
Sending(w, d) == answer[w] = "none" /\ d \in Registered /\ IsCurrent(w, d)

MessageOf(w, d) == [delivery |-> d, attempt |-> batch[w][d].attempt_count]

\* channel_adapter.send returns.  Whoever is told that the message was sent or refused is told
\* the truth; a timeout is a retryable error and says nothing of the message.  WebPushChannel
\* sets no timeout and dispatch_one adds none, so this step may never come.
Send(w) ==
  /\ \E d \in Registered, result \in Answer \ {"none"} :
       /\ Sending(w, d)
       /\ result = "sent" => MessageOf(w, d) \in accepted
       /\ result = "permanent" => MessageOf(w, d) \notin accepted
       /\ answer' = [answer EXCEPT ![w] = result]
  /\ UNCHANGED <<dbVars, batch, apiVars, providerVars, history>>

\* Mutant: everything the provider may have taken counts as sent.
OutcomeLenient(row, result) ==
  IF result = "permanent" THEN RecordFailure(row, FALSE) ELSE RecordSuccess(row)

\* The new aggregate the worker persists for the answer it got.
Outcome(row, result) ==
  IF result = "sent" THEN RecordSuccess(row)
                     ELSE RecordFailure(row, result = "retryable")

\* Mutant: the rest of the batch is dropped after one delivery.
RecordDropsRest(w) ==
  /\ answer[w] # "none"
  /\ \E d \in Delivery :
       /\ IsCurrent(w, d)
       /\ ApplyAttemptTransition(d, Outcome(batch[w][d], answer[w]), answer[w])
       /\ batch' = [batch EXCEPT ![w] = [e \in Delivery |-> NoRow]]
  /\ answer' = [answer EXCEPT ![w] = "none"]
  /\ UNCHANGED <<apiVars, providerVars, history>>

\* record_delivery_success or fail, then apply_attempt_transition, whose
\* Conflict result dispatch_one ignores.
Record(w) ==
  /\ answer[w] # "none"
  /\ \E d \in Delivery :
       /\ IsCurrent(w, d)
       /\ ApplyAttemptTransition(d, Outcome(batch[w][d], answer[w]), answer[w])
       /\ batch' = [batch EXCEPT ![w][d] = NoRow]
  /\ answer' = [answer EXCEPT ![w] = "none"]
  /\ UNCHANGED <<apiVars, providerVars, history>>

\* A database error returns out of process_batch with ?, and a shutdown or a
\* crash drops the future: the rest of the batch is forgotten.
Abort(w) ==
  /\ faults < MaxFaults
  /\ Held(w) # {}
  /\ batch' = [batch EXCEPT ![w] = [d \in Delivery |-> NoRow]]
  /\ answer' = [answer EXCEPT ![w] = "none"]
  /\ stranded' = stranded \cup Held(w)
  /\ faults' = faults + 1
  /\ UNCHANGED <<dbVars, apiVars, providerVars, moot>>

-----------------------------------------------------------------------------
(* The provider and the webhook endpoint. *)

\* The provider takes the message of a send that has not returned.
TakeMessage(w) ==
  /\ \E d \in Registered :
       /\ Sending(w, d)
       /\ MessageOf(w, d) \notin accepted
       /\ accepted' = accepted \cup {MessageOf(w, d)}
  /\ UNCHANGED <<dbVars, workerVars, apiVars, callbacks, reply, history>>

\* The provider reports on a message it took, under an id it never used before.
EmitCallback(event_id, message, verdict) ==
  /\ message \in accepted
  /\ \A b \in callbacks : b.event_id # event_id
  /\ callbacks' = callbacks \cup
       {[event_id |-> event_id, message |-> message, verdict |-> verdict]}
  /\ UNCHANGED <<dbVars, workerVars, apiVars, accepted, reply, history>>

\* receive_webhook up to replay_guard.record_if_new, which commits by itself.
RecordIfNew(h, c) ==
  /\ handling[h] = NoCallback
  /\ c \in callbacks
  /\ c.event_id \notin seen
  /\ seen' = seen \cup {c.event_id}
  /\ handling' = [handling EXCEPT ![h] = c]
  /\ UNCHANGED <<dbVars, workerVars, loaded, providerVars, history>>

\* A repeated event id is answered 200 at once.
IgnoreDuplicate(h, c) ==
  /\ handling[h] = NoCallback
  /\ c \in callbacks
  /\ c.event_id \in seen
  /\ reply' = [reply EXCEPT ![c.event_id] = "ok"]
  /\ UNCHANGED <<dbVars, workerVars, apiVars, accepted, callbacks, history>>

\* Mutant: a message is known as soon as the provider took it.
KnownWhenTaken(m) == m \in accepted

\* find_by_provider_message_id: the message id is known once the attempt that
\* got it was recorded as SENT.
KnownMessage(m) ==
  [delivery |-> m.delivery, number |-> m.attempt, outcome |-> "sent"]
    \in delivery_attempts

\* apply_webhook_event on an aggregate in memory: when it is legal, and the result.
WebhookLegal(row, c) ==
  IF c.verdict = "delivered" THEN CanRecordDelivered(row) ELSE CanRecordOutcome(row)

WebhookResult(row, c) ==
  IF c.verdict = "delivered" THEN RecordDelivered(row)
                             ELSE RecordFailure(row, c.verdict = "failed_retryable")

Applicable(c) ==
  KnownMessage(c.message) /\ WebhookLegal(deliveries[c.message.delivery], c)

\* An unknown delivery or an illegal transition: 200, nothing more to do.
DropMoot(h) ==
  /\ handling[h] # NoCallback
  /\ loaded[h] = NoRow
  /\ ~Applicable(handling[h])
  /\ reply' = [reply EXCEPT ![handling[h].event_id] = "ok"]
  /\ moot' = moot \cup {handling[h]}
  /\ handling' = [handling EXCEPT ![h] = NoCallback]
  /\ UNCHANGED <<dbVars, workerVars, loaded, seen, accepted, callbacks,
                 stranded, faults>>

\* The delivery was found and the transition made, in memory.
Load(h) ==
  /\ handling[h] # NoCallback
  /\ loaded[h] = NoRow
  /\ Applicable(handling[h])
  /\ loaded' = [loaded EXCEPT ![h] =
       WebhookResult(deliveries[handling[h].message.delivery], handling[h])]
  /\ UNCHANGED <<dbVars, workerVars, handling, seen, providerVars, history>>

\* apply_transition or apply_attempt_transition; Applied and Conflict both
\* answer 200.
ApplyWebhook(h) ==
  LET c == handling[h]
      d == c.message.delivery
  IN /\ loaded[h] # NoRow
     /\ IF c.verdict = "delivered"
          THEN ApplyTransition(d, loaded[h])
          ELSE ApplyAttemptTransition(d, loaded[h],
                 IF c.verdict = "failed_retryable" THEN "retryable" ELSE "permanent")
     /\ reply' = [reply EXCEPT ![c.event_id] = "ok"]
     /\ handling' = [handling EXCEPT ![h] = NoCallback]
     /\ loaded' = [loaded EXCEPT ![h] = NoRow]
     /\ UNCHANGED <<workerVars, seen, accepted, callbacks, history>>

\* A database error in the lookup or the update (500, "Please retry."), or a
\* crash of the API, which the provider sees as a failed call as well.
WebhookFails(h) ==
  /\ faults < MaxFaults
  /\ handling[h] # NoCallback
  /\ reply' = [reply EXCEPT ![handling[h].event_id] = "retry"]
  /\ handling' = [handling EXCEPT ![h] = NoCallback]
  /\ loaded' = [loaded EXCEPT ![h] = NoRow]
  /\ faults' = faults + 1
  /\ UNCHANGED <<dbVars, workerVars, seen, accepted, callbacks, moot, stranded>>

\* A database error in record_if_new: 500, and the event id is not recorded.
ReplayGuardFails(h, c) ==
  /\ faults < MaxFaults
  /\ handling[h] = NoCallback
  /\ c \in callbacks
  /\ reply' = [reply EXCEPT ![c.event_id] = "retry"]
  /\ faults' = faults + 1
  /\ UNCHANGED <<dbVars, workerVars, apiVars, accepted, callbacks, moot, stranded>>

-----------------------------------------------------------------------------
WorkerStep(w) == ClaimNext(w) \/ NoAdapter(w) \/ Send(w) \/ Record(w)

HandlerStep(h) == DropMoot(h) \/ Load(h) \/ ApplyWebhook(h)

Next ==
  \/ \E d \in Delivery : CreatePlanned(d) \/ BackoffElapses(d)
  \/ \E w \in Worker : WorkerStep(w) \/ TakeMessage(w) \/ Abort(w)
  \/ \E e \in EventId, m \in Message, v \in Verdict : EmitCallback(e, m, v)
  \/ \E h \in Handler :
       \/ HandlerStep(h) \/ WebhookFails(h)
       \/ \E c \in callbacks :
            RecordIfNew(h, c) \/ IgnoreDuplicate(h, c) \/ ReplayGuardFails(h, c)

Spec == Init /\ [][Next]_vars

-----------------------------------------------------------------------------
(* Properties. *)

AttemptsOf(d) == {a \in delivery_attempts : a.delivery = d}
EventsOf(d)   == {e \in delivery_events : e.delivery = d}

\* A fallback is only ever started when every lower tier has been given up
\* (the NOT EXISTS gate of claim_next, README "Delivery fallback tiers"): no
\* order of polls, retries, late inserts and callbacks sends both.
FallbackGate ==
  \A d \in Delivery : deliveries[d].attempt_count > 0 =>
    \A e \in Lower(d) : deliveries[e].status = "FAILED_PERMANENTLY"

\* A delivery is dispatched by one worker at a time, and what that worker holds
\* is what is stored, so the Conflict dispatch_one ignores never loses an outcome.
OwnedExclusively ==
  \A w \in Worker : \A d \in Held(w) :
    /\ batch[w][d] = deliveries[d]
    /\ deliveries[d].status = "SENDING"
    /\ \A v \in Worker \ {w} : d \notin Held(v)

\* A delivery is in SENDING only while a worker holds it, or because the worker
\* that held it stopped, with no more than the batch it had claimed: nothing else loses
\* one (process_batch).
SendingIsHeldOrStranded ==
  /\ \A d \in Delivery : deliveries[d].status = "SENDING" =>
       d \in stranded \/ \E w \in Worker : d \in Held(w)
  /\ Cardinality(stranded) <= faults * BatchSize

\* The attempt rows of a delivery are numbered 1, 2, ... without a gap or a
\* repetition, one for every attempt started except the one still in flight; only the
\* last of them can be anything but a retryable failure, and the status follows from it:
\* reached after a send the provider confirmed, given up after a permanent failure or when
\* the attempts are spent, retrying otherwise (record_success, record_failure).
AttemptLedger ==
  \A d \in Delivery :
    LET row  == deliveries[d]
        done == IF row.status = "SENDING" THEN row.attempt_count - 1 ELSE row.attempt_count
    IN /\ {a.number : a \in AttemptsOf(d)} = 1..done
       /\ \A a, b \in AttemptsOf(d) : a.number = b.number => a = b
       /\ \A a \in AttemptsOf(d) :
            IF a.number < row.attempt_count THEN a.outcome = "retryable"
            ELSE /\ Reached(row) <=> a.outcome = "sent"
                 /\ row.status = "RETRYING" <=>
                      a.outcome = "retryable" /\ a.number < MaxAttempts
                 /\ row.status = "FAILED_PERMANENTLY" <=>
                      a.outcome = "permanent"
                        \/ (a.outcome = "retryable" /\ a.number = MaxAttempts)

\* delivery_events is a complete history: one event for every version of the
\* row, and the newest one entered the status the row has.
HistoryComplete ==
  \A d \in Delivery :
    /\ {e.version : e \in EventsOf(d)} = 1..deliveries[d].version
    /\ \A e, f \in EventsOf(d) : e.version = f.version => e = f
    /\ \A e \in EventsOf(d) :
         e.version = deliveries[d].version => e.entered = deliveries[d].status

\* The row, its attempts and its events tell one story, whoever wrote them
\* (apply_transition and apply_attempt_transition, all or nothing).
RecordsComplete == AttemptLedger /\ HistoryComplete

\* When the update of a webhook conflicts, the concurrent update already did
\* what the callback asks for (the doc comment of receive_webhook).
ConflictMeansApplied ==
  \A h \in Handler : loaded[h] # NoRow =>
    LET d == handling[h].message.delivery IN
    Matches(d, loaded[h]) \/ deliveries[d].status = loaded[h].status

\* The version check loses nothing, although dispatch_one and receive_webhook both ignore a
\* Conflict: no worker meets one, and a request meets it where there is nothing left to do.
ConflictsLoseNothing == OwnedExclusively /\ ConflictMeansApplied

\* Every SENT row names a message the provider took, and every DELIVERED row a
\* delivery the provider reported, on the attempt the row counts.
ReceiptBacked ==
  \A d \in Delivery :
    LET m == [delivery |-> d, attempt |-> deliveries[d].attempt_count] IN
    /\ Reached(deliveries[d]) => m \in accepted
    /\ deliveries[d].status = "DELIVERED" =>
         \E c \in callbacks : c.message = m /\ c.verdict = "delivered"

\* How a planned delivery comes to an end: it is reached or given up, or an
\* endpoint before it was reached.
Settled(d) ==
  \/ Reached(deliveries[d])
  \/ deliveries[d].status = "FAILED_PERMANENTLY"
  \/ \E e \in Lower(d) : Reached(deliveries[e])

\* receive_webhook says of the callbacks it answers 200 without effect that
\* "retrying would not change any of those outcomes": once moot, always moot.
MootStaysMoot == \A c \in moot : ~Applicable(c)

\* receive_webhook answers a failed call "The webhook event could not be
\* recorded. Please retry.": a retry of it would not be ignored as a duplicate.
RetryIsHonoured ==
  \A c \in callbacks :
    reply[c.event_id] = "retry" /\ Applicable(c) =>
      c.event_id \notin seen \/ \E h \in Handler : handling[h] = c

-----------------------------------------------------------------------------
(* The inductive invariant behind FallbackGate, OwnedExclusively,          *)
(* ConflictMeansApplied and the refinement.                                *)

\* What each status says about the attempt counter and the timer.
RowsWellFormed ==
  \A d \in Delivery :
    /\ deliveries[d].status = "ABSENT" => deliveries[d] = NoRow
    /\ deliveries[d].status = "QUEUED" => deliveries[d].attempt_count = 0
    /\ deliveries[d].status \notin {"ABSENT", "QUEUED"} =>
         deliveries[d].attempt_count \in 1..MaxAttempts
    /\ deliveries[d].status = "RETRYING" => deliveries[d].attempt_count < MaxAttempts
    /\ deliveries[d].wait = "backoff" => deliveries[d].status = "RETRYING"

\* A fallback row exists only after the rows before it: without this, a gate
\* could open on a primary that is not there yet.
PlannedInOrder ==
  \A d \in Delivery : deliveries[d].status # "ABSENT" =>
    \A e \in Lower(d) : deliveries[e].status # "ABSENT"

\* A message id leads to a row that was reached, so a late "failed" callback
\* finds nothing to change.
SentIsReached ==
  \A a \in delivery_attempts : a.outcome = "sent" => Reached(deliveries[a.delivery])

\* What a webhook request carries to its update is a receipt for a row that is
\* SENT in the version it was loaded from, or DELIVERED by now.
LoadedIsReceipt ==
  \A h \in Handler : loaded[h] # NoRow =>
    LET d == handling[h].message.delivery IN
    /\ handling[h] \in Callback
    /\ handling[h].verdict = "delivered"
    /\ loaded[h].status = "DELIVERED" /\ loaded[h].wait = "none"
    /\ Reached(deliveries[d])
    /\ loaded[h].attempt_count = deliveries[d].attempt_count
    /\ deliveries[d].status = "SENT" => Matches(d, loaded[h])

EngineInv ==
  /\ TypeOK
  /\ RowsWellFormed
  /\ PlannedInOrder
  /\ OwnedExclusively
  /\ FallbackGate
  /\ SentIsReached
  /\ LoadedIsReceipt

-----------------------------------------------------------------------------
(* The engine implements the contract. *)

PhaseOf(status) ==
  CASE status = "ABSENT"                  -> "unplanned"
    [] status = "QUEUED"                  -> "waiting"
    [] status \in {"SENDING", "RETRYING"} -> "trying"
    [] status \in {"SENT", "DELIVERED"}   -> "reached"
    [] status = "FAILED_PERMANENTLY"      -> "gaveUp"

phase == [d \in Delivery |-> PhaseOf(deliveries[d].status)]

tries == [d \in Delivery |-> deliveries[d].attempt_count]

Contract == INSTANCE DeliveryContract
              WITH lower <- [d \in Delivery |-> Lower(d)],
                   phase <- phase, tries <- tries

\* Every step of the engine is a step of the contract or leaves it alone.
ImplementsContract == Contract!Spec

=============================================================================
