--------------------------- MODULE AlertPipeline ---------------------------
(* From a case to the recipients of its alerts: AlertIssuance,              *)
(* SubscriptionMatching and DeliveryEngine as they are joined by two        *)
(* transactions, one that stores an alert with its outbox event             *)
(* (infrastructure/src/postgres/alerts.rs) and one that stores a planned    *)
(* delivery (postgres/deliveries.rs), and by the cycle in which a worker    *)
(* matches first and dispatches then (apps/worker/src/main.rs).             *)
(*                                                                          *)
(* Slot, recipient and tier foretell the table of deliveries: for every     *)
(* run of the system there is a numbering of the rows it will insert, and   *)
(* a run in which some row has no number left does not go on here.          *)
EXTENDS AlertIssuance, Sequences

CONSTANTS
  \* subscriptions
  Consumer, Citizen, Subscription, owner, RuleSet, Preference, NoPreference,
  Editor,         \* updates of subscriptions that the API serves at the same time
  MaxVersion,     \* bound on the versions of a subscription
  \* deliveries
  Slot, recipient, tier, Registered, MaxAttempts,
  Handler, EventId, NoCallback,
  NotInserted,    \* what is in a slot that is free
  \* workers
  Worker, BatchSize,
  NoTimeout,      \* the channels whose adapter waits for an answer without a limit
  MaxFaults       \* bound on errors, crashes and shutdowns, for either half of a cycle

VARIABLES
  \* subscriptions, outbox and matching
  claimed, published, subscriptions, deleted, preferences, editing,
  planned,        \* the table of deliveries, as create_planned writes it
  events,         \* [Worker -> SUBSET Alert]: claimed events still to process
  step, matched, unread, plan, editions, promised, lost, stops,
  \* deliveries
  deliveries, delivery_events, delivery_attempts, seen,
  batch, answer, handling, loaded, accepted, callbacks, reply, moot, stranded, faults,
  \* what joins them
  inserted,       \* [Slot -> Delivery or NotInserted]: the planned delivery a row is for
  cycle           \* [Worker -> {"match", "dispatch"}]: what process_cycle is at

\* Each alert has its ALERT_CREATED row in the outbox, whatever its status.
Issued == {a \in Alert : alerts[a] # NoAlert}

Matching == INSTANCE SubscriptionMatching
  WITH alerts <- Issued, deliveries <- planned, batch <- events, faults <- stops,
       Request <- Editor

Engine == INSTANCE DeliveryEngine
  WITH Delivery <- Slot, Recipient <- Alert \X Consumer

\* What the components assume of their constants, Slot and its columns among them.
ASSUME PipelineAssumption ==
  /\ Matching!MatchingAssumption
  /\ Engine!EngineAssumption /\ Engine!NoCallbackAssumption /\ Engine!RetryPolicyAssumption
  /\ NotInserted \notin Matching!Delivery

issueVars  == vars
matchVars  == <<claimed, published, subscriptions, deleted, preferences, editing, planned,
                events, step, matched, unread, plan, editions, promised, lost, stops>>
engineVars == <<deliveries, delivery_events, delivery_attempts, batch, answer, handling, loaded,
                seen, accepted, callbacks, reply, moot, stranded, faults>>
joinVars   == <<inserted, cycle>>
pipeVars   == <<issueVars, matchVars, engineVars, joinVars>>

JoinTypeOK ==
  /\ inserted \in [Slot -> Matching!Delivery \cup {NotInserted}]
  /\ cycle \in [Worker -> {"match", "dispatch"}]

PipelineInit ==
  /\ Init /\ Matching!Init /\ Engine!Init
  /\ inserted = [n \in Slot |-> NotInserted]
  /\ cycle = [w \in Worker |-> "match"]

-----------------------------------------------------------------------------
(* The API. *)

\* Cases, posts and cancellations; a cancelled alert keeps its event.
ReviewerStep ==
  /\ Next /\ Issued' = Issued
  /\ UNCHANGED <<matchVars, engineVars, joinVars>>

\* PostgresAlertRepository::create: the alert and its outbox row.
IssueAlert(f, n, a) ==
  /\ InsertAlert(f, n, a) /\ UNCHANGED caseVars
  /\ Matching!CreateAlert(a)
  /\ UNCHANGED <<engineVars, joinVars>>

\* Subscriptions and preferences.
SubscriberStep ==
  /\ UNCHANGED issueVars
  /\ \/ \E s \in Subscription :
          \/ Matching!Delete(s)
          \/ \E rules \in RuleSet :
               \/ Matching!CreateSubscription(s, rules)
               \/ \E r \in Editor : Matching!LoadForUpdate(r, s, rules)
     \/ \E r \in Editor : Matching!Update(r)
     \/ \E c \in Consumer, p \in Preference : Matching!Upsert(c, p)
  /\ UNCHANGED <<engineVars, joinVars>>

\* Messages that a provider takes, its callbacks, and the requests that handle them.
ProviderStep ==
  /\ \/ \E w \in Worker : Engine!TakeMessage(w)
     \/ \E e \in EventId, m \in Engine!Message, v \in Engine!Verdict :
          Engine!EmitCallback(e, m, v)
     \/ \E h \in Handler :
          \/ Engine!HandlerStep(h) \/ Engine!WebhookFails(h)
          \/ \E c \in callbacks : \/ Engine!RecordIfNew(h, c) \/ Engine!IgnoreDuplicate(h, c)
                                  \/ Engine!ReplayGuardFails(h, c)
  /\ UNCHANGED <<issueVars, matchVars, joinVars>>

\* next_attempt_at passes.
ClockStep ==
  /\ \E n \in Slot : Engine!BackoffElapses(n)
  /\ UNCHANGED <<issueVars, matchVars, joinVars>>

-----------------------------------------------------------------------------
(* A worker: process_cycle. *)

\* The rows a consumer has for an alert.
Rows(a, c) == {n \in Slot : recipient[n] = <<a, c>> /\ deliveries[n] # Engine!NoRow}

Turn(w, to, done) == cycle' = IF done THEN [cycle EXCEPT ![w] = to] ELSE cycle

\* Mutant: the unique key of the table is the recipient, and not the endpoint.
WritePlannedByRecipient(w, d) ==
  /\ Matching!CreatePlanned(w, d)
  /\ IF Rows(d.alert, d.consumer) # {} THEN UNCHANGED <<engineVars, inserted>>
     ELSE \E n \in Slot :
            /\ recipient[n] = <<d.alert, d.consumer>> /\ tier[n] = d.tier
            /\ Engine!CreatePlanned(n)
            /\ inserted' = [inserted EXCEPT ![n] = d]

\* insert_delivery: the row of a delivery that is planned, unless its key is there already.
WritePlanned(w, d) ==
  /\ Matching!CreatePlanned(w, d)
  /\ IF planned' = planned THEN UNCHANGED <<engineVars, inserted>>
     ELSE \E n \in Slot :
            /\ recipient[n] = <<d.alert, d.consumer>> /\ tier[n] = d.tier
            /\ Engine!CreatePlanned(n)
            /\ inserted' = [inserted EXCEPT ![n] = d]

\* process_batch of subscription_matching, up to the end of the batch.
MatchStep(w) ==
  /\ cycle[w] = "match"
  /\ UNCHANGED issueVars
  /\ \/ /\ \/ Matching!ClaimUnpublished(w) \/ Matching!Match(w) \/ Matching!MarkPublished(w)
           \/ \E c \in Consumer : Matching!ReadPreference(w, c)
        /\ UNCHANGED <<engineVars, inserted>>
     \/ \E d \in plan[w] : WritePlanned(w, d)
  /\ Turn(w, "dispatch", events'[w] = {})

\* Mutant: a cycle with no event to match goes no further.
NothingToMatchEndsCycle(w) ==
  /\ cycle[w] = "match" /\ events[w] = {}
  /\ \A a \in Alert : ~Matching!Claimable(a)
  /\ UNCHANGED pipeVars

\* No event to claim.  Whoever finds all of them locked claims, as it were, after the other.
NothingToMatch(w) ==
  /\ cycle[w] = "match" /\ events[w] = {}
  /\ \A a \in Alert : ~Matching!Claimable(a)
  /\ Turn(w, "dispatch", TRUE)
  /\ UNCHANGED <<issueVars, matchVars, engineVars, inserted>>

\* process_batch of dispatch.
DispatchStep(w) ==
  /\ cycle[w] = "dispatch"
  /\ UNCHANGED <<issueVars, matchVars, inserted>>
  /\ Engine!WorkerStep(w)
  /\ Turn(w, "match", Engine!Held(w)' = {})

NothingToDispatch(w) ==
  /\ cycle[w] = "dispatch" /\ Engine!Held(w) = {}
  /\ \A n \in Slot : ~Engine!Claimable(n)
  /\ Turn(w, "match", TRUE)
  /\ UNCHANGED <<issueVars, matchVars, engineVars, inserted>>

\* An error ends the cycle, before its second half even, and a crash or a shutdown takes what
\* the worker holds, of either kind.
StopMatching(w) ==
  /\ UNCHANGED issueVars
  /\ Matching!Abort(w)
  /\ UNCHANGED <<engineVars, joinVars>>

StopDispatching(w) ==
  /\ Engine!Abort(w)
  /\ Turn(w, "match", TRUE)
  /\ UNCHANGED <<issueVars, matchVars, inserted>>

WorkerCycle(w) ==
  MatchStep(w) \/ NothingToMatch(w) \/ DispatchStep(w) \/ NothingToDispatch(w)

PipelineNext ==
  \/ ReviewerStep \/ SubscriberStep \/ ProviderStep \/ ClockStep
  \/ \E f \in Form, n \in Try, a \in Alert : IssueAlert(f, n, a)
  \/ \E w \in Worker : WorkerCycle(w) \/ StopMatching(w) \/ StopDispatching(w)

PipelineSpec == PipelineInit /\ [][PipelineNext]_pipeVars

\* A worker in a send that nothing but an answer ends.  One loop does all of a worker's work, so
\* it matches nothing meanwhile and dispatches nothing else.
Waiting(w) ==
  \E n \in Slot : Engine!Sending(w, n) /\ inserted[n].endpoint \in NoTimeout

\* Time passes and workers poll for ever, but for one that waits: an answer is not owed, nor is
\* an alert, a subscription or a callback, so a worker may hang in a send for good.
PipelineFairSpec ==
  /\ PipelineSpec /\ WF_pipeVars(ClockStep)
  /\ \A w \in Worker : WF_pipeVars(~Waiting(w) /\ WorkerCycle(w))

-----------------------------------------------------------------------------
(* Properties. *)

\* The table is worked off as it was planned: every row is for one delivery that was planned,
\* with its alert, its consumer and its tier, and every delivery that was planned has its row,
\* whatever becomes of the row later (insert_delivery, and every UPDATE of the table).
RowsArePlanned ==
  /\ \A n \in Slot : inserted[n] = NotInserted <=> deliveries[n] = Engine!NoRow
  /\ \A n \in Slot : inserted[n] # NotInserted =>
       /\ inserted[n] \in planned
       /\ recipient[n] = <<inserted[n].alert, inserted[n].consumer>>
       /\ tier[n] = inserted[n].tier
  /\ \A d \in planned : \E n \in Slot : inserted[n] = d
  /\ \A m, n \in Slot : inserted[m] = inserted[n] => m = n \/ inserted[n] = NotInserted

\* Why a recipient hears of an alert: whatever a provider took is about an alert that is on
\* record, whose case had been verified; for a consumer of whom a subscription matched it under
\* rules on record; and over an endpoint that is a fallback only of endpoints that were given up
\* (create_alert_from_case, evaluate_subscriptions and claim_next, together).
HeardIsExplained ==
  \A m \in accepted :
    LET d == inserted[m.delivery] IN
    /\ d \in planned /\ alerts[d.alert] # NoAlert
    /\ \E e \in case_events : e.case = alerts[d.alert].case /\ e.entered = "VERIFIED"
    /\ \E s \in d.matching, e \in editions :
         /\ owner[s.subscription] = d.consumer
         /\ e.subscription = s.subscription /\ e.version = s.version /\ d.alert \in e.rules
    /\ \A n \in Rows(d.alert, d.consumer) :
         tier[n] < tier[m.delivery] => deliveries[n].status = "FAILED_PERMANENTLY"

\* A consumer has one row about an alert that is SENT or DELIVERED, unless its preference asked for
\* all endpoints at once, and then one over each: whatever edits, workers, retries and callbacks
\* race (create_planned's key and tiers, and the gate of claim_next).  A message the provider took
\* and did not answer for is none of these: whoever was sent it may hear of the alert again.
ReachedOnce ==
  \A m, n \in Slot :
    /\ m # n /\ recipient[m] = recipient[n]
    /\ Engine!Reached(deliveries[m]) /\ Engine!Reached(deliveries[n])
    => /\ tier[m] = 0 /\ tier[n] = 0
       /\ inserted[m].endpoint # inserted[n].endpoint

\* Migration 0016, "must reach every matched consumer", as far as the table of deliveries: once
\* the event of an alert is published, whoever waited for it has a row, for the endpoint and in
\* the tier, for everything the preference asks for, though the alert may be cancelled by now.
OwedIsInTable ==
  \A a \in published : \A pair \in promised[a] : \A t \in Matching!Tiers(pair[2]) :
    \E n \in Rows(a, owner[pair[1]]) :
      tier[n] = t.tier /\ inserted[n].endpoint = t.endpoint

\* And to the end: whoever waits for an alert gets its rows, unless they change their mind or a
\* worker stopped that held its event; and every row, whoever it is for, is reached, given up or not
\* needed, unless a worker stopped that held it or an endpoint before it, or hangs with one of
\* these.  Whatever one worker hangs with, the others do the rest: a worker that hangs has no event
\* and no row but those of its batch, and only if all of them hang is nothing owed
\* (process_cycle and process_batch, for ever).
OwedIsServed ==
  <>[](\/ \A w \in Worker : Waiting(w)
       \/ /\ \A a \in Alert : \A pair \in promised[a] :
               a \in lost \/ Rows(a, owner[pair[1]]) # {}
          /\ \A n \in Slot :
               \/ deliveries[n] = Engine!NoRow \/ Engine!Settled(n)
               \/ (Engine!Lower(n) \cup {n}) \cap stranded # {}
               \/ \E w \in Worker :
                    Waiting(w) /\ (Engine!Lower(n) \cup {n}) \cap Engine!Held(w) # {})
=============================================================================
