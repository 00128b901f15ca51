------------------------ MODULE SubscriptionMatching ------------------------
(***************************************************************************)
(* From an alert to its planned deliveries: the ALERT_CREATED rows of the  *)
(* outbox (infrastructure/src/postgres/outbox.rs), the workers that claim  *)
(* them and match them against every subscription                          *)
(* (apps/worker/src/subscription_matching.rs), and the requests that       *)
(* change subscriptions and delivery preferences while they do so.         *)
(*                                                                         *)
(* A rule set is the set of alerts all of its rules match: what a rule     *)
(* computes is a pure function of the alert, whose fields never change.    *)
(***************************************************************************)
EXTENDS Naturals, FiniteSets, Sequences

CONSTANTS
  Alert,          \* alerts, numbered in the order of created_at
  Consumer,
  Citizen,        \* the consumers that subscribed through the citizen app
  Subscription,
  owner,          \* [Subscription -> Consumer]
  RuleSet,        \* rule sets: each the set of alerts it matches
  Preference,     \* delivery preferences
  NoPreference,
  Worker,
  BatchSize,      \* outbox rows one poll may claim (BATCH_SIZE)
  Request,        \* subscription updates the API serves at the same time
  MaxVersion,     \* bound on subscription versions
  MaxFaults       \* bound on errors, crashes and shutdowns

\* DeliveryPreference::new refuses an empty list and a repeated channel.
WellFormed(p) ==
  /\ p.strategy \in {"ALL", "PRIMARY_FALLBACK", "PRIORITY_LIST"}
  /\ p.channels # <<>>
  /\ \A i, j \in DOMAIN p.channels : p.channels[i] = p.channels[j] => i = j

Endpoint == UNION {{p.channels[i] : i \in DOMAIN p.channels} : p \in Preference}

ASSUME MatchingAssumption ==
  /\ Alert \subseteq Nat
  /\ Citizen \subseteq Consumer
  /\ owner \in [Subscription -> Consumer]
  /\ RuleSet \subseteq SUBSET Alert
  /\ \A p \in Preference : p.channels \in Seq(Endpoint) /\ WellFormed(p)
  /\ NoPreference \notin Preference
  /\ BatchSize \in Nat \ {0}
  /\ MaxVersion \in Nat \ {0}
  /\ MaxFaults \in Nat

\* version 0: no such row.
SubscriptionRow == [version : 0..MaxVersion, rules : RuleSet \cup {{}}]
NoSubscription  == [version |-> 0, rules |-> {}]

MatchedSubscription == [subscription : Subscription, version : 1..MaxVersion]
Delivery == [alert : Alert, consumer : Consumer, endpoint : Endpoint, tier : Nat,
             matching : SUBSET MatchedSubscription]

Idle == [subscription |-> "none"]
Edit == [subscription : Subscription, version : 2..MaxVersion, rules : RuleSet]

VARIABLES
  \* database
  alerts,         \* alerts created, each with its ALERT_CREATED outbox row
  claimed,        \* outbox rows with claimed_at
  published,      \* outbox rows with published_at
  subscriptions,  \* [Subscription -> SubscriptionRow]
  deleted,        \* ids of deleted subscriptions, never used again
  preferences,    \* [Consumer -> Preference or NoPreference]
  deliveries,     \* planned deliveries
  \* API
  editing,        \* [Request -> Edit or Idle]: the aggregate after update_rules
  \* workers
  batch,          \* [Worker -> SUBSET Alert]: claimed events still to process
  step,           \* [Worker -> {"match", "plan"}]
  matched,        \* [Worker -> SUBSET MatchedSubscription]: consumer_matches
  unread,         \* [Worker -> SUBSET Consumer]: preferences still to read
  plan,           \* [Worker -> SUBSET Delivery]: deliveries still to insert
  \* history
  editions,       \* every rule set a subscription ever had, with its version
  promised,       \* [Alert -> (subscription, preference) pairs that waited for it]
  lost,           \* alerts whose worker stopped
  faults

outboxVars == <<alerts, claimed, published>>
editVars   == <<subscriptions, deleted, preferences, editing, editions>>
workVars   == <<batch, step, matched, unread, plan>>
faultVars  == <<lost, faults>>
vars == <<outboxVars, editVars, workVars, faultVars, deliveries, promised>>

Edition == [subscription : Subscription, version : 1..MaxVersion, rules : RuleSet]

TypeOK ==
  /\ alerts \subseteq Alert /\ claimed \subseteq alerts /\ published \subseteq alerts
  /\ subscriptions \in [Subscription -> SubscriptionRow]
  /\ deleted \subseteq Subscription
  /\ preferences \in [Consumer -> Preference \cup {NoPreference}]
  /\ deliveries \subseteq Delivery
  /\ editing \in [Request -> Edit \cup {Idle}]
  /\ batch \in [Worker -> SUBSET Alert]
  /\ step \in [Worker -> {"match", "plan"}]
  /\ matched \in [Worker -> SUBSET MatchedSubscription]
  /\ unread \in [Worker -> SUBSET Consumer]
  /\ plan \in [Worker -> SUBSET Delivery]
  /\ editions \subseteq Edition
  /\ promised \in [Alert -> SUBSET (Subscription \X Preference)]
  /\ lost \subseteq Alert
  /\ faults \in 0..MaxFaults

Init ==
  /\ alerts = {} /\ claimed = {} /\ published = {}
  /\ subscriptions = [s \in Subscription |-> NoSubscription]
  /\ deleted = {}
  /\ preferences = [c \in Consumer |-> NoPreference]
  /\ deliveries = {}
  /\ editing = [r \in Request |-> Idle]
  /\ batch = [w \in Worker |-> {}]
  /\ step = [w \in Worker |-> "match"]
  /\ matched = [w \in Worker |-> {}]
  /\ unread = [w \in Worker |-> {}]
  /\ plan = [w \in Worker |-> {}]
  /\ editions = {}
  /\ promised = [a \in Alert |-> {}]
  /\ lost = {}
  /\ faults = 0

-----------------------------------------------------------------------------
(* Matching and planning as functions. *)

Exists(s) == subscriptions[s].version > 0

\* evaluate_subscription, matched
Matches(s, a) == Exists(s) /\ a \in subscriptions[s].rules

\* evaluate_subscriptions and deduplicate_by_consumer: the subscriptions of a
\* consumer that matched, each with the version it matched under.
ConsumerMatches(a) ==
  {[subscription |-> s, version |-> subscriptions[s].version] :
     s \in {t \in Subscription : Matches(t, a)}}

OwnersOf(ms) == {owner[m.subscription] : m \in ms}

\* DeliveryPreference::tiers
Tiers(p) ==
  {[endpoint |-> p.channels[i], tier |-> IF p.strategy = "ALL" THEN 0 ELSE i - 1] :
     i \in DOMAIN p.channels}

\* plan_deliveries for one consumer; a consumer with no preference is skipped.
PlanFor(a, c, p, ms) ==
  IF p = NoPreference THEN {}
  ELSE {[alert |-> a, consumer |-> c, endpoint |-> t.endpoint, tier |-> t.tier,
         matching |-> {m \in ms : owner[m.subscription] = c}] : t \in Tiers(p)}

\* The idempotency key: consumer, alert, channel and endpoint.
SameKey(d, e) ==
  d.alert = e.alert /\ d.consumer = e.consumer /\ d.endpoint = e.endpoint

-----------------------------------------------------------------------------
(* Alerts, subscriptions and preferences. *)

\* PostgresAlertRepository::create writes the alert and its outbox row in one
\* transaction.  promised records who was waiting for the alert at that moment.
CreateAlert(a) ==
  /\ a \notin alerts
  /\ \A b \in Alert : b < a => b \in alerts
  /\ alerts' = alerts \cup {a}
  /\ promised' = [promised EXCEPT ![a] =
       {<<s, preferences[owner[s]]>> :
          s \in {t \in Subscription :
                   Matches(t, a) /\ preferences[owner[t]] # NoPreference}}]
  /\ UNCHANGED <<claimed, published, editVars, workVars, faultVars, deliveries>>

\* Whoever changes what they asked for before the alert is processed is
\* promised nothing about the old state.
Withdraw(S) ==
  promised' = [a \in Alert |->
                 IF a \in published THEN promised[a]
                                    ELSE {pair \in promised[a] : pair[1] \notin S}]

\* Reviewers create subscriptions with or without a preference; the citizen
\* endpoint stores the preference first and the subscription last.
CreateSubscription(s, rules) ==
  /\ ~Exists(s) /\ s \notin deleted
  /\ owner[s] \in Citizen => preferences[owner[s]] # NoPreference
  /\ subscriptions' = [subscriptions EXCEPT ![s] = [version |-> 1, rules |-> rules]]
  /\ editions' = editions \cup {[subscription |-> s, version |-> 1, rules |-> rules]}
  /\ UNCHANGED <<outboxVars, deleted, preferences, editing, workVars, faultVars,
                 deliveries, promised>>

\* update_citizen_subscription (and update_subscription): load the row and call
\* update_rules, in memory.
LoadForUpdate(r, s, rules) ==
  /\ editing[r] = Idle
  /\ Exists(s) /\ subscriptions[s].version < MaxVersion
  /\ editing' = [editing EXCEPT ![r] =
       [subscription |-> s, version |-> subscriptions[s].version + 1, rules |-> rules]]
  /\ UNCHANGED <<outboxVars, subscriptions, deleted, preferences, editions, workVars,
                 faultVars, deliveries, promised>>

\* Mutant: UPDATE without the version in its WHERE clause.
VersionUnchecked(e) == Exists(e.subscription)

\* WHERE id = .. AND version = .. of PostgresSubscriptionRepository::update
VersionMatches(e) ==
  Exists(e.subscription) /\ subscriptions[e.subscription].version = e.version - 1

\* update: the new rules, or Conflict and no change.
Update(r) ==
  LET e == editing[r] IN
  /\ e # Idle
  /\ IF VersionMatches(e)
       THEN /\ subscriptions' = [subscriptions EXCEPT ![e.subscription] =
                                   [version |-> e.version, rules |-> e.rules]]
            /\ editions' = editions \cup {e}
            /\ Withdraw({e.subscription})
       ELSE UNCHANGED <<subscriptions, editions, promised>>
  /\ editing' = [editing EXCEPT ![r] = Idle]
  /\ UNCHANGED <<outboxVars, deleted, preferences, workVars, faultVars, deliveries>>

\* cancel_citizen_subscription
Delete(s) ==
  /\ Exists(s) /\ owner[s] \in Citizen
  /\ subscriptions' = [subscriptions EXCEPT ![s] = NoSubscription]
  /\ deleted' = deleted \cup {s}
  /\ Withdraw({s})
  /\ UNCHANGED <<outboxVars, preferences, editing, editions, workVars, faultVars,
                 deliveries>>

\* PostgresDeliveryPreferenceRepository::upsert replaces the preference outright.
Upsert(c, p) ==
  /\ preferences[c] # p
  /\ preferences' = [preferences EXCEPT ![c] = p]
  /\ Withdraw({s \in Subscription : owner[s] = c})
  /\ UNCHANGED <<outboxVars, subscriptions, deleted, editing, editions, workVars,
                 faultVars, deliveries>>

-----------------------------------------------------------------------------
(* Workers. *)

\* Mutant: only published_at is looked at.
ClaimableUnlessPublished(a) == a \in alerts \ published

\* published_at IS NULL AND claimed_at IS NULL
Claimable(a) == a \in alerts \ (published \cup claimed)

Oldest(S) == {a \in S : Cardinality({b \in S : b < a}) < BatchSize}

\* claim_unpublished.  Rows another worker is just claiming are skipped.
ClaimUnpublished(w) ==
  /\ batch[w] = {}
  /\ \E locked \in SUBSET {a \in Alert : Claimable(a)} :
       LET won == Oldest({a \in Alert : Claimable(a)} \ locked) IN
       /\ locked = {} \/ \E v \in Worker \ {w} : batch[v] = {}
       /\ won # {}
       /\ claimed' = claimed \cup won
       /\ batch' = [batch EXCEPT ![w] = won]
  /\ UNCHANGED <<alerts, published, editVars, step, matched, unread, plan, faultVars,
                 deliveries, promised>>

\* The event the loop of process_batch is at.
IsCurrent(w, a) == a \in batch[w] /\ \A b \in batch[w] : a <= b

\* list_all, evaluate_subscriptions, deduplicate_by_consumer: one read.
Match(w) ==
  /\ step[w] = "match"
  /\ \E a \in Alert :
       /\ IsCurrent(w, a)
       /\ matched' = [matched EXCEPT ![w] = ConsumerMatches(a)]
       /\ unread' = [unread EXCEPT ![w] = OwnersOf(ConsumerMatches(a))]
  /\ step' = [step EXCEPT ![w] = "plan"]
  /\ UNCHANGED <<outboxVars, editVars, batch, plan, faultVars, deliveries, promised>>

\* find_by_consumer, one consumer after the other, each in its own read.
ReadPreference(w, c) ==
  /\ c \in unread[w]
  /\ \E a \in Alert :
       /\ IsCurrent(w, a)
       /\ plan' = [plan EXCEPT ![w] =
                     plan[w] \cup PlanFor(a, c, preferences[c], matched[w])]
  /\ unread' = [unread EXCEPT ![w] = unread[w] \ {c}]
  /\ UNCHANGED <<outboxVars, editVars, batch, step, matched, faultVars, deliveries,
                 promised>>

\* Mutant: a fallback may be written before the endpoint it stands in for.
AnyOrder(w, d) == d \in plan[w]

\* create_planned goes through the list in order: a tier after the ones below it.
NextInOrder(w, d) ==
  /\ d \in plan[w]
  /\ \A e \in plan[w] : e.consumer = d.consumer => d.tier <= e.tier

\* create_planned, one transaction per delivery; a key that is there already is
\* skipped.
CreatePlanned(w, d) ==
  /\ step[w] = "plan" /\ unread[w] = {}
  /\ NextInOrder(w, d)
  /\ deliveries' = IF \E e \in deliveries : SameKey(d, e)
                     THEN deliveries ELSE deliveries \cup {d}
  /\ plan' = [plan EXCEPT ![w] = plan[w] \ {d}]
  /\ UNCHANGED <<outboxVars, editVars, batch, step, matched, unread, faultVars, promised>>

\* Mutant: published as soon as the preferences are read.
PlannedUnwritten(w) == step[w] = "plan" /\ unread[w] = {}

\* Mutant: an alert nobody is to hear of is never done.
SomethingWritten(w) ==
  /\ step[w] = "plan" /\ unread[w] = {} /\ plan[w] = {}
  /\ \E d \in deliveries : d.alert \in batch[w]

AllWritten(w) == step[w] = "plan" /\ unread[w] = {} /\ plan[w] = {}

\* Mutant: the rest of the batch is dropped after one event.
MarkPublishedDropsRest(w) ==
  /\ AllWritten(w)
  /\ \E a \in Alert : IsCurrent(w, a) /\ published' = published \cup {a}
  /\ batch' = [batch EXCEPT ![w] = {}]
  /\ step' = [step EXCEPT ![w] = "match"]
  /\ matched' = [matched EXCEPT ![w] = {}]
  /\ plan' = [plan EXCEPT ![w] = {}]
  /\ UNCHANGED <<alerts, claimed, editVars, unread, faultVars, deliveries, promised>>

\* mark_published, and on to the next event.
MarkPublished(w) ==
  /\ AllWritten(w)
  /\ \E a \in Alert :
       /\ IsCurrent(w, a)
       /\ published' = published \cup {a}
       /\ batch' = [batch EXCEPT ![w] = batch[w] \ {a}]
  /\ step' = [step EXCEPT ![w] = "match"]
  /\ matched' = [matched EXCEPT ![w] = {}]
  /\ plan' = [plan EXCEPT ![w] = {}]
  /\ UNCHANGED <<alerts, claimed, editVars, unread, faultVars, deliveries, promised>>

\* A database error returns out of process_batch with ?; a shutdown or a crash
\* drops the future.  claimed_at stays set and nothing ever clears it.
Abort(w) ==
  /\ faults < MaxFaults
  /\ batch[w] # {}
  /\ batch' = [batch EXCEPT ![w] = {}]
  /\ step' = [step EXCEPT ![w] = "match"]
  /\ matched' = [matched EXCEPT ![w] = {}]
  /\ unread' = [unread EXCEPT ![w] = {}]
  /\ plan' = [plan EXCEPT ![w] = {}]
  /\ lost' = lost \cup batch[w]
  /\ faults' = faults + 1
  /\ UNCHANGED <<outboxVars, editVars, deliveries, promised>>

-----------------------------------------------------------------------------
\* What a worker does with the events of its batch: statements of the database, all of them.
EventStep(w) ==
  \/ Match(w) \/ MarkPublished(w)
  \/ \E c \in Consumer : ReadPreference(w, c)
  \/ \E d \in plan[w] : CreatePlanned(w, d)

WorkerStep(w) == ClaimUnpublished(w) \/ EventStep(w)

Next ==
  \/ \E a \in Alert : CreateAlert(a)
  \/ \E s \in Subscription :
       \/ Delete(s)
       \/ \E rules \in RuleSet : CreateSubscription(s, rules)
       \/ \E rules \in RuleSet, r \in Request : LoadForUpdate(r, s, rules)
  \/ \E r \in Request : Update(r)
  \/ \E c \in Consumer, p \in Preference : Upsert(c, p)
  \/ \E w \in Worker : WorkerStep(w) \/ Abort(w)

Spec == Init /\ [][Next]_vars

\* Who began a batch goes on with it.  No worker need ever claim again: between two batches it
\* dispatches deliveries, and a send to a push endpoint that does not answer keeps it there for
\* good.  Of all workers together it is assumed that one of them comes back while events wait;
\* AlertPipeline, where workers do both, does without this.  Nobody owes an alert, a
\* subscription or a preference.
SomeoneClaims == \E w \in Worker : ClaimUnpublished(w)

FairSpec ==
  /\ Spec
  /\ \A w \in Worker : WF_vars(EventStep(w))
  /\ WF_vars(SomeoneClaims)

-----------------------------------------------------------------------------
(* Properties. *)

\* A claimed event is processed by one worker, published, or lost with the
\* worker that held it, exactly one of these; one stop loses at most a batch
\* (process_batch marks each event published only after its own matching).
OnlyStopsLose ==
  /\ \A w \in Worker : batch[w] \cap (published \cup lost) = {}
  /\ \A v, w \in Worker : v # w => batch[v] \cap batch[w] = {}
  /\ claimed = published \cup lost \cup UNION {batch[w] : w \in Worker}
  /\ published \cap lost = {}
  /\ Cardinality(lost) <= faults * BatchSize

\* Migration 0016: a real ALERT_CREATED event must reach every matched consumer.
\* Whoever had a matching subscription and a preference when the alert was
\* created, and changed neither until it was processed, has every delivery the
\* preference asks for, and the delivery names the subscription.
PublishedReachesMatched ==
  \A a \in published : \A pair \in promised[a] : \A t \in Tiers(pair[2]) :
    \E d \in deliveries :
      /\ d.alert = a /\ d.consumer = owner[pair[1]]
      /\ d.endpoint = t.endpoint /\ d.tier = t.tier
      /\ \E m \in d.matching : m.subscription = pair[1]

\* The deliveries of one alert to one consumer come from one preference: no
\* endpoint twice, no two fallbacks of one rank, and never a fallback whose
\* lower tiers are not in the table yet (what claim_next's gate relies on).
TiersFromOnePreference ==
  \A d \in deliveries :
    /\ \A e \in deliveries :
         /\ SameKey(d, e) => d = e
         /\ d.alert = e.alert /\ d.consumer = e.consumer /\ d.tier = e.tier
              => d = e \/ d.tier = 0
    /\ \A k \in 0..d.tier :
         \E e \in deliveries :
           e.alert = d.alert /\ e.consumer = d.consumer /\ e.tier = k
    /\ d.tier > 0 =>
         Cardinality({e \in deliveries :
           e.alert = d.alert /\ e.consumer = d.consumer /\ e.tier = 0}) = 1

\* A version number names one rule set, whatever edits race (the optimistic
\* lock of PostgresSubscriptionRepository::update), so every delivery can be
\* explained by the rules its subscriptions had: each of them is the consumer's
\* and matched the alert under the recorded version.
DeliveriesExplained ==
  /\ \A e, f \in editions :
       e.subscription = f.subscription /\ e.version = f.version => e = f
  /\ \A d \in deliveries :
       /\ d.matching # {}
       /\ \A m \in d.matching :
            /\ owner[m.subscription] = d.consumer
            /\ \E e \in editions : /\ e.subscription = m.subscription
                                   /\ e.version = m.version
                                   /\ d.alert \in e.rules

\* Once its event is published, nothing is ever planned for an alert again.
SealedWhenPublished ==
  [][\A d \in deliveries' \ deliveries : d.alert \notin published]_vars

\* Every alert is processed in the end, unless a stopped worker held it, as long as some worker
\* comes back to the outbox: one that hangs in a send holds no event by then and keeps nobody
\* else from claiming (process_batch of both halves, in the loop of the worker).
PublishedUnlessLost ==
  \A a \in Alert : a \in alerts ~> (a \in published \/ a \in lost)

\* process_batch says an error "leaves every event from that point on still
\* unpublished (claimed, not silently dropped) rather than permanently
\* skipped": an unpublished event is one some worker has or can still claim.
NotPermanentlySkipped ==
  \A a \in alerts \ published : Claimable(a) \/ \E w \in Worker : a \in batch[w]

=============================================================================
