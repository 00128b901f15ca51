----------------------------- MODULE Subscribers -----------------------------
(* Consumers, their subscriptions and delivery preferences, as reviewers   *)
(* and citizens create and change them: apps/api/src/consumers.rs,         *)
(* subscriptions.rs and citizen_subscriptions.rs over their repositories.  *)
(* A citizen has no account: a token, answered once, opens what the three  *)
(* commits before that answer created.                                     *)
EXTENDS SubscriptionRules

CONSTANTS
  Consumer,        \* ids that can be drawn; a token is known by the consumer it opens
  SubscriptionId,
  Endpoint,        \* addresses of delivery preferences
  Request,         \* requests in progress
  ReviewerRules,   \* sequences of rule inputs that reviewers send
  Asked,           \* what citizens ask for
  Legacy,          \* stored rules from before several areas were supported
  MaxVersion,      \* bound: version of a subscription
  NoConsumer, NoSubscription, NoEndpoint, NoRequest

ASSUME SubscriberAssumption ==
  /\ Asked \subseteq CitizenAsk
  /\ ReviewerRules \subseteq Seq(RuleInput)
  /\ \A json \in Legacy : json # <<>> /\ json \in Seq([rule : {"GEOGRAPHY"}, area : Area])
  /\ MaxVersion \in Nat \ {0}

VARIABLES
  consumers,      \* table consumers: whether a token digest is stored
  preferences,    \* table consumer_delivery_preferences
  subscriptions,  \* table subscriptions
  errands,        \* requests in progress
  accepted,       \* history: the rules last accepted for a subscription
  reviewed,       \* history: subscriptions that a reviewer created or changed
  told,           \* history: citizens whose creation was answered 201
  cancelled,      \* history: subscriptions whose cancellation began
  offered         \* history: endpoints a consumer's accepted requests gave

subscriberVars == <<consumers, preferences, subscriptions, errands, accepted, reviewed,
                    told, cancelled, offered>>

ConsumerRow == {"reviewed", "citizen"}
\* Subscription, with its rules as stored.
SubscriptionRow ==
  [consumer : Consumer, version : 1 .. MaxVersion, rules : Seq(StoredRule)]

\* A request: what it wants, the subscription it loaded, how far it is.
Errand ==
  [op : {"create"}, stage : {"begun", "consumer", "preference", "subscription"},
   consumer : Consumer, id : SubscriptionId, rules : Seq(Rule), endpoint : Endpoint]
  \cup [op : {"update"}, stage : {"loaded", "updated"}, consumer : Consumer,
        id : SubscriptionId, rules : Seq(Rule), endpoint : Endpoint \cup {NoEndpoint},
        version : 1 .. MaxVersion]
  \cup [op : {"cancel"}, stage : {"loaded"}, consumer : Consumer, id : SubscriptionId]
  \cup [op : {"review"}, stage : {"loaded"}, consumer : Consumer, id : SubscriptionId,
        rules : Seq(Rule), version : 1 .. MaxVersion]

\* What marks the absence of a row, an endpoint or a request is none.
ASSUME AbsenceAssumption ==
  /\ NoConsumer \notin ConsumerRow /\ NoEndpoint \notin Endpoint
  /\ NoSubscription \notin SubscriptionRow /\ NoRequest \notin Errand

SubscriberTypeOK ==
  /\ consumers \in [Consumer -> ConsumerRow \cup {NoConsumer}]
  /\ preferences \in [Consumer -> Endpoint \cup {NoEndpoint}]
  /\ subscriptions \in [SubscriptionId -> SubscriptionRow \cup {NoSubscription}]
  /\ errands \in [Request -> Errand \cup {NoRequest}]
  /\ accepted \in [SubscriptionId -> Seq(Rule)]
  /\ reviewed \subseteq SubscriptionId /\ cancelled \subseteq SubscriptionId
  /\ told \subseteq Consumer \X SubscriptionId
  /\ offered \in [Consumer -> SUBSET Endpoint]

\* There may be a subscription from before, of a consumer that reviewers manage.
SubscriberInit ==
  /\ preferences = [c \in Consumer |-> NoEndpoint]
  /\ errands = [q \in Request |-> NoRequest]
  /\ told = {} /\ cancelled = {} /\ offered = [c \in Consumer |-> {}]
  /\ \/ /\ consumers = [c \in Consumer |-> NoConsumer]
        /\ subscriptions = [s \in SubscriptionId |-> NoSubscription]
        /\ accepted = [s \in SubscriptionId |-> <<>>] /\ reviewed = {}
     \/ \E c \in Consumer, s \in SubscriptionId, json \in Legacy :
          /\ consumers = [d \in Consumer |-> IF d = c THEN "reviewed" ELSE NoConsumer]
          /\ subscriptions = [t \in SubscriptionId |->
               IF t = s THEN [consumer |-> c, version |-> 1, rules |-> json]
               ELSE NoSubscription]
          /\ accepted = [t \in SubscriptionId |->
               IF t # s THEN <<>>
               ELSE [i \in DOMAIN json |-> [rule |-> "GEOGRAPHY", areas |-> {json[i].area}]]]
          /\ reviewed = {s}

Drawn(c) == \E q \in Request : errands[q] # NoRequest /\ errands[q].consumer = c
IdDrawn(s) == \E q \in Request : errands[q] # NoRequest /\ errands[q].id = s
Fresh(c, s) ==
  /\ consumers[c] = NoConsumer /\ ~Drawn(c)
  /\ subscriptions[s] = NoSubscription /\ accepted[s] = <<>> /\ ~IdDrawn(s)

Begin(q, errand) == errands[q] = NoRequest /\ errands' = [errands EXCEPT ![q] = errand]
Proceeds(q, stage) == errands' = [errands EXCEPT ![q].stage = stage]
Finish(q) == errands' = [errands EXCEPT ![q] = NoRequest]
Doing(q, op, stage) ==
  errands[q] # NoRequest /\ errands[q].op = op /\ errands[q].stage = stage

tables == <<consumers, preferences, subscriptions>>
histories == <<accepted, reviewed, told, cancelled, offered>>

\* create: version 1; update: the version after the one it was loaded at.
Stored(c, version, rules) ==
  [consumer |-> c, version |-> version, rules |-> RulesToJson(rules)]

-----------------------------------------------------------------------------
(* create_citizen_subscription *)

BeginCitizen(q, c, s, ask, e) ==
  /\ Fresh(c, s) /\ AcceptedAsk(ask)
  /\ Begin(q, [op |-> "create", stage |-> "begun", consumer |-> c, id |-> s,
               rules |-> CitizenRules(ask), endpoint |-> e])
  /\ UNCHANGED tables /\ UNCHANGED histories

\* create_with_management_token
CreateConsumerWithToken(q) ==
  /\ Doing(q, "create", "begun")
  /\ consumers' = [consumers EXCEPT ![errands[q].consumer] = "citizen"]
  /\ Proceeds(q, "consumer")
  /\ UNCHANGED <<preferences, subscriptions>> /\ UNCHANGED histories

\* Mutant: the answer does not wait for the subscription.
CreatePreferenceAndAnswer(q) ==
  LET j == errands[q] IN
  /\ Doing(q, "create", "consumer")
  /\ preferences' = [preferences EXCEPT ![j.consumer] = j.endpoint]
  /\ offered' = [offered EXCEPT ![j.consumer] = @ \cup {j.endpoint}]
  /\ told' = told \cup {<<j.consumer, j.id>>}
  /\ Proceeds(q, "preference")
  /\ UNCHANGED <<consumers, subscriptions, accepted, reviewed, cancelled>>

\* delivery_preferences.upsert
CreatePreference(q) ==
  LET j == errands[q] IN
  /\ Doing(q, "create", "consumer")
  /\ preferences' = [preferences EXCEPT ![j.consumer] = j.endpoint]
  /\ offered' = [offered EXCEPT ![j.consumer] = @ \cup {j.endpoint}]
  /\ Proceeds(q, "preference")
  /\ UNCHANGED <<consumers, subscriptions, accepted, reviewed, told, cancelled>>

\* subscriptions.create
InsertSubscription(q) ==
  LET j == errands[q] IN
  /\ Doing(q, "create", "preference")
  /\ subscriptions' = [subscriptions EXCEPT ![j.id] = Stored(j.consumer, 1, j.rules)]
  /\ accepted' = [accepted EXCEPT ![j.id] = j.rules]
  /\ Proceeds(q, "subscription")
  /\ UNCHANGED <<consumers, preferences, reviewed, told, cancelled, offered>>

\* 201 with the token, which is never shown again.
AnswerCitizen(q) ==
  LET j == errands[q] IN
  /\ Doing(q, "create", "subscription")
  /\ told' = told \cup {<<j.consumer, j.id>>}
  /\ Finish(q)
  /\ UNCHANGED tables /\ UNCHANGED <<accepted, reviewed, cancelled, offered>>

-----------------------------------------------------------------------------
(* Requests with a token. *)

\* authorize_citizen_subscription: the digest of a consumer is never changed, so that the two
\* reads are one step.
MayOpen(token, s) ==
  /\ subscriptions[s] # NoSubscription
  /\ consumers[subscriptions[s].consumer] = "citizen"
  /\ token = subscriptions[s].consumer

\* update_citizen_subscription, up to the rules in memory; no endpoint is none to change.
LoadOwn(q, token, s, ask, e) ==
  /\ MayOpen(token, s) /\ AcceptedAsk(ask)
  /\ Begin(q, [op |-> "update", stage |-> "loaded", consumer |-> token, id |-> s,
               rules |-> CitizenRules(ask), endpoint |-> e,
               version |-> subscriptions[s].version])
  /\ UNCHANGED tables /\ UNCHANGED histories

\* PostgresSubscriptionRepository::update finds the version it expects.
IsUnchanged(j) ==
  /\ subscriptions[j.id] # NoSubscription
  /\ subscriptions[j.id].version = j.version
  /\ j.version < MaxVersion

ReplaceRules(j) ==
  /\ subscriptions' = [subscriptions EXCEPT ![j.id] =
       Stored(@.consumer, j.version + 1, j.rules)]
  /\ accepted' = [accepted EXCEPT ![j.id] = j.rules]

\* Mutant: a conflict ends after the endpoint was replaced, not before.
StoreOwnLate(q) ==
  LET j == errands[q] IN
  /\ Doing(q, "update", "loaded")
  /\ \/ /\ IsUnchanged(j) /\ ReplaceRules(j)
        /\ IF j.endpoint = NoEndpoint THEN Finish(q) /\ UNCHANGED offered
           ELSE /\ Proceeds(q, "updated")
                /\ offered' = [offered EXCEPT ![j.consumer] = @ \cup {j.endpoint}]
     \/ /\ ~IsUnchanged(j) /\ j.endpoint # NoEndpoint
        /\ Proceeds(q, "updated")
        /\ UNCHANGED <<subscriptions, accepted, offered>>
  /\ UNCHANGED <<consumers, preferences, reviewed, told, cancelled>>

\* Updated goes on to the endpoint; Conflict (also of a deleted row) ends it.
StoreOwn(q) ==
  LET j == errands[q] IN
  /\ Doing(q, "update", "loaded")
  /\ \/ /\ IsUnchanged(j) /\ ReplaceRules(j)
        /\ IF j.endpoint = NoEndpoint THEN Finish(q) /\ UNCHANGED offered
           ELSE /\ Proceeds(q, "updated")
                /\ offered' = [offered EXCEPT ![j.consumer] = @ \cup {j.endpoint}]
     \/ ~IsUnchanged(j) /\ Finish(q) /\ UNCHANGED <<subscriptions, accepted, offered>>
  /\ UNCHANGED <<consumers, preferences, reviewed, told, cancelled>>

\* delivery_preferences.upsert, a commit of its own.
ReplaceEndpoint(q) ==
  LET j == errands[q] IN
  /\ Doing(q, "update", "updated")
  /\ preferences' = [preferences EXCEPT ![j.consumer] = j.endpoint]
  /\ Finish(q)
  /\ UNCHANGED <<consumers, subscriptions>> /\ UNCHANGED histories

\* cancel_citizen_subscription: authorized, then deleted.
LoadToCancelOwn(q, token, s) ==
  /\ MayOpen(token, s)
  /\ Begin(q, [op |-> "cancel", stage |-> "loaded", consumer |-> token, id |-> s])
  /\ cancelled' = cancelled \cup {s}
  /\ UNCHANGED tables /\ UNCHANGED <<accepted, reviewed, told, offered>>

DeleteOwn(q) ==
  /\ Doing(q, "cancel", "loaded")
  /\ subscriptions' = [subscriptions EXCEPT ![errands[q].id] = NoSubscription]
  /\ Finish(q)
  /\ UNCHANGED <<consumers, preferences>> /\ UNCHANGED histories

-----------------------------------------------------------------------------
(* Requests of reviewers; who may make them is module OrganizationTrust. *)

\* register_consumer
RegisterConsumer(c) ==
  /\ consumers[c] = NoConsumer /\ ~Drawn(c)
  /\ consumers' = [consumers EXCEPT ![c] = "reviewed"]
  /\ UNCHANGED <<preferences, subscriptions, errands>> /\ UNCHANGED histories

\* create_subscription, for any consumer.
CreateForConsumer(c, s, inputs) ==
  /\ consumers[c] # NoConsumer
  /\ subscriptions[s] = NoSubscription /\ accepted[s] = <<>> /\ ~IdDrawn(s)
  /\ AcceptedRules(inputs)
  /\ subscriptions' = [subscriptions EXCEPT ![s] = Stored(c, 1, inputs)]
  /\ accepted' = [accepted EXCEPT ![s] = inputs]
  /\ reviewed' = reviewed \cup {s}
  /\ UNCHANGED <<consumers, preferences, errands, told, cancelled, offered>>

\* update_subscription, up to the rules in memory.
LoadToReview(q, s, inputs) ==
  /\ subscriptions[s] # NoSubscription /\ AcceptedRules(inputs)
  /\ Begin(q, [op |-> "review", stage |-> "loaded", consumer |-> subscriptions[s].consumer,
               id |-> s, rules |-> inputs, version |-> subscriptions[s].version])
  /\ UNCHANGED tables /\ UNCHANGED histories

StoreReview(q) ==
  LET j == errands[q] IN
  /\ Doing(q, "review", "loaded")
  /\ \/ /\ IsUnchanged(j) /\ ReplaceRules(j)
        /\ reviewed' = reviewed \cup {j.id}
     \/ ~IsUnchanged(j) /\ UNCHANGED <<subscriptions, accepted, reviewed>>
  /\ Finish(q)
  /\ UNCHANGED <<consumers, preferences, told, cancelled, offered>>

\* set_delivery_preference, for any consumer; one statement.
SetDeliveryPreference(c, e) ==
  /\ consumers[c] # NoConsumer
  /\ preferences' = [preferences EXCEPT ![c] = e]
  /\ offered' = [offered EXCEPT ![c] = @ \cup {e}]
  /\ UNCHANGED <<consumers, subscriptions, errands, accepted, reviewed, told, cancelled>>

\* persistence_failed, a lost answer or a crash: what was committed stays.
ErrandFails(q) ==
  /\ errands[q] # NoRequest
  /\ Finish(q)
  /\ UNCHANGED tables /\ UNCHANGED histories

SubscriberNext ==
  \/ \E q \in Request :
       \/ \E c \in Consumer, s \in SubscriptionId, ask \in Asked :
            \/ \E e \in Endpoint : BeginCitizen(q, c, s, ask, e)
            \/ \E e \in Endpoint \cup {NoEndpoint} : LoadOwn(q, c, s, ask, e)
       \/ CreateConsumerWithToken(q) \/ CreatePreference(q) \/ InsertSubscription(q)
       \/ AnswerCitizen(q) \/ StoreOwn(q) \/ ReplaceEndpoint(q)
       \/ \E c \in Consumer, s \in SubscriptionId : LoadToCancelOwn(q, c, s)
       \/ DeleteOwn(q)
       \/ \E s \in SubscriptionId, inputs \in ReviewerRules : LoadToReview(q, s, inputs)
       \/ StoreReview(q) \/ ErrandFails(q)
  \/ \E c \in Consumer :
       \/ RegisterConsumer(c)
       \/ \E s \in SubscriptionId, inputs \in ReviewerRules : CreateForConsumer(c, s, inputs)
       \/ \E e \in Endpoint : SetDeliveryPreference(c, e)

SubscriberSpec == SubscriberInit /\ [][SubscriberNext]_subscriberVars

-----------------------------------------------------------------------------
(* Properties. *)

\* list_all: the table, its rules read back; the order of its rows is left out.
Listed ==
  {[id |-> s, version |-> subscriptions[s].version, consumer |-> subscriptions[s].consumer,
    rules |-> RulesFromJson(subscriptions[s].rules)] :
     s \in {t \in SubscriptionId : subscriptions[t] # NoSubscription}}

\* What is read back from the table, through races and in rows of either form, are the rules
\* last accepted, and matching tells each consumer once which of its subscriptions want an
\* alert.  What only citizens wrote never matches an alert that is neither COMMUNITY nor
\* PUBLIC, wherever it lies, and what a citizen is shown of it, sent back, is the same again.
RulesKeepMeaning ==
  /\ \A l \in Listed : l.rules = accepted[l.id]
  /\ \A alert \in Announcement :
       LET found == Deduplicated(Decisions(Listed, alert)) IN
       \A l \in Listed :
         LET wants == \A i \in DOMAIN accepted[l.id] : EvaluateRule(accepted[l.id][i], alert)
         IN /\ wants <=> /\ l.consumer \in DOMAIN found
                         /\ \E d \in found[l.consumer] : d.id = l.id
            /\ wants /\ l.id \notin reviewed =>
                 /\ alert.visibility \in Broad
                 /\ \E area \in GeographyAreas({l}) : MatchesTarget(area, alert.target)
  /\ \A l \in Listed : l.id \notin reviewed => CitizenRules(Shown(l.rules)) = l.rules

\* Whoever was given a token has a consumer, an endpoint and, until it is cancelled, the
\* subscription that it opens; and the endpoint on record was given by a request that was
\* accepted as a whole, never by an update that lost a race.
TokenOpens ==
  /\ \A pair \in told :
       /\ consumers[pair[1]] = "citizen" /\ preferences[pair[1]] # NoEndpoint
       /\ pair[2] \in cancelled \/ MayOpen(pair[1], pair[2])
  /\ \A c \in Consumer : preferences[c] # NoEndpoint => preferences[c] \in offered[c]
=============================================================================
