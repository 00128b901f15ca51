--------------------- MODULE SubscriptionMatchingProofs ---------------------
(* Proofs about the way from an alert to its planned deliveries: no event  *)
(* is lost but with a stopped worker (OnlyStopsLose), deliveries are       *)
(* explained and in order (DeliveriesExplained, TiersFromOnePreference),   *)
(* and whoever was promised an alert has its deliveries once it is         *)
(* published (PublishedReachesMatched), for every number of alerts,        *)
(* subscriptions, edits, workers and faults.                               *)
EXTENDS SubscriptionMatching, FiniteSetTheorems, TLAPS

-----------------------------------------------------------------------------
(* Layer 1: who has which event. *)

\* A worker in the middle of an event has a current one; between events it remembers nothing.
InStep(w) ==
  /\ step[w] = "match" => matched[w] = {} /\ unread[w] = {} /\ plan[w] = {}
  /\ step[w] = "plan" => \E a \in batch[w] : IsCurrent(w, a)

OutboxInv ==
  /\ TypeOK
  /\ OnlyStopsLose
  /\ IsFiniteSet(alerts)
  /\ \A w \in Worker : InStep(w) /\ Cardinality(batch[w]) <= BatchSize

\* A batch has at most BatchSize events: each has fewer than that many older ones among the
\* claimable, and no two have the same number.
LEMMA OldestAreFew ==
  ASSUME MatchingAssumption, NEW S \in SUBSET Nat, IsFiniteSet(S)
  PROVE  /\ Oldest(S) \subseteq S
         /\ IsFiniteSet(Oldest(S)) /\ Cardinality(Oldest(S)) <= BatchSize
<1> DEFINE below(a) == {b \in S : b < a}
           f == [a \in Oldest(S) |-> Cardinality(below(a))]
<1>1. Oldest(S) \subseteq S
  BY DEF Oldest
<1>2. \A a \in S : IsFiniteSet(below(a)) /\ Cardinality(below(a)) \in Nat
  <2>1. \A a \in S : below(a) \in SUBSET S
    OBVIOUS
  <2> QED
    BY <2>1, FS_Subset, FS_CardinalityType
<1>3. BatchSize \in Nat
  BY DEF MatchingAssumption
<1>4. f \in [Oldest(S) -> 0 .. BatchSize - 1]
  <2>1. ASSUME NEW a \in Oldest(S) PROVE Cardinality(below(a)) \in 0 .. BatchSize - 1
    <3>1. Cardinality(below(a)) < BatchSize
      BY DEF Oldest
    <3>2. Cardinality(below(a)) \in Nat
      BY <1>1, <1>2
    <3> HIDE DEF below
    <3> QED
      BY <1>3, <3>1, <3>2
  <2> HIDE DEF below
  <2> QED
    BY <2>1
<1>5. ASSUME NEW a \in Oldest(S), NEW c \in Oldest(S), a < c
      PROVE  Cardinality(below(a)) < Cardinality(below(c))
  <2>1. a \in S /\ c \in S
    BY <1>1
  <2>2. below(a) \cup {a} \in SUBSET below(c)
    <3>1. ASSUME NEW b \in S, b < a PROVE b < c
      <4>1. a \in Nat /\ b \in Nat /\ c \in Nat
        BY <2>1
      <4> QED
        BY <1>5, <3>1, <4>1
    <3> QED
      BY <2>1, <1>5, <3>1
  <2>3. a \notin below(a)
    BY <2>1
  <2>4. Cardinality(below(a) \cup {a}) = Cardinality(below(a)) + 1
    BY <1>2, <2>1, <2>3, FS_AddElement
  <2>5. Cardinality(below(a) \cup {a}) <= Cardinality(below(c))
    BY <1>2, <2>1, <2>2, FS_Subset
  <2>6. Cardinality(below(a)) \in Nat /\ Cardinality(below(c)) \in Nat
    BY <1>2, <2>1
  <2> HIDE DEF below
  <2> QED
    BY <2>4, <2>5, <2>6
<1>6. f \in Injection(Oldest(S), 0 .. BatchSize - 1)
  <2>1. ASSUME NEW a \in Oldest(S), NEW c \in Oldest(S), f[a] = f[c] PROVE a = c
    <3>1. a \in Nat /\ c \in Nat
      BY <1>1
    <3>2. Cardinality(below(a)) = Cardinality(below(c))
      BY <2>1
    <3>3. ~(a < c) /\ ~(c < a)
      <4> HIDE DEF below
      <4>1. Cardinality(below(a)) \in Nat
        BY <1>1, <1>2
      <4> QED
        BY <1>5, <3>2, <4>1
    <3> QED
      BY <3>1, <3>3
  <2> QED
    BY <1>4, <2>1 DEF Injection, IsInjective
<1>7. IsFiniteSet(0 .. BatchSize - 1) /\ Cardinality(0 .. BatchSize - 1) = BatchSize
  BY <1>3, FS_Interval DEF MatchingAssumption
<1>8. IsFiniteSet(Oldest(S)) /\ Cardinality(Oldest(S)) <= Cardinality(0 .. BatchSize - 1)
  BY <1>6, <1>7, FS_Injection
<1> QED
  BY <1>1, <1>7, <1>8

\* What matching finds is well formed.
LEMMA MatchesType ==
  ASSUME TypeOK, NEW a \in Alert
  PROVE  /\ ConsumerMatches(a) \in SUBSET MatchedSubscription
         /\ \A m \in ConsumerMatches(a) :
              Matches(m.subscription, a) /\ m.version = subscriptions[m.subscription].version
<1>1. ASSUME NEW s \in Subscription, Matches(s, a)
      PROVE  [subscription |-> s, version |-> subscriptions[s].version] \in MatchedSubscription
  <2>1. subscriptions[s] \in SubscriptionRow
    BY DEF TypeOK
  <2>2. subscriptions[s].version \in 0..MaxVersion /\ subscriptions[s].version > 0
    BY <2>1, <1>1 DEF SubscriptionRow, Matches, Exists
  <2>3. subscriptions[s].version \in 1..MaxVersion
    BY <2>2
  <2> QED
    BY <2>3 DEF MatchedSubscription
<1> QED
  BY <1>1 DEF ConsumerMatches

\* What a preference asks for is well formed.
LEMMA PlanForType ==
  ASSUME MatchingAssumption, NEW a \in Alert, NEW c \in Consumer,
         NEW p \in Preference \cup {NoPreference}, NEW ms \in SUBSET MatchedSubscription
  PROVE  PlanFor(a, c, p, ms) \subseteq Delivery
<1>1. CASE p = NoPreference
  BY <1>1 DEF PlanFor
<1>2. CASE p # NoPreference
  <2>1. ASSUME NEW i \in DOMAIN p.channels
        PROVE  p.channels[i] \in Endpoint
               /\ (IF p.strategy = "ALL" THEN 0 ELSE i - 1) \in Nat
    <3>1. p.channels \in Seq(Endpoint)
      BY <1>2 DEF MatchingAssumption
    <3>2. DOMAIN p.channels \subseteq Nat \ {0}
      BY <3>1
    <3>3. i \in Nat \ {0}
      BY <3>2, <2>1
    <3> QED
      BY <3>1, <3>3
  <2>2. \A t \in Tiers(p) : t.endpoint \in Endpoint /\ t.tier \in Nat
    BY <2>1 DEF Tiers
  <2> QED
    BY <1>2, <2>2 DEF PlanFor, Delivery
<1> QED
  BY <1>1, <1>2

\* At the start nothing is claimed.
LEMMA OutboxInit ==
  ASSUME MatchingAssumption, Init
  PROVE  OutboxInv
<1>1. TypeOK
  <2>1. NoSubscription \in SubscriptionRow
    BY DEF NoSubscription, SubscriptionRow, MatchingAssumption
  <2> QED
    BY <2>1 DEF Init, TypeOK, MatchingAssumption
<1>2. OnlyStopsLose
  <2>1. Cardinality({}) = 0 /\ 0 <= 0 * BatchSize
    BY FS_EmptySet DEF MatchingAssumption
  <2> QED
    BY <2>1 DEF Init, OnlyStopsLose
<1>3. IsFiniteSet(alerts)
  BY FS_EmptySet DEF Init
<1>4. \A w \in Worker : InStep(w) /\ Cardinality(batch[w]) <= BatchSize
  BY FS_EmptySet DEF Init, InStep, MatchingAssumption
<1> QED
  BY <1>1, <1>2, <1>3, <1>4 DEF OutboxInv

\* A request of the API leaves the outbox and the workers alone.
LEMMA RequestsLeaveOutbox ==
  ASSUME OutboxInv, TypeOK', IsFiniteSet(alerts'),
         UNCHANGED <<claimed, published, workVars, faultVars>>
  PROVE  OutboxInv'
BY DEF OutboxInv, OnlyStopsLose, InStep, IsCurrent, workVars, faultVars

\* An update keeps the types of what it is promised to.
LEMMA WithdrawType ==
  ASSUME TypeOK, NEW S, Withdraw(S)
  PROVE  promised' \in [Alert -> SUBSET (Subscription \X Preference)]
BY DEF Withdraw, TypeOK

\* An alert and its outbox row appear.
LEMMA CreateAlertOutbox ==
  ASSUME MatchingAssumption, OutboxInv, NEW a \in Alert, CreateAlert(a)
  PROVE  OutboxInv'
<1>1. TypeOK
  BY DEF OutboxInv
<1>2. /\ alerts' = alerts \cup {a}
      /\ UNCHANGED <<claimed, published, editVars, workVars, faultVars, deliveries>>
  BY DEF CreateAlert
<1>3. promised' \in [Alert -> SUBSET (Subscription \X Preference)]
  <2>1. {<<s, preferences[owner[s]]>> :
          s \in {t \in Subscription : Matches(t, a) /\ preferences[owner[t]] # NoPreference}}
        \in SUBSET (Subscription \X Preference)
    BY <1>1 DEF TypeOK, MatchingAssumption
  <2> QED
    BY <1>1, <2>1 DEF CreateAlert, TypeOK
<1>4. TypeOK'
  BY <1>1, <1>2, <1>3 DEF TypeOK, editVars, workVars, faultVars
<1>5. IsFiniteSet(alerts')
  BY <1>2, FS_AddElement DEF OutboxInv
<1> QED
  BY <1>2, <1>4, <1>5, RequestsLeaveOutbox

\* Requests change subscriptions, versions and preferences within their types.
LEMMA EditsOutbox ==
  ASSUME MatchingAssumption, OutboxInv,
         \/ \E s \in Subscription :
              \/ Delete(s)
              \/ \E rules \in RuleSet : CreateSubscription(s, rules)
              \/ \E rules \in RuleSet, r \in Request : LoadForUpdate(r, s, rules)
         \/ \E r \in Request : Update(r)
         \/ \E c \in Consumer, p \in Preference : Upsert(c, p)
  PROVE  OutboxInv'
<1>1. TypeOK /\ IsFiniteSet(alerts)
  BY DEF OutboxInv
<1>2. NoSubscription \in SubscriptionRow
  BY DEF NoSubscription, SubscriptionRow, MatchingAssumption
<1>3. ASSUME NEW s \in Subscription, Delete(s)
      PROVE  OutboxInv'
  <2>1. TypeOK'
    BY <1>1, <1>2, <1>3, WithdrawType DEF Delete, TypeOK, outboxVars, workVars, faultVars
  <2> QED
    BY <1>1, <1>3, <2>1, RequestsLeaveOutbox DEF Delete, outboxVars
<1>4. ASSUME NEW s \in Subscription, NEW rules \in RuleSet, CreateSubscription(s, rules)
      PROVE  OutboxInv'
  <2>1. [version |-> 1, rules |-> rules] \in SubscriptionRow
        /\ [subscription |-> s, version |-> 1, rules |-> rules] \in Edition
    BY DEF SubscriptionRow, Edition, MatchingAssumption
  <2>2. TypeOK'
    BY <1>1, <1>4, <2>1 DEF CreateSubscription, TypeOK, outboxVars, workVars, faultVars
  <2> QED
    BY <1>1, <1>4, <2>2, RequestsLeaveOutbox DEF CreateSubscription, outboxVars
<1>5. ASSUME NEW s \in Subscription, NEW rules \in RuleSet, NEW r \in Request,
             LoadForUpdate(r, s, rules)
      PROVE  OutboxInv'
  <2>1. subscriptions[s].version + 1 \in 2..MaxVersion
    <3>1. subscriptions[s].version \in 0..MaxVersion
      BY <1>1 DEF TypeOK, SubscriptionRow
    <3> QED
      BY <1>5, <3>1 DEF LoadForUpdate, Exists, MatchingAssumption
  <2>2. [subscription |-> s, version |-> subscriptions[s].version + 1, rules |-> rules] \in Edit
    BY <2>1 DEF Edit
  <2>3. TypeOK'
    BY <1>1, <1>5, <2>2 DEF LoadForUpdate, TypeOK, outboxVars, workVars, faultVars
  <2> QED
    BY <1>1, <1>5, <2>3, RequestsLeaveOutbox DEF LoadForUpdate, outboxVars
<1>6. ASSUME NEW r \in Request, Update(r)
      PROVE  OutboxInv'
  <2> PICK e \in Edit : e = editing[r]
    BY <1>1, <1>6 DEF Update, TypeOK
  <2>1. e \in Edition /\ e.subscription \in Subscription
        /\ [version |-> e.version, rules |-> e.rules] \in SubscriptionRow
    BY DEF Edit, Edition, SubscriptionRow, MatchingAssumption
  <2>2. UNCHANGED <<outboxVars, deleted, preferences, workVars, faultVars, deliveries>>
        /\ editing' = [editing EXCEPT ![r] = Idle]
    BY <1>6 DEF Update
  <2>3. CASE VersionMatches(e)
    <3>1. /\ subscriptions' = [subscriptions EXCEPT ![e.subscription] =
                                   [version |-> e.version, rules |-> e.rules]]
          /\ editions' = editions \cup {e} /\ Withdraw({e.subscription})
      BY <1>6, <2>3 DEF Update
    <3>2. TypeOK'
      BY <1>1, <2>1, <2>2, <3>1, WithdrawType DEF TypeOK, outboxVars, workVars, faultVars
    <3> QED
      BY <1>1, <2>2, <3>2, RequestsLeaveOutbox DEF outboxVars
  <2>4. CASE ~VersionMatches(e)
    <3>1. UNCHANGED <<subscriptions, editions, promised>>
      BY <1>6, <2>4 DEF Update
    <3>2. TypeOK'
      BY <1>1, <2>2, <3>1 DEF TypeOK, outboxVars, workVars, faultVars
    <3> QED
      BY <1>1, <2>2, <3>2, RequestsLeaveOutbox DEF outboxVars
  <2> QED
    BY <2>3, <2>4
<1>7. ASSUME NEW c \in Consumer, NEW p \in Preference, Upsert(c, p)
      PROVE  OutboxInv'
  <2>1. TypeOK'
    BY <1>1, <1>7, WithdrawType DEF Upsert, TypeOK, outboxVars, workVars, faultVars
  <2> QED
    BY <1>1, <1>7, <2>1, RequestsLeaveOutbox DEF Upsert, outboxVars
<1> QED
  BY <1>3, <1>4, <1>5, <1>6, <1>7

\* A worker that remembers something is in the middle of its batch.
LEMMA ClaimOutbox ==
  ASSUME MatchingAssumption, OutboxInv, NEW w \in Worker, ClaimUnpublished(w)
  PROVE  OutboxInv'
<1>1. TypeOK /\ OnlyStopsLose /\ IsFiniteSet(alerts)
  BY DEF OutboxInv
<1> DEFINE free == {a \in Alert : Claimable(a)}
<1>2. PICK locked \in SUBSET free :
        /\ Oldest(free \ locked) # {}
        /\ claimed' = claimed \cup Oldest(free \ locked)
        /\ batch' = [batch EXCEPT ![w] = Oldest(free \ locked)]
  BY DEF ClaimUnpublished
<1>3. batch[w] = {} /\ UNCHANGED <<alerts, published, editVars, step, matched, unread, plan,
                                   faultVars, deliveries, promised>>
  BY DEF ClaimUnpublished
<1>4. PICK won : won = Oldest(free \ locked)
  OBVIOUS
<1>5. free \ locked \in SUBSET Nat /\ IsFiniteSet(free \ locked)
  <2>1. free \ locked \in SUBSET alerts
    BY DEF Claimable
  <2>2. IsFiniteSet(free \ locked)
    BY <1>1, <2>1, FS_Subset
  <2> QED
    BY <2>2 DEF MatchingAssumption
<1>6. won \subseteq free /\ Cardinality(won) <= BatchSize
  BY <1>4, <1>5, OldestAreFew
<1>7. won \subseteq Alert /\ won \subseteq alerts /\ won \cap (published \cup claimed) = {}
  BY <1>6 DEF Claimable
<1>8. claimed' = claimed \cup won /\ batch' = [batch EXCEPT ![w] = won]
  BY <1>2, <1>4
<1>9. TypeOK'
  BY <1>1, <1>3, <1>7, <1>8 DEF TypeOK, editVars, faultVars
<1>10. OnlyStopsLose'
  <2>1. batch'[w] = won /\ \A v \in Worker : v # w => batch'[v] = batch[v]
    BY <1>1, <1>8 DEF TypeOK
  <2>2. lost \subseteq claimed /\ \A v \in Worker : batch[v] \subseteq claimed
    BY <1>1 DEF OnlyStopsLose
  <2>3. \A v \in Worker : batch'[v] \cap (published \cup lost) = {}
    BY <1>1, <1>7, <2>1, <2>2 DEF OnlyStopsLose
  <2>4. \A u, v \in Worker : u # v => batch'[u] \cap batch'[v] = {}
    BY <1>1, <1>7, <2>1, <2>2 DEF OnlyStopsLose
  <2>5. UNION {batch'[v] : v \in Worker} = won \cup UNION {batch[v] : v \in Worker}
    BY <1>3, <2>1
  <2>6. claimed' = published \cup lost \cup UNION {batch'[v] : v \in Worker}
    BY <1>1, <1>8, <2>5 DEF OnlyStopsLose
  <2> QED
    BY <1>1, <1>3, <2>3, <2>4, <2>6 DEF OnlyStopsLose, faultVars
<1>11. ASSUME NEW v \in Worker PROVE InStep(v)' /\ Cardinality(batch'[v]) <= BatchSize
  <2>1. CASE v = w
    <3>1. step[w] = "match"
      BY <1>1, <1>3 DEF OutboxInv, InStep, TypeOK
    <3>2. batch'[w] = won
      BY <1>1, <1>8 DEF TypeOK
    <3> QED
      BY <1>3, <1>6, <2>1, <3>1, <3>2 DEF InStep, OutboxInv
  <2>2. CASE v # w
    <3>1. batch'[v] = batch[v]
      BY <1>1, <1>8, <2>2 DEF TypeOK
    <3> QED
      BY <1>3, <3>1 DEF InStep, OutboxInv, IsCurrent
  <2> QED
    BY <2>1, <2>2
<1> QED
  BY <1>1, <1>3, <1>9, <1>10, <1>11 DEF OutboxInv

\* A step inside one event moves no event.
LEMMA ProcessOutbox ==
  ASSUME MatchingAssumption, OutboxInv, NEW w \in Worker,
         \/ Match(w)
         \/ \E c \in Consumer : ReadPreference(w, c)
         \/ \E d \in plan[w] : CreatePlanned(w, d)
  PROVE  OutboxInv'
<1>1. TypeOK /\ OnlyStopsLose /\ IsFiniteSet(alerts)
  BY DEF OutboxInv
<1>2. CASE Match(w)
  <2>1. PICK a \in Alert :
          /\ IsCurrent(w, a)
          /\ matched' = [matched EXCEPT ![w] = ConsumerMatches(a)]
          /\ unread' = [unread EXCEPT ![w] = OwnersOf(ConsumerMatches(a))]
    BY <1>2 DEF Match
  <2>2. ConsumerMatches(a) \in SUBSET MatchedSubscription
    BY <1>1, MatchesType
  <2>3. OwnersOf(ConsumerMatches(a)) \in SUBSET Consumer
    BY <2>2 DEF OwnersOf, MatchedSubscription, MatchingAssumption
  <2>4. step' = [step EXCEPT ![w] = "plan"]
        /\ UNCHANGED <<outboxVars, editVars, batch, plan, faultVars, deliveries, promised>>
    BY <1>2 DEF Match
  <2>5. TypeOK'
    BY <1>1, <2>1, <2>2, <2>3, <2>4 DEF TypeOK, outboxVars, editVars, faultVars
  <2>6. OnlyStopsLose'
    BY <1>1, <2>4 DEF OnlyStopsLose, outboxVars, faultVars
  <2>7. ASSUME NEW v \in Worker PROVE InStep(v)'
    <3>1. CASE v = w
      BY <1>1, <2>1, <2>4, <3>1 DEF InStep, IsCurrent, TypeOK
    <3>2. CASE v # w
      BY <1>1, <2>1, <2>4, <3>2 DEF OutboxInv, InStep, IsCurrent, TypeOK
    <3> QED
      BY <3>1, <3>2
  <2> QED
    BY <1>1, <2>4, <2>5, <2>6, <2>7 DEF OutboxInv, outboxVars
<1>3. ASSUME NEW c \in Consumer, ReadPreference(w, c) PROVE OutboxInv'
  <2>1. PICK a \in Alert :
          /\ IsCurrent(w, a)
          /\ plan' = [plan EXCEPT ![w] =
                        plan[w] \cup PlanFor(a, c, preferences[c], matched[w])]
    BY <1>3 DEF ReadPreference
  <2>2. PlanFor(a, c, preferences[c], matched[w]) \subseteq Delivery
    BY <1>1, PlanForType DEF TypeOK
  <2>3. /\ c \in unread[w] /\ unread' = [unread EXCEPT ![w] = unread[w] \ {c}]
        /\ UNCHANGED <<outboxVars, editVars, batch, step, matched, faultVars, deliveries, promised>>
    BY <1>3 DEF ReadPreference
  <2>4. plan' \in [Worker -> SUBSET Delivery]
    BY <1>1, <2>1, <2>2 DEF TypeOK
  <2>5. TypeOK'
    BY <1>1, <2>3, <2>4 DEF TypeOK, outboxVars, editVars, faultVars
  <2>6. OnlyStopsLose'
    BY <1>1, <2>3 DEF OnlyStopsLose, outboxVars, faultVars
  <2>7. step[w] = "plan"
    BY <1>1, <2>3 DEF OutboxInv, InStep, TypeOK
  <2>8. ASSUME NEW v \in Worker PROVE InStep(v)'
    BY <1>1, <2>1, <2>3, <2>7 DEF OutboxInv, InStep, IsCurrent, TypeOK
  <2> QED
    BY <1>1, <2>3, <2>5, <2>6, <2>8 DEF OutboxInv, outboxVars
<1>4. ASSUME NEW d \in plan[w], CreatePlanned(w, d) PROVE OutboxInv'
  <2>1. d \in Delivery
    BY <1>1 DEF TypeOK
  <2>2. /\ plan' = [plan EXCEPT ![w] = plan[w] \ {d}]
        /\ deliveries' \subseteq deliveries \cup {d}
        /\ UNCHANGED <<outboxVars, editVars, batch, step, matched, unread, faultVars, promised>>
    BY <1>4 DEF CreatePlanned
  <2>3. TypeOK'
    BY <1>1, <2>1, <2>2 DEF TypeOK, outboxVars, editVars, faultVars
  <2>4. OnlyStopsLose'
    BY <1>1, <2>2 DEF OnlyStopsLose, outboxVars, faultVars
  <2>5. ASSUME NEW v \in Worker PROVE InStep(v)'
    BY <1>1, <2>2 DEF OutboxInv, InStep, IsCurrent, TypeOK
  <2> QED
    BY <1>1, <2>2, <2>3, <2>4, <2>5 DEF OutboxInv, outboxVars
<1> QED
  BY <1>2, <1>3, <1>4

\* A published event leaves its batch.
LEMMA PublishOutbox ==
  ASSUME MatchingAssumption, OutboxInv, NEW w \in Worker, MarkPublished(w)
  PROVE  OutboxInv'
<1>1. TypeOK /\ OnlyStopsLose /\ IsFiniteSet(alerts)
  BY DEF OutboxInv
<1>2. PICK a \in Alert : /\ IsCurrent(w, a) /\ published' = published \cup {a}
                         /\ batch' = [batch EXCEPT ![w] = batch[w] \ {a}]
  BY DEF MarkPublished
<1>3. /\ step' = [step EXCEPT ![w] = "match"] /\ matched' = [matched EXCEPT ![w] = {}]
      /\ plan' = [plan EXCEPT ![w] = {}] /\ unread[w] = {}
      /\ UNCHANGED <<alerts, claimed, editVars, unread, faultVars, deliveries, promised>>
  BY DEF MarkPublished, AllWritten
<1>4. a \in batch[w]
  BY <1>2 DEF IsCurrent
<1>5. batch'[w] = batch[w] \ {a} /\ \A v \in Worker : v # w => batch'[v] = batch[v]
  BY <1>1, <1>2 DEF TypeOK
<1>6. a \in claimed /\ a \notin lost /\ \A v \in Worker : v # w => a \notin batch[v]
  BY <1>1, <1>4 DEF OnlyStopsLose
<1>7. TypeOK'
  <2>1. published' \subseteq alerts
    BY <1>1, <1>2, <1>6 DEF TypeOK
  <2> QED
    BY <1>1, <1>2, <1>3, <2>1 DEF TypeOK, editVars, faultVars
<1>8. OnlyStopsLose'
  <2>1. \A v \in Worker : batch'[v] \cap (published' \cup lost) = {}
    BY <1>1, <1>2, <1>5, <1>6 DEF OnlyStopsLose
  <2>2. \A u, v \in Worker : u # v => batch'[u] \cap batch'[v] = {}
    BY <1>1, <1>5 DEF OnlyStopsLose
  <2>3. UNION {batch[v] : v \in Worker} = {a} \cup UNION {batch'[v] : v \in Worker}
    BY <1>4, <1>5
  <2>4. claimed = published' \cup lost \cup UNION {batch'[v] : v \in Worker}
    BY <1>1, <1>2, <2>3 DEF OnlyStopsLose
  <2> QED
    BY <1>1, <1>2, <1>3, <1>6, <2>1, <2>2, <2>4 DEF OnlyStopsLose, faultVars
<1>9. ASSUME NEW v \in Worker PROVE InStep(v)' /\ Cardinality(batch'[v]) <= BatchSize
  <2>1. CASE v = w
    <3>1. batch[w] \in SUBSET alerts
      BY <1>1 DEF OnlyStopsLose, TypeOK
    <3>2. IsFiniteSet(batch[w])
      BY <1>1, <3>1, FS_Subset
    <3>3. Cardinality(batch[w] \ {a}) = Cardinality(batch[w]) - 1
      BY <1>4, <3>2, FS_RemoveElement
    <3>4. Cardinality(batch[w]) \in Nat /\ Cardinality(batch[w]) <= BatchSize
      BY <3>2, FS_CardinalityType DEF OutboxInv
    <3>5. Cardinality(batch'[w]) <= BatchSize
      BY <1>5, <3>3, <3>4 DEF MatchingAssumption
    <3>6. InStep(w)'
      BY <1>1, <1>3 DEF InStep, TypeOK
    <3> QED
      BY <2>1, <3>5, <3>6
  <2>2. CASE v # w
    BY <1>1, <1>3, <1>5, <2>2 DEF OutboxInv, InStep, IsCurrent, TypeOK
  <2> QED
    BY <2>1, <2>2
<1> QED
  BY <1>1, <1>3, <1>7, <1>8, <1>9 DEF OutboxInv

\* A worker that stops loses what it held, at most a batch.
LEMMA AbortOutbox ==
  ASSUME MatchingAssumption, OutboxInv, NEW w \in Worker, Abort(w)
  PROVE  OutboxInv'
<1>1. TypeOK /\ OnlyStopsLose /\ IsFiniteSet(alerts)
  BY DEF OutboxInv
<1>2. /\ faults < MaxFaults /\ faults' = faults + 1 /\ lost' = lost \cup batch[w]
      /\ batch' = [batch EXCEPT ![w] = {}] /\ step' = [step EXCEPT ![w] = "match"]
      /\ matched' = [matched EXCEPT ![w] = {}] /\ unread' = [unread EXCEPT ![w] = {}]
      /\ plan' = [plan EXCEPT ![w] = {}]
      /\ UNCHANGED <<outboxVars, editVars, deliveries, promised>>
  BY DEF Abort
<1>3. batch'[w] = {} /\ \A v \in Worker : v # w => batch'[v] = batch[v]
  BY <1>1, <1>2 DEF TypeOK
<1>4. TypeOK'
  <2>1. faults' \in 0..MaxFaults
    BY <1>1, <1>2 DEF TypeOK, MatchingAssumption
  <2> QED
    BY <1>1, <1>2, <2>1 DEF TypeOK, outboxVars, editVars
<1>5. OnlyStopsLose'
  <2>1. \A v \in Worker : batch'[v] \cap (published \cup lost') = {}
    BY <1>1, <1>2, <1>3 DEF OnlyStopsLose
  <2>2. \A u, v \in Worker : u # v => batch'[u] \cap batch'[v] = {}
    BY <1>1, <1>3 DEF OnlyStopsLose
  <2>3. UNION {batch[v] : v \in Worker} = batch[w] \cup UNION {batch'[v] : v \in Worker}
    BY <1>3
  <2>4. claimed = published \cup lost' \cup UNION {batch'[v] : v \in Worker}
    BY <1>1, <1>2, <2>3 DEF OnlyStopsLose
  <2>5. published \cap lost' = {}
    BY <1>1, <1>2 DEF OnlyStopsLose
  <2>6. Cardinality(lost') <= faults' * BatchSize
    <3>1. lost \in SUBSET alerts /\ batch[w] \in SUBSET alerts
      BY <1>1 DEF OnlyStopsLose, TypeOK
    <3>2. /\ IsFiniteSet(lost) /\ IsFiniteSet(batch[w]) /\ IsFiniteSet(lost \cap batch[w])
      BY <1>1, <3>1, FS_Subset, FS_Intersection
    <3>3. Cardinality(lost) \in Nat /\ Cardinality(batch[w]) \in Nat
          /\ Cardinality(lost \cap batch[w]) \in Nat
      BY <3>2, FS_CardinalityType
    <3>4. Cardinality(lost \cup batch[w])
             = Cardinality(lost) + Cardinality(batch[w]) - Cardinality(lost \cap batch[w])
      BY <3>2, FS_Union
    <3>5. Cardinality(lost) <= faults * BatchSize /\ Cardinality(batch[w]) <= BatchSize
      BY <1>1 DEF OnlyStopsLose, OutboxInv
    <3>6. faults \in Nat /\ BatchSize \in Nat
      BY <1>1 DEF TypeOK, MatchingAssumption
    <3>7. (faults + 1) * BatchSize = faults * BatchSize + BatchSize
      BY <3>6, Z3
    <3>8. faults * BatchSize \in Nat
      BY <3>6, Z3
    <3> QED
      BY <1>2, <3>3, <3>4, <3>5, <3>6, <3>7, <3>8
  <2> QED
    BY <1>2, <2>1, <2>2, <2>4, <2>5, <2>6 DEF OnlyStopsLose, outboxVars
<1>6. ASSUME NEW v \in Worker PROVE InStep(v)' /\ Cardinality(batch'[v]) <= BatchSize
  <2>1. CASE v = w
    <3>1. InStep(w)'
      BY <1>1, <1>2 DEF InStep, TypeOK
    <3>2. Cardinality(batch'[w]) = 0
      BY <1>3, FS_EmptySet
    <3>3. BatchSize \in Nat
      BY DEF MatchingAssumption
    <3>4. Cardinality(batch'[w]) <= BatchSize
      BY <3>2, <3>3
    <3> QED
      BY <2>1, <3>1, <3>4
  <2>2. CASE v # w
    BY <1>1, <1>2, <1>3, <2>2 DEF OutboxInv, InStep, IsCurrent, TypeOK
  <2> QED
    BY <2>1, <2>2
<1> QED
  BY <1>1, <1>2, <1>4, <1>5, <1>6 DEF OutboxInv, outboxVars

\* Every step keeps the events where they belong.
LEMMA OutboxStep ==
  ASSUME MatchingAssumption, OutboxInv, [Next]_vars
  PROVE  OutboxInv'
<1>1. CASE UNCHANGED vars
  BY <1>1
  DEF vars, outboxVars, editVars, workVars, faultVars, OutboxInv, TypeOK, OnlyStopsLose,
      InStep, IsCurrent
<1>2. ASSUME NEW a \in Alert, CreateAlert(a) PROVE OutboxInv'
  BY <1>2, CreateAlertOutbox
<1>3. CASE \/ \E s \in Subscription :
                \/ Delete(s)
                \/ \E rules \in RuleSet : CreateSubscription(s, rules)
                \/ \E rules \in RuleSet, r \in Request : LoadForUpdate(r, s, rules)
           \/ \E r \in Request : Update(r)
           \/ \E c \in Consumer, p \in Preference : Upsert(c, p)
  BY <1>3, EditsOutbox
<1>4. ASSUME NEW w \in Worker, WorkerStep(w) \/ Abort(w) PROVE OutboxInv'
  BY <1>4, ClaimOutbox, ProcessOutbox, PublishOutbox, AbortOutbox
  DEF WorkerStep, EventStep
<1> QED
  BY <1>1, <1>2, <1>3, <1>4 DEF Next

\* A claimed event is with one worker, published, or lost with the worker that held it, and one
\* stop loses at most a batch (claim_unpublished, mark_published, process_batch).
THEOREM OutboxInvariant == Spec => []OutboxInv
<1>1. MatchingAssumption
  BY MatchingAssumption
<1>2. Init => OutboxInv
  BY <1>1, OutboxInit
<1>3. OutboxInv /\ [Next]_vars => OutboxInv'
  BY <1>1, OutboxStep
<1> QED
  BY <1>2, <1>3, PTL DEF Spec

-----------------------------------------------------------------------------
(* Layer 2: what is planned for an alert. *)

\* The worker has matched this alert and is writing, or about to write, its deliveries.
Working(w, a) == step[w] = "plan" /\ IsCurrent(w, a)

Of(D, a, c) == {d \in D : d.alert = a /\ d.consumer = c}

\* Nothing, or what one preference asks for.
PlannedAsOne(D, a, c) ==
  \/ Of(D, a, c) = {}
  \/ \E p \in Preference, ms \in SUBSET MatchedSubscription : Of(D, a, c) = PlanFor(a, c, p, ms)

\* As in DeliveriesExplained, for one delivery.
Explained(d) ==
  /\ d.matching # {}
  /\ \A m \in d.matching :
       /\ owner[m.subscription] = d.consumer
       /\ \E e \in editions : /\ e.subscription = m.subscription
                              /\ e.version = m.version
                              /\ d.alert \in e.rules

\* The stored version is the newest of its subscription, and has its rules on record.
EditionsKept ==
  /\ \A e, f \in editions :
       e.subscription = f.subscription /\ e.version = f.version => e = f
  /\ \A s \in Subscription : Exists(s) =>
       /\ s \notin deleted
       /\ \E e \in editions : /\ e.subscription = s /\ e.version = subscriptions[s].version
                              /\ e.rules = subscriptions[s].rules
  /\ \A e \in editions :
       \/ e.subscription \in deleted
       \/ Exists(e.subscription) /\ e.version <= subscriptions[e.subscription].version

\* Deliveries of an event a worker still has were written by that worker, after all reading.
Placed(d) ==
  /\ d.alert \in claimed
  /\ \A w \in Worker : d.alert \in batch[w] => Working(w, d.alert) /\ unread[w] = {}

\* Written and planned deliveries of the current alert are, for each consumer, what one
\* preference asks for, and the written ones come first.
InPlan(w) ==
  /\ unread[w] \subseteq OwnersOf(matched[w])
  /\ \A a \in Alert : Working(w, a) =>
       /\ \A m \in matched[w] :
            \E e \in editions : /\ e.subscription = m.subscription
                                /\ e.version = m.version
                                /\ a \in e.rules
       /\ \A c \in Consumer : PlannedAsOne(deliveries \cup plan[w], a, c)
  /\ \A d \in plan[w] :
       /\ Working(w, d.alert) /\ Explained(d) /\ d.consumer \notin unread[w]
       /\ \A e \in deliveries :
            e.alert = d.alert /\ e.consumer = d.consumer => e.tier <= d.tier

PlanInv ==
  /\ EditionsKept
  /\ TiersFromOnePreference
  /\ \A d \in deliveries : Placed(d) /\ Explained(d)
  /\ \A w \in Worker : InPlan(w)

\* A batch has one current event.
LEMMA OneCurrent ==
  ASSUME MatchingAssumption, TypeOK, NEW w \in Worker, NEW a, NEW b,
         IsCurrent(w, a), IsCurrent(w, b)
  PROVE  a = b
<1>1. a \in Nat /\ b \in Nat /\ a <= b /\ b <= a
  BY DEF IsCurrent, TypeOK, MatchingAssumption
<1> QED
  BY <1>1

\* The matches of one consumer.
Theirs(ms, c) == {m \in ms : owner[m.subscription] = c}

\* A preference as they are stored.
UsablePreference(p) == p # NoPreference /\ p.channels \in Seq(Endpoint) /\ WellFormed(p)

\* What one preference asks for (DeliveryPreference::tiers): each endpoint once, each rank above
\* the first once, and no rank without the ones below.
LEMMA PlanForRanks ==
  ASSUME NEW a, NEW c, NEW p, UsablePreference(p), NEW ms,
         NEW d \in PlanFor(a, c, p, ms)
  PROVE  /\ d.alert = a /\ d.consumer = c /\ d.tier \in Nat
         /\ d.matching = Theirs(ms, c)
         /\ \A e \in PlanFor(a, c, p, ms) :
              /\ d.endpoint = e.endpoint => d = e
              /\ d.tier = e.tier => d = e \/ d.tier = 0
         /\ \A k \in 0 .. d.tier : \E e \in PlanFor(a, c, p, ms) : e.tier = k
         /\ d.tier > 0 => \A e, f \in PlanFor(a, c, p, ms) : e.tier = f.tier => e = f
<1> DEFINE rank(i) == IF p.strategy = "ALL" THEN 0 ELSE i - 1
           row(i) == [alert |-> a, consumer |-> c, endpoint |-> p.channels[i],
                      tier |-> rank(i), matching |-> {m \in ms : owner[m.subscription] = c}]
<1>1. p # NoPreference /\ p.channels \in Seq(Endpoint) /\ WellFormed(p)
  BY DEF UsablePreference
<1>2. DOMAIN p.channels = 1 .. Len(p.channels) /\ Len(p.channels) \in Nat
  BY <1>1
<1>3. \A e : e \in PlanFor(a, c, p, ms) <=> \E i \in DOMAIN p.channels : e = row(i)
  <2> DEFINE shown(t) == [alert |-> a, consumer |-> c, endpoint |-> t.endpoint, tier |-> t.tier,
                          matching |-> {m \in ms : owner[m.subscription] = c}]
             asked(j) == [endpoint |-> p.channels[j], tier |-> rank(j)]
  <2>1. \A t : t \in Tiers(p) <=> \E j \in DOMAIN p.channels : t = asked(j)
    BY DEF Tiers
  <2>2. \A e : e \in PlanFor(a, c, p, ms) <=> \E t \in Tiers(p) : e = shown(t)
    BY <1>1 DEF PlanFor
  <2>3. \A j : shown(asked(j)) = row(j)
    OBVIOUS
  <2> HIDE DEF rank, row, shown, asked
  <2> QED
    BY <2>1, <2>2, <2>3
<1>4. PICK i \in DOMAIN p.channels : d = row(i)
  BY <1>3
<1>5. d.alert = a /\ d.consumer = c /\ d.tier = rank(i)
      /\ d.matching = Theirs(ms, c)
  BY <1>4 DEF Theirs
<1>6. i \in Nat \ {0} /\ rank(i) \in Nat
  BY <1>2
<1>7. ASSUME NEW e \in PlanFor(a, c, p, ms)
      PROVE  /\ d.endpoint = e.endpoint => d = e
             /\ d.tier = e.tier => d = e \/ d.tier = 0
  <2>1. PICK j \in DOMAIN p.channels : e = row(j)
    BY <1>3
  <2>2. j \in Nat \ {0}
    BY <1>2
  <2>3. ASSUME p.channels[i] = p.channels[j] PROVE i = j
    BY <1>1, <1>4, <2>1, <2>3 DEF WellFormed
  <2>4. ASSUME rank(i) = rank(j) PROVE i = j \/ rank(i) = 0
    BY <1>6, <2>2, <2>4
  <2> QED
    BY <1>4, <2>1, <2>3, <2>4
<1>8. ASSUME NEW k \in 0 .. d.tier
      PROVE  \E e \in PlanFor(a, c, p, ms) : e.tier = k
  <2>1. CASE p.strategy = "ALL"
    <3>1. k = d.tier
      BY <1>5, <1>8, <2>1
    <3> QED
      BY <3>1
  <2>2. CASE p.strategy # "ALL"
    <3>1. k + 1 \in DOMAIN p.channels
      BY <1>2, <1>5, <1>6, <1>8, <2>2
    <3>2. row(k + 1) \in PlanFor(a, c, p, ms)
      BY <1>3, <3>1
    <3>3. k \in Int /\ rank(k + 1) = k
      BY <1>5, <1>6, <1>8, <2>2
    <3>4. row(k + 1).tier = rank(k + 1)
      OBVIOUS
    <3> QED
      BY <3>2, <3>3, <3>4
  <2> QED
    BY <2>1, <2>2
<1>9. ASSUME d.tier > 0, NEW e \in PlanFor(a, c, p, ms), NEW f \in PlanFor(a, c, p, ms),
             e.tier = f.tier
      PROVE  e = f
  <2>1. PICK j \in DOMAIN p.channels : e = row(j)
    BY <1>3
  <2>2. PICK k \in DOMAIN p.channels : f = row(k)
    BY <1>3
  <2>3. p.strategy # "ALL"
    <3>1. rank(i) > 0
      BY <1>5, <1>9
    <3> QED
      BY <3>1
  <2>4. j \in Nat /\ k \in Nat /\ e.tier = j - 1 /\ f.tier = k - 1
    BY <1>2, <2>1, <2>2, <2>3
  <2>5. j = k
    <3>1. e.tier = f.tier
      BY <1>9
    <3>2. j - 1 = k - 1 /\ j \in Int /\ k \in Int
      BY <2>4, <3>1
    <3> QED
      BY <3>2
  <2> QED
    BY <2>1, <2>2, <2>5
<1> HIDE DEF rank, row
<1> QED
  BY <1>5, <1>6, <1>7, <1>8, <1>9

\* An explanation stays one: editions are only added.
LEMMA ExplainedStays ==
  ASSUME NEW d, Explained(d), editions \subseteq editions'
  PROVE  Explained(d)'
BY DEF Explained

\* A worker that does not move, seen from a step that leaves its alerts alone.
LEMMA OtherInPlan ==
  ASSUME TypeOK, NEW w \in Worker, InPlan(w), editions \subseteq editions',
         batch'[w] = batch[w], step'[w] = step[w], matched'[w] = matched[w],
         unread'[w] = unread[w], plan'[w] = plan[w], deliveries \subseteq deliveries',
         \A d \in deliveries' \ deliveries : d.alert \notin batch[w]
  PROVE  InPlan(w)'
<1>1. \A a : Working(w, a)' <=> Working(w, a)
  BY DEF Working, IsCurrent
<1>2. \A a : Working(w, a) => a \in batch[w]
  BY DEF Working, IsCurrent
<1>3. ASSUME NEW a \in Alert, Working(w, a), NEW c \in Consumer
      PROVE  Of(deliveries' \cup plan'[w], a, c) = Of(deliveries \cup plan[w], a, c)
  BY <1>2, <1>3 DEF Of
<1>4. (unread[w] \subseteq OwnersOf(matched[w]))'
  BY DEF InPlan, OwnersOf
<1>5. ASSUME NEW a \in Alert, Working(w, a)'
      PROVE  /\ \A m \in matched'[w] :
                  \E e \in editions' : /\ e.subscription = m.subscription
                                       /\ e.version = m.version
                                       /\ a \in e.rules
             /\ \A c \in Consumer : PlannedAsOne(deliveries \cup plan[w], a, c)'
  <2>1. Working(w, a)
    BY <1>1, <1>5
  <2>2. \A c \in Consumer : PlannedAsOne(deliveries \cup plan[w], a, c)
    BY <2>1 DEF InPlan
  <2>3. \A c \in Consumer : PlannedAsOne(deliveries \cup plan[w], a, c)'
    BY <1>3, <2>1, <2>2 DEF PlannedAsOne
  <2> QED
    BY <2>1, <2>3 DEF InPlan
<1>6. ASSUME NEW d \in plan'[w]
      PROVE  /\ Working(w, d.alert)' /\ Explained(d)' /\ d.consumer \notin unread'[w]
             /\ \A e \in deliveries' :
                  e.alert = d.alert /\ e.consumer = d.consumer => e.tier <= d.tier
  <2>1. d \in plan[w] /\ Working(w, d.alert) /\ Explained(d) /\ d.consumer \notin unread[w]
    BY <1>6 DEF InPlan
  <2>2. d.alert \in batch[w]
    BY <1>2, <2>1
  <2>3. \A e \in deliveries' : e.alert = d.alert => e \in deliveries
    BY <2>2
  <2> QED
    BY <1>1, <2>1, <2>3, ExplainedStays DEF InPlan
<1> QED
  BY <1>4, <1>5, <1>6 DEF InPlan

\* Requests of the API: only editions change, and only by growing.
LEMMA RequestsLeavePlans ==
  ASSUME OutboxInv, PlanInv, EditionsKept', editions \subseteq editions',
         UNCHANGED <<claimed, deliveries, workVars>>
  PROVE  PlanInv'
<1>1. TypeOK
  BY DEF OutboxInv
<1>2. \A w \in Worker : InPlan(w)'
  BY <1>1, OtherInPlan DEF PlanInv, workVars
<1>3. \A d \in deliveries : Placed(d)'
  BY DEF PlanInv, Placed, Working, IsCurrent, workVars
<1>4. TiersFromOnePreference'
  BY DEF PlanInv, TiersFromOnePreference
<1> QED
  BY <1>2, <1>3, <1>4, ExplainedStays DEF PlanInv

\* Without an edit there is nothing to see.
LEMMA NoEditPlans ==
  ASSUME MatchingAssumption, OutboxInv, PlanInv,
         \/ \E a \in Alert : CreateAlert(a)
         \/ \E s \in Subscription, rules \in RuleSet, r \in Request : LoadForUpdate(r, s, rules)
         \/ \E c \in Consumer, p \in Preference : Upsert(c, p)
         \/ UNCHANGED vars
  PROVE  PlanInv'
<1>1. UNCHANGED <<claimed, deliveries, workVars, subscriptions, deleted, editions>>
  BY DEF CreateAlert, LoadForUpdate, Upsert, vars, outboxVars, editVars
<1>2. EditionsKept'
  BY <1>1 DEF PlanInv, EditionsKept, Exists
<1> QED
  BY <1>1, <1>2, RequestsLeavePlans

\* A version is given to one rule set: a new one is newer than all there were
\* (PostgresSubscriptionRepository::update).
LEMMA EditPlans ==
  ASSUME MatchingAssumption, OutboxInv, PlanInv,
         \/ \E s \in Subscription :
              Delete(s) \/ \E rules \in RuleSet : CreateSubscription(s, rules)
         \/ \E r \in Request : Update(r)
  PROVE  PlanInv'
<1>1. TypeOK /\ EditionsKept
  BY DEF OutboxInv, PlanInv
<1>2. \A s \in Subscription : subscriptions[s].version \in Nat
  BY <1>1 DEF TypeOK, SubscriptionRow, MatchingAssumption
<1>e. \A e \in editions : e.subscription \in Subscription /\ e.version \in Nat \ {0}
  BY <1>1 DEF TypeOK, Edition
<1>3. ASSUME NEW s \in Subscription, Delete(s) PROVE PlanInv'
  <2>1. /\ subscriptions' = [subscriptions EXCEPT ![s] = NoSubscription]
        /\ deleted' = deleted \cup {s} /\ editions' = editions
        /\ UNCHANGED <<claimed, deliveries, workVars>>
    BY <1>3 DEF Delete, outboxVars
  <2>2. subscriptions'[s].version = 0
        /\ \A t \in Subscription : t # s => subscriptions'[t] = subscriptions[t]
    BY <1>1, <2>1 DEF TypeOK, NoSubscription
  <2>3. ~Exists(s)' /\ \A t \in Subscription : t # s => (Exists(t)' <=> Exists(t))
    BY <2>2 DEF Exists
  <2>4. EditionsKept'
    BY <1>1, <1>e, <2>1, <2>2, <2>3 DEF EditionsKept
  <2> QED
    BY <2>1, <2>4, RequestsLeavePlans
<1>4. ASSUME NEW s \in Subscription, NEW n \in Nat \ {0}, NEW rules \in RuleSet,
             NEW e, e = [subscription |-> s, version |-> n, rules |-> rules],
             s \notin deleted, n > subscriptions[s].version,
             subscriptions' = [subscriptions EXCEPT ![s] = [version |-> n, rules |-> rules]],
             editions' = editions \cup {e}, deleted' = deleted
      PROVE  EditionsKept'
  <2>1. subscriptions'[s].version = n /\ subscriptions'[s].rules = rules
        /\ \A t \in Subscription : t # s => subscriptions'[t] = subscriptions[t]
    BY <1>1, <1>4 DEF TypeOK
  <2>2. Exists(s)' /\ \A t \in Subscription : t # s => (Exists(t)' <=> Exists(t))
    BY <2>1 DEF Exists
  <2>3. \A f \in editions : f.subscription = s => f.version < n
    <3>1. ASSUME NEW f \in editions, f.subscription = s PROVE f.version < n
      <4>1. f.version <= subscriptions[s].version
        BY <1>1, <1>4, <3>1 DEF EditionsKept
      <4>2. f.version \in Nat /\ subscriptions[s].version \in Nat
        BY <1>2, <1>e, <3>1
      <4> QED
        BY <1>4, <4>1, <4>2
    <3> QED
      BY <3>1
  <2>4. e.subscription = s /\ e.version = n /\ e.rules = rules
    BY <1>4
  <2>5. ASSUME NEW f \in editions', NEW g \in editions', f.subscription = g.subscription,
               f.version = g.version
        PROVE  f = g
    <3>1. CASE f \in editions /\ g \in editions
      BY <1>1, <2>5, <3>1 DEF EditionsKept
    <3>2. ASSUME NEW h \in editions, h.subscription = s PROVE h.version # n
      BY <1>e, <2>3, <3>2
    <3>3. CASE f = e \/ g = e
      BY <1>4, <2>4, <2>5, <3>2, <3>3
    <3> QED
      BY <1>4, <3>1, <3>3
  <2>6. ASSUME NEW t \in Subscription, Exists(t)'
        PROVE  /\ t \notin deleted'
               /\ \E f \in editions' :
                    /\ f.subscription = t /\ f.version = subscriptions'[t].version
                    /\ f.rules = subscriptions'[t].rules
    BY <1>1, <1>4, <2>1, <2>2, <2>4, <2>6 DEF EditionsKept
  <2>7. ASSUME NEW f \in editions'
        PROVE  \/ f.subscription \in deleted'
               \/ Exists(f.subscription)' /\ f.version <= subscriptions'[f.subscription].version
    <3>1. CASE f = e
      BY <2>1, <2>2, <2>4, <3>1
    <3>2. CASE f \in editions /\ f.subscription = s
      <4>1. f.version < n /\ f.version \in Nat
        BY <1>e, <2>3, <3>2
      <4> QED
        BY <2>1, <2>2, <3>2, <4>1
    <3>3. CASE f \in editions /\ f.subscription # s
      BY <1>1, <1>4, <1>e, <2>1, <2>2, <3>3 DEF EditionsKept
    <3> QED
      BY <1>4, <3>1, <3>2, <3>3
  <2> QED
    BY <2>5, <2>6, <2>7 DEF EditionsKept
<1>5. ASSUME NEW s \in Subscription, NEW rules \in RuleSet, CreateSubscription(s, rules)
      PROVE  PlanInv'
  <2>1. PICK e : e = [subscription |-> s, version |-> 1, rules |-> rules]
    OBVIOUS
  <2>2. /\ s \notin deleted /\ ~Exists(s)
        /\ subscriptions' = [subscriptions EXCEPT ![s] = [version |-> 1, rules |-> rules]]
        /\ editions' = editions \cup {e} /\ deleted' = deleted
        /\ UNCHANGED <<claimed, deliveries, workVars>>
    BY <1>5, <2>1 DEF CreateSubscription, outboxVars
  <2>3. 1 > subscriptions[s].version
    BY <1>2, <2>2 DEF Exists
  <2>4. EditionsKept'
    <3> PICK n \in Nat \ {0} : n = 1
      OBVIOUS
    <3> QED
      BY <1>4, <2>1, <2>2, <2>3
  <2> QED
    BY <2>2, <2>4, RequestsLeavePlans
<1>6. ASSUME NEW r \in Request, Update(r) PROVE PlanInv'
  <2> PICK e \in Edit : e = editing[r]
    BY <1>1, <1>6 DEF Update, TypeOK
  <2>1. UNCHANGED <<claimed, deliveries, workVars, deleted>>
    BY <1>6 DEF Update, outboxVars
  <2>2. CASE VersionMatches(e)
    <3>1. /\ subscriptions' = [subscriptions EXCEPT ![e.subscription] =
                                   [version |-> e.version, rules |-> e.rules]]
          /\ editions' = editions \cup {e}
      BY <1>6, <2>2 DEF Update
    <3>2. /\ e.subscription \in Subscription /\ e.version \in Nat \ {0} /\ e.rules \in RuleSet
          /\ e = [subscription |-> e.subscription, version |-> e.version, rules |-> e.rules]
      BY DEF Edit
    <3>3. e.subscription \notin deleted /\ e.version > subscriptions[e.subscription].version
      BY <1>1, <1>2, <2>2, <3>2 DEF VersionMatches, EditionsKept
    <3>4. EditionsKept'
      BY <1>4, <2>1, <3>1, <3>2, <3>3
    <3> QED
      BY <2>1, <3>1, <3>4, RequestsLeavePlans
  <2>3. CASE ~VersionMatches(e)
    <3>1. UNCHANGED <<subscriptions, editions>>
      BY <1>6, <2>3 DEF Update
    <3>2. EditionsKept'
      BY <1>1, <2>1, <3>1 DEF EditionsKept, Exists
    <3> QED
      BY <2>1, <3>1, <3>2, RequestsLeavePlans
  <2> QED
    BY <2>2, <2>3
<1> QED
  BY <1>3, <1>5, <1>6

\* Without an edit or a delivery, what is said of editions and of what is written stays true.
LEMMA NoNews ==
  ASSUME PlanInv, UNCHANGED <<editVars, deliveries>>
  PROVE  EditionsKept' /\ TiersFromOnePreference' /\ \A d \in deliveries : Explained(d)'
<1>1. UNCHANGED <<subscriptions, deleted, editions, deliveries>>
  BY DEF editVars
<1>2. EditionsKept'
  BY <1>1 DEF PlanInv, EditionsKept, Exists
<1>3. TiersFromOnePreference'
  BY <1>1 DEF PlanInv, TiersFromOnePreference
<1>4. \A d \in deliveries : Explained(d)'
  BY <1>1, ExplainedStays DEF PlanInv
<1> QED
  BY <1>2, <1>3, <1>4

\* A claimed batch has no deliveries yet.
LEMMA ClaimPlans ==
  ASSUME MatchingAssumption, OutboxInv, PlanInv, NEW w \in Worker, ClaimUnpublished(w)
  PROVE  PlanInv'
<1>1. TypeOK
  BY DEF OutboxInv
<1>2. PICK won : /\ won \subseteq {a \in Alert : Claimable(a)}
                 /\ claimed' = claimed \cup won /\ batch' = [batch EXCEPT ![w] = won]
  BY DEF ClaimUnpublished, Oldest
<1>3. /\ batch[w] = {}
      /\ UNCHANGED <<alerts, published, editVars, step, matched, unread, plan, faultVars,
                     deliveries, promised>>
  BY DEF ClaimUnpublished
<1>4. step[w] = "match" /\ matched[w] = {} /\ unread[w] = {} /\ plan[w] = {}
  BY <1>1, <1>3 DEF OutboxInv, InStep, TypeOK
<1>5. batch'[w] = won /\ \A v \in Worker : v # w => batch'[v] = batch[v]
  BY <1>1, <1>2 DEF TypeOK
<1>6. EditionsKept' /\ TiersFromOnePreference' /\ \A d \in deliveries : Explained(d)'
  BY <1>3, NoNews
<1>7. ASSUME NEW d \in deliveries PROVE Placed(d)'
  <2>1. d.alert \in claimed
    BY DEF PlanInv, Placed
  <2>2. d.alert \notin won
    BY <1>2, <2>1 DEF Claimable
  <2> QED
    BY <1>2, <1>3, <1>5, <2>1, <2>2 DEF PlanInv, Placed, Working, IsCurrent
<1>8. ASSUME NEW v \in Worker PROVE InPlan(v)'
  <2>1. CASE v = w
    BY <1>3, <1>4, <2>1 DEF InPlan, Working
  <2>2. CASE v # w
    BY <1>1, <1>3, <1>5, <2>2, OtherInPlan DEF PlanInv, editVars
  <2> QED
    BY <2>1, <2>2
<1> QED
  BY <1>3, <1>6, <1>7, <1>8 DEF PlanInv

\* What matching finds is explained by the editions it was read from.
LEMMA MatchPlans ==
  ASSUME MatchingAssumption, OutboxInv, PlanInv, NEW w \in Worker, Match(w)
  PROVE  PlanInv'
<1>1. TypeOK
  BY DEF OutboxInv
<1>2. PICK a \in Alert : /\ IsCurrent(w, a)
                         /\ matched' = [matched EXCEPT ![w] = ConsumerMatches(a)]
                         /\ unread' = [unread EXCEPT ![w] = OwnersOf(ConsumerMatches(a))]
  BY DEF Match
<1>3. step[w] = "match" /\ step' = [step EXCEPT ![w] = "plan"]
      /\ UNCHANGED <<outboxVars, editVars, batch, plan, faultVars, deliveries, promised>>
  BY DEF Match
<1>4. plan[w] = {}
  BY <1>3 DEF OutboxInv, InStep
<1>5. /\ step'[w] = "plan" /\ matched'[w] = ConsumerMatches(a)
      /\ unread'[w] = OwnersOf(ConsumerMatches(a))
      /\ \A v \in Worker : v # w => /\ step'[v] = step[v] /\ matched'[v] = matched[v]
                                    /\ unread'[v] = unread[v]
  BY <1>1, <1>2, <1>3 DEF TypeOK
<1>6. EditionsKept' /\ TiersFromOnePreference' /\ \A d \in deliveries : Explained(d)'
  BY <1>3, NoNews
<1>7. \A d \in deliveries : d.alert \notin batch[w]
  BY <1>3 DEF PlanInv, Placed, Working
<1>8. ASSUME NEW d \in deliveries PROVE Placed(d)'
  BY <1>3, <1>5, <1>7 DEF PlanInv, Placed, Working, IsCurrent, outboxVars
<1>9. InPlan(w)'
  <2>1. (unread[w] \subseteq OwnersOf(matched[w]))'
    BY <1>5 DEF OwnersOf
  <2>2. ASSUME NEW b \in Alert, Working(w, b)'
        PROVE  /\ \A m \in matched'[w] :
                    \E e \in editions' : /\ e.subscription = m.subscription
                                         /\ e.version = m.version
                                         /\ b \in e.rules
               /\ \A c \in Consumer : PlannedAsOne(deliveries \cup plan[w], b, c)'
    <3>1. IsCurrent(w, b) /\ b = a
      BY <1>1, <1>2, <1>3, <2>2, OneCurrent DEF Working, IsCurrent
    <3>2. \A m \in ConsumerMatches(a) :
            \E e \in editions : /\ e.subscription = m.subscription
                                /\ e.version = m.version
                                /\ a \in e.rules
      BY DEF ConsumerMatches, Matches, PlanInv, EditionsKept
    <3>3. \A c \in Consumer : Of(deliveries \cup plan[w], a, c) = {}
      BY <1>2, <1>4, <1>7 DEF Of, IsCurrent
    <3>4. \A c \in Consumer : PlannedAsOne(deliveries \cup plan[w], a, c)'
      BY <1>3, <3>3 DEF PlannedAsOne
    <3> QED
      BY <1>3, <1>5, <3>1, <3>2, <3>4 DEF editVars
  <2> QED
    BY <1>3, <1>4, <2>1, <2>2 DEF InPlan
<1>10. ASSUME NEW v \in Worker, v # w PROVE InPlan(v)'
  BY <1>1, <1>3, <1>5, <1>10, OtherInPlan DEF PlanInv, editVars
<1> QED
  BY <1>3, <1>6, <1>8, <1>9, <1>10 DEF PlanInv

\* A preference that is read adds all of its tiers to the plan, explained by the matches.
LEMMA ReadPlans ==
  ASSUME MatchingAssumption, OutboxInv, PlanInv, NEW w \in Worker, NEW c \in Consumer,
         ReadPreference(w, c)
  PROVE  PlanInv'
<1>1. TypeOK
  BY DEF OutboxInv
<1>2. PICK a \in Alert :
        /\ IsCurrent(w, a)
        /\ plan' = [plan EXCEPT ![w] = plan[w] \cup PlanFor(a, c, preferences[c], matched[w])]
  BY DEF ReadPreference
<1> DEFINE new == PlanFor(a, c, preferences[c], matched[w])
<1>3. /\ c \in unread[w] /\ unread' = [unread EXCEPT ![w] = unread[w] \ {c}]
      /\ UNCHANGED <<outboxVars, editVars, batch, step, matched, faultVars, deliveries, promised>>
  BY DEF ReadPreference
<1>4. step[w] = "plan" /\ Working(w, a) /\ a \in batch[w]
  BY <1>1, <1>2, <1>3 DEF OutboxInv, InStep, TypeOK, Working, IsCurrent
<1>5. /\ unread'[w] = unread[w] \ {c} /\ plan'[w] = plan[w] \cup new
      /\ \A v \in Worker : v # w => unread'[v] = unread[v] /\ plan'[v] = plan[v]
  BY <1>1, <1>2, <1>3 DEF TypeOK
<1>6. EditionsKept' /\ TiersFromOnePreference' /\ \A d \in deliveries : Explained(d)'
  BY <1>3, NoNews
<1>7. \A d \in deliveries : d.alert \notin batch[w]
  BY <1>3 DEF PlanInv, Placed
<1>8. ASSUME NEW d \in deliveries PROVE Placed(d)'
  BY <1>3, <1>5, <1>7 DEF PlanInv, Placed, Working, IsCurrent, outboxVars
<1>9. ASSUME NEW d \in new
      PROVE  d.alert = a /\ d.consumer = c /\ preferences[c] \in Preference /\ Explained(d)
  <2>1. preferences[c] \in Preference
    BY <1>1 DEF PlanFor, TypeOK
  <2>2. d.alert = a /\ d.consumer = c
        /\ d.matching = Theirs(matched[w], c)
    <3>1. UsablePreference(preferences[c])
      BY <2>1 DEF MatchingAssumption, UsablePreference
    <3> QED
      BY <3>1, PlanForRanks
  <2>3. d.matching # {}
    <3>1. c \in OwnersOf(matched[w])
      BY <1>3 DEF PlanInv, InPlan
    <3> QED
      BY <2>2, <3>1 DEF OwnersOf, Theirs
  <2>4. \A m \in matched[w] :
          \E e \in editions : /\ e.subscription = m.subscription
                              /\ e.version = m.version
                              /\ a \in e.rules
    BY <1>4 DEF PlanInv, InPlan
  <2> QED
    BY <2>1, <2>2, <2>3, <2>4 DEF Explained, Theirs
<1>10. InPlan(w)'
  <2>1. (unread[w] \subseteq OwnersOf(matched[w]))'
    BY <1>3, <1>5 DEF PlanInv, InPlan, OwnersOf
  <2>2. ASSUME NEW b \in Alert, Working(w, b)'
        PROVE  /\ \A m \in matched'[w] :
                    \E e \in editions' : /\ e.subscription = m.subscription
                                         /\ e.version = m.version
                                         /\ b \in e.rules
               /\ \A k \in Consumer : PlannedAsOne(deliveries \cup plan[w], b, k)'
    <3>1. Working(w, b) /\ b = a
      BY <1>1, <1>2, <1>3, <2>2, OneCurrent DEF Working, IsCurrent
    <3>2. ASSUME NEW k \in Consumer PROVE PlannedAsOne(deliveries \cup plan[w], a, k)'
      <4>1. CASE k # c
        <5>1. Of(deliveries' \cup plan'[w], a, k) = Of(deliveries \cup plan[w], a, k)
          BY <1>3, <1>5, <1>9, <4>1 DEF Of
        <5>2. PlannedAsOne(deliveries \cup plan[w], a, k)
          BY <1>4 DEF PlanInv, InPlan
        <5> QED
          BY <5>1, <5>2 DEF PlannedAsOne
      <4>2. CASE k = c
        <5>1. \A d \in plan[w] : d.consumer # c
          BY <1>3 DEF PlanInv, InPlan
        <5>2. Of(deliveries' \cup plan'[w], a, c) = new
          BY <1>3, <1>4, <1>5, <1>7, <1>9, <5>1 DEF Of
        <5>3. CASE preferences[c] = NoPreference
          BY <4>2, <5>2, <5>3 DEF PlannedAsOne, PlanFor
        <5>4. CASE preferences[c] \in Preference
          BY <1>1, <4>2, <5>2, <5>4 DEF PlannedAsOne, TypeOK
        <5> QED
          BY <1>1, <5>3, <5>4 DEF TypeOK
      <4> QED
        BY <4>1, <4>2
    <3>3. \A m \in matched[w] :
            \E e \in editions : /\ e.subscription = m.subscription
                                /\ e.version = m.version
                                /\ a \in e.rules
      BY <1>4 DEF PlanInv, InPlan
    <3>4. matched' = matched /\ editions' = editions
      BY <1>3 DEF editVars
    <3> QED
      BY <3>1, <3>2, <3>3, <3>4
  <2>3. ASSUME NEW d \in plan'[w]
        PROVE  /\ Working(w, d.alert)' /\ Explained(d)' /\ d.consumer \notin unread'[w]
               /\ \A e \in deliveries' :
                    e.alert = d.alert /\ e.consumer = d.consumer => e.tier <= d.tier
    <3>1. CASE d \in plan[w]
      BY <1>3, <1>5, <3>1, ExplainedStays DEF PlanInv, InPlan, Working, IsCurrent, editVars
    <3>2. CASE d \in new
      BY <1>3, <1>4, <1>5, <1>7, <1>9, <3>2, ExplainedStays DEF Working, IsCurrent, editVars
    <3> QED
      BY <1>5, <2>3, <3>1, <3>2
  <2> QED
    BY <2>1, <2>2, <2>3 DEF InPlan
<1>11. ASSUME NEW v \in Worker, v # w PROVE InPlan(v)'
  BY <1>1, <1>3, <1>5, <1>11, OtherInPlan DEF PlanInv, editVars
<1> QED
  BY <1>3, <1>6, <1>8, <1>10, <1>11 DEF PlanInv

\* Deliveries that one preference may have asked for.
WellRanked(U) ==
  \A d \in U :
    /\ d.tier \in Nat
    /\ \A k \in 0 .. d.tier : \E e \in U : e.tier = k
    /\ \A e \in U : d.endpoint = e.endpoint => d = e
    /\ \A e \in U : d.tier = e.tier => d = e \/ d.tier = 0
    /\ d.tier > 0 => \A e, f \in U : e.tier = f.tier => e = f

\* The written and planned deliveries of the current alert for one consumer are such.
LEMMA PlanOfOne ==
  ASSUME MatchingAssumption, OutboxInv, PlanInv, NEW w \in Worker, NEW d \in plan[w]
  PROVE  WellRanked(Of(deliveries \cup plan[w], d.alert, d.consumer))
<1>1. d \in Delivery /\ d.alert \in Alert /\ d.consumer \in Consumer
  BY DEF OutboxInv, TypeOK, Delivery
<1>2. PlannedAsOne(deliveries \cup plan[w], d.alert, d.consumer)
  BY <1>1 DEF PlanInv, InPlan
<1>3. d \in Of(deliveries \cup plan[w], d.alert, d.consumer)
  BY DEF Of
<1>4. \A p \in Preference : UsablePreference(p)
  BY DEF MatchingAssumption, UsablePreference
<1>5. PICK p \in Preference, ms \in SUBSET MatchedSubscription :
        Of(deliveries \cup plan[w], d.alert, d.consumer) = PlanFor(d.alert, d.consumer, p, ms)
  BY <1>2, <1>3 DEF PlannedAsOne
<1>6. UsablePreference(p)
  BY <1>4
<1>7. WellRanked(PlanFor(d.alert, d.consumer, p, ms))
  <2> PICK U : U = PlanFor(d.alert, d.consumer, p, ms)
    OBVIOUS
  <2>1. ASSUME NEW g \in U
        PROVE  /\ g.tier \in Nat
               /\ \A e \in U : /\ g.endpoint = e.endpoint => g = e
                               /\ g.tier = e.tier => g = e \/ g.tier = 0
               /\ \A k \in 0 .. g.tier : \E e \in U : e.tier = k
               /\ g.tier > 0 => \A e, f \in U : e.tier = f.tier => e = f
    BY <1>6, <2>1, PlanForRanks
  <2>2. WellRanked(U)
    BY <2>1 DEF WellRanked
  <2> QED
    BY <2>2
<1> QED
  BY <1>5, <1>7

\* A key that is there already is the delivery itself.
LEMMA WrittenOnce ==
  ASSUME MatchingAssumption, OutboxInv, PlanInv, NEW w \in Worker, NEW d \in plan[w],
         CreatePlanned(w, d)
  PROVE  deliveries' = deliveries \cup {d}
<1>1. ASSUME NEW e \in deliveries, SameKey(d, e) PROVE e = d
  <2> PICK U : U = Of(deliveries \cup plan[w], d.alert, d.consumer)
    OBVIOUS
  <2>1. WellRanked(U)
    BY PlanOfOne
  <2>2. d \in U /\ e \in U /\ d.endpoint = e.endpoint
    BY <1>1 DEF Of, SameKey
  <2> QED
    BY <2>1, <2>2 DEF WellRanked
<1>2. deliveries' = IF \E e \in deliveries : SameKey(d, e)
                      THEN deliveries ELSE deliveries \cup {d}
  BY DEF CreatePlanned
<1>3. (\E e \in deliveries : SameKey(d, e)) => d \in deliveries
  BY <1>1
<1> QED
  BY <1>2, <1>3

\* A delivery is written after those of lower rank, and is the only one of its own.
LEMMA TiersStay ==
  ASSUME MatchingAssumption, OutboxInv, PlanInv, NEW w \in Worker, NEW d \in plan[w],
         NextInOrder(w, d), deliveries' = deliveries \cup {d}
  PROVE  TiersFromOnePreference'
<1>0. PICK U : U = Of(deliveries \cup plan[w], d.alert, d.consumer)
  OBVIOUS
<1>1. WellRanked(U)
  BY <1>0, PlanOfOne
<1>2. d \in U
  BY <1>0 DEF Of
<1>3. \A e \in deliveries : e.alert = d.alert /\ e.consumer = d.consumer => e \in U
  BY <1>0 DEF Of
<1>4. d.tier \in Nat /\ \A e \in U : e.tier \in Nat
  BY <1>1, <1>2 DEF WellRanked
<1>5. \A e \in U : /\ d.endpoint = e.endpoint => d = e
                   /\ d.tier = e.tier => d = e \/ d.tier = 0
  BY <1>1, <1>2 DEF WellRanked
<1>6. ASSUME NEW k \in 0 .. d.tier
      PROVE  \E e \in deliveries' : e.alert = d.alert /\ e.consumer = d.consumer /\ e.tier = k
  <2>1. CASE k = d.tier
    BY <2>1
  <2>2. CASE k # d.tier
    <3>1. PICK e \in U : e.tier = k
      BY <1>1, <1>2 DEF WellRanked
    <3>2. e.alert = d.alert /\ e.consumer = d.consumer /\ e \in deliveries \cup plan[w]
      BY <1>0 DEF Of
    <3>3. e \notin plan[w]
      <4>1. k < d.tier
        BY <1>4, <2>2
      <4>2. SUFFICES ASSUME e \in plan[w] PROVE FALSE
        OBVIOUS
      <4>3. d.tier <= e.tier
        BY <3>2, <4>2 DEF NextInOrder
      <4> QED
        BY <1>4, <3>1, <4>1, <4>3
    <3> QED
      BY <3>1, <3>2, <3>3
  <2> QED
    BY <2>1, <2>2
<1>7. ASSUME d.tier > 0, NEW e \in deliveries', NEW f \in deliveries',
             e.alert = d.alert, e.consumer = d.consumer, e.tier = 0,
             f.alert = d.alert, f.consumer = d.consumer, f.tier = 0
      PROVE  e = f
  <2>1. e \in U /\ f \in U
    BY <1>2, <1>3, <1>7
  <2> QED
    BY <1>1, <1>2, <1>7, <2>1 DEF WellRanked
<1>8. ASSUME NEW e \in deliveries', NEW f \in deliveries'
      PROVE  /\ SameKey(e, f) => e = f
             /\ e.alert = f.alert /\ e.consumer = f.consumer /\ e.tier = f.tier
                  => e = f \/ e.tier = 0
  <2>1. CASE e \in deliveries /\ f \in deliveries
    BY <2>1 DEF PlanInv, TiersFromOnePreference
  <2>2. CASE e = d
    BY <1>2, <1>3, <1>5, <1>8, <2>2 DEF SameKey
  <2>3. CASE f = d
    BY <1>2, <1>3, <1>5, <1>8, <2>3 DEF SameKey
  <2> QED
    BY <1>8, <2>1, <2>2, <2>3
<1>9. ASSUME NEW e \in deliveries', NEW k \in 0 .. e.tier
      PROVE  \E f \in deliveries' : f.alert = e.alert /\ f.consumer = e.consumer /\ f.tier = k
  <2>1. CASE e = d
    BY <1>6, <1>9, <2>1
  <2>2. CASE e \in deliveries
    BY <1>9, <2>2 DEF PlanInv, TiersFromOnePreference
  <2> QED
    BY <1>9, <2>1, <2>2
<1>10. ASSUME NEW e \in deliveries', e.tier > 0
       PROVE  Cardinality({f \in deliveries' :
                 f.alert = e.alert /\ f.consumer = e.consumer /\ f.tier = 0}) = 1
  <2> DEFINE first(D) == {f \in D : f.alert = e.alert /\ f.consumer = e.consumer /\ f.tier = 0}
  <2>1. e.tier \in Nat
    BY <1>4, <1>10 DEF OutboxInv, TypeOK, Delivery
  <2>2. PICK g \in deliveries' : g.alert = e.alert /\ g.consumer = e.consumer /\ g.tier = 0
    BY <1>9, <1>10, <2>1
  <2>3. CASE e.alert = d.alert /\ e.consumer = d.consumer /\ d.tier > 0
    <3>1. first(deliveries') = {g}
      BY <1>7, <2>2, <2>3
    <3> QED
      BY <3>1, FS_Singleton
  <2>4. CASE e.alert = d.alert /\ e.consumer = d.consumer /\ ~(d.tier > 0)
    <3>1. d.tier = 0 /\ e # d
      BY <1>4, <1>10, <2>4
    <3>4. e \in U
      BY <1>3, <1>10, <2>4, <3>1
    <3>2. \A f \in first(deliveries') : f \in U
      BY <1>2, <1>3, <2>4
    <3>3. \A f \in U : f.tier = 0 => f = d
      <4>1. e \in U /\ e.tier > 0
        BY <1>10, <3>4
      <4> QED
        BY <1>1, <1>2, <3>1, <4>1 DEF WellRanked
    <3>5. first(deliveries') = {d}
      BY <2>4, <3>1, <3>2, <3>3
    <3> QED
      BY <3>5, FS_Singleton
  <2>5. CASE ~(e.alert = d.alert /\ e.consumer = d.consumer)
    <3>1. e \in deliveries /\ first(deliveries') = first(deliveries)
      BY <1>10, <2>5
    <3>2. Cardinality(first(deliveries)) = 1
      BY <1>10, <3>1 DEF PlanInv, TiersFromOnePreference
    <3> QED
      BY <3>1, <3>2
  <2> QED
    BY <2>3, <2>4, <2>5
<1> QED
  BY <1>8, <1>9, <1>10 DEF TiersFromOnePreference

\* A planned delivery that is written moves from the plan to the table.
LEMMA WritePlans ==
  ASSUME MatchingAssumption, OutboxInv, PlanInv, NEW w \in Worker, NEW d \in plan[w],
         CreatePlanned(w, d)
  PROVE  PlanInv'
<1>1. TypeOK
  BY DEF OutboxInv
<1>2. /\ step[w] = "plan" /\ unread[w] = {} /\ NextInOrder(w, d)
      /\ plan' = [plan EXCEPT ![w] = plan[w] \ {d}]
      /\ UNCHANGED <<outboxVars, editVars, batch, step, matched, unread, faultVars, promised>>
  BY DEF CreatePlanned
<1>3. deliveries' = deliveries \cup {d}
  BY WrittenOnce
<1>4. Working(w, d.alert) /\ Explained(d) /\ d.alert \in batch[w] /\ d.consumer \notin unread[w]
  BY DEF PlanInv, InPlan, Working, IsCurrent
<1>5. plan'[w] = plan[w] \ {d} /\ \A v \in Worker : v # w => plan'[v] = plan[v]
  BY <1>1, <1>2 DEF TypeOK
<1>6. TiersFromOnePreference'
  BY <1>2, <1>3, TiersStay
<1>7. EditionsKept'
  BY <1>2 DEF PlanInv, EditionsKept, Exists, editVars
<1>8. \A v \in Worker : v # w => d.alert \notin batch[v]
  BY <1>4 DEF OutboxInv, OnlyStopsLose
<1>9. ASSUME NEW e \in deliveries' PROVE Placed(e)' /\ Explained(e)'
  <2>1. CASE e \in deliveries
    BY <1>2, <2>1, ExplainedStays
    DEF PlanInv, Placed, Working, IsCurrent, outboxVars, editVars
  <2>2. CASE e = d
    <3>1. Explained(e)'
      BY <1>2, <1>4, <2>2, ExplainedStays DEF editVars
    <3>2. d.alert \in claimed
      BY <1>4 DEF OutboxInv, OnlyStopsLose
    <3>3. Placed(e)'
      BY <1>2, <1>4, <1>8, <2>2, <3>2 DEF Placed, Working, IsCurrent, outboxVars
    <3> QED
      BY <3>1, <3>3
  <2> QED
    BY <1>3, <1>9, <2>1, <2>2
<1>10. InPlan(w)'
  <2>1. (unread[w] \subseteq OwnersOf(matched[w]))'
    BY <1>2 DEF PlanInv, InPlan, OwnersOf
  <2>2. deliveries' \cup plan'[w] = deliveries \cup plan[w]
    BY <1>3, <1>5
  <2>3. ASSUME NEW a \in Alert, Working(w, a)'
        PROVE  /\ \A m \in matched'[w] :
                    \E e \in editions' : /\ e.subscription = m.subscription
                                         /\ e.version = m.version
                                         /\ a \in e.rules
               /\ \A c \in Consumer : PlannedAsOne(deliveries \cup plan[w], a, c)'
    <3>1. Working(w, a)
      BY <1>2, <2>3 DEF Working, IsCurrent
    <3>2. \A c \in Consumer : PlannedAsOne(deliveries \cup plan[w], a, c)'
      <4>1. \A c \in Consumer : PlannedAsOne(deliveries \cup plan[w], a, c)
        BY <3>1 DEF PlanInv, InPlan
      <4> PICK both : both = deliveries \cup plan[w]
        OBVIOUS
      <4>2. (deliveries \cup plan[w])' = both
        BY <2>2
      <4> QED
        BY <4>1, <4>2 DEF PlannedAsOne
    <3>3. matched' = matched /\ editions' = editions
      BY <1>2 DEF editVars
    <3>4. \A m \in matched[w] :
            \E e \in editions : /\ e.subscription = m.subscription
                                /\ e.version = m.version
                                /\ a \in e.rules
      BY <3>1 DEF PlanInv, InPlan
    <3> QED
      BY <3>2, <3>3, <3>4
  <2>4. ASSUME NEW e \in plan'[w]
        PROVE  /\ Working(w, e.alert)' /\ Explained(e)' /\ e.consumer \notin unread'[w]
               /\ \A f \in deliveries' :
                    f.alert = e.alert /\ f.consumer = e.consumer => f.tier <= e.tier
    <3>1. e \in plan[w]
      BY <1>5, <2>4
    <3>2. Working(w, e.alert)' /\ Explained(e)' /\ e.consumer \notin unread'[w]
      BY <1>2, <3>1, ExplainedStays DEF PlanInv, InPlan, Working, IsCurrent, editVars
    <3>3. e.consumer = d.consumer => d.tier <= e.tier
      BY <1>2, <3>1 DEF NextInOrder
    <3> QED
      BY <1>3, <3>1, <3>2, <3>3 DEF PlanInv, InPlan
  <2> QED
    BY <2>1, <2>3, <2>4 DEF InPlan
<1>11. ASSUME NEW v \in Worker, v # w PROVE InPlan(v)'
  BY <1>1, <1>2, <1>3, <1>5, <1>8, <1>11, OtherInPlan DEF PlanInv, editVars
<1> QED
  BY <1>6, <1>7, <1>9, <1>10, <1>11 DEF PlanInv

\* A worker that is done with an event, or stopped, remembers nothing.
LEMMA LeavePlans ==
  ASSUME MatchingAssumption, OutboxInv, PlanInv, NEW w \in Worker,
         MarkPublished(w) \/ Abort(w)
  PROVE  PlanInv'
<1>1. TypeOK
  BY DEF OutboxInv
<1>2. /\ step' = [step EXCEPT ![w] = "match"] /\ matched' = [matched EXCEPT ![w] = {}]
      /\ plan' = [plan EXCEPT ![w] = {}]
      /\ UNCHANGED <<alerts, claimed, editVars, deliveries, promised>>
  BY DEF MarkPublished, Abort, outboxVars
<1>3. unread'[w] = {} /\ \A v \in Worker : v # w => unread'[v] = unread[v]
  BY <1>1 DEF MarkPublished, Abort, AllWritten, TypeOK
<1>4. /\ step'[w] = "match" /\ matched'[w] = {} /\ plan'[w] = {}
      /\ \A v \in Worker : v # w => /\ step'[v] = step[v] /\ matched'[v] = matched[v]
                                    /\ plan'[v] = plan[v]
  BY <1>1, <1>2 DEF TypeOK
<1>5. /\ batch'[w] \subseteq batch[w]
      /\ \A v \in Worker : v # w => batch'[v] = batch[v]
  BY <1>1 DEF MarkPublished, Abort, TypeOK
<1>6. ASSUME NEW a \in batch'[w] PROVE ~Working(w, a)
  <2>1. CASE MarkPublished(w)
    <3>1. PICK b \in Alert : IsCurrent(w, b) /\ batch' = [batch EXCEPT ![w] = batch[w] \ {b}]
      BY <2>1 DEF MarkPublished
    <3>2. a # b
      BY <1>1, <1>6, <3>1 DEF TypeOK
    <3> QED
      BY <1>1, <3>1, <3>2, OneCurrent DEF Working
  <2>2. CASE Abort(w)
    BY <1>1, <1>6, <2>2 DEF Abort, TypeOK
  <2> QED
    BY <2>1, <2>2
<1>7. EditionsKept' /\ TiersFromOnePreference' /\ \A d \in deliveries : Explained(d)'
  BY <1>2, NoNews
<1>8. ASSUME NEW d \in deliveries PROVE Placed(d)'
  <2>1. Placed(d)
    BY DEF PlanInv
  <2>2. d.alert \notin batch'[w]
    BY <1>5, <1>6, <2>1 DEF Placed
  <2> QED
    BY <1>2, <1>3, <1>4, <1>5, <2>1, <2>2 DEF Placed, Working, IsCurrent
<1>9. InPlan(w)'
  BY <1>3, <1>4 DEF InPlan, Working
<1>10. ASSUME NEW v \in Worker, v # w PROVE InPlan(v)'
  BY <1>1, <1>2, <1>3, <1>4, <1>5, <1>10, OtherInPlan DEF PlanInv, editVars
<1> QED
  BY <1>2, <1>7, <1>8, <1>9, <1>10 DEF PlanInv

\* At the start there is nothing to explain.
LEMMA PlanInit ==
  ASSUME Init
  PROVE  PlanInv
<1>1. \A s \in Subscription : ~Exists(s)
  BY DEF Init, Exists, NoSubscription
<1> QED
  BY <1>1 DEF Init, PlanInv, EditionsKept, TiersFromOnePreference, InPlan, Working

\* Every step keeps what is planned and written explained and in order.
LEMMA PlanStep ==
  ASSUME MatchingAssumption, OutboxInv, PlanInv, [Next]_vars
  PROVE  PlanInv'
<1>1. CASE \/ \E a \in Alert : CreateAlert(a)
           \/ \E s \in Subscription, rules \in RuleSet, r \in Request : LoadForUpdate(r, s, rules)
           \/ \E c \in Consumer, p \in Preference : Upsert(c, p)
           \/ UNCHANGED vars
  BY <1>1, NoEditPlans
<1>2. CASE \/ \E s \in Subscription :
                Delete(s) \/ \E rules \in RuleSet : CreateSubscription(s, rules)
           \/ \E r \in Request : Update(r)
  BY <1>2, EditPlans
<1>3. ASSUME NEW w \in Worker, WorkerStep(w) \/ Abort(w) PROVE PlanInv'
  <2>1. CASE ClaimUnpublished(w) \/ Match(w) \/ MarkPublished(w) \/ Abort(w)
    BY <2>1, ClaimPlans, MatchPlans, LeavePlans
  <2>2. ASSUME NEW c \in Consumer, ReadPreference(w, c) PROVE PlanInv'
    BY <2>2, ReadPlans
  <2>3. ASSUME NEW d \in plan[w], CreatePlanned(w, d) PROVE PlanInv'
    BY <2>3, WritePlans
  <2> QED
    BY <1>3, <2>1, <2>2, <2>3 DEF WorkerStep, EventStep
<1> QED
  BY <1>1, <1>2, <1>3 DEF Next

\* What is planned comes from one preference and is explained by editions, whatever requests
\* change while a worker matches, reads and writes.
THEOREM PlanInvariant == Spec => []PlanInv
<1>1. MatchingAssumption
  BY MatchingAssumption
<1>2. Init => PlanInv
  BY PlanInit
<1>3. OutboxInv /\ PlanInv /\ [Next]_vars => PlanInv'
  BY <1>1, PlanStep
<1> QED
  BY <1>2, <1>3, OutboxInvariant, PTL DEF Spec

\* Each event is with one worker, published or lost with the worker that held it, and each stop
\* loses at most a batch (process_batch).
THEOREM OnlyStopsLoseAlways == Spec => []OnlyStopsLose
<1>1. OutboxInv => OnlyStopsLose
  BY DEF OutboxInv
<1> QED
  BY <1>1, OutboxInvariant, PTL

\* The deliveries of one alert to one consumer come from one preference, however often it changes
\* (plan_deliveries, create_planned).
THEOREM TiersFromOnePreferenceAlways == Spec => []TiersFromOnePreference
<1>1. PlanInv => TiersFromOnePreference
  BY DEF PlanInv
<1> QED
  BY <1>1, PlanInvariant, PTL

\* Every delivery names subscriptions of its consumer that matched under the version recorded,
\* whatever edits race (the optimistic lock of PostgresSubscriptionRepository::update).
THEOREM DeliveriesExplainedAlways == Spec => []DeliveriesExplained
<1>1. PlanInv => DeliveriesExplained
  BY DEF PlanInv, EditionsKept, Explained, DeliveriesExplained
<1> QED
  BY <1>1, PlanInvariant, PTL

\* Once its event is published, nothing is planned for an alert any more (mark_published comes
\* after create_planned, and a published row is never claimed again).
THEOREM SealedWhenPublishedAlways == Spec => SealedWhenPublished
<1> DEFINE Sealed == \A d \in deliveries' \ deliveries : d.alert \notin published
<1>1. OutboxInv /\ PlanInv /\ [Next]_vars => [Sealed]_vars
  <2> SUFFICES ASSUME OutboxInv, PlanInv, Next, NEW d \in deliveries' \ deliveries
               PROVE  d.alert \notin published
    OBVIOUS
  <2>1. PICK w \in Worker : d \in plan[w]
    BY DEF Next, CreateAlert, Delete, CreateSubscription, LoadForUpdate, Update, Upsert,
           WorkerStep, EventStep, ClaimUnpublished, Match, ReadPreference, CreatePlanned,
           MarkPublished, Abort
  <2>2. d.alert \in batch[w]
    BY <2>1 DEF PlanInv, InPlan, Working, IsCurrent
  <2> QED
    BY <2>2 DEF OutboxInv, OnlyStopsLose
<1> QED
  BY <1>1, OutboxInvariant, PlanInvariant, PTL DEF Spec, SealedWhenPublished

-----------------------------------------------------------------------------
(* Layer 3: who was promised an alert has its deliveries. *)

\* A delivery to this endpoint, in this rank, for this subscription.
Reached(D, a, pair, t) ==
  \E d \in D :
    /\ d.alert = a /\ d.consumer = owner[pair[1]]
    /\ d.endpoint = t.endpoint /\ d.tier = t.tier
    /\ \E m \in d.matching : m.subscription = pair[1]

\* A promise that stands until its alert is published is about what is stored.
StillWanted ==
  \A a \in alerts \ published : \A pair \in promised[a] :
    Matches(pair[1], a) /\ preferences[owner[pair[1]]] = pair[2]

\* The worker has matched what was promised, and planned it where it has read the preference.
OnItsWay(w) ==
  \A a \in Alert : Working(w, a) => \A pair \in promised[a] :
    /\ \E m \in matched[w] : m.subscription = pair[1]
    /\ owner[pair[1]] \notin unread[w] =>
         \A t \in Tiers(pair[2]) : Reached(deliveries \cup plan[w], a, pair, t)

PromiseInv ==
  /\ StillWanted
  /\ PublishedReachesMatched
  /\ \A w \in Worker : OnItsWay(w)

\* More deliveries reach no less.
LEMMA ReachedStays ==
  ASSUME NEW D, NEW E, D \subseteq E, NEW a, NEW pair, NEW t, Reached(D, a, pair, t)
  PROVE  Reached(E, a, pair, t)
BY DEF Reached

\* PublishedReachesMatched in these terms.
LEMMA PublishedMeansReached ==
  PublishedReachesMatched <=>
    \A a \in published : \A pair \in promised[a] : \A t \in Tiers(pair[2]) :
      Reached(deliveries, a, pair, t)
BY DEF PublishedReachesMatched, Reached

\* A worker that does not move, while promises are only withdrawn and deliveries only added.
LEMMA OtherOnItsWay ==
  ASSUME NEW w \in Worker, OnItsWay(w),
         \A a \in Alert : Working(w, a) => promised'[a] \subseteq promised[a],
         batch'[w] = batch[w], step'[w] = step[w], matched'[w] = matched[w],
         unread'[w] = unread[w], plan'[w] = plan[w], deliveries \subseteq deliveries'
  PROVE  OnItsWay(w)'
<1>1. \A a : Working(w, a)' <=> Working(w, a)
  BY DEF Working, IsCurrent
<1>2. deliveries \cup plan[w] \subseteq deliveries' \cup plan'[w]
  OBVIOUS
<1> SUFFICES ASSUME NEW a \in Alert, Working(w, a), NEW pair \in promised'[a]
             PROVE  /\ \E m \in matched'[w] : m.subscription = pair[1]
                    /\ owner[pair[1]] \notin unread'[w] =>
                         \A t \in Tiers(pair[2]) :
                           Reached(deliveries' \cup plan'[w], a, pair, t)
  BY <1>1 DEF OnItsWay, Reached
<1>3. pair \in promised[a]
  OBVIOUS
<1> QED
  BY <1>2, <1>3, ReachedStays DEF OnItsWay

\* Requests of the API: promises are only withdrawn.
LEMMA RequestsKeepPromises ==
  ASSUME PromiseInv, StillWanted', \A a \in Alert : promised'[a] \subseteq promised[a],
         published \subseteq Alert, UNCHANGED <<published, deliveries, workVars>>
  PROVE  PromiseInv'
<1>1. \A w \in Worker : OnItsWay(w)'
  BY OtherOnItsWay DEF PromiseInv, workVars
<1>2. PublishedReachesMatched'
  BY DEF PromiseInv, PublishedReachesMatched
<1> QED
  BY <1>1, <1>2 DEF PromiseInv

\* Whoever waits when an alert appears is whom its promise is about.
LEMMA CreateAlertPromises ==
  ASSUME MatchingAssumption, OutboxInv, PromiseInv, NEW a \in Alert, CreateAlert(a)
  PROVE  PromiseInv'
<1>1. TypeOK
  BY DEF OutboxInv
<1>2. /\ a \notin alerts /\ alerts' = alerts \cup {a}
      /\ UNCHANGED <<claimed, published, editVars, workVars, faultVars, deliveries>>
  BY DEF CreateAlert
<1> DEFINE waiting == {<<s, preferences[owner[s]]>> :
              s \in {t \in Subscription : Matches(t, a) /\ preferences[owner[t]] # NoPreference}}
<1>3. promised' = [promised EXCEPT ![a] = waiting]
  BY DEF CreateAlert
<1>4. promised'[a] = waiting /\ \A b \in Alert : b # a => promised'[b] = promised[b]
  BY <1>1, <1>3 DEF TypeOK
<1>5. \A pair \in waiting :
        Matches(pair[1], a) /\ preferences[owner[pair[1]]] = pair[2]
  OBVIOUS
<1>6. published \subseteq alerts /\ alerts \subseteq Alert
      /\ \A w \in Worker : batch[w] \subseteq alerts
  BY <1>1 DEF TypeOK, OutboxInv, OnlyStopsLose
<1>7. StillWanted'
  <2> SUFFICES ASSUME NEW b \in alerts' \ published, NEW pair \in promised'[b]
               PROVE  Matches(pair[1], b) /\ preferences[owner[pair[1]]] = pair[2]
    BY <1>2 DEF StillWanted, Matches, Exists, editVars
  <2>1. CASE b = a
    BY <1>4, <1>5, <2>1
  <2>2. CASE b # a
    BY <1>2, <1>4, <1>6, <2>2 DEF PromiseInv, StillWanted
  <2> QED
    BY <2>1, <2>2
<1>8. PublishedReachesMatched'
  <2>1. \A b \in published : promised'[b] = promised[b]
    BY <1>2, <1>4, <1>6
  <2> HIDE DEF waiting
  <2> QED
    BY <1>2, <2>1 DEF PromiseInv, PublishedReachesMatched
<1>9. ASSUME NEW w \in Worker PROVE OnItsWay(w)'
  <2>1. \A b \in Alert : Working(w, b) => b # a
    BY <1>2, <1>6 DEF Working, IsCurrent
  <2> QED
    BY <1>2, <1>4, <2>1, OtherOnItsWay DEF PromiseInv, workVars
<1> QED
  BY <1>7, <1>8, <1>9 DEF PromiseInv

\* What is withdrawn is what an edit changes.
LEMMA WithdrawKeeps ==
  ASSUME TypeOK, NEW S, Withdraw(S)
  PROVE  /\ \A a \in Alert : promised'[a] \subseteq promised[a]
         /\ \A a \in Alert \ published : \A pair \in promised'[a] : pair[1] \notin S
<1>1. ASSUME NEW a \in Alert
      PROVE  promised'[a] = IF a \in published THEN promised[a]
                            ELSE {pair \in promised[a] : pair[1] \notin S}
  BY DEF Withdraw
<1> QED
  BY <1>1

\* A request changes nothing of what is still promised.
LEMMA EditPromises ==
  ASSUME MatchingAssumption, OutboxInv, PromiseInv,
         \/ \E s \in Subscription :
              \/ Delete(s)
              \/ \E rules \in RuleSet : CreateSubscription(s, rules)
              \/ \E rules \in RuleSet, r \in Request : LoadForUpdate(r, s, rules)
         \/ \E r \in Request : Update(r)
         \/ \E c \in Consumer, p \in Preference : Upsert(c, p)
  PROVE  PromiseInv'
<1>1. TypeOK
  BY DEF OutboxInv
<1>2. alerts \subseteq Alert /\ published \subseteq Alert
  BY <1>1 DEF TypeOK
<1>3. \A a \in Alert : \A pair \in promised[a] : pair[1] \in Subscription
  BY <1>1 DEF TypeOK
<1>4. UNCHANGED <<alerts, published, deliveries, workVars>>
  BY DEF Delete, CreateSubscription, LoadForUpdate, Update, Upsert, outboxVars
<1>5. SUFFICES /\ \A a \in Alert : promised'[a] \subseteq promised[a]
               /\ \A a \in alerts \ published : \A pair \in promised'[a] :
                    /\ subscriptions'[pair[1]] = subscriptions[pair[1]]
                    /\ preferences'[owner[pair[1]]] = preferences[owner[pair[1]]]
  <2> SUFFICES ASSUME \A a \in Alert : promised'[a] \subseteq promised[a],
                      \A a \in alerts \ published : \A pair \in promised'[a] :
                         /\ subscriptions'[pair[1]] = subscriptions[pair[1]]
                         /\ preferences'[owner[pair[1]]] = preferences[owner[pair[1]]]
               PROVE  PromiseInv'
    OBVIOUS
  <2>1. StillWanted'
    BY <1>2, <1>4 DEF PromiseInv, StillWanted, Matches, Exists
  <2> QED
    BY <1>2, <1>4, <2>1, RequestsKeepPromises
<1>6. ASSUME NEW s \in Subscription, UNCHANGED preferences,
             \A t \in Subscription : t # s => subscriptions'[t] = subscriptions[t],
             \/ Withdraw({s})
             \/ UNCHANGED promised /\ (~Exists(s) \/ UNCHANGED subscriptions)
      PROVE  /\ \A a \in Alert : promised'[a] \subseteq promised[a]
             /\ \A a \in alerts \ published : \A pair \in promised'[a] :
                  /\ subscriptions'[pair[1]] = subscriptions[pair[1]]
                  /\ preferences'[owner[pair[1]]] = preferences[owner[pair[1]]]
  <2>1. CASE Withdraw({s})
    BY <1>1, <1>2, <1>3, <1>6, <2>1, WithdrawKeeps
  <2>2. CASE UNCHANGED promised /\ (~Exists(s) \/ UNCHANGED subscriptions)
    <3>1. ASSUME NEW a \in alerts \ published, NEW pair \in promised[a]
          PROVE  subscriptions'[pair[1]] = subscriptions[pair[1]]
      <4>1. Exists(pair[1]) /\ pair[1] \in Subscription
        BY <1>2, <1>3 DEF PromiseInv, StillWanted, Matches
      <4> QED
        BY <1>6, <2>2, <4>1
    <3> QED
      BY <1>6, <2>2, <3>1
  <2> QED
    BY <1>6, <2>1, <2>2
<1>7. ASSUME NEW s \in Subscription, Delete(s)
      PROVE  /\ UNCHANGED preferences /\ Withdraw({s})
             /\ \A t \in Subscription : t # s => subscriptions'[t] = subscriptions[t]
  BY <1>1, <1>7 DEF Delete, TypeOK
<1>8. ASSUME NEW s \in Subscription, NEW rules \in RuleSet, CreateSubscription(s, rules)
      PROVE  /\ UNCHANGED preferences /\ UNCHANGED promised /\ ~Exists(s)
             /\ \A t \in Subscription : t # s => subscriptions'[t] = subscriptions[t]
  BY <1>1, <1>8 DEF CreateSubscription, TypeOK
<1>9. ASSUME NEW r \in Request, Update(r)
      PROVE  \E s \in Subscription :
               /\ UNCHANGED preferences
               /\ \A t \in Subscription : t # s => subscriptions'[t] = subscriptions[t]
               /\ Withdraw({s}) \/ UNCHANGED <<promised, subscriptions>>
  <2> PICK e \in Edit : e = editing[r]
    BY <1>1, <1>9 DEF Update, TypeOK
  <2>1. e.subscription \in Subscription
    BY DEF Edit
  <2> QED
    BY <1>1, <1>9, <2>1 DEF Update, TypeOK
<1>10. ASSUME NEW c \in Consumer, NEW p \in Preference, Upsert(c, p)
       PROVE  /\ \A a \in Alert : promised'[a] \subseteq promised[a]
              /\ \A a \in alerts \ published : \A pair \in promised'[a] :
                   /\ subscriptions'[pair[1]] = subscriptions[pair[1]]
                   /\ preferences'[owner[pair[1]]] = preferences[owner[pair[1]]]
  <2>1. Withdraw({s \in Subscription : owner[s] = c}) /\ UNCHANGED subscriptions
        /\ preferences' = [preferences EXCEPT ![c] = p]
    BY <1>10 DEF Upsert
  <2>2. \A a \in Alert \ published : \A pair \in promised'[a] :
          pair[1] \in Subscription /\ owner[pair[1]] # c
    BY <1>1, <1>3, <2>1, WithdrawKeeps
  <2>3. \A k \in Consumer : k # c => preferences'[k] = preferences[k]
    BY <1>1, <2>1 DEF TypeOK
  <2>4. \A s \in Subscription : owner[s] \in Consumer
    BY DEF MatchingAssumption
  <2> QED
    BY <1>1, <1>2, <2>1, <2>2, <2>3, <2>4, WithdrawKeeps
<1>11. ASSUME NEW s \in Subscription, NEW rules \in RuleSet, NEW r \in Request,
              LoadForUpdate(r, s, rules)
       PROVE  UNCHANGED <<subscriptions, preferences, promised>>
  BY <1>11 DEF LoadForUpdate
<1>12. CASE \E s \in Subscription :
               Delete(s) \/ \E rules \in RuleSet : CreateSubscription(s, rules)
  BY <1>6, <1>7, <1>8, <1>12
<1>13. CASE \E r \in Request : Update(r)
  BY <1>6, <1>9, <1>13
<1>14. CASE \E c \in Consumer, p \in Preference : Upsert(c, p)
  BY <1>10, <1>14
<1>15. CASE \E s \in Subscription, rules \in RuleSet, r \in Request : LoadForUpdate(r, s, rules)
  BY <1>11, <1>15
<1> QED
  BY <1>12, <1>13, <1>14, <1>15

\* The event a worker is at is not published, so what was promised about it still stands.
LEMMA CurrentUnpublished ==
  ASSUME OutboxInv, NEW w \in Worker, NEW a \in batch[w]
  PROVE  a \in alerts \ published
BY DEF OutboxInv, OnlyStopsLose, TypeOK

\* Steps of a worker that publish nothing: deliveries are only added.
LEMMA WorkPromises ==
  ASSUME OutboxInv, PromiseInv, NEW w \in Worker, deliveries \subseteq deliveries',
         UNCHANGED <<alerts, published, editVars, promised>>, OnItsWay(w)',
         \A v \in Worker : v # w =>
           /\ batch'[v] = batch[v] /\ step'[v] = step[v] /\ matched'[v] = matched[v]
           /\ unread'[v] = unread[v] /\ plan'[v] = plan[v]
  PROVE  PromiseInv'
<1>1. \A v \in Worker : v # w => OnItsWay(v)'
  BY OtherOnItsWay DEF PromiseInv
<1>2. StillWanted'
  BY DEF PromiseInv, StillWanted, Matches, Exists, editVars
<1>3. PublishedReachesMatched'
  <2> SUFFICES ASSUME NEW a \in published, NEW pair \in promised[a], NEW t \in Tiers(pair[2])
               PROVE  Reached(deliveries', a, pair, t)
    BY DEF PublishedReachesMatched, Reached
  <2>1. Reached(deliveries, a, pair, t)
    BY PublishedMeansReached DEF PromiseInv
  <2> QED
    BY <2>1, ReachedStays
<1> QED
  BY <1>1, <1>2, <1>3 DEF PromiseInv

\* Matching finds everybody who was promised the alert.
LEMMA MatchPromises ==
  ASSUME MatchingAssumption, OutboxInv, PromiseInv, NEW w \in Worker, Match(w)
  PROVE  PromiseInv'
<1>1. TypeOK
  BY DEF OutboxInv
<1>2. PICK a \in Alert : /\ IsCurrent(w, a)
                         /\ matched' = [matched EXCEPT ![w] = ConsumerMatches(a)]
                         /\ unread' = [unread EXCEPT ![w] = OwnersOf(ConsumerMatches(a))]
  BY DEF Match
<1>3. step' = [step EXCEPT ![w] = "plan"]
      /\ UNCHANGED <<outboxVars, editVars, batch, plan, faultVars, deliveries, promised>>
  BY DEF Match
<1>4. /\ matched'[w] = ConsumerMatches(a) /\ unread'[w] = OwnersOf(ConsumerMatches(a))
      /\ \A v \in Worker : v # w => /\ step'[v] = step[v] /\ matched'[v] = matched[v]
                                    /\ unread'[v] = unread[v]
  BY <1>1, <1>2, <1>3 DEF TypeOK
<1>5. a \in alerts \ published
  BY <1>2, CurrentUnpublished DEF IsCurrent
<1>6. ASSUME NEW pair \in promised[a]
      PROVE  /\ \E m \in ConsumerMatches(a) : m.subscription = pair[1]
             /\ owner[pair[1]] \in OwnersOf(ConsumerMatches(a))
  <2>1. Matches(pair[1], a) /\ pair[1] \in Subscription
    BY <1>1, <1>5 DEF PromiseInv, StillWanted, TypeOK
  <2> PICK s \in Subscription : s = pair[1]
    BY <2>1
  <2>2. [subscription |-> s, version |-> subscriptions[s].version] \in ConsumerMatches(a)
    BY <2>1 DEF ConsumerMatches
  <2> PICK m \in ConsumerMatches(a) : m.subscription = s
    BY <2>2
  <2> QED
    BY DEF OwnersOf
<1>7. OnItsWay(w)'
  <2> SUFFICES ASSUME NEW b \in Alert, Working(w, b)', NEW pair \in promised[b]
               PROVE  /\ \E m \in matched'[w] : m.subscription = pair[1]
                      /\ owner[pair[1]] \in unread'[w]
    BY <1>3 DEF OnItsWay
  <2>1. IsCurrent(w, b)
    BY <1>3 DEF Working, IsCurrent
  <2>2. b = a
    BY <1>1, <1>2, <2>1, OneCurrent
  <2> QED
    BY <1>4, <1>6, <2>2
<1> QED
  BY <1>3, <1>4, <1>7, WorkPromises DEF outboxVars

\* The preference that is read is the one the promise is about.
LEMMA ReadPromises ==
  ASSUME MatchingAssumption, OutboxInv, PromiseInv, NEW w \in Worker, NEW c \in Consumer,
         ReadPreference(w, c)
  PROVE  PromiseInv'
<1>1. TypeOK
  BY DEF OutboxInv
<1>2. PICK a \in Alert :
        /\ IsCurrent(w, a)
        /\ plan' = [plan EXCEPT ![w] = plan[w] \cup PlanFor(a, c, preferences[c], matched[w])]
  BY DEF ReadPreference
<1> DEFINE new == PlanFor(a, c, preferences[c], matched[w])
<1>3. /\ c \in unread[w] /\ unread' = [unread EXCEPT ![w] = unread[w] \ {c}]
      /\ UNCHANGED <<outboxVars, editVars, batch, step, matched, faultVars, deliveries, promised>>
  BY DEF ReadPreference
<1>4. step[w] = "plan" /\ Working(w, a) /\ a \in batch[w]
  BY <1>1, <1>2, <1>3 DEF OutboxInv, InStep, TypeOK, Working, IsCurrent
<1>5. /\ unread'[w] = unread[w] \ {c} /\ plan'[w] = plan[w] \cup new
      /\ \A v \in Worker : v # w => unread'[v] = unread[v] /\ plan'[v] = plan[v]
  BY <1>1, <1>2, <1>3 DEF TypeOK
<1>6. a \in alerts \ published
  BY <1>4, CurrentUnpublished
<1>7. ASSUME NEW pair \in promised[a], owner[pair[1]] = c, NEW t \in Tiers(pair[2])
      PROVE  Reached(new, a, pair, t)
  <2>1. preferences[c] = pair[2] /\ pair[2] \in Preference
    BY <1>1, <1>6, <1>7 DEF PromiseInv, StillWanted, TypeOK
  <2>2. pair[2] # NoPreference
    BY <2>1 DEF MatchingAssumption
  <2>3. PICK m \in matched[w] : m.subscription = pair[1]
    BY <1>4 DEF PromiseInv, OnItsWay
  <2>4. PICK d : d = [alert |-> a, consumer |-> c, endpoint |-> t.endpoint, tier |-> t.tier,
                      matching |-> {k \in matched[w] : owner[k.subscription] = c}]
    OBVIOUS
  <2>5. d \in new
    <3>1. preferences[c] # NoPreference /\ t \in Tiers(preferences[c])
      BY <1>7, <2>1, <2>2
    <3> QED
      BY <2>4, <3>1 DEF PlanFor
  <2>6. d.alert = a /\ d.consumer = c /\ d.endpoint = t.endpoint /\ d.tier = t.tier
        /\ m \in d.matching
    BY <1>7, <2>3, <2>4
  <2> HIDE DEF new
  <2> QED
    BY <1>7, <2>3, <2>5, <2>6 DEF Reached
<1>8. OnItsWay(w)'
  <2> HIDE DEF new
  <2> SUFFICES ASSUME NEW b \in Alert, Working(w, b)', NEW pair \in promised[b]
               PROVE  /\ \E m \in matched'[w] : m.subscription = pair[1]
                      /\ owner[pair[1]] \notin unread'[w] =>
                           \A t \in Tiers(pair[2]) :
                             Reached(deliveries' \cup plan'[w], b, pair, t)
    BY <1>3 DEF OnItsWay, Reached
  <2>1. IsCurrent(w, b)
    BY <1>3 DEF Working, IsCurrent
  <2>2. b = a
    BY <1>1, <1>2, <2>1, OneCurrent
  <2>3. \E m \in matched'[w] : m.subscription = pair[1]
    BY <1>3, <1>4, <2>2 DEF PromiseInv, OnItsWay
  <2>4. ASSUME owner[pair[1]] \notin unread'[w], NEW t \in Tiers(pair[2])
        PROVE  Reached(deliveries' \cup plan'[w], a, pair, t)
    <3>1. CASE owner[pair[1]] = c
      <4>1. Reached(new, a, pair, t)
        BY <1>7, <2>2, <2>4, <3>1
      <4> QED
        BY <1>5, <4>1, ReachedStays
    <3>2. CASE owner[pair[1]] # c
      <4>1. owner[pair[1]] \notin unread[w]
        BY <1>5, <2>4, <3>2
      <4>2. Reached(deliveries \cup plan[w], a, pair, t)
        BY <1>4, <2>2, <2>4, <4>1 DEF PromiseInv, OnItsWay
      <4>3. deliveries \cup plan[w] \subseteq deliveries' \cup plan'[w]
        BY <1>3, <1>5
      <4> QED
        BY <4>2, <4>3, ReachedStays
    <3> QED
      BY <3>1, <3>2
  <2> QED
    BY <2>2, <2>3, <2>4
<1> QED
  BY <1>3, <1>5, <1>8, WorkPromises DEF outboxVars

\* Writing a delivery loses none.
LEMMA WritePromises ==
  ASSUME MatchingAssumption, OutboxInv, PlanInv, PromiseInv, NEW w \in Worker,
         NEW d \in plan[w], CreatePlanned(w, d)
  PROVE  PromiseInv'
<1>1. TypeOK
  BY DEF OutboxInv
<1>2. /\ plan' = [plan EXCEPT ![w] = plan[w] \ {d}]
      /\ UNCHANGED <<outboxVars, editVars, batch, step, matched, unread, faultVars, promised>>
  BY DEF CreatePlanned
<1>3. deliveries' = deliveries \cup {d}
  BY WrittenOnce
<1>4. plan'[w] = plan[w] \ {d} /\ \A v \in Worker : v # w => plan'[v] = plan[v]
  BY <1>1, <1>2 DEF TypeOK
<1>5. deliveries' \cup plan'[w] = deliveries \cup plan[w]
  BY <1>3, <1>4
<1>6. OnItsWay(w)'
  <2> SUFFICES ASSUME NEW a \in Alert, Working(w, a)', NEW pair \in promised[a]
               PROVE  /\ \E m \in matched[w] : m.subscription = pair[1]
                      /\ owner[pair[1]] \notin unread[w] =>
                           \A t \in Tiers(pair[2]) :
                             Reached(deliveries \cup plan[w], a, pair, t)
    BY <1>2, <1>5 DEF OnItsWay, Reached
  <2>1. Working(w, a)
    BY <1>2 DEF Working, IsCurrent
  <2> QED
    BY <2>1 DEF PromiseInv, OnItsWay
<1> QED
  BY <1>2, <1>3, <1>4, <1>6, WorkPromises DEF outboxVars

\* A published event has all of its deliveries in the table.
LEMMA PublishPromises ==
  ASSUME MatchingAssumption, OutboxInv, PromiseInv, NEW w \in Worker, MarkPublished(w)
  PROVE  PromiseInv'
<1>1. TypeOK
  BY DEF OutboxInv
<1>2. PICK a \in Alert : /\ IsCurrent(w, a) /\ published' = published \cup {a}
                         /\ batch' = [batch EXCEPT ![w] = batch[w] \ {a}]
  BY DEF MarkPublished
<1>3. /\ step[w] = "plan" /\ unread[w] = {} /\ plan[w] = {}
      /\ step' = [step EXCEPT ![w] = "match"] /\ matched' = [matched EXCEPT ![w] = {}]
      /\ plan' = [plan EXCEPT ![w] = {}]
      /\ UNCHANGED <<alerts, claimed, editVars, unread, faultVars, deliveries, promised>>
  BY DEF MarkPublished, AllWritten
<1>4. step'[w] = "match"
      /\ \A v \in Worker : v # w => /\ batch'[v] = batch[v] /\ step'[v] = step[v]
                                    /\ matched'[v] = matched[v] /\ plan'[v] = plan[v]
  BY <1>1, <1>2, <1>3 DEF TypeOK
<1>5. OnItsWay(w)'
  BY <1>4 DEF OnItsWay, Working
<1>6. ASSUME NEW v \in Worker, v # w PROVE OnItsWay(v)'
  BY <1>3, <1>4, <1>6, OtherOnItsWay DEF PromiseInv
<1>7. StillWanted'
  BY <1>2, <1>3 DEF PromiseInv, StillWanted, Matches, Exists, editVars
<1>8. PublishedReachesMatched'
  <2> SUFFICES ASSUME NEW b \in published', NEW pair \in promised[b], NEW t \in Tiers(pair[2])
               PROVE  Reached(deliveries, b, pair, t)
    BY <1>3 DEF PublishedReachesMatched, Reached
  <2>1. CASE b \in published
    BY <2>1, PublishedMeansReached DEF PromiseInv
  <2>2. CASE b = a
    <3>1. Working(w, a)
      BY <1>2, <1>3 DEF Working
    <3>2. owner[pair[1]] \notin unread[w]
      BY <1>3
    <3>3. Reached(deliveries \cup plan[w], a, pair, t)
      BY <2>2, <3>1, <3>2 DEF PromiseInv, OnItsWay
    <3>4. deliveries \cup plan[w] = deliveries
      BY <1>3
    <3> QED
      BY <2>2, <3>3, <3>4
  <2> QED
    BY <1>2, <2>1, <2>2
<1> QED
  BY <1>5, <1>6, <1>7, <1>8 DEF PromiseInv

\* A batch that is claimed, and one that is lost, promises nothing yet.
LEMMA IdlePromises ==
  ASSUME OutboxInv, PromiseInv, NEW w \in Worker, ClaimUnpublished(w) \/ Abort(w)
  PROVE  PromiseInv'
<1>1. TypeOK
  BY DEF OutboxInv
<1>2. UNCHANGED <<alerts, published, editVars, deliveries, promised>>
  BY DEF ClaimUnpublished, Abort, outboxVars
<1>3. step'[w] = "match"
  BY <1>1 DEF ClaimUnpublished, Abort, OutboxInv, InStep, TypeOK
<1>4. \A v \in Worker : v # w =>
        /\ batch'[v] = batch[v] /\ step'[v] = step[v] /\ matched'[v] = matched[v]
        /\ unread'[v] = unread[v] /\ plan'[v] = plan[v]
  BY <1>1 DEF ClaimUnpublished, Abort, TypeOK
<1>5. OnItsWay(w)'
  BY <1>3 DEF OnItsWay, Working
<1> QED
  BY <1>2, <1>4, <1>5, WorkPromises

\* Every step keeps every promise.
LEMMA PromiseStep ==
  ASSUME MatchingAssumption, OutboxInv, PlanInv, PromiseInv, [Next]_vars
  PROVE  PromiseInv'
<1>1. CASE UNCHANGED vars
  BY <1>1
  DEF vars, outboxVars, editVars, workVars, PromiseInv, StillWanted, Matches, Exists,
      PublishedReachesMatched, OnItsWay, Reached, Working, IsCurrent
<1>2. ASSUME NEW a \in Alert, CreateAlert(a) PROVE PromiseInv'
  BY <1>2, CreateAlertPromises
<1>3. CASE \/ \E s \in Subscription :
                \/ Delete(s)
                \/ \E rules \in RuleSet : CreateSubscription(s, rules)
                \/ \E rules \in RuleSet, r \in Request : LoadForUpdate(r, s, rules)
           \/ \E r \in Request : Update(r)
           \/ \E c \in Consumer, p \in Preference : Upsert(c, p)
  BY <1>3, EditPromises
<1>4. ASSUME NEW w \in Worker, WorkerStep(w) \/ Abort(w) PROVE PromiseInv'
  <2>1. CASE ClaimUnpublished(w) \/ Match(w) \/ MarkPublished(w) \/ Abort(w)
    BY <2>1, IdlePromises, MatchPromises, PublishPromises
  <2>2. ASSUME NEW c \in Consumer, ReadPreference(w, c) PROVE PromiseInv'
    BY <2>2, ReadPromises
  <2>3. ASSUME NEW d \in plan[w], CreatePlanned(w, d) PROVE PromiseInv'
    BY <2>3, WritePromises
  <2> QED
    BY <1>4, <2>1, <2>2, <2>3 DEF WorkerStep, EventStep
<1> QED
  BY <1>1, <1>2, <1>3, <1>4 DEF Next

\* Whoever had a matching subscription and a preference when an alert was created, and changed
\* neither until it was published, has every delivery the preference asks for (migration 0016).
THEOREM PublishedReachesMatchedAlways == Spec => []PublishedReachesMatched
<1>1. MatchingAssumption
  BY MatchingAssumption
<1>2. Init => PromiseInv
  BY DEF Init, PromiseInv, StillWanted, PublishedReachesMatched, OnItsWay, Working
<1>3. OutboxInv /\ PlanInv /\ PromiseInv /\ [Next]_vars => PromiseInv'
  BY <1>1, PromiseStep
<1>4. PromiseInv => PublishedReachesMatched
  BY DEF PromiseInv
<1> QED
  BY <1>2, <1>3, <1>4, OutboxInvariant, PlanInvariant, PTL DEF Spec

=============================================================================
