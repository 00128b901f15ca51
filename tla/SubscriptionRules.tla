-------------------------- MODULE SubscriptionRules --------------------------
(* The rules of a subscription: how the API accepts and answers them, how  *)
(* they are stored as JSON and read back, and which alerts they match.     *)
(* domain/src/subscription.rs, postgres/subscriptions.rs and the           *)
(* conversions of apps/api/src/subscriptions.rs and                        *)
(* citizen_subscriptions.rs, as operators on values.                       *)
EXTENDS Integers, Sequences, FiniteSets

CONSTANTS
  Incident,   \* IncidentType
  Severity,   \* numbers in the order of the enum
  Trigger,    \* CaseEventType
  Area,       \* names of areas; those that differ in case or outer blanks are one
  Target,     \* target geographies of alerts
  Within,     \* the targets whose text contains the name of an area
  Audience,   \* AlertVisibility
  Broad       \* CITIZEN_ALERT_VISIBILITIES

ASSUME RulesAssumption ==
  /\ Severity \subseteq Nat
  /\ Within \in [Area -> SUBSET Target]
  /\ Broad \subseteq Audience

Comparison == {"GreaterThan", "GreaterThanOrEqual", "Equal", "LessThanOrEqual", "LessThan"}

\* Comparison::evaluate
Evaluate(operator, left, right) ==
  CASE operator = "GreaterThan"        -> left > right
    [] operator = "GreaterThanOrEqual" -> left >= right
    [] operator = "Equal"              -> left = right
    [] operator = "LessThanOrEqual"    -> left <= right
    [] operator = "LessThan"           -> left < right

\* SubscriptionRule
Rule ==
  [rule : {"INCIDENT_TYPE"}, values : SUBSET Incident]
  \cup [rule : {"SEVERITY"}, operator : Comparison, value : Severity]
  \cup [rule : {"EVENT_TYPE"}, values : SUBSET Trigger]
  \cup [rule : {"GEOGRAPHY"}, areas : SUBSET Area]
  \cup [rule : {"VISIBILITY"}, values : SUBSET Audience]

\* What the rules can see of an alert.
Announcement ==
  [incident : Incident, severity : Severity, trigger : Trigger, target : Target,
   visibility : Audience]

-----------------------------------------------------------------------------
(* Matching. *)

MatchesTarget(area, target) == target \in Within[area]

EvaluateRule(r, alert) ==
  CASE r.rule = "INCIDENT_TYPE" -> alert.incident \in r.values
    [] r.rule = "SEVERITY"      -> Evaluate(r.operator, alert.severity, r.value)
    [] r.rule = "EVENT_TYPE"    -> alert.trigger \in r.values
    [] r.rule = "GEOGRAPHY"     -> \E area \in r.areas : MatchesTarget(area, alert.target)
    [] r.rule = "VISIBILITY"    -> alert.visibility \in r.values

EvaluateSubscription(subscription, alert) ==
  \A i \in DOMAIN subscription.rules : EvaluateRule(subscription.rules[i], alert)

\* evaluate_subscriptions: one decision for each subscription; their order is left out.
Decisions(list, alert) ==
  {[id |-> l.id, version |-> l.version, consumer |-> l.consumer,
    matched |-> EvaluateSubscription(l, alert)] : l \in list}

\* deduplicate_by_consumer: what matched for each consumer.
MatchedFor(decisions, consumer) == {d \in decisions : d.matched /\ d.consumer = consumer}

Deduplicated(decisions) ==
  [consumer \in {d.consumer : d \in {e \in decisions : e.matched}} |->
     MatchedFor(decisions, consumer)]

-----------------------------------------------------------------------------
(* What is asked for. *)

\* Areas of a request may be blank.
Blank == "blank"
AreaInput == Area \cup {Blank}

\* SubscriptionRuleInput; an operator is any string.
RuleInput ==
  [rule : {"INCIDENT_TYPE"}, values : SUBSET Incident]
  \cup [rule : {"SEVERITY"}, operator : Comparison \cup {"unknown"}, value : Severity]
  \cup [rule : {"EVENT_TYPE"}, values : SUBSET Trigger]
  \cup [rule : {"GEOGRAPHY"}, areas : SUBSET AreaInput]
  \cup [rule : {"VISIBILITY"}, values : SUBSET Audience]

\* to_domain_rule accepts it; an accepted input is the rule itself.
ToDomainRule(input) ==
  /\ input.rule = "SEVERITY" => input.operator \in Comparison
  /\ input.rule = "GEOGRAPHY" => input.areas # {} /\ Blank \notin input.areas

\* Subscription::new and update_rules want at least one rule.
AcceptedRules(inputs) ==
  Len(inputs) > 0 /\ \A i \in DOMAIN inputs : ToDomainRule(inputs[i])

\* What a citizen asks for; blank areas are dropped, not refused.
CitizenAsk == [incidents : SUBSET Incident, minimum : Severity, areas : SUBSET AreaInput]

AcceptedAsk(ask) == ask.incidents # {} /\ ask.areas \ {Blank} # {}

\* Mutant: whatever its visibility.
CitizenRulesAnyAudience(ask) ==
  <<[rule |-> "INCIDENT_TYPE", values |-> ask.incidents],
    [rule |-> "SEVERITY", operator |-> "GreaterThanOrEqual", value |-> ask.minimum],
    [rule |-> "GEOGRAPHY", areas |-> ask.areas \ {Blank}]>>

\* prepare_citizen_subscription and update_citizen_subscription add the visibility.
CitizenRules(ask) ==
  <<[rule |-> "INCIDENT_TYPE", values |-> ask.incidents],
    [rule |-> "SEVERITY", operator |-> "GreaterThanOrEqual", value |-> ask.minimum],
    [rule |-> "GEOGRAPHY", areas |-> ask.areas \ {Blank}],
    [rule |-> "VISIBILITY", values |-> Broad]>>

\* The last of the rules of a kind; other where there is none.
LastOf(rules, kind, other) ==
  LET places == {i \in DOMAIN rules : rules[i].rule = kind} IN
  IF places = {} THEN other
  ELSE rules[CHOOSE i \in places : \A j \in places : j <= i]

\* rules_response: what a citizen is shown of the rules.
Shown(rules) ==
  LET lowest == CHOOSE s \in Severity : \A t \in Severity : s <= t IN
  [incidents |-> LastOf(rules, "INCIDENT_TYPE", [values |-> {}]).values,
   minimum   |-> LastOf(rules, "SEVERITY", [value |-> lowest]).value,
   areas     |-> LastOf(rules, "GEOGRAPHY", [areas |-> {}]).areas]

-----------------------------------------------------------------------------
(* The column subscriptions.rules. *)

DatabaseComparison ==
  {"GREATER_THAN", "GREATER_THAN_OR_EQUAL", "EQUAL", "LESS_THAN_OR_EQUAL", "LESS_THAN"}

AsDatabaseValue(operator) ==
  CASE operator = "GreaterThan"        -> "GREATER_THAN"
    [] operator = "GreaterThanOrEqual" -> "GREATER_THAN_OR_EQUAL"
    [] operator = "Equal"              -> "EQUAL"
    [] operator = "LessThanOrEqual"    -> "LESS_THAN_OR_EQUAL"
    [] operator = "LessThan"           -> "LESS_THAN"

\* from_database_value, over the values that a row can hold.
FromDatabaseValue(value) == CHOOSE c \in Comparison : AsDatabaseValue(c) = value

\* A stored rule; rows written before several areas were supported carry one area.
StoredRule ==
  [rule : {"INCIDENT_TYPE"}, values : SUBSET Incident]
  \cup [rule : {"SEVERITY"}, operator : DatabaseComparison, value : Severity]
  \cup [rule : {"EVENT_TYPE"}, values : SUBSET Trigger]
  \cup [rule : {"GEOGRAPHY"}, areas : SUBSET Area]
  \cup [rule : {"GEOGRAPHY"}, area : Area]
  \cup [rule : {"VISIBILITY"}, values : SUBSET Audience]

RuleToJson(r) ==
  IF r.rule = "SEVERITY" THEN [r EXCEPT !.operator = AsDatabaseValue(@)] ELSE r

\* Mutant: the older form of an area is unknown.
RuleFromJsonNew(json) ==
  CASE json.rule = "SEVERITY" -> [json EXCEPT !.operator = FromDatabaseValue(@)]
    [] json.rule = "GEOGRAPHY" ->
         [rule |-> "GEOGRAPHY", areas |-> IF "areas" \in DOMAIN json THEN json.areas ELSE {}]
    [] OTHER -> json

RuleFromJson(json) ==
  CASE json.rule = "SEVERITY" -> [json EXCEPT !.operator = FromDatabaseValue(@)]
    [] json.rule = "GEOGRAPHY" ->
         [rule |-> "GEOGRAPHY",
          areas |-> IF "areas" \in DOMAIN json THEN json.areas ELSE {json.area}]
    [] OTHER -> json

RulesToJson(rules)  == [i \in DOMAIN rules |-> RuleToJson(rules[i])]
RulesFromJson(json) == [i \in DOMAIN json |-> RuleFromJson(json[i])]

\* list_geography_areas
GeographyAreas(list) ==
  {area \in Area : \E l \in list : \E i \in DOMAIN l.rules :
     l.rules[i].rule = "GEOGRAPHY" /\ area \in l.rules[i].areas}
=============================================================================
