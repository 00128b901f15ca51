\* Two workers, one of which may stop, while two requests edit a subscription, a consumer
\* with two subscriptions changes its preference, or two consumers come and go.
CONSTANTS
  c1 = c1  c2 = c2  s1 = s1  s2 = s2  s3 = s3  push = push  sms = sms
  Alert = {1, 2}
  Consumer = {c1, c2}
  Citizen = {c1}
  Subscription = {s1, s2, s3}
  owner <- Owners
  RuleSet <- OneOrAll
  Preference <- TwoPreferences
  NoPreference = NoPreference
  Worker = {w1, w2}
  BatchSize = 2
  Request = {q1, q2}
  MaxVersion = 2
  MaxFaults = 1
SPECIFICATION MCSpec
INVARIANTS
  OnlyStopsLose
  PublishedReachesMatched
  TiersFromOnePreference
  DeliveriesExplained
PROPERTIES
  SealedWhenPublished
  PublishedUnlessLost
CHECK_DEADLOCK FALSE
