\* A worker stops between claiming an event and publishing it.
CONSTANTS
  c1 = c1  c2 = c2  s1 = s1  s2 = s2  s3 = s3  push = push  sms = sms
  Alert = {1, 2}
  Consumer = {c1, c2}
  Citizen = {c1}
  Subscription = {s1, s2, s3}
  owner <- Owners
  RuleSet <- OneOrAll
  Preference <- TwoPreferences
  NoPreference = NoPreference
  Worker = {w1}
  BatchSize = 2
  Request = {}
  MaxVersion = 1
  MaxFaults = 1
SPECIFICATION MCSpec
INVARIANT NotPermanentlySkipped
CHECK_DEADLOCK FALSE
