CONSTANTS
  k1 = k1  c1 = c1  c2 = c2  s1 = s1  s2 = s2  push = push  sms = sms  mail = mail  w1 = w1
  Case = {k1}
  Report = {r1}
  Request = {q1}
  NoRequest = NoRequest
  NoReport = NoReport
  Alert = {1}
  Form = {f1}
  caseOf <- OneCase
  keying <- AllKept
  MaxTries = 1
  Canceller = {x1}
  Nothing = Nothing
  Consumer = {c1, c2}
  Citizen = {c1}
  Subscription = {s1, s2}
  owner <- Owners
  RuleSet <- OneRule
  Preference <- Preferences
  NoPreference = NoPreference
  Editor = {e1}
  MaxVersion = 2
  Slot = {1, 2, 3, 4, 5}
  recipient <- Recipients
  tier <- SecondIsLast
  Registered = {1, 2, 3, 4, 5}
  MaxAttempts = 2
  Handler = {h1}
  EventId = {i1}
  NoCallback = NoCallback
  NotInserted = NotInserted
  Worker = {w1, w2}
  BatchSize = 2
  NoTimeout = {push}
  MaxFaults = 1
SPECIFICATION MCPipelineSpec
INVARIANTS
  HeardIsExplained
  ReachedOnce
  OwedIsInTable
PROPERTIES
  OwedIsServed
