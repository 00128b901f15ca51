\* The console posts again after a lost answer.
CONSTANTS
  k1 = k1  f1 = f1  f2 = f2
  Case = {k1}
  Report = {r1}
  Request = {q1}
  NoRequest = NoRequest
  NoReport = NoReport
  Alert = {a1, a2}
  Form = {f1}
  caseOf <- OneCase
  keying <- AllFresh
  MaxTries = 2
  Canceller = {x1}
  Nothing = Nothing
  \* reading
  MaxAlerts = 1
  Batch = 2
  MaxLimit = 2
  Limits = {0, 3}
  Offsets = {0, 1}
  Filters = {"any", "ACTIVE"}
  NoRead = NoRead
  MaxRows = 0
  Asked = {1, 3}
  NoWalk = NoWalk
  \* sending
  FieldLists <- Posted
  LegacyLists <- OneLanguage
  RetryLimit = 8
  NoDraft = NoDraft
  NoAlertYet = NoAlertYet
  NoAdapterYet = NoAdapterYet
SPECIFICATION AlertsSpec
INVARIANT RetryCannotCreateTwo
CHECK_DEADLOCK FALSE
