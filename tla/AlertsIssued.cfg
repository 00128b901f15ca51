\* Two clients post and post again, one keeping its key and one without, while
\* two requests cancel and a reviewer moves the case.
CONSTANTS
  k1 = k1  f1 = f1  f2 = f2
  Case = {k1}
  Report = {r1}
  Request = {q1}
  NoRequest = NoRequest
  NoReport = NoReport
  Alert = {a1, a2}
  Form = {f1, f2}
  caseOf <- OneCase
  keying <- KeptAndNone
  MaxTries = 2
  Canceller = {x1, x2}
  Nothing = Nothing
  \* reading
  MaxAlerts = 3
  Batch = 2
  MaxLimit = 2
  Limits = {0, 3}
  Offsets = {0, 1}
  Filters = {"any", "ACTIVE"}
  NoRead = NoRead
  MaxRows = 4
  Asked = {1, 3}
  NoWalk = NoWalk
  \* sending
  FieldLists <- Posted
  LegacyLists <- OneLanguage
  RetryLimit = 8
  NoDraft = NoDraft
  NoAlertYet = NoAlertYet
  NoAdapterYet = NoAdapterYet
SPECIFICATION AlertsSpec
SYMMETRY Symmetry
INVARIANTS
  AlertsTypeOK
  NothingUnpublished
  AttemptsAccounted
  ListsFaithful
  KeptKeyMakesOne
  AlertHistory
  AlertsFollowVerification
CHECK_DEADLOCK FALSE
