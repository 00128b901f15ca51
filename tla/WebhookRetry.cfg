\* One worker, one handler, one callback and one database error or crash while
\* the callback is handled.
CONSTANTS
  r1 = r1
  r2 = r2
  Delivery = {1}
  Recipient = {r1, r2}
  recipient <- ChainRecipient
  tier <- ChainTier
  Registered = {1}
  Worker = {w1}
  BatchSize = 1
  Handler = {h1}
  EventId = {e1}
  NoCallback = NoCallback
  MaxAttempts = 2
  MaxFaults = 1
SPECIFICATION Spec
INVARIANTS
  RetryIsHonoured
CHECK_DEADLOCK FALSE
