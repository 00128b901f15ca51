\* One worker, one handler, one callback, no fault at all: the callback may come
\* before the worker has recorded the send.
CONSTANTS
  r1 = r1
  r2 = r2
  Delivery = {1}
  Recipient = {r1, r2}
  recipient <- ChainRecipient
  tier <- ChainTier
  Registered = {1}
  Worker = {w1}
  BatchSize = 1
  Handler = {h1}
  EventId = {e1}
  NoCallback = NoCallback
  MaxAttempts = 2
  MaxFaults = 0
SPECIFICATION Spec
INVARIANTS
  MootStaysMoot
CHECK_DEADLOCK FALSE
