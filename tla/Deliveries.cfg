\* Two workers and two recipients, one with a primary and a fallback, one with
\* two channels at once of which one has no adapter; or two webhook requests at a time,
\* with two callbacks, in any order, early, late and repeated, on the primary and its
\* fallback; or one of them beside a reviewer who reads.
CONSTANTS
  r1 = r1
  r2 = r2
  w1 = w1
  Delivery = {1, 2, 3, 4}
  Recipient = {r1, r2}
  recipient <- ChainRecipient
  tier <- ChainTier
  Registered = {1, 3, 4}
  Worker = {w1, w2}
  BatchSize = 2
  Handler = {h1, h2}
  EventId = {e1, e2}
  NoCallback = NoCallback
  Reader = {v1}
  MaxAttempts = 2
  MaxFaults = 2
SPECIFICATION DeliveriesSpec
SYMMETRY WebhookSymmetry
INVARIANTS
  SendingIsHeldOrStranded
  RecordsComplete
  ConflictsLoseNothing
  ReceiptBacked
  ViewsExplain
PROPERTY ImplementsContract
CHECK_DEADLOCK FALSE
