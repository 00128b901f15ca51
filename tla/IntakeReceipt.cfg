\* The answer to the first attempt is lost.
CONSTANTS
  Report = {r1, bad}
  Valid = {r1}
  Flush = {f1}
  NoCall = NoCall
  MaxFaults = 1
SPECIFICATION Spec
INVARIANT QueuedGetsReceipt
CHECK_DEADLOCK FALSE
