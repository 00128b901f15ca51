\* Two valid reports and one that is not, two overlapping flushes, three faults, under the
\* fairness of the timer.
CONSTANTS
  Report = {r1, r2, bad}
  Valid = {r1, r2}
  Flush = {f1, f2}
  NoCall = NoCall
  MaxFaults = 3
SPECIFICATION FairSpec
INVARIANTS
  ToldTruthfully
  ReceiptsAreReal
PROPERTY QueueSettles
CHECK_DEADLOCK FALSE
