SPECIFICATION Spec
CONSTANTS
  w1 = w1
  w2 = w2
  NoSource = NoSource
  Source = {s1}
  Worker = {w1, w2}
  Item = {i1}
  SilentErrors = FALSE
  LeaseTicks = 2
  MaxRuns = 2
  MaxRequests = 3
  MaxFaults = 2
INVARIANT
  AcceptedRequestIsQueued
CHECK_DEADLOCK FALSE
