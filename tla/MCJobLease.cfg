SPECIFICATION FairSpec
CONSTANTS
  w1 = w1
  w2 = w2
  NoSource = NoSource
  Source = {s1}
  Worker = {w1, w2}
  Item = {i1}
  SilentErrors = FALSE
  LeaseTicks = 2
  MaxRuns = 2
  MaxRequests = 2
  MaxFaults = 2
INVARIANTS
  TypeOK
  OneOpenRunPerSource
  NoOrphanedRun
  PromotionSeesSuccess
PROPERTIES
  EveryRunSettles
  SuccessIsPromoted
  NoSupersededWrite
  ImplementsRunLifecycle
CHECK_DEADLOCK FALSE
