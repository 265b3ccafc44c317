SPECIFICATION Spec
CONSTANTS
  i1 = i1
  i2 = i2
  Item = {i1, i2}
  Content = {A, B}
  Gone = Gone
  None = None
  MaxRuns = 2
  MaxEdits = 2
  MaxFaults = 1
INVARIANT
  SkippedOutcomeIsRetained
CHECK_DEADLOCK FALSE
