SPECIFICATION Spec
CONSTANTS
  MaxQuestions = 2
  MaxConcurrency = 2
  None = None
INVARIANTS
  TypeOK
  ResponseMatchesStore
  TracesAreHonest
PROPERTY
  Terminates
CHECK_DEADLOCK FALSE
