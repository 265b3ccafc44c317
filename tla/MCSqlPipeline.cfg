SPECIFICATION Spec
CONSTANTS
  postgres = postgres
  snowflake = snowflake
  execute = execute
  test = test
  admin1 = admin1
  None = None
  Source <- MCSource
  Enforcing <- MCEnforcing
  Caller <- MCCaller
  Admin <- MCAdmin
  MaxRequests = 2
  Query <- MCQuery
  OneStatement <- MCOneStatement
  InScope <- MCInScope
  SelectRooted <- MCSelectRooted
  Harmless <- MCHarmless
  Empty = Empty
  Executor = execute
  MaxRetries = 1
  SilentErrors = TRUE
INVARIANTS
  TypeOK
  OnlyGuardedRuns
  SessionsAreAuthorised
  AttemptsAreLogged
PROPERTIES
  ArchivedIsFinal
  Terminates
CHECK_DEADLOCK FALSE
