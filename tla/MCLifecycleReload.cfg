SPECIFICATION Spec
CONSTANTS
  MaxRetries = 2
  MaxManagers = 2
  MaxGoroutines = 5
  MaxCalls = 1
  MaxFaults = 2
  CallKinds = {"reloadRequest"}
INVARIANTS
  DeadLetterEarned
CHECK_DEADLOCK FALSE
