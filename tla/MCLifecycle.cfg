SPECIFICATION FairSpec
CONSTANTS
  MaxRetries = 2
  MaxManagers = 3
  MaxGoroutines = 5
  MaxCalls = 2
  MaxFaults = 2
  CallKinds = {"enable", "disable", "recover", "reloadRequest", "ensure"}
INVARIANTS
  ProcessesOwned
  IntentFollowed
PROPERTIES
  CrashSettles
CHECK_DEADLOCK FALSE
