SPECIFICATION Spec
CONSTANTS
  MaxRetries = 2
  MaxManagers = 2
  MaxGoroutines = 5
  MaxCalls = 2
  MaxFaults = 1
  CallKinds = {"enable", "disable"}
PROPERTIES
  ObserverOwnsGeneration
CHECK_DEADLOCK FALSE
