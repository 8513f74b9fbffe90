SPECIFICATION Spec
CONSTANTS
  Events = {"first", "second"}
  Actions = {"a"}
  Processes = {1}
  MaxPending = 1
  MaxDetached = 1
  Concurrency = 1
  Terminals = {"ok", "error", "message"}
  MaxPipe = 1
PROPERTIES
  LateFramesIgnored
CHECK_DEADLOCK FALSE
