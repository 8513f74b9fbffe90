SPECIFICATION Spec
CONSTANTS
  Events = {"e"}
  Ids <- DetachOnly
  Concurrency = 1
  Terminals = {"plain", "message"}
PROPERTIES
  DetachedEndsPlainly
CHECK_DEADLOCK FALSE
