SPECIFICATION AllSpec
CONSTANTS
  None = none
  Events = {1, 2, 3}
  KeyOf <- MCKeyOf
  Stoppers = {"s"}
  LaneCapacity = 1
  Concurrency = 1
  Callers = {"c1", "c2", "c3"}
  Limits <- MCLimits
  MaxWindow = 2
  Messages = {1, 2}
  ActorOf <- MCActorOf
  Everybody = "everybody"
  Owners = {1, 2}
  PluginOf <- MCPluginOf
  MaxSessions = 2
  MaxTotal = 2
  MaxPerPlugin = 2
  Timeouts = {2}
  MaxLifetime = 3
  PluginsAwait = TRUE
  MaxChanges = 3
  Settings <- MCSettings
  MaxStarts = 2
  MaxAttach = 2
  MaxTime = 2
  MaxCounted = 2
  MaxRuns = 2
  Logs = {"first", "second"}
  QueueCapacity = 1
  BatchSize = 2
  MaxKills = 1
INVARIANTS
  SessionsAttended
  IngressSound
  ConnectionCurrent
  AdapterSound
  StatisticsSound
  LogsKept
PROPERTIES
  AdmittedInTurn
  ExpiredInTime
  EverythingReturns
CHECK_DEADLOCK FALSE
