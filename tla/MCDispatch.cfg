SPECIFICATION MCSpec
CONSTANTS
  Plugins <- MCPlugins
  Events <- MCEvents
  Lanes = {"room", "one", "two"}
  MaxGen = 2
  EventLimit = 2
  ControlLimit = 1
  InitiallyRegistered = {}
  Kind <- MCKind
  Target <- MCTarget
  Control = {"started"}
  Scheduled = {"hourly"}
  Cancelable = {}
  Lane <- MCLane
  Subscribes <- MCSubscribes
  Resolved = {}
  CommandTargets <- MCCommandTargets
  Declares <- MCDeclares
  Priority <- MCPriority
  Block <- MCBlock
  Concurrency <- MCConcurrency
  Answers = {"pass"}
  Ops <- MCOps
  MayShutDown = TRUE
INVARIANTS
  LanesSound
  ControlOvertakenOnce
  LayersFollowPolicy
  ExitComplete
  ShutdownComplete
CHECK_DEADLOCK FALSE
