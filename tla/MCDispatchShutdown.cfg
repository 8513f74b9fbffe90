SPECIFICATION FairSpec
CONSTANTS
  high = high
  low = low
  chat = chat
  cmdHigh = cmdHigh
  room = room
  dm = dm
  Kind <- MCKind
  Target <- MCTarget
  Lane <- MCLane
  Subscribes <- MCSubscribes
  CommandTargets <- MCCommandTargets
  Declares <- MCDeclares
  Priority <- MCPriority
  Concurrency <- MCConcurrency
  Ops <- MCOps
  Plugins <- MCPlugins
  Events <- MCEvents
  MaxGen = 1
  EventLimit = 2
  ControlLimit = 1
  InitiallyRegistered <- MCPlugins
  Control = {}
  Scheduled = {}
  Cancelable = {}
  Resolved = {cmdHigh}
  Block = {}
  Answers = {"pass", "stop"}
  MayShutDown = TRUE
  Lanes = {room, dm}
INVARIANTS
  LayerOrder
  SameAdmissionOrder
PROPERTIES
  AcceptedSettle
CHECK_DEADLOCK FALSE
