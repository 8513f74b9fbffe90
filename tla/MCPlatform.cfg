SPECIFICATION AllSpec
CONSTANTS
  a1 = a1
  a2 = a2
  a3 = a3
  one = one
  None = None
  Torn = Torn
  Acquisitions <- MCAcquisitions
  Plugins <- MCPlugins
  PluginOf <- MCPluginOf
  Events = {"e"}
  Actions = {"a"}
  Processes = {1, 2}
  MaxPending = 1
  MaxDetached = 1
  Concurrency = 2
  Terminals = {"ok", "error", "message"}
  MaxPipe = 2
  SdkEvents = {1, 2}
  SdkIds <- MCIds
  SdkConcurrency = 1
  SdkTerminals = {"plain"}
  MaxOperations = 1
  Launches = {1, 2}
  LauncherOf <- MCLauncherOf
  ProfileOf <- MCProfileOf
  MaxAttempts = 2
  MaxCalls = 1
  MaxBusy = 2
  Requests = {1, 2}
  WorkerCounts = {1, 2}
  QueueMaxLength = 1
  MaxRunners = 2
  Closers = {"x"}
  Clients = {"client"}
  Requesters = {"handler"}
  Readiness = {"running", "degraded"}
  StatusBuffer = 1
  MaxPublishes = 1
INVARIANTS
  Exclusion
  EntriesCounted
  EventsAccounted
  PackageSound
  SdkSound
  BrowsersOwned
  RendersSound
  StopSound
PROPERTIES
  CrashReportedOnce
  EverythingEnds
CHECK_DEADLOCK FALSE
