SPECIFICATION FairSpec
CONSTANTS
  alice = alice
  bob = bob
  daily = daily
  Plugins <- MCPlugins
  Ids = {daily}
  Creators <- MCAliceId
  Periods = {1, 3}
  Zones = {0, 1}
  Horizon = 2
  MaxTime = 2
  MaxRevision = 3
  RunLimit = 1
  MaxStops = 1
INVARIANTS
  EngineMatchesTable
  RemovedStaysRemoved
PROPERTIES
  FiredOnceIfDated
  DueFires
CHECK_DEADLOCK FALSE
