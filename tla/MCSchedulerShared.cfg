SPECIFICATION Spec
CONSTANTS
  alice = alice
  bob = bob
  daily = daily
  Plugins <- MCPlugins
  Ids = {daily}
  Creators <- MCSharedId
  Periods = {2}
  Zones = {0}
  Horizon = 2
  MaxTime = 1
  MaxRevision = 3
  RunLimit = 1
  MaxStops = 1
INVARIANTS
  UnregisteredStaysAway
CHECK_DEADLOCK FALSE
