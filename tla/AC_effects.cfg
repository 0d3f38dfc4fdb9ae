SPECIFICATION Spec
CONSTANTS
  None = None
  g1 = g1
  g2 = g2
  SseKey = SseKey
  Gates = {g1, g2}
  MaxFaults = 1
  EventRequests = {1, 2, 3}
  EventObjects = {"o", "p"}
  Confs <- FourConfs
  Enabled = TRUE
  RouteRequests = {1}
  Queries <- EighteenQueries
  Origins = {"o", "p"}
  Configs <- FourConfigs
  MaxQueries = 2
  MaxPuts = 2
  AuthRequests = {1}
  Issuers = {1}
  Options <- FiveOptions
  Allowed <- OneAllowed
  EpochLength = 2
  CacheLife = 2
  MaxTime = 4
  MaxBoxes = 1
  BucketRequests = {1, 2, 3, 4}
  MaxContainers = 2
  TagRequests = {"r1", "r2", "r3"}
  FirstVersion = "first"
  TagSets = {"t", "u"}
  Parallel = 2
INVARIANTS
  EffectsAreKept
CHECK_DEADLOCK FALSE
