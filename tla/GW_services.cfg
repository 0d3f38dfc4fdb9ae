SPECIFICATION ServicesSpec
CONSTANTS
  Requests = {r1, r2}
  MaxClients = 1
  MaxDumps = 2
  MaxToggles = 1
  None = None
  Unset = Unset
  Broken = Broken
  First <- FirstFile
  Files <- FourFiles
  Servers = 2
  MaxEdits = 1
  MaxHups = 2
  MaxGens = 3
  Lists <- FiveLists
  Known = {"dns", "nns"}
  MaxUpdates = 2
INVARIANTS
  PlacesAreServed
  StatisticsAreTrue
  ProcessIsSound
  OneListPerRequest
PROPERTIES
  WaitersAreAnswered
  ReloadsAndStopsEnd
CHECK_DEADLOCK FALSE
