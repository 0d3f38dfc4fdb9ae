SPECIFICATION MCSpec
CONSTANTS
  Requests = {r1, r2, r3}
  None = None
  First = First
  Dates = {1, 2}
  Ops = {"put", "retain", "hold", "get"}
  AsLatest = TRUE
  Parallel = 2
  MaxFaults = 1
SYMMETRY Symmetry
INVARIANTS
  LocksLostOnlyByRace
  ReportedIsEnforced
  StaleLockOnlyByAlias
