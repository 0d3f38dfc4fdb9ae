SPECIFICATION MCSpec
CONSTANTS
  Requests = {r1, r2, r3}
  None = None
  Ops = {"put", "delete", "head", "list"}
  Parallel = 3
  MaxFaults = 1
  MaxToggles = 1
SYMMETRY Symmetry
INVARIANTS
  EnabledVersionSurvives
  NullVersionSurvives
  DeletedStaysDeleted
  NodesAndObjectsAgree
  NullTwinsOnlyByOverlap
  CachesStaleOnlyByOverlap
  
