SPECIFICATION MCSpec
CONSTANTS
  Requests = {r1, r2, r3, r4}
  None = None
  Kinds = {"settings", "cors", "notifications", "tags"}
  Parallel = 2
  MaxFaults = 1
SYMMETRY Symmetry
INVARIANTS
  TwinsOnlyByOverlap
  ChangeLostOnlyByOverlap
  DeletedConfigStaysDeleted
  NamedObjectExists
  OrphanOnlyByOverlap
  StaleOnlyByOverlapOrFailure
