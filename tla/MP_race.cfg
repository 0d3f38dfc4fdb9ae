SPECIFICATION MCSpec
CONSTANTS
  Requests = {r1, r2, r3, r4}
  None = None
  Upload = Upload
  Numbers = {1, 2}
  Payloads = {big, tiny}
  Small = {tiny}
  Parallel = 3
  MaxFaults = 1
SYMMETRY Symmetry
INVARIANTS
  CompletedAsListed
  PartsOutliveFailedComplete
  NothingAfterTheEnd
  LeftoverOnlyByOverlap
