SPECIFICATION MCSpec
CONSTANTS
  Requests = {r1, r2, r3}
  None = None
  First = First
  Dates = {1, 2}
  Ops = {"retain"}
  AsLatest = FALSE
  Parallel = 2
  MaxFaults = 0
SYMMETRY Symmetry
PROPERTY
  NeverShortened
