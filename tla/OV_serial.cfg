SPECIFICATION MCSpec
CONSTANTS
  Requests = {r1, r2, r3, r4}
  None = None
  Ops = {"put", "delete", "head", "list"}
  Parallel = 1
  MaxFaults = 0
  MaxToggles = 2
SYMMETRY Symmetry
PROPERTIES
  SerialRequestsSeeOneStore
