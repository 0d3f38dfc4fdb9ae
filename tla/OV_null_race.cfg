SPECIFICATION MCSpec
CONSTANTS
  Requests = {r1, r2}
  None = None
  Ops = {"put"}
  Parallel = 2
  MaxFaults = 0
  MaxToggles = 0
SYMMETRY Symmetry
INVARIANTS
  NullVersionUnique
