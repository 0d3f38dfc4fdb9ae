SPECIFICATION MCSpec
CONSTANTS
  Requests = {r1, r2}
  None = None
  Upload = Upload
  Numbers = {1}
  Payloads = {big, tiny}
  Small = {tiny}
  Parallel = 1
  MaxFaults = 0
SYMMETRY Symmetry
INVARIANTS
  ReplacedPartIsDeleted
