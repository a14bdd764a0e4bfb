SPECIFICATION Spec
CONSTANTS
  Procs = {q1, q2}
  Align = 4
  Stride = 8
  MapBytes = 12
  Bases = {16, 32}
  FileSizes = {2, 3, 4}
  MaxReads = 1
  Null = Null
INVARIANTS
  TextIsIntact
CHECK_DEADLOCK FALSE
