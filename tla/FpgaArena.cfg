SPECIFICATION Spec
CONSTANTS
  Procs = {q1, q2}
  Align = 4
  Stride = 8
  MapBytes = 12
  Bases = {16}
  FileSizes = {2, 3, 4}
  MaxReads = 3
  Null = Null
INVARIANTS
  TypeOK
  BlocksAreDisjoint
  TextStaysInItsBlock
CHECK_DEADLOCK FALSE
