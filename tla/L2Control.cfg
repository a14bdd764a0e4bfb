SPECIFICATION Spec
CONSTANTS
  Tools = {p1, p2, p3}
  Lines = {x1, x2}
INVARIANTS
  TypeOK
  WrittenIsInMemory
  NoOldWordIsRead
CHECK_DEADLOCK FALSE
