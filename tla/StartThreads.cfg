SPECIFICATION Spec
CONSTANTS
  First = 1
  Last = 3
  Cycles = {3, 5}
  Unmeasured = 9
  MaxCalls = 2
  Main = Main
INVARIANTS
  TypeOK
  LaunchedTogether
  NobodyLeftBehind
  ResultIsAnAverage
PROPERTIES
  ImplementsRounds
CHECK_DEADLOCK FALSE
