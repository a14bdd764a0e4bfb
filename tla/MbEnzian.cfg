\* The machine has 48 cores; a latency test has 8 to 64 lines.
CONSTANTS
  MinExp = 3
  MaxExp = 6
  Garbage = Garbage
  NCpus = 48
  Options <- MCOptions
SPECIFICATION Spec
INVARIANTS
  TypeOK
  EveryLineOnce
  NothingDisturbs
PROPERTIES
  SelectedTestsRun
CHECK_DEADLOCK FALSE
