SPECIFICATION Spec
CONSTANTS
  Readers = {r1}
  Cpus = {c1}
  MaxRaised = 1
  MaxSignals = 1
INVARIANTS
  ReturnsOnlyOnInterrupt
CHECK_DEADLOCK FALSE
