SPECIFICATION Spec
CONSTANTS
  Readers = {r1, r2}
  Cpus = {c1, c2}
  MaxRaised = 3
  MaxSignals = 1
INVARIANTS
  TypeOK
  NoMissedWakeup
  OneReturnPerInterrupt
PROPERTIES
  FlagIsAnswered
  ImplementsEvent
CHECK_DEADLOCK FALSE
