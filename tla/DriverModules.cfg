\* Two drivers, two cores that come and go, two programs and three device
\* numbers: one driver can be inserted a second time.
CONSTANTS
  NCpus = 2
  Majors = 3
  Users = {u1, u2}
  Nothing = Nothing
SPECIFICATION Spec
INVARIANTS
  TypeOK
  NobodyInsideAGoneDriver
  CrashNeedsARace
  WalksReachSteadyCores
