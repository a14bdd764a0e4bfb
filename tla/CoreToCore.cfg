SPECIFICATION Spec
CONSTANTS
  Top = 6
  MaxCalls = 2
INVARIANTS
  TypeOK
  EchoOutlastsTheTest
  JoinsOnlyCreated
PROPERTIES
  EveryTripIsReal
  TestReturns
CHECK_DEADLOCK FALSE
