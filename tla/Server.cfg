CONSTANTS
  PoolSize = 3
  Connection = {c1, c2}
SPECIFICATION Spec
INVARIANTS
  TypeOK
  Balanced
  AlwaysAccepting
  NoEarlyExit
  QuietAfterRun
  OneHandlerPerConnection
PROPERTIES
  ShutsDown
  Served
CHECK_DEADLOCK FALSE
