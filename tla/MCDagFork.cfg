SPECIFICATION FairSpec
CONSTANTS
  a = a
  b = b
  c = c
  Node = {a, b, c}
  Edge <- Fork
  Start = {r1}
  Stop = {}
  NoSession = NoSession
  MaxParallel = 2
  MaxLaunch = 1
  Faults = {"timeout", "raise", "crash", "delete"}
INVARIANTS
  TypeOK
  RunningIsBacked
PROPERTIES
  KeepsPromise
  StartTerminates
CHECK_DEADLOCK FALSE
