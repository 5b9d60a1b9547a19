SPECIFICATION FairSpec
CONSTANTS
  a = a
  b = b
  c = c
  Node = {a, b, c}
  Edge <- Join
  Start = {r1}
  Stop = {s1}
  NoSession = NoSession
  MaxParallel = 2
  MaxLaunch = 2
  Faults = {"raise"}
INVARIANTS
  TopologicalStart
  ReverseTopologicalStop
  RunningIsComplete
  StopIsComplete
PROPERTIES
  StopTerminates
CHECK_DEADLOCK FALSE
