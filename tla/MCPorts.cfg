SPECIFICATION Spec
CONSTANTS
  Instances = {i1, i2, i3}
  Callers = {r1, r2}
  Pool = {1, 2}
  Default = 1
  Foreign = {}
  MaxStarts = 2
  Faults = {"agent", "crash", "rm"}
SYMMETRY MCSymmetry
INVARIANTS PortsApart AllocatedApart
CHECK_DEADLOCK FALSE
