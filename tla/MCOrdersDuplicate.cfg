SPECIFICATION Spec
CONSTANTS
  Orders = {c2}
  Chat = {}
  Benchmark = {c2}
  Instances = {i1, i2}
  Slots = {s1}
  Routers = {r1}
  Jobs = {j1, j2}
  NoOrder = NoOrder
  NoInstance = NoInstance
  NoSlot = NoSlot
  MaxRequest = 3
  Modes = {"deploy"}
  Handlers = {"result"}
INVARIANTS ResultMakesOneInstance
CHECK_DEADLOCK FALSE
