SPECIFICATION Spec
CONSTANTS
  Orders = {c1, c2}
  Chat = {c1}
  Benchmark = {c2}
  Instances = {i1, i2}
  Slots = {s1}
  Routers = {r1, r2}
  Jobs = {j1, j2}
  NoOrder = NoOrder
  NoInstance = NoInstance
  NoSlot = NoSlot
  MaxRequest = 5
  Modes = {"deploy", "route_only"}
  Handlers <- All
SYMMETRY Symmetric
INVARIANTS TypeOK ClaimHeldByOne OneInstance SlotsHold ConversationFollows
 
CHECK_DEADLOCK FALSE
