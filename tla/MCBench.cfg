SPECIFICATION Spec
CONSTANTS
  Orders = {o1, o2}
  Slot <- OneSlot
  Limit = 1
  MaxParallel = 2
  Patience = 2
  RouteRounds = 2
  RetryFailed = FALSE
  Refusals = TRUE
  Menus <- Everything
SYMMETRY Symmetric
INVARIANTS TypeOK SlotLimit CompletedIsClean
PROPERTY ClaimsAdopted
CHECK_DEADLOCK FALSE
