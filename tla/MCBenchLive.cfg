SPECIFICATION FairSpec
CONSTANTS
  Orders = {o1}
  Slot <- OneSlot
  Limit = 1
  MaxParallel = 1
  Patience = 2
  RouteRounds = 2
  RetryFailed = TRUE
  Refusals = TRUE
  Menus <- Stopping
PROPERTIES StopHolds RunSettles
CHECK_DEADLOCK FALSE
