SPECIFICATION FairSpec
CONSTANTS
  Session = {w1, w2}
  NoSession = NoSession
  NoTime = NoTime
  Horizon = 1
  Grace = 0
  MaxRequest = 1
  MaxCrash = 1
  Requests <- AllRequests
  Faults <- AllFaults
INVARIANTS TypeOK LetGoMeansReleased GoneMeansLetGo NotBeforeNetwork Agreement
PROPERTIES EndServed SessionsReturn
CHECK_DEADLOCK FALSE
