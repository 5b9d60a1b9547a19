SPECIFICATION FairSpec
CONSTANTS
  Session = {w1, w2}
  NoSession = NoSession
  NoTime = NoTime
  Horizon = 2
  Grace = 0
  MaxRequest = 0
  MaxCrash = 1
  Requests <- None
  Faults <- None
PROPERTIES EndSurvivesRestart
CHECK_DEADLOCK FALSE
