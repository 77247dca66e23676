SPECIFICATION FairSpec
CONSTANTS
  Kind <- BothKinds
  Initial = 2
  MaxItems = 3
  MaxRelaunch = 1
  MaxCrashes = 1
INVARIANTS TypeOK Sequential NoLeftLock
PROPERTIES CancelTakesEffect
CHECK_DEADLOCK FALSE
