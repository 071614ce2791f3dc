SPECIFICATION FairSpec
CONSTANTS
  Modules <- Three
  Results = 0
  Schedules <- Circular
  Admits <- Accepted
PROPERTIES EventFinishes
CHECK_DEADLOCK FALSE
