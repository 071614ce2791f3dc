SPECIFICATION FairSpec
CONSTANTS
  Modules <- Three
  Results = 0
  Schedules <- Configurations
  Admits <- Runnable
INVARIANTS CheckIsSound AssertsHold RunsOnceWhenNeeded InputsSettled VerdictOfPath OutcomeOfEvent DeletedAfterLastReader
PROPERTIES EventFinishes
CHECK_DEADLOCK FALSE
