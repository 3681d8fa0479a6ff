SPECIFICATION FairSpec
CONSTANTS
  CLIENT_THREAD_COUNT = 2
  CONCURRENT_WORK_COUNT = 1
  GLOBAL_WORK_LIMIT = 1
  Inputs = {"SOLN", "SLEP", "ABRT", "EOF"}
  ReusesFreed = TRUE
  MaxCmds = 3
  MaxCreateFail = 2
INVARIANTS
  OnlyUnlockLeft
PROPERTIES
  EveryCommandAnswered
  SessionEnds
CHECK_DEADLOCK FALSE
