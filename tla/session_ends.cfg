SPECIFICATION FairSpec
CONSTANTS
  CLIENT_THREAD_COUNT = 2
  CONCURRENT_WORK_COUNT = 1
  GLOBAL_WORK_LIMIT = 2
  Inputs = {"WORK", "PING", "EOF"}
  ReusesFreed = FALSE
  MaxCmds = 3
  MaxCreateFail = 0
PROPERTIES
  SessionEnds
CHECK_DEADLOCK FALSE
