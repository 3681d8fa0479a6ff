SPECIFICATION Spec
CONSTANTS
  CLIENT_THREAD_COUNT = 2
  CONCURRENT_WORK_COUNT = 1
  GLOBAL_WORK_LIMIT = 2
  Inputs = {"WORK", "PING"}
  ReusesFreed = FALSE
  MaxCmds = 3
  MaxCreateFail = 0
INVARIANTS
  WorkNotKilled
CHECK_DEADLOCK FALSE
