SPECIFICATION Spec
CONSTANTS
  CLIENT_THREAD_COUNT = 3
  CONCURRENT_WORK_COUNT = 2
  GLOBAL_WORK_LIMIT = 2
  Inputs = {"WORK"}
  ReusesFreed = FALSE
  MaxCmds = 4
  MaxCreateFail = 0
INVARIANTS
  WorksWithinLimit
CHECK_DEADLOCK FALSE
