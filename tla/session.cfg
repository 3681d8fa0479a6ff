SPECIFICATION Spec
CONSTANTS
  CLIENT_THREAD_COUNT = 2
  CONCURRENT_WORK_COUNT = 1
  GLOBAL_WORK_LIMIT = 2
  Inputs = {"WORK", "ABRT", "EOF"}
  ReusesFreed = TRUE
  MaxCmds = 4
  MaxCreateFail = 1
INVARIANTS
  TypeOK
  TurnHeld
  ConcurrencyBound
  RepliesInOrder
  NodesOwned
  JoinsLiveThreads
  OrderInv
PROPERTIES
  WorksInOrder
  PermitsLostByCancel
CHECK_DEADLOCK FALSE
