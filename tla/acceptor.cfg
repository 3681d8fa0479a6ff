SPECIFICATION FairSpec
CONSTANTS
  CLIENT_COUNT = 2
  MaxConns = 4
  MaxCreateFail = 1
INVARIANTS
  TypeOK
  SlotExclusive
  SlotOwned
  SlotsLostByFailure
  SlotsAccounted
PROPERTIES
  LeaveEnds
CHECK_DEADLOCK FALSE
