SPECIFICATION FairSpec
CONSTANTS
  NONCE_MAX = 3
  ThreadCounts = {0, 1, 2, 3}
  MaxCreateFail = 1
INVARIANTS
  TypeOK
  NoNonceTwice
  BtchesStopped
PROPERTIES
  SearchSound
  SearchEnds
  ValidNonceFound
CHECK_DEADLOCK FALSE
