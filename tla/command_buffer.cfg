SPECIFICATION FairSpec
CONSTANTS
  BUFFER_LEN = 4
  INIT_CMD_STR_SIZE = 2
  Bytes = {"CR", "LF", "NUL", "A"}
  MaxBytes = 6
INVARIANTS
  TypeOK
  UsedReceived
PROPERTIES
  LinesDelivered
CHECK_DEADLOCK FALSE
