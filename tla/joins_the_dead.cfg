SPECIFICATION Spec
CONSTANTS
  CLIENT_COUNT = 2
  MaxConns = 3
  MaxCreateFail = 0
INVARIANTS
  JoinsTheDead
CHECK_DEADLOCK FALSE
