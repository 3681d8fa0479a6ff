SPECIFICATION Spec
CONSTANTS
  Alphas = {0, 1, 2, 3, 4, 6, 19, 31, 32, 33, 34, 35, 255}
  BetaBytes = {1, 255}
  NonceBytes = {0, 1}
  EXP_BITS = 16
  UpdateLens = {3, 10, 56}
  MaxMessage = 130
INVARIANTS
  ExpKept
  TargetExact
  HashedWhole
  VerdictRight
CHECK_DEADLOCK FALSE
