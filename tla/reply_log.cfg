SPECIFICATION FairSpec
CONSTANTS
  Kinds = {"SOLN", "OKAY", "SLEP", "WORK"}
  MaxCmds = 2
INVARIANTS
  TypeOK
  WrittenIsLogged
  LogInOrder
  DiesBetweenReplies
  SolnsLoggedAsSent
  ReasonWhole
  ReplyInv
PROPERTIES
  WorkerMutexComes
