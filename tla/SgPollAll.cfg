SPECIFICATION LiveSpec
CONSTANTS
  Threads = {t1, t2}
  t1 = t1
  t2 = t2
  MaxChunks = 2
  MaxDesc = 2
  Errors = TRUE
  Timeouts = TRUE
INVARIANTS
  TypeOK
  SuccessMeansDone
  NoBugAlone
  EngineFollowsList
PROPERTY RequestReturns
