SPECIFICATION Spec
CONSTANTS
  Threads = {t1, t2}
  t1 = t1
  t2 = t2
  MaxChunks = 1
  MaxDesc = 1
  Errors = FALSE
  Timeouts = FALSE
INVARIANT CompletedMeansExecuted
