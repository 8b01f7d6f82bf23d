CONSTANTS
  NOFBUFS = 2
  Readers = {r1, r2}
  Prefetch = 1
  MaxBlock = 2
  MaxFills = 3
  KeepUp = FALSE
SPECIFICATION Spec
INVARIANTS
  EngineStopNoticed
