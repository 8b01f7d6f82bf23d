CONSTANTS
  NOFBUFS = 4
  Readers = {r1, r2}
  Prefetch = 2
  MaxBlock = 2
  MaxFills = 4
  KeepUp = TRUE
SPECIFICATION Spec
INVARIANT GetbufReturnsBlock
