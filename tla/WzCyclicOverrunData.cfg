CONSTANTS
  NOFBUFS = 4
  Readers = {r1}
  Prefetch = 2
  MaxBlock = 1
  MaxFills = 6
  KeepUp = FALSE
SPECIFICATION Spec
INVARIANT HeldDataIntact
