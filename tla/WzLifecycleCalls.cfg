SPECIFICATION Spec
CONSTANTS
  NOFBUFS = 2
  Files = {f1, f2}
  f1 = f1
  f2 = f2
  Orders = {"tester", "restart", "any"}
  MaxAllocs = 2
  MaxStarts = 2
INVARIANTS
  TypeOK
  NoDanglingPointer
  BufReadyExact
  DmaIntoLiveBuffers
  MappedPagesLive
  NothingLeft
  NoBug
