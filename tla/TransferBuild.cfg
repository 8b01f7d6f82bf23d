SPECIFICATION Spec
CONSTANTS
  PageSize = 4
  DescMax = 11
  TransferMax = 16
  MaxExtraAdj = 1
  DescPerPage = 3
  Frames = {0, 1, 2}
  Requests <- MCRequests
INVARIANTS
  BufferCovered
  DescriptorsUsable
  CleanReturn
