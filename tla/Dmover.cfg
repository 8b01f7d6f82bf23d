SPECIFICATION LiveSpec
CONSTANTS
  BUF_NUM = 3
  MaxFills = 8
INVARIANTS
  BufferAccounted
  DeliveredInOrder
PROPERTY
  GetReturns
