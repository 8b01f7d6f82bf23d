SPECIFICATION Spec
CONSTANTS
  NOFBUFS = 2
  Files = {f1}
  f1 = f1
  Orders = {"restart"}
  MaxAllocs = 1
  MaxStarts = 2
INVARIANT DescriptorsFilled
