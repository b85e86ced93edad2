SPECIFICATION Spec
CONSTANTS
  MaxSockets = 3
  FirstSlot = 1
  Descriptors = {f1, f2, f3}
  ByteBase = 4
  Lengths = {0, 3}
  MaxUnread = 3
  MaxSpace = 1
SYMMETRY DescriptorSymmetry
CHECK_DEADLOCK FALSE
INVARIANT DescriptorsAvailable
