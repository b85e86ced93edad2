SPECIFICATION Spec
CONSTANTS
  ByteBase = 4
  WordBase = 8
  RBase = 4
  MaxChunk = 6
  Ops <- AllOps
  Counters <- MCCounters
  Pointers = {0, 2, 3, 7}
  Port = 3
  Sought = 5
PROPERTY ImplementsReference
CHECK_DEADLOCK FALSE
