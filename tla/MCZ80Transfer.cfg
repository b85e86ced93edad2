SPECIFICATION Spec
CONSTANTS
  Memory0 <- MCMemory
  Answer <- MCAnswer
  Ticks = 4660
  Served = 77
  Cases <- MCCases
INVARIANTS TypeOK PairsRestore LoopsCount ControlFollows IndexReplacesHL
CHECK_DEADLOCK FALSE
