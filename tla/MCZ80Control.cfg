SPECIFICATION Spec
CONSTANTS
  PcBase = 3
  ProgramBytes <- Opcodes
  Budgets = {1, 5}
  StackWords = 2
  RstVector = 0
  Mode1Vector = 1
  Mode2Vector = 2
  NmiVector = 2
INVARIANTS TypeOK HandlersRunMasked
PROPERTIES EiShadow ReturnsResume EmulateReturns
