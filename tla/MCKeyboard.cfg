SPECIFICATION Spec
CONSTANTS
  KB_BUFSIZE = 2
  LowerKeys = {"a"}
  UpperKeys = {"a"}
  OtherKeys = {"F1"}
  PlainKeys = {"RETURN"}
  Neighbours <- AnyNeighbour
  MaxEvents = 4
  MaxTyped = 3
INVARIANTS TypeOK FirstKeyIntact
PROPERTY ReturnGetsThrough
CHECK_DEADLOCK FALSE
