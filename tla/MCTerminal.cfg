SPECIFICATION Spec
CONSTANTS
  Width = 4
  Height = 2
  TabWidth = 2
  Output <- Kinds
  MaxOutput = 6
INVARIANTS TypeOK DrawnIsMarked CursorKept
PROPERTIES ScrollFollowsText EventuallyShown PrintCompletes
CHECK_DEADLOCK FALSE
