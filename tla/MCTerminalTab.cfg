SPECIFICATION Spec
CONSTANTS
  Width = 4
  Height = 2
  TabWidth = 2
  Output <- Kinds
  MaxOutput = 6
INVARIANT CursorOnCanvas
CHECK_DEADLOCK FALSE
