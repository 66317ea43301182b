CONSTANTS
  D = 2
  Files <- MCFiles
  Places <- MCPlaces
  Modes <- MCModes
  Width = 2
  Height = 2
  BufSize = 9
  CodeLen <- MCCodeLen
  MaxCode = 3
  XX = 1
  BitOr <- MCOr
  BitAnd <- MCAnd
  BitXor <- MCXor
  Filler = 0
  MaxTyped = 2
  MaxEdits = 2
SPECIFICATION Spec
INVARIANTS
  OnlyTouched
  RowsAreInstructions
  CursorOnLine
CHECK_DEADLOCK FALSE
