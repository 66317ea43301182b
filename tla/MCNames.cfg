CONSTANTS
  X = X
  Y = Y
  F1 = F1
  F2 = F2
  FLen = 5
  UCHAR = 3
  MaxInsn = 2
  Silly = 2
  Words = {X, Y}
  NoName = NoName
  Bad = Bad
  UserFiles = {F1, F2}
  NoFile = NoFile
  Worlds <- MCWorlds
  MaxNames = 2
  Linear = 2
  LST_STEP = 2
  THRESH = 4
  MTHRESH = 6
SPECIFICATION Spec
INVARIANTS
  NamesFound
  LabelsDumped
PROPERTIES
  DumpEnds
CHECK_DEADLOCK FALSE
