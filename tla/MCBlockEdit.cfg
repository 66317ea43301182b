SPECIFICATION FairEdit
CONSTANTS
  a = a
  b = b
  c = c
  d = d
  Zero = zero
  Junk = junk
  NoByte = nobyte
  Byte = {a, b, c, d, zero}
  MaxLen = 4
  Block = 2
  EditFaults = TRUE
  Files <- Short
INVARIANTS EditTypeOK InsertionIsExact DeletionIsExact Halfway NothingLost
PROPERTY EditEnds
