CONSTANTS
  Zero = Zero
  Junk = Junk
  NoByte = NoByte
  a = a
  Byte = {Zero, a}
  MaxLen = 3
  BufSize = 2
  MaxGap = 1
  Modes = {"ro", "rw"}
  Dirs = {"forward", "random"}
  Data <- LongData
  Counts = {4}
  InitFiles <- SmallFiles
  Faults = TRUE
SPECIFICATION FairSpec
INVARIANTS TypeOK WindowFits AccessInBuffer
PROPERTIES ReaderWritesNothing CallReturns
