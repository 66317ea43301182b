CONSTANTS
  Zero = Zero
  Junk = Junk
  NoByte = NoByte
  a = a
  Byte = {Zero, a}
  MaxLen = 3
  BufSize = 2
  MaxGap = 0
  Modes = {"ro", "rw"}
  Dirs = {"forward", "random"}
  Data <- SmallData
  Counts = {2, 4}
  InitFiles <- SmallFiles
  Faults = TRUE
SPECIFICATION FairSpec
PROPERTIES SeekKeepsData
