CONSTANTS
  Zero = Zero
  Junk = Junk
  NoByte = NoByte
  a = a
  Byte = {Zero, a}
  MaxLen = 4
  BufSize = 2
  MaxGap = 0
  Modes = {"ro", "rw"}
  Dirs = {"forward", "random", "backscan", "rforward", "rbackscan"}
  Data <- SmallData
  Counts = {2, 4}
  InitFiles <- SmallFiles
  Faults = FALSE
SPECIFICATION Spec
INVARIANTS CleanMirror LengthTracked NoJunk
PROPERTIES ImplementsStream
