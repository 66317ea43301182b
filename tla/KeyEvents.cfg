SPECIFICATION FairSpec
CONSTANTS
  KBUFSIZE = 3
  IntBytes = 2
  MaxKeys = 4
CHECK_DEADLOCK FALSE
INVARIANTS TypeOK KeysInOrder
PROPERTIES KeysArrive
