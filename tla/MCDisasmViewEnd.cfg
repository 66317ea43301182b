SPECIFICATION Spec
CONSTANTS
  Height = 3
  GoAddrSize = 5
  BackAddrSize = 8
  WordBytes = 8
  FLen = 8
  MaxCodeLen = 3
  Align = 2
  Keys = {0, 1, 2}
  MaxBack = 1
  Codes <- TrailingOnly
INVARIANT PointersLead
