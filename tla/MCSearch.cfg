CONSTANTS
  a = a
  A = A
  b = b
  blank = blank
  Chars = {a, A, b, blank}
  Upper <- MCUpper
  Separators = {blank}
  Blank = blank
  Junk = {a, b}
  Files <- MCFiles
  Patterns <- MCPatterns
  Flags <- MCFlags
  MaxSearches = 2
SPECIFICATION Spec
INVARIANTS
  FoundIsThere
  ForwardFindsFirst
  BackwardFindsNearest
PROPERTIES
  SearchEnds
CHECK_DEADLOCK FALSE
