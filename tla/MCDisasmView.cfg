SPECIFICATION Spec
CONSTANTS
  Height = 4
  GoAddrSize = 4
  BackAddrSize = 8
  WordBytes = 8
  FLen = 8
  MaxCodeLen = 3
  Align = 2
  Keys = {0, 1, 2}
  MaxBack = 1
  Codes <- SomeCodes
INVARIANTS TypeOK MarkLeads GuideOnScreen 
PROPERTIES UpUndoesDown PgUpUndoesPgDn
