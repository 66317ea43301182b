CONSTANTS
  V1 = V1
  V2 = V2
  MCPercent = MCPercent
  MCUnset = MCUnset
  Percent = MCPercent
  Unset = MCUnset
  Plain <- MCPlain
  Keys <- MCKeys
  Worlds <- MCWorlds
SPECIFICATION Spec
INVARIANTS
  ReadersAgree
PROPERTIES
  ImplementsSettings
  ReadsWhatIsStored
