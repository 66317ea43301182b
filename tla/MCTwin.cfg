SPECIFICATION Spec
CONSTANTS
  WA = WA
  WB = WB
  WC = WC
  Width = 4
  Height = 3
  Windows <- MCWindows
  Framed <- MCFramed
  Shapes <- MCShapes
  Places <- MCPlaces
  Steps <- MCSteps
  Freezable <- MCFreezable
  Strings <- MCStrings
  Filler = Filler
  Frame = Frame
  Desktop = Desktop
  Junk = Junk
INVARIANTS ScreenIsComposite SavedIsBeneath FrameIntact
PROPERTY ResizeKeepsText
