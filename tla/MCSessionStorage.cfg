SPECIFICATION Spec
CONSTANTS
  Clients = {c1, c2}
  Ids = {i1, i2}
  NoId = NoId
  AgeTime = 2
  CleanerTime = 2
  MaxTime = 6
  MaxCount = 1
SYMMETRY BothAlike
INVARIANTS
  TypeOK
  BrowserRecognised
  NoneOverstays
PROPERTIES
  LiveSessionKept
