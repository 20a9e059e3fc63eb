SPECIFICATION Spec
CONSTANTS
  Targets <- MCTargets
  Location <- MCLocation
  NoTarget = NoTarget
  PageSize = 1
  GenSize = 1
  Modulus = 6
  Scripts <- AllScripts
  NoScript = NoScript
  Peers <- AllPeers
  Talks <- AllTalks
  Fd = {f1, f2, f3}
  NoFd = NoFd
SYMMETRY FdSymmetry
INVARIANTS
  TypeOK
  UploadWithinLimit
  BodyWithinLength
  AnswersInOrder
  ResponsesWellFramed
  NothingLeftBehind
  DisconnectCleansUp
PROPERTIES
  AckedUploadIsWhole
  FramedIsOrderly
CHECK_DEADLOCK FALSE
