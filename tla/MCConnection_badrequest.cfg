SPECIFICATION Spec
CONSTANTS
  Targets <- MCTargets
  Location <- MCLocation
  NoTarget = NoTarget
  PageSize = 1
  GenSize = 1
  Modulus = 6
  Scripts <- AllScripts
  NoScript = NoScript
  Peers <- OnePeer
  Talks <- BadRequestTalks
  Fd = {f1, f2, f3}
  NoFd = NoFd
INVARIANTS
  BadRequestDisconnects
CHECK_DEADLOCK FALSE
