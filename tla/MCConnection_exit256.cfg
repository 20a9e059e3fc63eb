SPECIFICATION FairSpec
CONSTANTS
  Targets <- MCTargets
  Location <- MCLocation
  NoTarget = NoTarget
  PageSize = 1
  GenSize = 1
  Modulus = 6
  Scripts <- AllScripts
  NoScript = NoScript
  Peers <- OnePeer
  Talks <- ScriptTalk
  Fd = {f1, f2, f3}
  NoFd = NoFd
PROPERTIES
  CgiErrorExitAnswered
CHECK_DEADLOCK FALSE
