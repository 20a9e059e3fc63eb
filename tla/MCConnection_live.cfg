SPECIFICATION FairSpec
CONSTANTS
  Targets <- MCTargets
  Location <- MCLocation
  NoTarget = NoTarget
  PageSize <- NoErrorPage
  GenSize = 1
  Modulus = 6
  Scripts <- AllScripts
  NoScript = NoScript
  Peers <- AnsweredPeers
  Talks <- AnsweredTalks
  Fd = {f1, f2, f3}
  NoFd = NoFd
PROPERTIES
  AllAnswered
CHECK_DEADLOCK FALSE
