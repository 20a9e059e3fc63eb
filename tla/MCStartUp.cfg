SPECIFICATION StartUpSpec
CONSTANTS
  Ports = {80, 81}
  Names = {"a"}
  Uris = {"/", "/a", ".x"}
  Extensions = {".x"}
  Numbers = {404}
  Methods = {"GET"}
  MaxNumbers = 2
  Files <- MCFiles
  Descriptors = {0, 1, 2, 3, 4, 5, 6, 7}
  Inherited <- MCInherited
INVARIANTS
  TypeOK
  OneDefaultPerPort
  ServersComplete
  NoRedirectPair
  NeverThrown
  ListenersIndexed
  ClientsBeyondListeners
CHECK_DEADLOCK FALSE
