SPECIFICATION FairSpec
CONSTANTS
  c1 = c1  c2 = c2
  f1 = f1  f2 = f2  f3 = f3
  NoFd = NoFd
  Clients = {c1, c2}
  Fd = {f1, f2, f3}
  MaxEvents = 4
  Requests = {"answer", "page", "program", "feed", "upload"}
CONSTRAINT Calm
INVARIANTS
  TypeOK
  EventsMeetTheirOwner
  DeletedOnce
  NobodyForgotten
  NoDescriptorLost
PROPERTIES
  ClosesOnlyItsOwn
  GoneClientsAreDeleted
CHECK_DEADLOCK FALSE
