SPECIFICATION Spec
CONSTANTS
  Input <- MCInput
  BufSize = 2
  VecSize = 2
  IovMax = 2
  MaxLine = 1
INVARIANTS
  OneOwner
  CountsAgree
  ReadBufferWhole
PROPERTIES
  ImplementsByteQueue
CHECK_DEADLOCK FALSE
