\* A user that opens and closes the port, and no console.
CONSTANTS
  Depth = 2
  TtyChars = 4
  RxChars = 3
  Lines = 0
  LineLen = 1
  MayOops = FALSE
  UserCalls = {"flow", "close"}
SPECIFICATION FairSpec
PROPERTIES
  TxDrains
  RxDrains
CHECK_DEADLOCK FALSE
