\* A user and the console on an open port.
CONSTANTS
  Depth = 2
  TtyChars = 2
  RxChars = 3
  Lines = 1
  LineLen = 2
  MayOops = TRUE
  UserCalls = {"xchar", "flow", "stoprx", "termios"}
SPECIFICATION Spec
INVARIANTS
  TypeOK
  NoTxLoss
  RxInOrder
CHECK_DEADLOCK FALSE
