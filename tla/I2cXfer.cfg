\* Callers that time out, on several CPUs, and a slave that may refuse.  After a bad
\* access the lock stays held.
CONSTANTS
  Transfers <- Messages
  Depth = 3
  Byte = 6
  ToggleOnWrite = TRUE
  FastBus = FALSE
  MayNack = TRUE
  MayTimeOut = TRUE
SPECIFICATION FairSpec
INVARIANTS
  TypeOK
  DoneMeansSent
  DoneMeansRead
  ErrorMeansFault
  NoBadAccess
  FifoFits
PROPERTY TransferEnds
CHECK_DEADLOCK FALSE
