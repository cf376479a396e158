\* A result that is overwritten before it is sent.
CONSTANTS
  NULL = NULL
  NoThread = NoThread
  MaxRequests = 3
  MaxLost = 0
  SendMayFail = FALSE
SPECIFICATION Spec
INVARIANTS EveryResultIsSent
CHECK_DEADLOCK FALSE
