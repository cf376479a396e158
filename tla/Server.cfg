\* Four requests, two lost datagrams, a sendto that may fail.
CONSTANTS
  NULL = NULL
  NoThread = NoThread
  MaxRequests = 4
  MaxLost = 2
  SendMayFail = TRUE
SPECIFICATION FairSpec
INVARIANTS IInv NoStockRace NoBatchLost AnswersInOrder
PROPERTIES ImplementsResultService EveryRequestIsAnswered
CHECK_DEADLOCK FALSE
