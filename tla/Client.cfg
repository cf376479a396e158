\* One step of six calls, then the shutdown; two answers lost, a sendto that may fail.
CONSTANTS
  NULL = NULL
  Steps = 1
  CallsPerStep = 6
  MaxLost = 2
  SendMayFail = TRUE
SPECIFICATION FairSpec
INVARIANTS IInv RequestsAreWhole AnswersAreNotLost CallGetsRecentAnswer FewAnswersWaiting
PROPERTIES NextStepReturns ShutdownEnds
CHECK_DEADLOCK FALSE
