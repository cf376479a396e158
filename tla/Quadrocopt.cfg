\* One step, two lost datagrams.
CONSTANTS
  NULL = NULL
  NoThread = NoThread
  Steps = 1
  CallsPerStep = 4
  MaxLost = 2
SPECIFICATION FairSpec
INVARIANTS AnswerIsRecent PairsAreWhole FewInFlight
PROPERTIES OneLossIsSurvived SecondLossStops ImplementsExchange
CHECK_DEADLOCK FALSE
