\* The printer never signals.
CONSTANTS
  NULL = NULL
  Steps = 2
  CallsPerStep = 2
  MaxLost = 0
  SendMayFail = FALSE
SPECIFICATION FairSpec
PROPERTIES SimulationEnds
CHECK_DEADLOCK FALSE
