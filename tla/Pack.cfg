\* Three waiters and two signallers on one pack; the program has one of each.
CONSTANTS
  Waiters = {w1, w2, w3}
  Signallers = {s1, s2}
  NoThread = NoThread
  InitVerifVar = FALSE
  MaxCalls = 2
  MaxSpurious = 1
SPECIFICATION FairSpec
INVARIANTS TypeOK MutualExclusion ClearSeesFlag NoLostWakeUp
PROPERTIES ImplementsBinarySignal SignalIsConsumed
CHECK_DEADLOCK FALSE
