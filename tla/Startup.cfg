\* time_end: 0.1 (the code's), 1.0 and 10.0 as floats of 24 bits, each with the steps
\* below: the sums are rounded up, rounded down, or exact.
CONSTANTS
  Precision = 24
  TimeEnds = {214748368, 268435456, 167772160}
  NSTEPs = {7, 10}
SPECIFICATION Spec
INVARIANTS StartTogether ReferenceCoversFlight StagesAreOnTime
PROPERTIES EveryoneStarts
CHECK_DEADLOCK FALSE
