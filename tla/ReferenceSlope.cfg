\* As Payload.cfg, for the reference alone.  The gains
\* and the quadrocopter are elements of the field of 251.
CONSTANTS
  ByteBits = 2
  CharIsSigned = TRUE
  MAXBUF = 40
  Patterns <- MCPatterns
  MaxExchanges = 2
  P = 251
  m = 53
  g = 98
  Ix = 62
  Iy = 63
  Iz = 12
  LowVal = 7
  HighVal = 10
  sigma = 3
  TRaise = 5
  L0 = 81
  L1 = 108
  L2 = 54
  L3 = 120
  L0z = 30
  L1z = 31
  L0psy = 125
  L1psy = 126
  Tanh <- MCTanh
SPECIFICATION Spec
INVARIANTS ReferenceDerivatives
CHECK_DEADLOCK FALSE
