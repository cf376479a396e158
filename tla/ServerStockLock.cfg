\* The mutex the comment on batch_stock_access_mu promises.
CONSTANTS
  NULL = NULL
  NoThread = NoThread
  MaxRequests = 2
  MaxLost = 0
  SendMayFail = FALSE
SPECIFICATION Spec
INVARIANTS StockAccessIsLocked
CHECK_DEADLOCK FALSE
