SPECIFICATION FairSpec
CONSTANTS
  Txs = {t1, t2}
  Confirmations = 2
  MaxReorg = 2
  MaxRetries = 2
  RpcFaults = TRUE
  MaxHead = 8
  MaxLogs = 5
INVARIANT
  HandledIsFinal
PROPERTY
  FinalEventsHandled
CHECK_DEADLOCK FALSE
