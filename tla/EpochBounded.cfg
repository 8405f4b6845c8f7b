SPECIFICATION FairSpec
CONSTANTS
  Gateways = {}
  StatesToMaintain = 2
  LastCycle = 4
  LastBlock = 5
  ChainAhead = TRUE
  RpcFaults = TRUE
  StakeOf <- Stakes2
  DrainingAt <- Draining2
  MinStake = 4
  Factor = 2
INVARIANTS
  PrunedIsTooOld
  NothingExpiredAtRest
PROPERTY
  EveryCycleHandled
CHECK_DEADLOCK FALSE
