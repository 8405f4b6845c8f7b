SPECIFICATION Spec
CONSTANTS
  Gateways = {1}
  StatesToMaintain = 2
  LastCycle = 3
  LastBlock = 5
  ChainAhead = FALSE
  RpcFaults = FALSE
  StakeOf <- Stakes2
  DrainingAt <- Draining2
  MinStake = 4
  Factor = 2
INVARIANT
  UpToDate
CHECK_DEADLOCK FALSE
