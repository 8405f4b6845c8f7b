SPECIFICATION Spec
CONSTANTS
  Gateways = {1, 2}
  StatesToMaintain = 2
  LastCycle = 3
  LastBlock = 5
  ChainAhead = TRUE
  RpcFaults = TRUE
  StakeOf <- Stakes2
  DrainingAt <- Draining2
  MinStake = 4
  Factor = 2
INVARIANTS
  TypeOK
  AtMostOneBlockLate
  OfOneBlock
  SelectsByStake
  SelectsAlike
PROPERTY
  ImplementsContract
CHECK_DEADLOCK FALSE
