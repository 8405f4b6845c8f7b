SPECIFICATION FairSpec
CONSTANTS
  JobIds = {1}
  Self = self
  Peers = {p1}
  NoGateway = NoGateway
  MaxGatewayRetries = 3
  StatesToMaintain = 2
  LastCycle = 1
  JobCycle <- FirstCycle
  JobEnv <- Env1
  U64Limit = 1000
  ChannelSize = 1
  RequestCopies = {once}
  CommonCopies = {once}
  PeersAgree = TRUE
  RpcFaults = FALSE
  Selections <- AllSelections
INVARIANT
  TrackedMeansWatched
PROPERTY
  TasksFinish
CHECK_DEADLOCK FALSE
