SPECIFICATION Spec
CONSTANTS
  JobIds = {2}
  Self = self
  Peers = {p1}
  NoGateway = NoGateway
  MaxGatewayRetries = 2
  StatesToMaintain = 2
  LastCycle = 3
  JobCycle <- FirstCycle
  JobEnv <- Env1
  U64Limit = 1000
  ChannelSize = 1
  RequestCopies = {once}
  CommonCopies = {once}
  PeersAgree = TRUE
  RpcFaults = FALSE
  Selections <- AllSelections
PROPERTY
  SlashOnlyUnrelayed
CHECK_DEADLOCK FALSE
