SPECIFICATION Spec
CONSTANTS
  JobIds = {1}
  Self = self
  Peers = {p1}
  NoGateway = NoGateway
  MaxGatewayRetries = 2
  StatesToMaintain = 2
  LastCycle = 3
  JobCycle <- FirstCycle
  JobEnv <- Env1
  U64Limit = 1000
  ChannelSize = 1
  RequestCopies = {once}
  CommonCopies = {once}
  PeersAgree = TRUE
  RpcFaults = TRUE
  Selections <- AllSelections
INVARIANTS
  TypeOK
  OneAttemptPerJob
  NobodyForgotten
  AttemptNotAhead
  StaleOnlyIfOvertaken
PROPERTIES
  GoneForGood
  ImplementsBook
CHECK_DEADLOCK FALSE
