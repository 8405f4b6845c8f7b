SPECIFICATION FairSpec
CONSTANTS
  MaxBlock = 7
  Gaps = {0, 1, 2, 3}
  InitialRate = 3
  MaxRetries = 1
  RpcFaults = TRUE
INVARIANTS
  TypeOK
  FoundIsLast
  AnswerNotExcluded
  GivesUpRightly
PROPERTY
  SearchEnds
CHECK_DEADLOCK FALSE
