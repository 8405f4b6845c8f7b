SPECIFICATION FairSpec
CONSTANTS
  Gateways = {g1, g2}
  NoGateway = NoGateway
  MaxGatewayRetries = 2
  Views <- AllViews
  Faults = TRUE
INVARIANT
  NothingLeft
PROPERTIES
  AnswersItsOwn
  JobSettles
  ImplementsBooks
CHECK_DEADLOCK FALSE
