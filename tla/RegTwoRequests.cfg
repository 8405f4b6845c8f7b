SPECIFICATION FairSpec
CONSTANTS
  Requests = {r1, r2}
  Owners = {o1, o2}
  Wallets = {w1, w2}
  Chains = {c1, c2}
  IdSets <- SingleIds
  Common = common
  None = None
  Faults = TRUE
INVARIANTS
  TypeOK
  SignersFollowWallet
  OneIdentity
  NoCircularWait
  RegisteredEverywhere
PROPERTY
  StartsOrIsLost
