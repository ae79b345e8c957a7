\* One run at a time beside the operators, and queries that throw.
CONSTANTS
  r1 = r1
  r2 = r2
  Runs <- OneRun
  Creators <- ThreeCreators
  GroupsOf <- Categories
  Newcomers <- TwoNewcomers
  Configs <- Saved
  Measures <- Found
  Boxes <- InManualMode
  Positions = {0}
  MaxOverrides = 1
  MaxAge = 1
  MayFail = TRUE
SPECIFICATION TrendingSpec
INVARIANTS
  PinsKeepTheirSeats
  NewcomersGetIn
  NoSlotIsWasted
  RestIsKept
  LockIsGivenBack
CHECK_DEADLOCK FALSE
