\* The gateway on: two requests, two checkouts, requests may die at any await.
CONSTANTS
  r1 = r1
  r2 = r2
  c1 = c1
  c2 = c2
  Requests <- MCRequests
  Checkouts <- TwoCheckouts
  Compensation = "paid"
  GatewayEnabled = TRUE
  MayLose = FALSE
  MayDie = TRUE
SPECIFICATION FairEscrowSpec
INVARIANTS
  HeldIsBacked
  SuccessIsRecorded
  
PROPERTIES
  KeepsDeposit
  PaidIsRecorded
CHECK_DEADLOCK FALSE
