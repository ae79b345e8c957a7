\* The gateway on, one press of Send at a time, requests may die, answers may be lost.
CONSTANTS
  r1 = r1
  r2 = r2
  n1 = n1
  n2 = n2
  Requests <- TwoRequests
  Senders <- OneRequest
  Numbers <- TwoNumbers
  MaxPayouts = 2
  Compensation = "paid"
  GatewayEnabled = TRUE
  MayDie = TRUE
  MayLose = TRUE
SPECIFICATION FairPayoutsSpec
INVARIANTS
  PaidAtMostOnce
  FailedMovedNothing
  SentToVerified
PROPERTIES
  QueuedIsSettled
CHECK_DEADLOCK FALSE
