\* The gateway on, two presses of Send at once.
CONSTANTS
  r1 = r1
  r2 = r2
  n1 = n1
  n2 = n2
  Requests <- TwoRequests
  Senders <- TwoRequests
  Numbers <- OneNumber
  MaxPayouts = 2
  Compensation = "paid"
  GatewayEnabled = TRUE
  MayDie = FALSE
  MayLose = FALSE
SPECIFICATION PayoutsSpec
INVARIANTS
  PaidAtMostOnce
CHECK_DEADLOCK FALSE
