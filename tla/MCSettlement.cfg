\* Two requests, the cases worked on in turn, operators moving the money.
CONSTANTS
  r1 = r1
  r2 = r2
  c1 = c1
  n1 = n1
  Requests <- TwoRequests
  Senders <- TwoRequests
  Checkouts <- NoCheckouts
  Numbers <- OneNumber
  MaxRefunds = 1
  MaxCases = 2
  MaxPayouts = 2
  WindowDays = 7
  Compensation = "paid"
  GatewayEnabled = FALSE
  MayDie = FALSE
  MayLose = FALSE
SPECIFICATION InTurnSpec
SYMMETRY RequestSym
INVARIANTS
  NotPaidBothWays
  PaidWasReleased
CHECK_DEADLOCK FALSE
