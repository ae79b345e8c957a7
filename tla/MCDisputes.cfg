\* Two requests, the cases worked on in turn; the deposit comes by a checkout, which may
\* be declined and reopen the booking, or by hand, and goes back through Chapa or by hand.
CONSTANTS
  r1 = r1
  r2 = r2
  c1 = c1
  Requests <- TwoRequests
  Checkouts <- OneCheckout
  MaxRefunds = 1
  MaxCases = 2
  WindowDays = 7
  Compensation = "paid"
  GatewayEnabled = TRUE
  MayDie = FALSE
  MayLose = FALSE
SPECIFICATION InTurnSpec
SYMMETRY RequestSym
INVARIANTS
  DisputesTypeOK
  FrozenHasCase
  CompletedWasPaidFor
PROPERTIES
  ResumesWhereItWas
  HeldIsNotForgotten
CHECK_DEADLOCK FALSE
