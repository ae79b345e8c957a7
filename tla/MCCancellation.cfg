\* Both parties and an operator end a deal the brand is paying for.
CONSTANTS
  r1 = r1
  r2 = r2
  c1 = c1
  Requests <- TwoRequests
  Checkouts <- OneCheckout
  MaxRefunds = 2
  Compensation = "paid"
  GatewayEnabled = TRUE
  MayDie = TRUE
  MayLose = TRUE
SYMMETRY RequestSym
SPECIFICATION CancellationSpec
INVARIANTS
  RefundedAtMostOnce
  RefundedIsBacked
PROPERTIES
  AgreedByBoth
  KeepsDeposit
CHECK_DEADLOCK FALSE
