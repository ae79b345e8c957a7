\* Two requests beside each other and a checkout, which may be paid late or declined and
\* reopen the booking, or the deposit recorded by hand: two concepts, two submissions,
\* one revision agreed.
CONSTANTS
  r1 = r1
  r2 = r2
  c1 = c1
  Requests <- TwoRequests
  Checkouts <- OneCheckout
  Allowance = 1
  MaxConcepts = 2
  MaxSubmissions = 2
  Compensation = "paid"
  GatewayEnabled = TRUE
  MayDie = FALSE
  MayLose = FALSE
SYMMETRY RequestSym
SPECIFICATION SentToPaySpec
INVARIANTS
  DeliveryTypeOK
  
  
  SettledWasShown
CHECK_DEADLOCK FALSE
