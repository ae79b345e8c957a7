\* Both sides negotiate, sign and are introduced at once.
CONSTANTS
  r1 = r1
  r2 = r2
  Requests <- TwoRequests
  MaxProposals = 2
  MaxContracts = 2
  Compensation = "paid"
  GatewayEnabled = FALSE
  MayDie = TRUE
  MayLose = FALSE
SYMMETRY RequestSym
SPECIFICATION AgreementSpec
INVARIANTS
  SignedByBothIsSigned
  BookedUnderContract
  DeclinedIsNotProposed
PROPERTIES
  ContractIsFinal
CHECK_DEADLOCK FALSE
