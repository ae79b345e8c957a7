------------------------------ MODULE MCDisputes -------------------------------
(* Disputes on one or two requests and one checkout. *)
EXTENDS Disputes, TLC

CONSTANTS r1, r2, c1

OneRequest == {r1}
TwoRequests == {r1, r2}
OneCheckout == {c1}
NoCheckouts == {}

(* A deal the brand paid through Chapa, disputed while in production. *)
FundedCaseInit ==
  /\ status = "disputed"
  /\ escrow = "held"
  /\ req = [r \in Requests |-> Idle]
  /\ payment = [i \in Checkouts |-> "success"]
  /\ checkout = [i \in Checkouts |-> "paid"]
  /\ paymentRef = c1
  /\ handRefund = FALSE
  /\ dropped = {}
  /\ RefundsInit
  /\ cancelSide = Nobody
  /\ asked = {}
  /\ cases = <<[status |-> "open", side |-> "creator", answer |-> NoRequest]>>
  /\ auditFrom = "in_production"
  /\ frozenAt = "in_production"

FundedCaseSpec == FundedCaseInit /\ [][DisputesNext]_disputeVars /\ OperatorFairness

(* A booked deal that was disputed once, whose case was withdrawn; its     *)
(* brand was sent to the checkout and has not paid yet.                    *)
ResumedInit ==
  /\ status = "booked"
  /\ escrow = "pending"
  /\ req = [r \in Requests |-> Idle]
  /\ payment = [i \in Checkouts |-> "pending"]
  /\ checkout = [i \in Checkouts |-> "open"]
  /\ paymentRef = NoRef
  /\ handRefund = FALSE
  /\ dropped = {}
  /\ RefundsInit
  /\ cancelSide = Nobody
  /\ asked = {}
  /\ cases = <<[status |-> "withdrawn", side |-> "creator", answer |-> NoRequest]>>
  /\ auditFrom = "booked"
  /\ frozenAt = "booked"

(* Two requests, but for the overlaps of cases that MCDisputesViolated     *)
(* shows; only the creator asks to cancel, which bounds the states.        *)
InTurnNext ==
  /\ DisputesNext
  /\ CasesInTurn' /\ RaiseUndisturbed
  /\ \A r \in Requests : req'[r].op = "cancel.ask" => req'[r].side = "creator"

InTurnSpec == ResumedInit /\ [][InTurnNext]_disputeVars

RequestSym == Permutations(TwoRequests)
===============================================================================
