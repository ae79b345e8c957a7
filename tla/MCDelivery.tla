------------------------------ MODULE MCDelivery -------------------------------
(* Delivery on two requests, or one, its deposit by one checkout or by     *)
(* hand.                                                                   *)
EXTENDS Delivery, TLC

CONSTANTS r1, r2, c1

OneRequest == {r1}
TwoRequests == {r1, r2}
OneCheckout == {c1}
NoCheckout == {}

(* A deal just booked, whose brand was sent to the checkout and has not    *)
(* paid yet.                                                               *)
SentToPayInit ==
  /\ status = "booked"
  /\ escrow = "pending"
  /\ req = [r \in Requests |-> Idle]
  /\ payment = [i \in Checkouts |-> "pending"]
  /\ checkout = [i \in Checkouts |-> "open"]
  /\ paymentRef = NoRef
  /\ handRefund = FALSE
  /\ dropped = {}
  /\ concepts = << >>
  /\ submissions = << >>
  /\ revisionsUsed = 0
  /\ proof = FALSE
  /\ waived = FALSE
  /\ frozenFrom = NotFrozen
  /\ misread = FALSE

SentToPaySpec == SentToPayInit /\ [][DeliveryNext]_deliveryVars

RequestSym == Permutations(TwoRequests)
===============================================================================
