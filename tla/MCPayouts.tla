------------------------------- MODULE MCPayouts --------------------------------
(* Payouts on two requests, two account numbers, two payout rows. *)
EXTENDS Payouts

CONSTANTS r1, r2, n1, n2

OneRequest == {r1}
TwoRequests == {r1, r2}
OneNumber == {n1}
TwoNumbers == {n1, n2}
===============================================================================
