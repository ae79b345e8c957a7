---------------------------- MODULE MCCancellation -----------------------------
(* Cancellation on two requests and one checkout. *)
EXTENDS Cancellation, TLC

CONSTANTS r1, r2, c1

TwoRequests == {r1, r2}
OneCheckout == {c1}

RequestSym == Permutations(TwoRequests)
===============================================================================
