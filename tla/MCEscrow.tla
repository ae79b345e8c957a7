------------------------------- MODULE MCEscrow --------------------------------
(* Escrow on two requests and one or two checkouts. *)
EXTENDS Escrow

CONSTANTS r1, r2, c1, c2

MCRequests == {r1, r2}
OneCheckout == {c1}
TwoCheckouts == {c1, c2}
===============================================================================
