------------------------------ MODULE MCAgreement -------------------------------
(* Agreement on two requests, two offers and two contracts. *)
EXTENDS Agreement, TLC

CONSTANTS r1, r2

TwoRequests == {r1, r2}

RequestSym == Permutations(TwoRequests)
===============================================================================
