----------------------------- MODULE MCSettlement ------------------------------
(* Settlement on one or two requests, with or without a Chapa deposit. *)
EXTENDS Settlement, TLC

CONSTANTS r1, r2, c1, n1

OneRequest == {r1}
TwoRequests == {r1, r2}
OneCheckout == {c1}
NoCheckouts == {}
OneNumber == {n1}

(* Two requests: one works on the cases, no other moves the funds that a   *)
(* decision or a completion has read.                                      *)
InTurnNext == SettlementNext /\ CasesInTurn' /\ DepositUndisturbed

InTurnSpec == SettlementInit /\ [][InTurnNext]_settlementVars

RequestSym == Permutations(TwoRequests)
===============================================================================
