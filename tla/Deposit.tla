-------------------------------- MODULE Deposit --------------------------------
(***************************************************************************)
(* What the deposit of one paid deal promises, with none of the requests   *)
(* that keep the promise: money enters by a checkout that was paid, once   *)
(* for each of them, or by a person's hand into an empty deposit; it       *)
(* leaves to the creator or back to the brand, and only when it is there.  *)
(* Escrow implements it, and Cancellation still does.                      *)
(***************************************************************************)
CONSTANT References  \* the tx_refs that may be issued for the deal

VARIABLES
  funds,    \* where the deposit is: "none" before there is one
  source,   \* what last brought it in: a reference, or somebody's hand
  paid,     \* the references the payer paid
  credited  \* the references that were applied to the deal

depositVars == <<funds, source, paid, credited>>

DepositInit ==
  /\ funds = "none"
  /\ source = "none"
  /\ paid = {}
  /\ credited = {}

Pay(i) ==
  /\ paid' = paid \cup {i}
  /\ UNCHANGED <<funds, source, credited>>

(* A second payment of a deal that is funded is credited and moves nothing. *)
Credit(i) ==
  /\ i \in paid \ credited
  /\ credited' = credited \cup {i}
  /\ \/ /\ funds # "held"
        /\ funds' = "held"
        /\ source' = i
     \/ /\ funds = "held"
        /\ UNCHANGED <<funds, source>>
  /\ UNCHANGED paid

RecordByHand ==
  /\ funds = "none"
  /\ funds' = "held"
  /\ source' = "manual"
  /\ UNCHANGED <<paid, credited>>

Leave(to) ==
  /\ funds = "held"
  /\ funds' = to
  /\ UNCHANGED <<source, paid, credited>>

DepositNext ==
  \/ \E i \in References : Pay(i) \/ Credit(i)
  \/ RecordByHand
  \/ Leave("released") \/ Leave("refunded")

DepositSpec == DepositInit /\ [][DepositNext]_depositVars
===============================================================================
