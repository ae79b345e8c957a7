-------------------------------- MODULE Refunds --------------------------------
(***************************************************************************)
(* Returning a deposit through Chapa: lib/server/refunds.ts.  send is not  *)
(* an endpoint: the handlers that end a deal call it, so this module gives *)
(* its awaits as actions and Cancellation and Disputes start them.         *)
(* reconcile runs from the webhook and from an operator's refreshRefund.   *)
(***************************************************************************)
EXTENDS Escrow, Sequences

CONSTANT MaxRefunds  \* bound on the refunds rows of the deal

ASSUME MaxRefundsAssumption == MaxRefunds \in Nat

VARIABLES
  refunds,   \* the refunds rows of the booking, by id
  returning  \* the refund of each row at Chapa

refundVars == <<refunds, returning>>

RefundIds == 1 .. MaxRefunds

(* whole: it returns the whole deposit and not a part of the price; known: *)
(* Chapa's own reference, the only handle verifyRefund takes, is stored.   *)
RefundRows ==
  [status : PayoutStatuses, ref : Checkouts, whole : BOOLEAN, known : BOOLEAN]

ReturnStates == {"none", "accepted", "paid", "reversed"}

RefundRequests ==
  [op : {"refund.count", "refund.deposit"}, whole : BOOLEAN]
    \cup [op : {"refund.insert"}, whole : BOOLEAN, ref : Checkouts]
    \cup [op : {"refund.call", "refund.refused", "refund.verify",
                "refund.claim", "refund.failed", "refund.mark"},
          id : RefundIds]
    \cup [op : {"refund.queued"}, id : RefundIds, known : BOOLEAN]

RefundsInit ==
  /\ refunds = << >>
  /\ returning = [i \in RefundIds |-> "none"]

-------------------------------------------------------------------------------
(* send; what its callers do after it is tell people *)

(* What a caller does with the request to run send. *)
SendRefund(r, whole) == Goto(r, [op |-> "refund.count", whole |-> whole])

LiveRefunds == {i \in 1 .. Len(refunds) : refunds[i].status \in LivePayoutStatuses}

RefundCount(r) ==
  /\ At(r, "refund.count")
  /\ \/ /\ LiveRefunds = {}
        /\ Goto(r, [op |-> "refund.deposit", whole |-> req[r].whole])
     \/ /\ LiveRefunds # {}
        /\ Done(r)
  /\ UNCHANGED <<row, money, refundVars>>

(* refundableDeposit: a payment that succeeded.  A MANUAL- deposit has none. *)
RefundDeposit(r) ==
  /\ At(r, "refund.deposit")
  /\ \/ \E i \in Checkouts :
           /\ payment[i] = "success"
           /\ Goto(r, [op |-> "refund.insert", whole |-> req[r].whole, ref |-> i])
     \/ /\ \A i \in Checkouts : payment[i] # "success"
        /\ Done(r)
  /\ UNCHANGED <<row, money, refundVars>>

RefundInsert(r) ==
  /\ At(r, "refund.insert")
  /\ Len(refunds) < MaxRefunds
  /\ refunds' = Append(refunds, [status |-> "pending", ref |-> req[r].ref,
                                 whole |-> req[r].whole, known |-> FALSE])
  /\ Goto(r, [op |-> "refund.call", id |-> Len(refunds) + 1])
  /\ UNCHANGED <<row, money, returning>>

(* Accepted; some answers carry Chapa's reference in neither known place. *)
RefundAccepted(r) ==
  /\ At(r, "refund.call")
  /\ returning' = [returning EXCEPT ![req[r].id] = "accepted"]
  /\ \E k \in BOOLEAN :
        Goto(r, [op |-> "refund.queued", id |-> req[r].id, known |-> k])
  /\ UNCHANGED <<row, money, refunds>>

(* Refused, or accepted with the answer lost, which reads the same. *)
RefundNotOk(r) ==
  /\ At(r, "refund.call")
  /\ \/ UNCHANGED returning
     \/ MayLose /\ returning' = [returning EXCEPT ![req[r].id] = "accepted"]
  /\ Goto(r, [op |-> "refund.refused", id |-> req[r].id])
  /\ UNCHANGED <<row, money, refunds>>

AdvanceRefund(i, from, to) ==
  refunds' = [refunds EXCEPT ![i].status = IF @ = from THEN to ELSE @]

RefundRefused(r) ==
  /\ At(r, "refund.refused")
  /\ AdvanceRefund(req[r].id, "pending", "failed")
  /\ Done(r)
  /\ UNCHANGED <<row, money, returning>>

RefundQueued(r) ==
  /\ At(r, "refund.queued")
  /\ refunds' = [refunds EXCEPT ![req[r].id] =
                   IF @.status = "pending"
                     THEN [@ EXCEPT !.status = "queued", !.known = req[r].known]
                     ELSE @]
  /\ Done(r)
  /\ UNCHANGED <<row, money, returning>>

-------------------------------------------------------------------------------
(* Chapa, and reconcile *)

ReturnMoves(i) ==
  /\ returning[i] = "accepted"
  /\ \E s \in {"paid", "reversed"} : returning' = [returning EXCEPT ![i] = s]
  /\ UNCHANGED <<row, req, money, refunds>>

RefundReconcileRead(r, i) ==
  /\ GatewayEnabled
  /\ i \in 1 .. Len(refunds)
  /\ refunds[i].status # "success"
  /\ refunds[i].known
  /\ Begin(r, [op |-> "refund.verify", id |-> i])
  /\ UNCHANGED <<row, money, refundVars>>

(* A slip: a return on its way reads as one that arrived. *)
BugRefundReconcileAnswer(r) ==
  /\ At(r, "refund.verify")
  /\ returning[req[r].id] \in {"accepted", "paid"}
  /\ Goto(r, [op |-> "refund.claim", id |-> req[r].id])
  /\ UNCHANGED <<row, money, refundVars>>

RefundReconcileAnswer(r) ==
  /\ At(r, "refund.verify")
  /\ \/ Done(r)
     \/ /\ returning[req[r].id] = "paid"
        /\ Goto(r, [op |-> "refund.claim", id |-> req[r].id])
     \/ /\ returning[req[r].id] = "reversed"
        /\ Goto(r, [op |-> "refund.failed", id |-> req[r].id])
  /\ UNCHANGED <<row, money, refundVars>>

RefundReconcileFailed(r) ==
  /\ At(r, "refund.failed")
  /\ AdvanceRefund(req[r].id, "queued", "failed")
  /\ Done(r)
  /\ UNCHANGED <<row, money, returning>>

(* Only a refund of the whole deposit goes on to mark the booking. *)
RefundClaim(r) ==
  /\ At(r, "refund.claim")
  /\ AdvanceRefund(req[r].id, "queued", "success")
  /\ LET refund == refunds[req[r].id] IN
     \/ /\ refund.status = "queued" /\ refund.whole
        /\ Goto(r, [op |-> "refund.mark", id |-> req[r].id])
     \/ /\ ~(refund.status = "queued" /\ refund.whole)
        /\ Done(r)
  /\ UNCHANGED <<row, money, returning>>

(* By id alone, whatever escrow_status says by now. *)
RefundMark(r) ==
  /\ At(r, "refund.mark")
  /\ escrow' = "refunded"
  /\ Done(r)
  /\ UNCHANGED <<status, money, refundVars>>

-------------------------------------------------------------------------------
RefundStep(r) ==
  \/ RefundCount(r) \/ RefundDeposit(r) \/ RefundInsert(r)
  \/ RefundAccepted(r) \/ RefundNotOk(r) \/ RefundRefused(r) \/ RefundQueued(r)
  \/ \E i \in RefundIds : RefundReconcileRead(r, i)
  \/ RefundReconcileAnswer(r) \/ RefundReconcileFailed(r)
  \/ RefundClaim(r) \/ RefundMark(r)

RefundsTypeOK ==
  /\ refunds \in Seq(RefundRows) /\ Len(refunds) <= MaxRefunds
  /\ returning \in [RefundIds -> ReturnStates]

(* The refunds whose money went back, or is on its way. *)
MoneyBack == {i \in 1 .. Len(refunds) : returning[i] \in {"accepted", "paid"}}
===============================================================================
