----------------------------- MODULE Cancellation ------------------------------
(***************************************************************************)
(* Calling a deal off: requestCancel and answerCancel, the handshake of    *)
(* the two parties, and operatorCancel.  A cancelled deal whose funds were *)
(* read as held asks Chapa to return them (Refunds); one funded by hand    *)
(* waits for an operator's recordRefund (Escrow).                          *)
(***************************************************************************)
EXTENDS Refunds

VARIABLES
  cancelSide,  \* bookings.cancel_requested_side
  asked        \* history: the parties that pressed Ask to cancel

Nobody == "nobody"

cancelVars == <<cancelSide, asked>>
cancellationVars == <<row, req, money, refundVars, cancelVars>>

CancelRequests ==
  [op : {"cancel.ask", "cancel.refuse"}, side : Sides]
    \cup [op : {"cancel.agree"}, side : Sides, status : Statuses, escrow : EscrowStates]
    \cup [op : {"cancel.operator"}, status : Statuses, escrow : EscrowStates]

CancellationInit ==
  /\ EscrowInit
  /\ RefundsInit
  /\ cancelSide = Nobody
  /\ asked = {}

-------------------------------------------------------------------------------
(* cancelRequestProblem: a state the table can cancel, and nobody asked yet. *)
RequestCancelRead(r, side) ==
  /\ status \in CancellableStatuses
  /\ cancelSide = Nobody
  /\ Begin(r, [op |-> "cancel.ask", side |-> side])
  /\ UNCHANGED <<row, money, refundVars, cancelVars>>

RequestCancelWrite(r) ==
  /\ At(r, "cancel.ask")
  /\ cancelSide' = IF cancelSide = Nobody THEN req[r].side ELSE cancelSide
  /\ asked' = asked \cup {req[r].side}
  /\ Done(r)
  /\ UNCHANGED <<row, money, refundVars>>

(* A slip: whoever asked may agree. *)
BugMayAnswer(side) == status \in CancellableStatuses /\ cancelSide # Nobody

(* cancelAgreeProblem: you cannot agree with yourself. *)
MayAnswer(side) ==
  /\ status \in CancellableStatuses
  /\ cancelSide # Nobody
  /\ cancelSide # side

AnswerCancelRead(r, side) ==
  /\ MayAnswer(side)
  /\ \/ Begin(r, [op |-> "cancel.refuse", side |-> side])
     \/ Begin(r, [op |-> "cancel.agree", side |-> side,
                  status |-> status, escrow |-> escrow])
  /\ UNCHANGED <<row, money, refundVars, cancelVars>>

(* By id alone: it clears whatever request stands there by now. *)
RefuseWrite(r) ==
  /\ At(r, "cancel.refuse")
  /\ cancelSide' = Nobody
  /\ Done(r)
  /\ UNCHANGED <<row, money, refundVars, asked>>

(* The refund is asked for when the funds were held at the read. *)
AgreeWrite(r) ==
  /\ At(r, "cancel.agree")
  /\ \/ /\ Moves(req[r].status, "cancelled")
        /\ status' = "cancelled"
        /\ cancelSide' = Nobody
        /\ IF req[r].escrow = "held" THEN SendRefund(r, TRUE) ELSE Done(r)
     \/ /\ ~Moves(req[r].status, "cancelled")
        /\ UNCHANGED <<status, cancelSide>>
        /\ Done(r)
  /\ UNCHANGED <<escrow, money, refundVars, asked>>

OperatorCancelRead(r) ==
  /\ CanTransition(status, "cancelled")
  /\ Begin(r, [op |-> "cancel.operator", status |-> status, escrow |-> escrow])
  /\ UNCHANGED <<row, money, refundVars, cancelVars>>

(* A slip: the refund is asked for whether or not funds were held. *)
BugOperatorCancelWrite(r) ==
  /\ At(r, "cancel.operator")
  /\ \/ /\ Moves(req[r].status, "cancelled")
        /\ status' = "cancelled"
        /\ IF GatewayEnabled THEN SendRefund(r, TRUE) ELSE Done(r)
     \/ /\ ~Moves(req[r].status, "cancelled")
        /\ UNCHANGED status
        /\ Done(r)
  /\ UNCHANGED <<escrow, money, refundVars, cancelVars>>

OperatorCancelWrite(r) ==
  /\ At(r, "cancel.operator")
  /\ \/ /\ Moves(req[r].status, "cancelled")
        /\ status' = "cancelled"
        /\ IF req[r].escrow = "held" /\ GatewayEnabled
             THEN SendRefund(r, TRUE)
             ELSE Done(r)
     \/ /\ ~Moves(req[r].status, "cancelled")
        /\ UNCHANGED status
        /\ Done(r)
  /\ UNCHANGED <<escrow, money, refundVars, cancelVars>>

-------------------------------------------------------------------------------
CancelStep(r) ==
  \/ \E side \in Parties : RequestCancelRead(r, side)
  \/ RequestCancelWrite(r)
  \/ \E side \in Sides : AnswerCancelRead(r, side)
  \/ RefuseWrite(r) \/ AgreeWrite(r)
  \/ OperatorCancelRead(r) \/ OperatorCancelWrite(r)

(* Proposing, signing and delivering move the deal on meanwhile. *)
DealAdvances ==
  /\ MovesTo(Statuses \ {"completed", "cancelled", "disputed"})
  /\ UNCHANGED <<refundVars, cancelVars>>

CancellationNext ==
  \/ \E r \in Requests :
       \/ EscrowStep(r) /\ UNCHANGED <<refundVars, cancelVars>>
       \/ RefundStep(r) /\ UNCHANGED cancelVars
       \/ CancelStep(r)
  \/ \E i \in Checkouts : PayerActs(i) /\ UNCHANGED <<refundVars, cancelVars>>
  \/ \E i \in RefundIds : ReturnMoves(i) /\ UNCHANGED cancelVars
  \/ DealAdvances

CancellationSpec == CancellationInit /\ [][CancellationNext]_cancellationVars

-------------------------------------------------------------------------------
(* Properties *)

(* "Two presses from two people" (answerCancel): when a party's agreement  *)
(* ends the deal, the other party did ask for it, or an operator agreed.   *)
AgreedByBoth ==
  [][ \A r \in Requests :
        At(r, "cancel.agree") /\ status # "cancelled" /\ status' = "cancelled"
          /\ req'[r] # req[r]
        => asked \ {req[r].side} # {} ]_cancellationVars

(* The deposit of a cancelled deal goes back through Chapa at most once,   *)
(* even when the agreement and an operator end the deal together.          *)
RefundedAtMostOnce == \A i, j \in MoneyBack : i = j

(* The booking reads refunded only when money did go back: a whole refund  *)
(* Chapa confirmed, or a return an operator recorded.                      *)
RefundedIsBacked ==
  escrow = "refunded" =>
    \/ handRefund
    \/ \E i \in 1 .. Len(refunds) :
         refunds[i].whole /\ refunds[i].status = "success" /\ returning[i] = "paid"

(* recordRefund is "the manual mirror of a Chapa refund, for money an      *)
(* operator took by transfer and returned the same way": it does not       *)
(* record by hand what Chapa was already asked to return.                  *)
ReturnedOnce == handRefund => MoneyBack = {}

(* "If a deposit was taken, cancelling asks Chapa to return it" (README,   *)
(* Getting out of a deal): once every request has ended, a cancelled deal  *)
(* does not hold a Chapa deposit nobody was asked to return.               *)
CancelledAsksRefund ==
  /\ status = "cancelled"
  /\ escrow = "held"
  /\ paymentRef \in Checkouts
  /\ \A r \in Requests : req[r] = Idle
  => refunds # << >>
===============================================================================
