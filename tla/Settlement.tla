------------------------------ MODULE Settlement -------------------------------
(***************************************************************************)
(* A finished deal, with the payout queue and the disputes desk working on *)
(* it at once: the composition of Payouts with Disputes, and so with       *)
(* Refunds, Cancellation and Escrow.  Both ends of the money read the same *)
(* booking row; what they add to it here is creator_payout, which a        *)
(* decision rewrites and payoutProblem reads, and after_payout, the flag   *)
(* that tells an operator the creator has the money already.               *)
(***************************************************************************)
EXTENDS Disputes, Payouts

VARIABLES
  owed,        \* whether bookings.creator_payout is above zero
  afterPayout  \* disputes.after_payout, by case

settlementVars == <<disputeVars, payoutVars, owed, afterPayout>>

(* The deal waits for the brand to settle it, its funds held; the creator  *)
(* has saved an account and an operator has verified it.                   *)
SettlementInit ==
  /\ status = "awaiting_settlement"
  /\ escrow = "held"
  /\ req = [r \in Requests |-> Idle]
  /\ payment = [i \in Checkouts |-> "success"]
  /\ checkout = [i \in Checkouts |-> "paid"]
  /\ paymentRef = IF Checkouts = {} THEN Manual ELSE CHOOSE i \in Checkouts : TRUE
  /\ handRefund = FALSE
  /\ dropped = {}
  /\ RefundsInit
  /\ cancelSide = Nobody
  /\ asked = {}
  /\ cases = << >>
  /\ auditFrom = NoState
  /\ frozenAt = NoState
  /\ payouts = << >>
  /\ transfer = [i \in Ids |-> "none"]
  /\ \E n \in Numbers :
        account = [number |-> n, verified |-> TRUE] /\ confirmed = {n}
  /\ lost = {}
  /\ owed = TRUE
  /\ afterPayout = [d \in CaseIds |-> FALSE]

-------------------------------------------------------------------------------
(* creatorAlreadyPaid, read by raise just before its insert. *)
AlreadyPaid == \E i \in 1 .. Len(payouts) : payouts[i].status = "success"

(* A case is inserted with the flag; a decision fixes the creator's share, *)
(* and a full refund leaves none.                                          *)
DeskStep(r) ==
  /\ CaseStep(r)
  /\ owed' = IF At(r, "resolve.write") THEN req[r].resolution # "refunded" ELSE owed
  /\ afterPayout' =
       IF At(r, "raise.insert")
         THEN [afterPayout EXCEPT ![Len(cases) + 1] = AlreadyPaid]
         ELSE afterPayout
  /\ UNCHANGED payoutVars

(* payoutProblem refuses a booking that owes the creator nothing; the row  *)
(* it judges is the one the press read.                                    *)
QueueStep ==
  /\ \/ \E r \in Requests :
          \/ SendStep(r) /\ (At(r, "idle") => owed)
          \/ ReconcileStep(r)
     \/ \E i \in Ids : BankMoves(i)
  /\ UNCHANGED <<otherVars, caseVars, owed, afterPayout>>

(* The deal is settled, cancelled and refunded beside them. *)
DealStep ==
  /\ CancellationNext
  /\ UNCHANGED <<caseVars, payoutVars, owed, afterPayout>>

SettlementNext ==
  \/ \E r \in Requests : DeskStep(r)
  \/ QueueStep
  \/ DealStep

SettlementSpec == SettlementInit /\ [][SettlementNext]_settlementVars

-------------------------------------------------------------------------------
(* Properties *)

(* Every variable keeps its type. *)
SettlementTypeOK ==
  /\ req \in [Requests -> {Idle} \cup EscrowRequests \cup RefundRequests
                \cup CancelRequests \cup DisputeRequests \cup PayoutRequests]
  /\ payouts \in Seq(Rows) /\ Len(payouts) <= MaxPayouts
  /\ transfer \in [Ids -> TransferStates]
  /\ owed \in BOOLEAN
  /\ afterPayout \in [CaseIds -> BOOLEAN]

(* With operators moving the money, no sequence of settling, disputing,    *)
(* deciding and cancelling lets them record both a payout to the creator   *)
(* and a return of the deposit to the brand.                               *)
NotPaidBothWays == ~(handRefund /\ MoneyOut # {})

(* "The payout queue pays only against released funds" (README, Getting    *)
(* out of a deal), and nothing a dispute decides later takes the release   *)
(* back: a deal with a payout reads released, or refunded by Chapa.        *)
PaidWasReleased == payouts # << >> => escrow \in {"released", "refunded"}

(* "A disputed booking is inert everywhere" (README, Getting out of a      *)
(* deal): a press of Send that read the booking as disputed never pays.    *)
DisputedIsNotPaid ==
  \A r \in Requests : At(r, "send.insert") => req[r].seen # "disputed"

(* "If the creator has already been paid, the case is flagged ... An       *)
(* operator is told that before deciding" (README, Getting out of a deal). *)
PaidCaseIsFlagged ==
  \A r \in Requests :
    At(r, "resolve.write") /\ AlreadyPaid => afterPayout[req[r].id]

(* "On a cancelled deal, the refund [is recorded] on the deal page"        *)
(* (README, Money by hand): once a deal is decided for the brand in full,  *)
(* either the return is on record or recordRefund still takes it.          *)
DecidedRefundIsRecordable ==
  AllIdle /\ status = "cancelled" /\ ~owed => escrow \in {"held", "refunded"}
===============================================================================
