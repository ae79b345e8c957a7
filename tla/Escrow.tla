-------------------------------- MODULE Escrow ---------------------------------
(***************************************************************************)
(* The deposit of one deal: lib/server/payments.ts and the handlers of the *)
(* booking page that write escrow_status outside a dispute.  The brand     *)
(* opens checkouts at Chapa (payDeposit, start), Chapa's answers are       *)
(* applied by settle from the webhook and from the page the payer returns  *)
(* to, an operator records a bank transfer (fund) or a refund made by hand *)
(* (recordRefund), and completing the deal releases what is held.  All of  *)
(* them read the booking first and write it later.                         *)
(***************************************************************************)
EXTENDS BookingRow

CONSTANT Checkouts  \* the tx_refs that may be issued for this booking

VARIABLES
  payment,    \* payments.status by tx_ref; "none" before the row exists
  checkout,   \* the checkout of that tx_ref at the provider
  paymentRef, \* bookings.payment_ref
  handRefund, \* history: whether a return was recorded by hand
  dropped     \* history: the tx_refs whose settle died between its two writes

NoRef  == "none"
Manual == "manual"

ASSUME CheckoutsAssumption == NoRef \notin Checkouts /\ Manual \notin Checkouts

history == <<handRefund, dropped>>
money == <<payment, checkout, paymentRef, history>>
escrowVars == <<row, req, money>>

PaymentStates == {"none", "pending", "success", "failed"}

(* "created": the provider has it and nobody was sent there; "open": the   *)
(* payer was; "mispaid": another amount or currency than the one asked.    *)
CheckoutStates == {"none", "created", "open", "paid", "mispaid", "declined"}

(* A deposit was taken; what became of it is another matter. *)
Deposited == {"held", "released", "refunded"}

EscrowRequests ==
  [op : {"fund.write", "complete.write", "refund.write"}]
    \cup [op : {"start.insert", "start.call", "start.refused", "start.pending",
                "settle.verify", "settle.fail", "settle.reopen",
                "settle.mismatch", "settle.claim", "settle.hold"},
          ref : Checkouts]

EscrowInit ==
  /\ status = "proposed"
  /\ escrow = "unfunded"
  /\ req = [r \in Requests |-> Idle]
  /\ payment = [i \in Checkouts |-> "none"]
  /\ checkout = [i \in Checkouts |-> "none"]
  /\ paymentRef = NoRef
  /\ handRefund = FALSE
  /\ dropped = {}

-------------------------------------------------------------------------------
(* payDeposit and start *)

(* payableProblem: `pending` is payable, it is a checkout not finished. *)
Payable == Compensation = "paid" /\ escrow \in {"unfunded", "pending"}

(* paymentReference() draws a tx_ref nobody has. *)
FreshRef(i) ==
  /\ payment[i] = "none"
  /\ \A r \in Requests : ~(At(r, "start.insert") /\ req[r].ref = i)

PayDeposit(r, i) ==
  /\ GatewayEnabled
  /\ Payable
  /\ FreshRef(i)
  /\ Begin(r, [op |-> "start.insert", ref |-> i])
  /\ UNCHANGED <<row, money>>

(* The row is written before the provider is asked. *)
StartInsert(r) ==
  /\ At(r, "start.insert")
  /\ payment' = [payment EXCEPT ![req[r].ref] = "pending"]
  /\ Goto(r, [op |-> "start.call", ref |-> req[r].ref])
  /\ UNCHANGED <<row, checkout, paymentRef, history>>

Initialized(r) ==
  /\ At(r, "start.call")
  /\ checkout' = [checkout EXCEPT ![req[r].ref] = "created"]
  /\ Goto(r, [op |-> "start.pending", ref |-> req[r].ref])
  /\ UNCHANGED <<row, payment, paymentRef, history>>

(* Refused, or the answer was lost on its way back: both read as not ok. *)
NotInitialized(r) ==
  /\ At(r, "start.call")
  /\ \E c \in {"none", "created"} :
        checkout' = [checkout EXCEPT ![req[r].ref] = c]
  /\ Goto(r, [op |-> "start.refused", ref |-> req[r].ref])
  /\ UNCHANGED <<row, payment, paymentRef, history>>

StartRefused(r) ==
  /\ At(r, "start.refused")
  /\ payment' = [payment EXCEPT ![req[r].ref] = "failed"]
  /\ Done(r)
  /\ UNCHANGED <<row, checkout, paymentRef, history>>

(* A slip: the booking is marked pending whatever it has become. *)
BugStartPending(r) ==
  /\ At(r, "start.pending")
  /\ escrow' = "pending"
  /\ checkout' = [checkout EXCEPT ![req[r].ref] = "open"]
  /\ Done(r)
  /\ UNCHANGED <<status, payment, paymentRef, history>>

(* The booking is marked, and the answer sends the payer to the checkout. *)
StartPending(r) ==
  /\ At(r, "start.pending")
  /\ escrow' = IF escrow = "unfunded" THEN "pending" ELSE escrow
  /\ checkout' = [checkout EXCEPT ![req[r].ref] = "open"]
  /\ Done(r)
  /\ UNCHANGED <<status, payment, paymentRef, history>>

-------------------------------------------------------------------------------
(* the payer at the provider *)

PayerActs(i) ==
  /\ checkout[i] = "open"
  /\ \E c \in {"paid", "mispaid", "declined"} :
        checkout' = [checkout EXCEPT ![i] = c]
  /\ UNCHANGED <<row, req, payment, paymentRef, history>>

-------------------------------------------------------------------------------
(* settle *)

SettleRead(r, i) ==
  /\ GatewayEnabled
  /\ payment[i] \notin {"none", "success"}
  /\ Begin(r, [op |-> "settle.verify", ref |-> i])
  /\ UNCHANGED <<row, money>>

(* No answer, or a checkout still open: nothing is decided. *)
VerifyUndecided(r) ==
  /\ At(r, "settle.verify")
  /\ Done(r)
  /\ UNCHANGED <<row, money>>

(* A slip: the amount and the currency are not compared. *)
BugVerifyAnswer(r) ==
  /\ At(r, "settle.verify")
  /\ LET i == req[r].ref IN
     \/ /\ checkout[i] \in {"paid", "mispaid"}
        /\ Goto(r, [op |-> "settle.claim", ref |-> i])
     \/ /\ checkout[i] = "declined"
        /\ Goto(r, [op |-> "settle.fail", ref |-> i])
  /\ UNCHANGED <<row, money>>

VerifyAnswer(r) ==
  /\ At(r, "settle.verify")
  /\ LET i == req[r].ref IN
     \/ /\ checkout[i] = "paid"
        /\ Goto(r, [op |-> "settle.claim", ref |-> i])
     \/ /\ checkout[i] = "mispaid"
        /\ Goto(r, [op |-> "settle.mismatch", ref |-> i])
     \/ /\ checkout[i] = "declined"
        /\ Goto(r, [op |-> "settle.fail", ref |-> i])
  /\ UNCHANGED <<row, money>>

FailPending(i) ==
  payment' = [payment EXCEPT ![i] = IF @ = "pending" THEN "failed" ELSE @]

SettleFail(r) ==
  /\ At(r, "settle.fail")
  /\ FailPending(req[r].ref)
  /\ Goto(r, [op |-> "settle.reopen", ref |-> req[r].ref])
  /\ UNCHANGED <<row, checkout, paymentRef, history>>

(* A slip: reopens a booking another route funded. *)
BugSettleReopen(r) ==
  /\ At(r, "settle.reopen")
  /\ escrow' = "unfunded"
  /\ Done(r)
  /\ UNCHANGED <<status, money>>

(* Only from `pending`: a booking funded by another route is left alone. *)
SettleReopen(r) ==
  /\ At(r, "settle.reopen")
  /\ escrow' = IF escrow = "pending" THEN "unfunded" ELSE escrow
  /\ Done(r)
  /\ UNCHANGED <<status, money>>

SettleMismatch(r) ==
  /\ At(r, "settle.mismatch")
  /\ FailPending(req[r].ref)
  /\ Done(r)
  /\ UNCHANGED <<row, checkout, paymentRef, history>>

(* Whichever call turns the row to success goes on to fund the booking. *)
SettleClaim(r) ==
  /\ At(r, "settle.claim")
  /\ LET i == req[r].ref IN
     \/ /\ payment[i] = "pending"
        /\ payment' = [payment EXCEPT ![i] = "success"]
        /\ Goto(r, [op |-> "settle.hold", ref |-> i])
     \/ /\ payment[i] # "pending"
        /\ payment' = payment
        /\ Done(r)
  /\ UNCHANGED <<row, checkout, paymentRef, history>>

(* A slip: only a booking marked pending is funded, and a declined         *)
(* checkout may have reopened it.                                          *)
BugSettleHold(r) ==
  /\ At(r, "settle.hold")
  /\ escrow' = IF escrow = "pending" THEN "held" ELSE escrow
  /\ paymentRef' = IF escrow = "pending" THEN req[r].ref ELSE paymentRef
  /\ Done(r)
  /\ UNCHANGED <<status, payment, checkout, history>>

(* A slip: the predicate of fund, which a checkout never meets. *)
BugSettleHoldUnfunded(r) ==
  /\ At(r, "settle.hold")
  /\ escrow' = IF escrow = "unfunded" THEN "held" ELSE escrow
  /\ paymentRef' = IF escrow = "unfunded" THEN req[r].ref ELSE paymentRef
  /\ Done(r)
  /\ UNCHANGED <<status, payment, checkout, history>>

SettleHold(r) ==
  /\ At(r, "settle.hold")
  /\ \/ /\ escrow # "held"
        /\ escrow' = "held"
        /\ paymentRef' = req[r].ref
     \/ /\ escrow = "held"
        /\ UNCHANGED <<escrow, paymentRef>>
  /\ Done(r)
  /\ UNCHANGED <<status, payment, checkout, history>>

-------------------------------------------------------------------------------
(* what operators record by hand *)

FundRead(r) ==
  /\ Compensation = "paid"
  /\ status \in FundableStatuses
  /\ escrow = "unfunded"
  /\ Begin(r, [op |-> "fund.write"])
  /\ UNCHANGED <<row, money>>

(* The write tests escrow_status again, and not the status of the deal. *)
FundWrite(r) ==
  /\ At(r, "fund.write")
  /\ \/ /\ escrow = "unfunded"
        /\ escrow' = "held"
        /\ paymentRef' = Manual
     \/ /\ escrow # "unfunded"
        /\ UNCHANGED <<escrow, paymentRef>>
  /\ Done(r)
  /\ UNCHANGED <<status, payment, checkout, history>>

RecordRefundRead(r) ==
  /\ status = "cancelled"
  /\ escrow = "held"
  /\ Begin(r, [op |-> "refund.write"])
  /\ UNCHANGED <<row, money>>

RecordRefundWrite(r) ==
  /\ At(r, "refund.write")
  /\ \/ /\ escrow = "held"
        /\ escrow' = "refunded"
        /\ handRefund' = TRUE
     \/ /\ escrow # "held"
        /\ UNCHANGED <<escrow, handRefund>>
  /\ Done(r)
  /\ UNCHANGED <<status, payment, checkout, paymentRef, dropped>>

-------------------------------------------------------------------------------
(* completing the deal, and every other move of it *)

(* A slip: the deposit is not asked about. *)
BugCompleteRead(r) ==
  /\ status = "awaiting_settlement"
  /\ Begin(r, [op |-> "complete.write"])
  /\ UNCHANGED <<row, money>>

(* A paid deal completes only when its funds were read as held, and a deal *)
(* with nothing to pay releases nothing but says so.                       *)
CompleteRead(r) ==
  /\ status = "awaiting_settlement"
  /\ ~AwaitsDeposit(Compensation, escrow)
  /\ Begin(r, [op |-> "complete.write"])
  /\ UNCHANGED <<row, money>>

(* A slip: the deal completes and its funds stay held. *)
BugCompleteWrite(r) ==
  /\ At(r, "complete.write")
  /\ status' = IF Moves("awaiting_settlement", "completed") THEN "completed" ELSE status
  /\ Done(r)
  /\ UNCHANGED <<escrow, money>>

CompleteWrite(r) ==
  /\ At(r, "complete.write")
  /\ \/ /\ Moves("awaiting_settlement", "completed")
        /\ status' = "completed"
        /\ escrow' = "released"
     \/ /\ ~Moves("awaiting_settlement", "completed")
        /\ UNCHANGED row
  /\ Done(r)
  /\ UNCHANGED money

(* Some other handler moves the deal to one of `targets` with transition(): *)
(* a request like the others, whose write tests what it read.              *)
MovesTo(targets) ==
  /\ \E r \in Requests : req[r] = Idle
  /\ \E to \in targets :
        /\ Moves(status, to)
        /\ status' = to
  /\ UNCHANGED <<escrow, req, money>>

(* Here every other move, but for what Disputes does to a disputed deal. *)
DealMoves == status # "disputed" /\ MovesTo(Statuses \ {"completed"})

(* The process stops, or a query throws.  When that is between the two     *)
(* writes of settle, the payment reads success and nobody holds its funds. *)
Dropped(r) ==
  /\ Die(r)
  /\ dropped' = IF At(r, "settle.hold") THEN dropped \cup {req[r].ref} ELSE dropped
  /\ UNCHANGED <<payment, checkout, paymentRef, handRefund>>

-------------------------------------------------------------------------------
SettleStep(r) ==
  \/ \E i \in Checkouts : SettleRead(r, i)
  \/ VerifyUndecided(r) \/ VerifyAnswer(r)
  \/ SettleFail(r) \/ SettleReopen(r) \/ SettleMismatch(r)
  \/ SettleClaim(r) \/ SettleHold(r)

StartStep(r) ==
  \/ \E i \in Checkouts : PayDeposit(r, i)
  \/ StartInsert(r) \/ Initialized(r) \/ NotInitialized(r)
  \/ StartRefused(r) \/ StartPending(r)

OperatorStep(r) ==
  \/ FundRead(r) \/ FundWrite(r)
  \/ RecordRefundRead(r) \/ RecordRefundWrite(r)

CompleteStep(r) == CompleteRead(r) \/ CompleteWrite(r)

EscrowStep(r) ==
  \/ StartStep(r) \/ SettleStep(r) \/ OperatorStep(r) \/ CompleteStep(r)
  \/ Dropped(r)

EscrowNext ==
  \/ \E r \in Requests : EscrowStep(r)
  \/ \E i \in Checkouts : PayerActs(i)
  \/ DealMoves

EscrowSpec == EscrowInit /\ [][EscrowNext]_escrowVars

-------------------------------------------------------------------------------
(* A request that is not killed runs to its answer. *)
RequestEnds(r) ==
  \/ StartInsert(r) \/ Initialized(r) \/ StartRefused(r) \/ StartPending(r)
  \/ SettleFail(r) \/ SettleReopen(r) \/ SettleMismatch(r)
  \/ SettleClaim(r) \/ SettleHold(r)
  \/ FundWrite(r) \/ RecordRefundWrite(r) \/ CompleteWrite(r)
  \/ VerifyUndecided(r)

(* Chapa posts a webhook for every checkout that was decided, again each   *)
(* time it was answered 500; it is not out of reach forever, and not every *)
(* request that has its answer dies before the claim.                      *)
EscrowFairness ==
  /\ \A r \in Requests : WF_escrowVars(RequestEnds(r))
  /\ \A i \in Checkouts :
       /\ SF_escrowVars(\E r \in Requests : checkout[i] = "paid" /\ SettleRead(r, i))
       /\ SF_escrowVars(\E r \in Requests :
                    At(r, "settle.verify") /\ req[r].ref = i /\ VerifyAnswer(r))
       /\ SF_escrowVars(\E r \in Requests :
                    At(r, "settle.claim") /\ req[r].ref = i /\ SettleClaim(r))

FairEscrowSpec == EscrowSpec /\ EscrowFairness

-------------------------------------------------------------------------------
(* Properties *)

(* Every variable keeps its type. *)
EscrowTypeOK ==
  /\ status \in Statuses
  /\ escrow \in EscrowStates
  /\ req \in [Requests -> {Idle} \cup EscrowRequests]
  /\ payment \in [Checkouts -> PaymentStates]
  /\ checkout \in [Checkouts -> CheckoutStates]
  /\ paymentRef \in Checkouts \cup {NoRef, Manual}
  /\ handRefund \in BOOLEAN
  /\ dropped \subseteq Checkouts

(* Funds are held, or were, only if an operator recorded them or the       *)
(* checkout that booking.payment_ref names was really paid, whatever the   *)
(* two ends of the round trip, other checkouts and a crash did meanwhile.  *)
HeldIsBacked ==
  Compensation = "paid" /\ escrow \in Deposited =>
    \/ paymentRef = Manual
    \/ /\ paymentRef \in Checkouts
       /\ payment[paymentRef] = "success"
       /\ checkout[paymentRef] = "paid"

(* What the proofs of the above and of ReferenceFundsOnce rest on: how far *)
(* the requests in flight have brought each attempt.  An attempt belongs   *)
(* to one start at most, nobody pays it before start sent the payer there, *)
(* success means it was paid, and one settle at most carries it to held.   *)
Starting == {"start.insert", "start.call", "start.refused", "start.pending"}

AttemptsInOrder ==
  /\ \A i \in Checkouts :
       /\ payment[i] = "none" => checkout[i] = "none"
       /\ payment[i] = "success" => checkout[i] = "paid"
  /\ \A r \in Requests :
       /\ At(r, "start.insert") => payment[req[r].ref] = "none"
       /\ At(r, "start.call") =>
            payment[req[r].ref] # "none" /\ checkout[req[r].ref] = "none"
       /\ At(r, "start.pending") =>
            payment[req[r].ref] # "none" /\ checkout[req[r].ref] = "created"
       /\ At(r, "start.refused") =>
            payment[req[r].ref] # "none" /\ checkout[req[r].ref] \in {"none", "created"}
       /\ At(r, "settle.claim") => checkout[req[r].ref] = "paid"
       /\ At(r, "settle.hold") =>
            payment[req[r].ref] = "success" /\ paymentRef # req[r].ref
  /\ \A r, q \in Requests :
       /\ req[r].op \in Starting /\ req[q].op \in Starting
            /\ req[r].ref = req[q].ref => r = q
       /\ At(r, "settle.hold") /\ At(q, "settle.hold")
            /\ req[r].ref = req[q].ref => r = q
  /\ paymentRef \in Checkouts => payment[paymentRef] = "success"

(* "Held funds are released the moment a deal completes" (README, Getting  *)
(* out of a deal), so no deal that completed holds any.                    *)
CompletedHoldsNothing ==
  Compensation = "paid" => ~(status = "completed" /\ escrow = "held")

(* The same reference funds the booking at most once, however often its    *)
(* webhook and its return page run settle: the second call changes nothing *)
(* even when the first one's deposit has been released since.              *)
ReferenceFundsOnce ==
  [][ paymentRef' \in Checkouts /\ escrow # "held" /\ escrow' = "held"
        => paymentRef' # paymentRef ]_escrowVars

(* What operators record by hand never brings back money that left escrow, *)
(* whoever else funds, completes or refunds the deal at the same moment:   *)
(* only a checkout paid late can.                                          *)
HandHoldsOnce ==
  [][ escrow # "held" /\ escrow' = "held"
        => escrow \in {"unfunded", "pending"} \/ paymentRef' \in Checkouts ]_escrowVars

(* Funds an operator recorded by hand are released the moment the deal     *)
(* completes, even when they were recorded beside its completion.          *)
HandFundsAreReleased ==
  Compensation = "paid" /\ status = "completed" /\ escrow = "held" =>
    paymentRef \in Checkouts

(* Escrow seen as the deposit it keeps: a checkout is applied once its     *)
(* settle has passed the write of the booking, and a pending booking has   *)
(* no deposit yet.                                                         *)
Promise == INSTANCE Deposit WITH
  References <- Checkouts,
  funds      <- IF escrow \in Deposited THEN escrow ELSE "none",
  source     <- paymentRef,
  paid       <- {i \in Checkouts : checkout[i] = "paid"},
  credited   <- {i \in Checkouts \ dropped :
                   /\ payment[i] = "success"
                   /\ \A r \in Requests : ~(At(r, "settle.hold") /\ req[r].ref = i)}

(* The handlers keep the promise of Deposit: whatever runs beside them,    *)
(* every change of escrow_status is the payment of one checkout, applied   *)
(* once, a record by hand over no deposit, a release or a return of funds  *)
(* that are there; nothing else ever moves the deposit.                    *)
KeepsDeposit == Promise!DepositSpec

(* Once no request works on a payment that succeeded, the booking says so, *)
(* unless settle died between its two writes.                              *)
Recorded(i) ==
  payment[i] = "success" /\ (\A r \in Requests : ~(At(r, "settle.hold") /\ req[r].ref = i))
    => escrow \in Deposited

SuccessIsRecorded == \A i \in Checkouts \ dropped : Recorded(i)

(* "The booking carries the outcome" (schema.ts, payments), whatever dies. *)
OutcomeIsCarried == \A i \in Checkouts : Recorded(i)

(* "Payment starts the work: funding moves a booking from booked to        *)
(* in_production" (README, Taking payment).                                *)
FundingStartsWork ==
  [][ status = "booked" /\ escrow # "held" /\ escrow' = "held"
        => status' = "in_production" ]_escrowVars

(* A checkout the payer paid ends as a deposit the booking records, though *)
(* answers are late and requests die, but for the one crash that settle    *)
(* does not survive.                                                       *)
PaidIsRecorded ==
  \A i \in Checkouts :
    checkout[i] = "paid" ~>
      \/ payment[i] = "success" /\ escrow \in Deposited
      \/ i \in dropped
===============================================================================
