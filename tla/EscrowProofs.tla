----------------------------- MODULE EscrowProofs ------------------------------
(***************************************************************************)
(* What holds of Escrow for every set of requests and checkouts, whatever  *)
(* the compensation and the switches; and that Escrow implements Deposit:  *)
(* one step of Deposit, or a stutter, for every step of Escrow.            *)
(***************************************************************************)
EXTENDS Escrow, TLAPS

-------------------------------------------------------------------------------
(* Types *)

LEMMA InitType == EscrowInit => EscrowTypeOK
BY CheckoutsAssumption
   DEF EscrowInit, EscrowTypeOK, Statuses, EscrowStates, PaymentStates,
       CheckoutStates, Idle

(* A request that carries a reference carries one of this booking's. *)
RefOps == {"start.insert", "start.call", "start.refused", "start.pending",
           "settle.verify", "settle.fail", "settle.reopen",
           "settle.mismatch", "settle.claim", "settle.hold"}

(* All that the lemmas on the handlers ask of the types: Delivery and the  *)
(* modules that end a deal have requests of their own beside these.        *)
MoneyTyped ==
  /\ status \in Statuses
  /\ escrow \in EscrowStates
  /\ req = [r \in Requests |-> req[r]]
  /\ \A r \in Requests : req[r].op \in RefOps => req[r].ref \in Checkouts
  /\ payment \in [Checkouts -> PaymentStates]
  /\ checkout \in [Checkouts -> CheckoutStates]
  /\ paymentRef \in Checkouts \cup {NoRef, Manual}
  /\ handRefund \in BOOLEAN
  /\ dropped \subseteq Checkouts

(* What a step of a handler does to the requests in flight: its own goes   *)
(* on as one of its kind, or is gone.                                      *)
Slot(r, kind) ==
  /\ req' = [req EXCEPT ![r] = req'[r]]
  /\ req'[r] \in {Idle} \cup kind

LEMMA Typed == EscrowTypeOK => MoneyTyped
BY DEF EscrowTypeOK, MoneyTyped, EscrowRequests, RefOps, Idle

LEMMA RefType ==
  ASSUME MoneyTyped, NEW r \in Requests, req[r].op \in RefOps
  PROVE  req[r].ref \in Checkouts
BY DEF MoneyTyped

LEMMA StartType ==
  ASSUME MoneyTyped, NEW r \in Requests, StartStep(r)
  PROVE  MoneyTyped' /\ Slot(r, EscrowRequests)
<1> USE RefType DEF MoneyTyped, Slot, EscrowRequests, Idle, At, Begin, Goto, Done, row, money, history,
                    RefOps, PaymentStates, CheckoutStates, EscrowStates
<1>1. ASSUME NEW i \in Checkouts, PayDeposit(r, i) PROVE MoneyTyped' /\ Slot(r, EscrowRequests)
  BY <1>1 DEF PayDeposit
<1>2. CASE StartInsert(r)  BY <1>2 DEF StartInsert
<1>3. CASE Initialized(r)  BY <1>3 DEF Initialized
<1>4. CASE NotInitialized(r)  BY <1>4 DEF NotInitialized
<1>5. CASE StartRefused(r)  BY <1>5 DEF StartRefused
<1>6. CASE StartPending(r)  BY <1>6 DEF StartPending
<1> QED BY <1>1, <1>2, <1>3, <1>4, <1>5, <1>6 DEF StartStep

LEMMA SettleType ==
  ASSUME MoneyTyped, NEW r \in Requests, SettleStep(r)
  PROVE  MoneyTyped' /\ Slot(r, EscrowRequests)
<1> USE RefType DEF MoneyTyped, Slot, EscrowRequests, Idle, At, Begin, Goto, Done, row, money, history,
                    RefOps, PaymentStates, CheckoutStates, EscrowStates
<1>1. ASSUME NEW i \in Checkouts, SettleRead(r, i) PROVE MoneyTyped' /\ Slot(r, EscrowRequests)
  BY <1>1 DEF SettleRead
<1>2. CASE VerifyUndecided(r)  BY <1>2 DEF VerifyUndecided
<1>3. CASE VerifyAnswer(r)  BY <1>3 DEF VerifyAnswer
<1>4. CASE SettleFail(r)  BY <1>4 DEF SettleFail, FailPending
<1>5. CASE SettleReopen(r)  BY <1>5 DEF SettleReopen
<1>6. CASE SettleMismatch(r)  BY <1>6 DEF SettleMismatch, FailPending
<1>7. CASE SettleClaim(r)  BY <1>7 DEF SettleClaim
<1>8. CASE SettleHold(r)  BY <1>8 DEF SettleHold
<1> QED BY <1>1, <1>2, <1>3, <1>4, <1>5, <1>6, <1>7, <1>8 DEF SettleStep

LEMMA RestType ==
  ASSUME MoneyTyped, NEW r \in Requests,
         OperatorStep(r) \/ CompleteStep(r) \/ Dropped(r)
  PROVE  MoneyTyped' /\ Slot(r, EscrowRequests)
<1> USE DEF MoneyTyped, Slot, EscrowRequests, Idle, At, Begin, Goto, Done, row, money, history,
            EscrowStates, Statuses, RefOps
<1>1. CASE FundRead(r)  BY <1>1 DEF FundRead
<1>2. CASE FundWrite(r)  BY <1>2 DEF FundWrite
<1>3. CASE RecordRefundRead(r)  BY <1>3 DEF RecordRefundRead
<1>4. CASE RecordRefundWrite(r)  BY <1>4 DEF RecordRefundWrite
<1>5. CASE CompleteRead(r)  BY <1>5 DEF CompleteRead
<1>6. CASE CompleteWrite(r)  BY <1>6 DEF CompleteWrite
<1>7. CASE Dropped(r)  BY <1>7 DEF Dropped, Die
<1> QED BY <1>1, <1>2, <1>3, <1>4, <1>5, <1>6, <1>7 DEF OperatorStep, CompleteStep

LEMMA HandlerType ==
  ASSUME MoneyTyped, NEW r \in Requests, EscrowStep(r)
  PROVE  MoneyTyped' /\ Slot(r, EscrowRequests)
BY StartType, SettleType, RestType DEF EscrowStep

(* A request that has nothing to do with the deposit changes no type of it. *)
LEMMA AsideTyped ==
  ASSUME MoneyTyped, NEW r \in Requests, NEW kind, Slot(r, kind),
         \A x \in kind : x.op \notin RefOps,
         UNCHANGED money, status' \in Statuses, escrow' \in EscrowStates
  PROVE  MoneyTyped'
BY DEF MoneyTyped, Slot, RefOps, Idle, money, history

LEMMA PayerType ==
  ASSUME MoneyTyped, NEW i \in Checkouts, PayerActs(i)
  PROVE  MoneyTyped'
BY DEF PayerActs, MoneyTyped, row, history, CheckoutStates

LEMMA MovesType ==
  ASSUME MoneyTyped, NEW targets, targets \subseteq Statuses, MovesTo(targets)
  PROVE  MoneyTyped'
BY DEF MovesTo, MoneyTyped, money, history

LEMMA StepType == EscrowTypeOK /\ [EscrowNext]_escrowVars => EscrowTypeOK'
<1> SUFFICES ASSUME EscrowTypeOK, [EscrowNext]_escrowVars PROVE EscrowTypeOK'
  OBVIOUS
<1>0. MoneyTyped
  BY Typed
<1>1. ASSUME NEW r \in Requests, EscrowStep(r) PROVE EscrowTypeOK'
  BY <1>0, <1>1, HandlerType DEF Slot, MoneyTyped, EscrowTypeOK
<1>2. ASSUME NEW i \in Checkouts, PayerActs(i) PROVE EscrowTypeOK'
  BY <1>0, <1>2, PayerType DEF PayerActs, MoneyTyped, EscrowTypeOK
<1>3. CASE DealMoves
  BY <1>3 DEF DealMoves, MovesTo, Moves, EscrowTypeOK, money, history
<1>4. CASE UNCHANGED escrowVars
  BY <1>4 DEF escrowVars, row, money, history, EscrowTypeOK
<1> QED BY <1>1, <1>2, <1>3, <1>4 DEF EscrowNext

(* Every variable of Escrow keeps its type, for any requests and checkouts. *)
THEOREM TypeCorrect == EscrowSpec => []EscrowTypeOK
BY InitType, StepType, PTL DEF EscrowSpec

-------------------------------------------------------------------------------
(* What a handler of the deposit may do to the row *)

(* No handler takes a deposit back out of the booking, whatever it read.   *)
LEMMA DepositStays ==
  ASSUME NEW r \in Requests, EscrowStep(r), escrow \in Deposited
  PROVE  escrow' \in Deposited
<1> USE DEF Deposited, row
<1>1. CASE StartStep(r)
  BY <1>1 DEF StartStep, PayDeposit, StartInsert, Initialized, NotInitialized,
              StartRefused, StartPending
<1>2. CASE SettleStep(r)
  BY <1>2 DEF SettleStep, SettleRead, VerifyUndecided, VerifyAnswer, SettleFail,
              SettleReopen, SettleMismatch, SettleClaim, SettleHold
<1>3. CASE OperatorStep(r) \/ CompleteStep(r) \/ Dropped(r)
  BY <1>3 DEF OperatorStep, CompleteStep, FundRead, FundWrite, RecordRefundRead,
              RecordRefundWrite, CompleteRead, CompleteWrite, Dropped, Die
<1> QED BY <1>1, <1>2, <1>3 DEF EscrowStep

(* What a handler of Escrow may do to the state of the deal.               *)
LEMMA EscrowMoves ==
  ASSUME NEW r \in Requests, EscrowStep(r)
  PROVE  \/ status' = status
         \/ status = "awaiting_settlement" /\ status' = "completed"
<1> USE DEF row
<1>1. CASE StartStep(r)
  BY <1>1 DEF StartStep, PayDeposit, StartInsert, Initialized, NotInitialized,
              StartRefused, StartPending
<1>2. CASE SettleStep(r)
  BY <1>2 DEF SettleStep, SettleRead, VerifyUndecided, VerifyAnswer, SettleFail,
              SettleReopen, SettleMismatch, SettleClaim, SettleHold
<1>3. CASE OperatorStep(r) \/ CompleteStep(r) \/ Dropped(r)
  BY <1>3 DEF OperatorStep, CompleteStep, FundRead, FundWrite, RecordRefundRead,
              RecordRefundWrite, CompleteRead, CompleteWrite, Dropped, Die, Moves
<1> QED BY <1>1, <1>2, <1>3 DEF EscrowStep

-------------------------------------------------------------------------------
(* Attempts *)

(* The part of the invariant that the requests' progress needs. *)
Attempts == MoneyTyped /\ AttemptsInOrder

LEMMA InitAttempts == EscrowInit => AttemptsInOrder
BY CheckoutsAssumption DEF EscrowInit, AttemptsInOrder, At, Idle, Starting

LEMMA StartAttempts ==
  ASSUME Attempts, NEW r \in Requests, StartStep(r)
  PROVE  AttemptsInOrder'
<1> USE RefType DEF Attempts, MoneyTyped, Idle, At, Begin, Goto, Done, row, money, history,
                    RefOps, AttemptsInOrder, Starting
<1>1. ASSUME NEW i \in Checkouts, PayDeposit(r, i) PROVE AttemptsInOrder'
  BY <1>1 DEF PayDeposit, FreshRef
<1>2. CASE StartInsert(r)  BY <1>2 DEF StartInsert
<1>3. CASE Initialized(r)  BY <1>3 DEF Initialized
<1>4. CASE NotInitialized(r)  BY <1>4 DEF NotInitialized
<1>5. CASE StartRefused(r)  BY <1>5 DEF StartRefused
<1>6. CASE StartPending(r)  BY <1>6 DEF StartPending
<1> QED BY <1>1, <1>2, <1>3, <1>4, <1>5, <1>6 DEF StartStep

LEMMA SettleAttempts ==
  ASSUME Attempts, NEW r \in Requests, SettleStep(r)
  PROVE  AttemptsInOrder'
<1> USE RefType DEF Attempts, MoneyTyped, Idle, At, Begin, Goto, Done, row, money, history,
                    RefOps, AttemptsInOrder, Starting
<1>1. ASSUME NEW i \in Checkouts, SettleRead(r, i) PROVE AttemptsInOrder'
  BY <1>1 DEF SettleRead
<1>2. CASE VerifyUndecided(r)  BY <1>2 DEF VerifyUndecided
<1>3. CASE VerifyAnswer(r)  BY <1>3 DEF VerifyAnswer
<1>4. CASE SettleFail(r)  BY <1>4 DEF SettleFail, FailPending
<1>5. CASE SettleReopen(r)  BY <1>5 DEF SettleReopen
<1>6. CASE SettleMismatch(r)  BY <1>6 DEF SettleMismatch, FailPending
<1>7. CASE SettleClaim(r)  BY <1>7 DEF SettleClaim
<1>8. CASE SettleHold(r)  BY <1>8 DEF SettleHold
<1> QED BY <1>1, <1>2, <1>3, <1>4, <1>5, <1>6, <1>7, <1>8 DEF SettleStep

LEMMA RestAttempts ==
  ASSUME Attempts, NEW r \in Requests,
         OperatorStep(r) \/ CompleteStep(r) \/ Dropped(r)
  PROVE  AttemptsInOrder'
<1> USE RefType, CheckoutsAssumption
    DEF Attempts, MoneyTyped, Idle, At, Begin, Goto, Done, row, money, history,
        RefOps, AttemptsInOrder, Starting
<1>1. CASE FundRead(r)  BY <1>1 DEF FundRead
<1>2. CASE FundWrite(r)  BY <1>2 DEF FundWrite
<1>3. CASE RecordRefundRead(r)  BY <1>3 DEF RecordRefundRead
<1>4. CASE RecordRefundWrite(r)  BY <1>4 DEF RecordRefundWrite
<1>5. CASE CompleteRead(r)  BY <1>5 DEF CompleteRead
<1>6. CASE CompleteWrite(r)  BY <1>6 DEF CompleteWrite
<1>7. CASE Dropped(r)  BY <1>7 DEF Dropped, Die
<1> QED BY <1>1, <1>2, <1>3, <1>4, <1>5, <1>6, <1>7 DEF OperatorStep, CompleteStep

LEMMA HandlerAttempts ==
  ASSUME Attempts, NEW r \in Requests, EscrowStep(r)
  PROVE  Attempts'
<1>1. MoneyTyped'
  BY HandlerType DEF Attempts
<1>2. AttemptsInOrder'
  BY StartAttempts, SettleAttempts, RestAttempts DEF EscrowStep
<1> QED BY <1>1, <1>2 DEF Attempts

LEMMA PayerAttempts ==
  ASSUME Attempts, NEW i \in Checkouts, PayerActs(i)
  PROVE  Attempts'
<1>1. MoneyTyped'
  BY PayerType DEF Attempts
<1>2. AttemptsInOrder'
  BY RefType DEF PayerActs, Attempts, AttemptsInOrder, MoneyTyped, At, Starting, RefOps
<1> QED BY <1>1, <1>2 DEF Attempts

LEMMA StepAttempts == Attempts /\ [EscrowNext]_escrowVars => Attempts'
<1> SUFFICES ASSUME Attempts, [EscrowNext]_escrowVars PROVE Attempts'
  OBVIOUS
<1>1. CASE DealMoves
  BY <1>1, MovesType DEF DealMoves, MovesTo, Attempts, AttemptsInOrder, At, money
<1>2. CASE UNCHANGED escrowVars
  BY <1>2 DEF escrowVars, row, money, history, Attempts, MoneyTyped, AttemptsInOrder, At
<1> QED BY <1>1, <1>2, HandlerAttempts, PayerAttempts DEF EscrowNext

(* However requests interleave and whichever die: no attempt is shared by  *)
(* two starts, success means paid, and one settle at most goes on to fund. *)
THEOREM AttemptsCorrect == EscrowSpec => []AttemptsInOrder
<1>1. EscrowInit => Attempts
  BY InitType, Typed, InitAttempts DEF Attempts
<1>2. Attempts /\ [EscrowNext]_escrowVars => Attempts'
  BY StepAttempts
<1>3. Attempts => AttemptsInOrder
  BY DEF Attempts
<1> QED BY <1>1, <1>2, <1>3, PTL DEF EscrowSpec

-------------------------------------------------------------------------------
(* Funds *)

(* A deposit that was taken stays taken, so what a request about to        *)
(* complete the deal read is still so when it writes.                      *)
ReadStillHolds ==
  \A r \in Requests :
    Compensation = "paid" /\ At(r, "complete.write") => escrow \in Deposited

(* Here, where no case is decided, a deal completes by the brand's press   *)
(* alone.                                                                  *)
CompletedWasFunded ==
  Compensation = "paid" /\ status = "completed" => escrow \in Deposited

Funds ==
  /\ Attempts
  /\ HeldIsBacked
  /\ CompletedWasFunded
  /\ ReadStillHolds

LEMMA InitFunds == EscrowInit => Funds
BY InitType, Typed, InitAttempts
   DEF EscrowInit, Funds, Attempts, HeldIsBacked, CompletedWasFunded,
       ReadStillHolds, Deposited, At, Idle

(* No handler takes back a success, or what is known of the checkout paid. *)
LEMMA SuccessStays ==
  ASSUME Attempts, NEW r \in Requests, EscrowStep(r),
         NEW i \in Checkouts, payment[i] = "success"
  PROVE  payment'[i] = "success" /\ checkout'[i] = "paid"
<1> USE RefType DEF Attempts, AttemptsInOrder, MoneyTyped, At, RefOps, row, money, history
<1>1. CASE StartStep(r)
  BY <1>1 DEF StartStep, PayDeposit, StartInsert, Initialized, NotInitialized,
              StartRefused, StartPending
<1>2. CASE SettleStep(r)
  BY <1>2 DEF SettleStep, SettleRead, VerifyUndecided, VerifyAnswer, SettleFail,
              SettleReopen, SettleMismatch, SettleClaim, SettleHold, FailPending
<1>3. CASE OperatorStep(r) \/ CompleteStep(r) \/ Dropped(r)
  BY <1>3 DEF OperatorStep, CompleteStep, FundRead, FundWrite, RecordRefundRead,
              RecordRefundWrite, CompleteRead, CompleteWrite, Dropped
<1> QED BY <1>1, <1>2, <1>3 DEF EscrowStep

LEMMA HandlerFunds ==
  ASSUME Funds, NEW r \in Requests, EscrowStep(r)
  PROVE  Funds'
<1> USE DEF Funds, HeldIsBacked, CompletedWasFunded, ReadStillHolds
<1>0. Attempts' /\ MoneyTyped /\ AttemptsInOrder
  BY HandlerAttempts DEF Attempts
<1>1. \A i \in Checkouts :
        payment[i] = "success" => payment'[i] = "success" /\ checkout'[i] = "paid"
  BY SuccessStays
<1>2. CASE StartStep(r)
  <2>1. ASSUME NEW i \in Checkouts, PayDeposit(r, i) PROVE Funds'
    BY <2>1, <1>0, <1>1
    DEF PayDeposit, Begin, At, MoneyTyped, row, money, history
  <2>2. CASE StartInsert(r)
    BY <2>2, <1>0, <1>1 DEF StartInsert, Goto, At, MoneyTyped, row
  <2>3. CASE Initialized(r) \/ NotInitialized(r)
    BY <2>3, <1>0, <1>1
    DEF Initialized, NotInitialized, Goto, At, MoneyTyped, row
  <2>4. CASE StartRefused(r)
    BY <2>4, <1>0, <1>1
    DEF StartRefused, Done, Idle, At, MoneyTyped, row
  <2>5. CASE StartPending(r)
    BY <2>5, <1>0, <1>1
    DEF StartPending, Done, Idle, At, MoneyTyped, Deposited
  <2> QED BY <1>2, <2>1, <2>2, <2>3, <2>4, <2>5 DEF StartStep
<1>3. CASE SettleStep(r)
  <2>1. ASSUME NEW i \in Checkouts, SettleRead(r, i) PROVE Funds'
    BY <2>1, <1>0, <1>1
    DEF SettleRead, Begin, At, MoneyTyped, row, money, history
  <2>2. CASE VerifyUndecided(r) \/ VerifyAnswer(r)
    BY <2>2, <1>0, <1>1
    DEF VerifyUndecided, VerifyAnswer, Goto, Done, Idle, At, MoneyTyped, row, money, history
  <2>3. CASE SettleFail(r) \/ SettleMismatch(r)
    BY <2>3, <1>0, <1>1
    DEF SettleFail, SettleMismatch, FailPending, Goto, Done, Idle, At, MoneyTyped, row
  <2>4. CASE SettleReopen(r)
    BY <2>4, <1>0, <1>1
    DEF SettleReopen, Done, Idle, At, MoneyTyped, money, Deposited
  <2>5. CASE SettleClaim(r)
    BY <2>5, <1>0, <1>1
    DEF SettleClaim, Goto, Done, Idle, At, MoneyTyped, row
  <2>6. CASE SettleHold(r)
    <3>1. payment'[req[r].ref] = "success" /\ checkout'[req[r].ref] = "paid"
      BY <2>6, <1>0, <1>1, RefType DEF SettleHold, AttemptsInOrder, At, RefOps
    <3> QED
      BY <3>1, <2>6, <1>0, <1>1, RefType
      DEF SettleHold, Done, Idle, At, MoneyTyped, Deposited, RefOps
  <2> QED BY <1>3, <2>1, <2>2, <2>3, <2>4, <2>5, <2>6 DEF SettleStep
<1>4. CASE OperatorStep(r)
  <2>1. CASE FundRead(r) \/ RecordRefundRead(r)
    BY <2>1, <1>0, <1>1
    DEF FundRead, RecordRefundRead, Begin, At, MoneyTyped, row, money, history
  <2>2. CASE FundWrite(r)
    BY <2>2, <1>0, <1>1
    DEF FundWrite, Done, Idle, At, MoneyTyped, Deposited
  <2>3. CASE RecordRefundWrite(r)
    BY <2>3, <1>0, <1>1
    DEF RecordRefundWrite, Done, Idle, At, MoneyTyped, Deposited
  <2> QED BY <1>4, <2>1, <2>2, <2>3 DEF OperatorStep
<1>5. CASE CompleteStep(r)
  <2>1. CASE CompleteRead(r)
    BY <2>1, <1>0, <1>1
    DEF CompleteRead, Begin, At, MoneyTyped, row, money, history, AwaitsDeposit, Deposited
  <2>2. CASE CompleteWrite(r)
    BY <2>2, <1>0, <1>1
    DEF CompleteWrite, Done, Idle, At, MoneyTyped, row, money, history, Deposited
  <2> QED BY <1>5, <2>1, <2>2 DEF CompleteStep
<1>6. CASE Dropped(r)
  BY <1>6, <1>0, <1>1 DEF Dropped, Die, Done, Idle, At, MoneyTyped, row, money, history
<1> QED BY <1>2, <1>3, <1>4, <1>5, <1>6 DEF EscrowStep

LEMMA PayerFunds ==
  ASSUME Funds, NEW i \in Checkouts, PayerActs(i)
  PROVE  Funds'
<1>1. Attempts'
  BY PayerAttempts DEF Funds
<1>2. \A j \in Checkouts : payment[j] = "success" => checkout'[j] = checkout[j]
  BY DEF PayerActs, Funds, Attempts, AttemptsInOrder, MoneyTyped
<1> QED
  BY <1>1, <1>2 DEF PayerActs, Funds, Attempts, AttemptsInOrder, HeldIsBacked, CompletedWasFunded, ReadStillHolds, At, row

LEMMA StepFunds == Funds /\ [EscrowNext]_escrowVars => Funds'
<1> SUFFICES ASSUME Funds, [EscrowNext]_escrowVars PROVE Funds'
  OBVIOUS
<1> USE DEF Funds, HeldIsBacked, CompletedWasFunded, ReadStillHolds
<1>0. Attempts'
  BY StepAttempts
<1>1. CASE DealMoves
  BY <1>0, <1>1 DEF DealMoves, MovesTo, Moves, At, money
<1>2. CASE UNCHANGED escrowVars
  BY <1>0, <1>2 DEF escrowVars, row, money, history, At
<1> QED BY <1>1, <1>2, HandlerFunds, PayerFunds DEF EscrowNext

LEMMA FundsCorrect == EscrowSpec => []Funds
BY InitFunds, StepFunds, PTL DEF EscrowSpec

(* Funds that are held, or were, were recorded by an operator or paid at   *)
(* the very checkout the booking names; no interleaving of the webhook,    *)
(* the return page, other checkouts and dying requests changes that.       *)
THEOREM HeldBacked == EscrowSpec => []HeldIsBacked
<1>1. Funds => HeldIsBacked
  BY DEF Funds
<1> QED BY <1>1, FundsCorrect, PTL

(* A reference funds the booking at most once. *)
THEOREM FundsOnce == EscrowSpec => ReferenceFundsOnce
<1> DEFINE Once == paymentRef' \in Checkouts /\ escrow # "held" /\ escrow' = "held"
                     => paymentRef' # paymentRef
<1>1. Funds /\ [EscrowNext]_escrowVars => [Once]_escrowVars
  <2> SUFFICES ASSUME Funds, EscrowNext, escrow # "held", escrow' = "held",
                      paymentRef' \in Checkouts
               PROVE  paymentRef' # paymentRef
    BY DEF escrowVars, row
  <2>1. PICK r \in Requests : SettleHold(r) \/ FundWrite(r)
    BY DEF EscrowNext, EscrowStep, StartStep, SettleStep, OperatorStep, CompleteStep,
           PayDeposit, StartInsert, Initialized, NotInitialized, StartRefused,
           StartPending, SettleRead, VerifyUndecided, VerifyAnswer, SettleFail,
           SettleReopen, SettleMismatch, SettleClaim, FundRead, RecordRefundRead,
           RecordRefundWrite, CompleteRead, CompleteWrite, Dropped, Die, PayerActs,
           DealMoves, MovesTo, row
  <2>2. SettleHold(r)
    BY <2>1, CheckoutsAssumption DEF FundWrite
  <2> QED BY <2>2 DEF SettleHold, Funds, Attempts, AttemptsInOrder, At
<1> QED BY <1>1, FundsCorrect, PTL DEF EscrowSpec, ReferenceFundsOnce

(* What is recorded by hand never brings back money that left escrow.      *)
THEOREM HandHolds == EscrowSpec => HandHoldsOnce
<1> DEFINE Once == escrow # "held" /\ escrow' = "held"
                     => escrow \in {"unfunded", "pending"} \/ paymentRef' \in Checkouts
<1>1. Funds /\ [EscrowNext]_escrowVars => [Once]_escrowVars
  <2> SUFFICES ASSUME Funds, EscrowNext, escrow # "held", escrow' = "held"
               PROVE  escrow \in {"unfunded", "pending"} \/ paymentRef' \in Checkouts
    BY DEF escrowVars, row
  <2>1. PICK r \in Requests : SettleHold(r) \/ FundWrite(r)
    BY DEF EscrowNext, EscrowStep, StartStep, SettleStep, OperatorStep, CompleteStep,
           PayDeposit, StartInsert, Initialized, NotInitialized, StartRefused,
           StartPending, SettleRead, VerifyUndecided, VerifyAnswer, SettleFail,
           SettleReopen, SettleMismatch, SettleClaim, FundRead, RecordRefundRead,
           RecordRefundWrite, CompleteRead, CompleteWrite, Dropped, Die, PayerActs,
           DealMoves, MovesTo, row
  <2> QED BY <2>1, RefType DEF SettleHold, FundWrite, Funds, Attempts, At, RefOps
<1> QED BY <1>1, FundsCorrect, PTL DEF EscrowSpec, HandHoldsOnce

LEMMA StepReleases ==
  ASSUME Funds, HandFundsAreReleased, [EscrowNext]_escrowVars
  PROVE  HandFundsAreReleased'
<1> USE DEF Funds, Attempts, HandFundsAreReleased, CompletedWasFunded,
            RefOps, MoneyTyped, At, Begin, Goto, Done, row, money, history
<1>1. ASSUME NEW r \in Requests, StartStep(r) PROVE HandFundsAreReleased'
  BY <1>1 DEF StartStep, PayDeposit, StartInsert, Initialized, NotInitialized,
              StartRefused, StartPending
<1>2. ASSUME NEW r \in Requests, SettleStep(r) PROVE HandFundsAreReleased'
  BY <1>2, RefType
  DEF SettleStep, SettleRead, VerifyUndecided, VerifyAnswer, SettleFail,
      SettleReopen, SettleMismatch, SettleClaim, SettleHold
<1>3. ASSUME NEW r \in Requests, OperatorStep(r) PROVE HandFundsAreReleased'
  BY <1>3 DEF OperatorStep, FundRead, FundWrite, RecordRefundRead,
              RecordRefundWrite, Deposited
<1>4. ASSUME NEW r \in Requests, CompleteStep(r) PROVE HandFundsAreReleased'
  BY <1>4 DEF CompleteStep, CompleteRead, CompleteWrite
<1>5. ASSUME NEW r \in Requests, Dropped(r) PROVE HandFundsAreReleased'
  BY <1>5 DEF Dropped, Die
<1>6. ASSUME NEW i \in Checkouts, PayerActs(i) PROVE HandFundsAreReleased'
  BY <1>6 DEF PayerActs
<1>7. CASE DealMoves
  BY <1>7 DEF DealMoves, MovesTo
<1>8. CASE UNCHANGED escrowVars
  BY <1>8 DEF escrowVars
<1> QED BY <1>1, <1>2, <1>3, <1>4, <1>5, <1>6, <1>7, <1>8 DEF EscrowNext, EscrowStep

(* Funds recorded by hand do not stay held once the deal completed.        *)
THEOREM HandReleases == EscrowSpec => []HandFundsAreReleased
<1>1. EscrowInit => HandFundsAreReleased
  BY DEF EscrowInit, HandFundsAreReleased
<1> QED BY <1>1, StepReleases, FundsCorrect, PTL DEF EscrowSpec

-------------------------------------------------------------------------------
(* Success is recorded *)

(* The claim is the only step that adds a success, and its request carries *)
(* the reference to the write that holds the funds, or drops it.           *)
LEMMA HandlerRecorded ==
  ASSUME MoneyTyped, SuccessIsRecorded, NEW r \in Requests, EscrowStep(r)
  PROVE  SuccessIsRecorded'
<1> USE DepositStays, RefType
    DEF SuccessIsRecorded, Recorded, MoneyTyped, RefOps, Idle, At, Begin, Goto, Done,
        row, money, history
<1>1. CASE StartStep(r)
  <2>1. ASSUME NEW i \in Checkouts, PayDeposit(r, i) PROVE SuccessIsRecorded'
    BY <1>1, <2>1 DEF PayDeposit
  <2>2. CASE StartInsert(r)  BY <1>1, <2>2 DEF StartInsert
  <2>3. CASE Initialized(r) \/ NotInitialized(r)
    BY <1>1, <2>3 DEF Initialized, NotInitialized
  <2>4. CASE StartRefused(r)  BY <1>1, <2>4 DEF StartRefused
  <2>5. CASE StartPending(r)  BY <1>1, <2>5 DEF StartPending
  <2> QED BY <1>1, <2>1, <2>2, <2>3, <2>4, <2>5 DEF StartStep
<1>2. CASE SettleStep(r)
  <2>1. ASSUME NEW i \in Checkouts, SettleRead(r, i) PROVE SuccessIsRecorded'
    BY <1>2, <2>1 DEF SettleRead
  <2>2. CASE VerifyUndecided(r) \/ VerifyAnswer(r)
    BY <1>2, <2>2 DEF VerifyUndecided, VerifyAnswer
  <2>3. CASE SettleFail(r) \/ SettleMismatch(r)
    BY <1>2, <2>3 DEF SettleFail, SettleMismatch, FailPending
  <2>4. CASE SettleReopen(r)  BY <1>2, <2>4 DEF SettleReopen
  <2>5. CASE SettleClaim(r)  BY <1>2, <2>5 DEF SettleClaim
  <2>6. CASE SettleHold(r)  BY <2>6 DEF SettleHold, Deposited
  <2> QED BY <1>2, <2>1, <2>2, <2>3, <2>4, <2>5, <2>6 DEF SettleStep
<1>3. CASE OperatorStep(r)
  BY <1>3 DEF OperatorStep, FundRead, FundWrite, RecordRefundRead, RecordRefundWrite
<1>4. CASE CompleteStep(r)
  BY <1>4 DEF CompleteStep, CompleteRead, CompleteWrite
<1>5. CASE Dropped(r)
  BY <1>5 DEF Dropped, Die
<1> QED BY <1>1, <1>2, <1>3, <1>4, <1>5 DEF EscrowStep

LEMMA PayerRecorded ==
  ASSUME SuccessIsRecorded, NEW i \in Checkouts, PayerActs(i)
  PROVE  SuccessIsRecorded'
BY DEF PayerActs, SuccessIsRecorded, Recorded, At, row, history

(* Once no settle carries a payment that succeeded, the booking holds its  *)
(* deposit, or did, unless that settle died between its two writes.        *)
THEOREM SuccessRecorded == EscrowSpec => []SuccessIsRecorded
<1>1. EscrowInit => SuccessIsRecorded
  BY DEF EscrowInit, SuccessIsRecorded, Recorded
<1>2. EscrowTypeOK /\ SuccessIsRecorded /\ [EscrowNext]_escrowVars => SuccessIsRecorded'
  <2> SUFFICES ASSUME EscrowTypeOK, SuccessIsRecorded, [EscrowNext]_escrowVars
               PROVE  SuccessIsRecorded'
    OBVIOUS
  <2>1. CASE DealMoves
    BY <2>1 DEF DealMoves, MovesTo, SuccessIsRecorded, Recorded, At, money, history
  <2>2. CASE UNCHANGED escrowVars
    BY <2>2 DEF escrowVars, SuccessIsRecorded, Recorded, At, row, money, history
  <2> QED BY <2>1, <2>2, Typed, HandlerRecorded, PayerRecorded DEF EscrowNext
<1> QED BY <1>1, <1>2, TypeCorrect, PTL DEF EscrowSpec

-------------------------------------------------------------------------------
(* Operators alone: the gateway off, as the README says it is deployed *)

(* No checkout is opened or settled, so nothing but fund takes a deposit.  *)
OnlyByHand ==
  /\ \A r \in Requests : req[r].op \notin RefOps
  /\ CompletedHoldsNothing

LEMMA HandStep ==
  ASSUME ~GatewayEnabled, Funds, OnlyByHand, [EscrowNext]_escrowVars
  PROVE  OnlyByHand'
<1> USE DEF Funds, Attempts, OnlyByHand, CompletedHoldsNothing, CompletedWasFunded,
            RefOps, MoneyTyped, At, Idle, Begin, Goto, Done, row, money, history
<1>1. ASSUME NEW r \in Requests, StartStep(r) \/ SettleStep(r) PROVE OnlyByHand'
  BY <1>1 DEF StartStep, SettleStep, PayDeposit, StartInsert, Initialized,
              NotInitialized, StartRefused, StartPending, SettleRead,
              VerifyUndecided, VerifyAnswer, SettleFail, SettleReopen,
              SettleMismatch, SettleClaim, SettleHold
<1>2. ASSUME NEW r \in Requests, OperatorStep(r) PROVE OnlyByHand'
  BY <1>2 DEF OperatorStep, FundRead, FundWrite, RecordRefundRead,
              RecordRefundWrite, Deposited
<1>3. ASSUME NEW r \in Requests, CompleteStep(r) PROVE OnlyByHand'
  BY <1>3 DEF CompleteStep, CompleteRead, CompleteWrite
<1>4. ASSUME NEW r \in Requests, Dropped(r) PROVE OnlyByHand'
  BY <1>4 DEF Dropped, Die
<1>5. ASSUME NEW i \in Checkouts, PayerActs(i) PROVE OnlyByHand'
  BY <1>5 DEF PayerActs
<1>6. CASE DealMoves
  BY <1>6 DEF DealMoves, MovesTo
<1>7. CASE UNCHANGED escrowVars
  BY <1>7 DEF escrowVars
<1> QED BY <1>1, <1>2, <1>3, <1>4, <1>5, <1>6, <1>7 DEF EscrowNext, EscrowStep

LEMMA HandCorrect ==
  ASSUME ~GatewayEnabled
  PROVE  EscrowSpec => [](Funds /\ OnlyByHand)
<1>1. EscrowInit => OnlyByHand
  BY DEF EscrowInit, OnlyByHand, CompletedHoldsNothing, RefOps, Idle
<1>2. Funds /\ OnlyByHand /\ [EscrowNext]_escrowVars => (Funds /\ OnlyByHand)'
  BY HandStep, StepFunds
<1> QED BY <1>1, <1>2, InitFunds, PTL DEF EscrowSpec

(* While the gateway is off, "held funds are released the moment a deal    *)
(* completes": none that completed holds any, whatever dies and whoever    *)
(* records funds at the same moment.                                       *)
THEOREM OffReleases ==
  ASSUME ~GatewayEnabled
  PROVE  EscrowSpec => []CompletedHoldsNothing
<1>1. Funds /\ OnlyByHand => CompletedHoldsNothing
  BY DEF OnlyByHand
<1> QED BY <1>1, HandCorrect, PTL

-------------------------------------------------------------------------------
(* The refinement *)

(* A reference whose settle died stays a success that nobody carries, and  *)
(* what became of the money agrees with what became of the deal.           *)
MoneyFollowsDeal ==
  /\ \A i \in dropped : payment[i] = "success"
  /\ \A r \in Requests :
       /\ At(r, "settle.hold") => req[r].ref \notin dropped
       /\ At(r, "refund.write") => status = "cancelled"
  /\ escrow = "released" => status \in {"completed", "disputed"}
  /\ escrow = "refunded" => status = "cancelled"

LEMMA InitFollows == EscrowInit => MoneyFollowsDeal
BY DEF EscrowInit, MoneyFollowsDeal, At, Idle

LEMMA StartFollows ==
  ASSUME Funds, MoneyFollowsDeal, NEW r \in Requests, StartStep(r)
  PROVE  MoneyFollowsDeal'
<1> USE RefType DEF Funds, Attempts, MoneyTyped, AttemptsInOrder, MoneyFollowsDeal,
                    RefOps, Idle, At, Begin, Goto, Done, row, money, history
<1>1. ASSUME NEW i \in Checkouts, PayDeposit(r, i) PROVE MoneyFollowsDeal'
  BY <1>1 DEF PayDeposit
<1>2. CASE StartInsert(r)  BY <1>2 DEF StartInsert
<1>3. CASE Initialized(r) \/ NotInitialized(r)
  BY <1>3 DEF Initialized, NotInitialized
<1>4. CASE StartRefused(r)  BY <1>4 DEF StartRefused
<1>5. CASE StartPending(r)  BY <1>5 DEF StartPending
<1> QED BY <1>1, <1>2, <1>3, <1>4, <1>5 DEF StartStep

LEMMA SettleFollows ==
  ASSUME Funds, MoneyFollowsDeal, NEW r \in Requests, SettleStep(r)
  PROVE  MoneyFollowsDeal'
<1> USE RefType DEF Funds, Attempts, MoneyTyped, MoneyFollowsDeal,
                    RefOps, Idle, At, Begin, Goto, Done, row, money, history
<1>1. ASSUME NEW i \in Checkouts, SettleRead(r, i) PROVE MoneyFollowsDeal'
  BY <1>1 DEF SettleRead
<1>2. CASE VerifyUndecided(r) \/ VerifyAnswer(r)
  BY <1>2 DEF VerifyUndecided, VerifyAnswer
<1>3. CASE SettleFail(r) \/ SettleMismatch(r)
  BY <1>3 DEF SettleFail, SettleMismatch, FailPending
<1>4. CASE SettleReopen(r)  BY <1>4 DEF SettleReopen
<1>5. CASE SettleClaim(r)  BY <1>5 DEF SettleClaim
<1>6. CASE SettleHold(r)  BY <1>6 DEF SettleHold
<1> QED BY <1>1, <1>2, <1>3, <1>4, <1>5, <1>6 DEF SettleStep

LEMMA RestFollows ==
  ASSUME Funds, MoneyFollowsDeal, NEW r \in Requests,
         OperatorStep(r) \/ CompleteStep(r) \/ Dropped(r)
  PROVE  MoneyFollowsDeal'
<1> USE RefType DEF Funds, Attempts, MoneyTyped, AttemptsInOrder, MoneyFollowsDeal,
                    RefOps, Idle, At, Begin, Goto, Done, row, money, history
<1>1. CASE FundRead(r) \/ FundWrite(r)  BY <1>1 DEF FundRead, FundWrite
<1>2. CASE RecordRefundRead(r) \/ RecordRefundWrite(r)
  BY <1>2 DEF RecordRefundRead, RecordRefundWrite
<1>3. CASE CompleteRead(r)  BY <1>3 DEF CompleteRead
<1>4. CASE CompleteWrite(r)
  BY <1>4 DEF CompleteWrite, Moves
<1>5. CASE Dropped(r)  BY <1>5 DEF Dropped, Die
<1> QED BY <1>1, <1>2, <1>3, <1>4, <1>5 DEF OperatorStep, CompleteStep

LEMMA HandlerFollows ==
  ASSUME Funds, MoneyFollowsDeal, NEW r \in Requests, EscrowStep(r)
  PROVE  MoneyFollowsDeal'
BY StartFollows, SettleFollows, RestFollows DEF EscrowStep

LEMMA PayerFollows ==
  ASSUME MoneyFollowsDeal, NEW i \in Checkouts, PayerActs(i)
  PROVE  MoneyFollowsDeal'
BY DEF PayerActs, MoneyFollowsDeal, At, row, history

LEMMA StepFollows ==
  ASSUME Funds, MoneyFollowsDeal, [EscrowNext]_escrowVars
  PROVE  MoneyFollowsDeal'
<1>1. CASE DealMoves
  BY <1>1
  DEF DealMoves, MovesTo, Moves, CanTransition, Transitions, MoneyFollowsDeal, At, money, history
<1>2. CASE UNCHANGED escrowVars
  BY <1>2 DEF escrowVars, MoneyFollowsDeal, At, row, money, history
<1> QED BY <1>1, <1>2, HandlerFollows, PayerFollows DEF EscrowNext

-------------------------------------------------------------------------------
(* The refinement mapping *)

PaidNow == {i \in Checkouts : checkout[i] = "paid"}

CreditedNow ==
  {i \in Checkouts \ dropped :
     /\ payment[i] = "success"
     /\ \A r \in Requests : ~(At(r, "settle.hold") /\ req[r].ref = i)}

FundsNow == IF escrow \in Deposited THEN escrow ELSE "none"

LEMMA InitImplements == EscrowInit => Promise!DepositInit
BY DEF EscrowInit, Promise!DepositInit, Deposited, NoRef

(* A step that moves no money at all. *)
LEMMA Stutter ==
  ASSUME PaidNow' = PaidNow, CreditedNow' = CreditedNow,
         FundsNow' = FundsNow, paymentRef' = paymentRef
  PROVE  [Promise!DepositNext]_(Promise!depositVars)
BY DEF PaidNow, CreditedNow, FundsNow, Promise!depositVars

(* A request that carries no claimed payment, before or after its step.    *)
LEMMA NothingCredited ==
  ASSUME NEW r \in Requests, \A q \in Requests : q # r => req'[q] = req[q],
         ~At(r, "settle.hold"), ~At(r, "settle.hold")', dropped' = dropped,
         \A i \in Checkouts : payment'[i] = "success" <=> payment[i] = "success"
  PROVE  CreditedNow' = CreditedNow
BY DEF CreditedNow, At

LEMMA StartImplements ==
  ASSUME Funds, MoneyFollowsDeal, NEW r \in Requests, StartStep(r)
  PROVE  [Promise!DepositNext]_(Promise!depositVars)
<1> USE RefType DEF Funds, Attempts, MoneyTyped, AttemptsInOrder, RefOps, Idle, At,
                    Begin, Goto, Done, row, money, history, PaidNow, FundsNow, Deposited
<1>1. ASSUME NEW i \in Checkouts, PayDeposit(r, i)
      PROVE  [Promise!DepositNext]_(Promise!depositVars)
  BY <1>1, NothingCredited, Stutter DEF PayDeposit
<1>2. CASE StartInsert(r)
  BY <1>2, NothingCredited, Stutter DEF StartInsert
<1>3. CASE Initialized(r) \/ NotInitialized(r)
  BY <1>3, NothingCredited, Stutter DEF Initialized, NotInitialized
<1>4. CASE StartRefused(r)
  BY <1>4, NothingCredited, Stutter DEF StartRefused
<1>5. CASE StartPending(r)
  BY <1>5, NothingCredited, Stutter DEF StartPending
<1> QED BY <1>1, <1>2, <1>3, <1>4, <1>5 DEF StartStep

(* The one settle that carries a reference to the booking credits it.      *)
LEMMA HoldImplements ==
  ASSUME Funds, MoneyFollowsDeal, NEW r \in Requests, SettleHold(r)
  PROVE  \E i \in Checkouts : Promise!Credit(i)
<1> USE DEF Funds, Attempts, MoneyTyped, AttemptsInOrder, MoneyFollowsDeal, At
<1> PICK i \in Checkouts : i = req[r].ref
  BY RefType DEF SettleHold, RefOps
<1>1. payment[i] = "success" /\ checkout[i] = "paid" /\ i \notin dropped
  BY RefType DEF SettleHold, RefOps
<1>2. /\ \A q \in Requests : q # r => ~(At(q, "settle.hold") /\ req[q].ref = i)
      /\ At(r, "settle.hold")
  BY DEF SettleHold
<1>3. /\ req' = [req EXCEPT ![r] = Idle]
      /\ payment' = payment /\ dropped' = dropped /\ checkout' = checkout
  BY DEF SettleHold, Done, history
<1>4. CreditedNow' = CreditedNow \cup {i} /\ i \notin CreditedNow
  BY <1>1, <1>2, <1>3 DEF CreditedNow, Idle
<1>5. PaidNow' = PaidNow /\ i \in PaidNow
  BY <1>1, <1>3 DEF PaidNow
<1>6. \/ FundsNow # "held" /\ FundsNow' = "held" /\ paymentRef' = i
      \/ FundsNow = "held" /\ FundsNow' = FundsNow /\ paymentRef' = paymentRef
  BY DEF SettleHold, FundsNow, Deposited
<1>7. Promise!Credit(i)
  BY <1>4, <1>5, <1>6 DEF Promise!Credit, CreditedNow, PaidNow, FundsNow
<1> QED BY <1>7

LEMMA SettleImplements ==
  ASSUME Funds, MoneyFollowsDeal, NEW r \in Requests, SettleStep(r)
  PROVE  [Promise!DepositNext]_(Promise!depositVars)
<1> USE RefType DEF Funds, Attempts, MoneyTyped, RefOps, Idle, At,
                    Begin, Goto, Done, row, money, history, PaidNow, FundsNow, Deposited
<1>1. ASSUME NEW i \in Checkouts, SettleRead(r, i)
      PROVE  [Promise!DepositNext]_(Promise!depositVars)
  BY <1>1, NothingCredited, Stutter DEF SettleRead
<1>2. CASE VerifyUndecided(r) \/ VerifyAnswer(r)
  BY <1>2, NothingCredited, Stutter DEF VerifyUndecided, VerifyAnswer
<1>3. CASE SettleFail(r) \/ SettleMismatch(r)
  BY <1>3, NothingCredited, Stutter DEF SettleFail, SettleMismatch, FailPending
<1>4. CASE SettleReopen(r)
  BY <1>4, NothingCredited, Stutter DEF SettleReopen
<1>5. CASE SettleClaim(r)
  <2>1. CreditedNow' = CreditedNow
    BY <1>5 DEF SettleClaim, CreditedNow
  <2> QED BY <1>5, <2>1, Stutter DEF SettleClaim
<1>6. CASE SettleHold(r)
  <2>1. PICK i \in Checkouts : Promise!Credit(i)
    BY <1>6, HoldImplements
  <2> QED BY <2>1 DEF Promise!DepositNext
<1> QED BY <1>1, <1>2, <1>3, <1>4, <1>5, <1>6 DEF SettleStep

LEMMA RestImplements ==
  ASSUME Compensation = "paid", Funds, MoneyFollowsDeal, NEW r \in Requests,
         OperatorStep(r) \/ CompleteStep(r) \/ Dropped(r)
  PROVE  [Promise!DepositNext]_(Promise!depositVars)
<1> USE RefType DEF Funds, Attempts, MoneyTyped, MoneyFollowsDeal, RefOps, Idle, At,
                    Begin, Goto, Done, row, money, history, PaidNow, FundsNow, Deposited
<1>1. CASE FundRead(r) \/ RecordRefundRead(r) \/ CompleteRead(r)
  BY <1>1, NothingCredited, Stutter DEF FundRead, RecordRefundRead, CompleteRead
<1>2. CASE FundWrite(r)
  <2>1. CreditedNow' = CreditedNow /\ PaidNow' = PaidNow
    BY <1>2, NothingCredited DEF FundWrite
  <2>2. CASE escrow = "unfunded"
    <3>1. Promise!RecordByHand
      BY <1>2, <2>1, <2>2 DEF FundWrite, Promise!RecordByHand, CreditedNow, Manual
    <3> QED BY <3>1 DEF Promise!DepositNext
  <2>3. CASE escrow # "unfunded"
    BY <1>2, <2>1, <2>3, Stutter DEF FundWrite
  <2> QED BY <2>2, <2>3
<1>3. CASE RecordRefundWrite(r)
  <2>1. CreditedNow' = CreditedNow /\ PaidNow' = PaidNow
    BY <1>3, NothingCredited DEF RecordRefundWrite
  <2>2. CASE escrow = "held"
    <3>1. Promise!Leave("refunded")
      BY <1>3, <2>1, <2>2 DEF RecordRefundWrite, Promise!Leave, CreditedNow
    <3> QED BY <3>1 DEF Promise!DepositNext
  <2>3. CASE escrow # "held"
    BY <1>3, <2>1, <2>3, Stutter DEF RecordRefundWrite
  <2> QED BY <2>2, <2>3
<1>4. CASE CompleteWrite(r)
  <2>1. CreditedNow' = CreditedNow /\ PaidNow' = PaidNow /\ paymentRef' = paymentRef
    BY <1>4, NothingCredited DEF CompleteWrite
  <2>2. CASE Moves("awaiting_settlement", "completed")
    <3>1. escrow = "held" /\ escrow' = "released"
      BY <1>4, <2>2 DEF CompleteWrite, Moves, ReadStillHolds
    <3>2. Promise!Leave("released")
      BY <2>1, <3>1 DEF Promise!Leave, CreditedNow
    <3> QED BY <3>2 DEF Promise!DepositNext
  <2>3. CASE ~Moves("awaiting_settlement", "completed")
    BY <1>4, <2>1, <2>3, Stutter DEF CompleteWrite
  <2> QED BY <2>2, <2>3
<1>5. CASE Dropped(r)
  <2>1. CreditedNow' = CreditedNow
    BY <1>5 DEF Dropped, Die, CreditedNow
  <2> QED BY <1>5, <2>1, Stutter DEF Dropped, Die
<1> QED BY <1>1, <1>2, <1>3, <1>4, <1>5 DEF OperatorStep, CompleteStep

LEMMA HandlerImplements ==
  ASSUME Compensation = "paid", Funds, MoneyFollowsDeal, NEW r \in Requests, EscrowStep(r)
  PROVE  [Promise!DepositNext]_(Promise!depositVars)
BY StartImplements, SettleImplements, RestImplements DEF EscrowStep

LEMMA PayerImplements ==
  ASSUME Funds, NEW i \in Checkouts, PayerActs(i)
  PROVE  [Promise!DepositNext]_(Promise!depositVars)
<1>1. CreditedNow' = CreditedNow /\ FundsNow' = FundsNow /\ paymentRef' = paymentRef
  BY DEF PayerActs, CreditedNow, FundsNow, At, row, history
<1>2. CASE PaidNow' = PaidNow
  BY <1>1, <1>2, Stutter
<1>3. CASE PaidNow' # PaidNow
  <2>1. PaidNow' = PaidNow \cup {i}
    BY <1>3 DEF PayerActs, PaidNow, Funds, Attempts, MoneyTyped
  <2>2. Promise!Pay(i)
    BY <1>1, <2>1 DEF Promise!Pay, PaidNow, CreditedNow, FundsNow
  <2> QED BY <2>2 DEF Promise!DepositNext
<1> QED BY <1>2, <1>3

LEMMA StepImplements ==
  ASSUME Compensation = "paid", Funds, MoneyFollowsDeal, [EscrowNext]_escrowVars
  PROVE  [Promise!DepositNext]_(Promise!depositVars)
<1>1. CASE DealMoves
  BY <1>1, Stutter
  DEF DealMoves, MovesTo, PaidNow, CreditedNow, FundsNow, At, money, history
<1>2. CASE UNCHANGED escrowVars
  BY <1>2, Stutter
  DEF escrowVars, PaidNow, CreditedNow, FundsNow, At, row, money, history
<1> QED BY <1>1, <1>2, HandlerImplements, PayerImplements DEF EscrowNext

(* The handlers of a paid deal keep the promise of Deposit, for any number *)
(* of requests and checkouts, whichever of them die.                       *)
THEOREM ImplementsDeposit ==
  ASSUME Compensation = "paid"
  PROVE  EscrowSpec => KeepsDeposit
<1>1. Funds /\ MoneyFollowsDeal /\ [EscrowNext]_escrowVars
        => (Funds /\ MoneyFollowsDeal)' /\ [Promise!DepositNext]_(Promise!depositVars)
  BY StepFunds, StepFollows, StepImplements
<1> QED
  BY <1>1, InitFunds, InitFollows, InitImplements, PTL
  DEF EscrowSpec, KeepsDeposit, Promise!DepositSpec
===============================================================================
