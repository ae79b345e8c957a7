--------------------------- MODULE SettlementProofs ----------------------------
(***************************************************************************)
(* The ends of a deal: what holds of Refunds with Cancellation, of         *)
(* Disputes beside them, of Payouts, and of Settlement, which runs both    *)
(* ends of the money at once.                                              *)
(***************************************************************************)
EXTENDS Settlement, EscrowProofs

-------------------------------------------------------------------------------
(* Cancellation: types *)

AskOps == {"refund.count", "refund.deposit", "refund.insert"}

RefundOps ==
  AskOps \cup {"refund.call", "refund.refused", "refund.queued", "refund.verify",
               "refund.claim", "refund.failed", "refund.mark"}

CancelOps == {"cancel.ask", "cancel.refuse", "cancel.agree", "cancel.operator"}

(* A request of these modules carries what its handler gave it, and only a *)
(* party asks to cancel.                                                   *)
Carries(x) ==
  /\ x.op \in RefundOps => x \in RefundRequests
  /\ x.op \in CancelOps => x \in CancelRequests
  /\ x.op = "cancel.ask" => x.side \in Parties

EndsTyped ==
  /\ MoneyTyped
  /\ RefundsTypeOK
  /\ cancelSide \in Parties \cup {Nobody}
  /\ asked \subseteq Parties
  /\ \A r \in Requests : Carries(req[r])

LEMMA InitEnds == CancellationInit => EndsTyped
<1> SUFFICES ASSUME CancellationInit PROVE EndsTyped
  OBVIOUS
<1>1. MoneyTyped
  BY InitType, Typed DEF CancellationInit
<1>2. refunds \in Seq(RefundRows) /\ Len(refunds) = 0
  BY DEF CancellationInit, RefundsInit
<1>3. RefundsTypeOK
  BY <1>2, MaxRefundsAssumption
  DEF CancellationInit, RefundsInit, RefundsTypeOK, ReturnStates
<1> QED
  BY <1>1, <1>3
  DEF EndsTyped, CancellationInit, EscrowInit, Carries, Idle, AskOps, RefundOps, CancelOps

(* The requests of the deposit, and those of the two ways to end a deal,   *)
(* carry what they should.                                                 *)
LEMMA KindsCarry ==
  /\ Carries(Idle)
  /\ \A x \in EscrowRequests \cup RefundRequests : Carries(x)
  /\ \A x \in CancelRequests : (x.op = "cancel.ask" => x.side \in Parties) => Carries(x)
BY DEF Carries, Idle, EscrowRequests, RefundRequests, CancelRequests, AskOps,
       RefundOps, CancelOps

(* A step of one request keeps the types if what it leaves has them. *)
LEMMA SlotEnds ==
  ASSUME EndsTyped, NEW r \in Requests, NEW kind, Slot(r, kind), Carries(req'[r]),
         MoneyTyped', RefundsTypeOK', cancelSide' \in Parties \cup {Nobody},
         asked' \subseteq Parties
  PROVE  EndsTyped'
BY DEF EndsTyped, Slot, MoneyTyped

LEMMA EscrowEnds ==
  ASSUME EndsTyped, NEW r \in Requests, EscrowStep(r), UNCHANGED <<refundVars, cancelVars>>
  PROVE  EndsTyped' /\ Slot(r, EscrowRequests)
<1>1. MoneyTyped' /\ Slot(r, EscrowRequests)
  BY HandlerType DEF EndsTyped
<1>2. Carries(req'[r])
  BY <1>1, KindsCarry DEF Slot
<1> QED
  BY <1>1, <1>2, SlotEnds DEF EndsTyped, RefundsTypeOK, refundVars, cancelVars

LEMMA AdvanceRefundType ==
  ASSUME refunds \in Seq(RefundRows), NEW i, NEW from, NEW to \in PayoutStatuses,
         AdvanceRefund(i, from, to)
  PROVE  /\ refunds' \in Seq(RefundRows) /\ Len(refunds') = Len(refunds)
         /\ \A k \in 1 .. Len(refunds) :
              refunds'[k] = IF k = i /\ refunds[k].status = from
                              THEN [refunds[k] EXCEPT !.status = to]
                              ELSE refunds[k]
<1> DEFINE n == Len(refunds)
           new(k) == [refunds[k] EXCEPT !.status = IF @ = from THEN to ELSE @]
<1>1. refunds \in [1 .. n -> RefundRows] /\ n \in Nat
  OBVIOUS
<1>2. \A k \in 1 .. n : new(k) \in RefundRows
  BY <1>1 DEF RefundRows
<1>3. refunds' \in [1 .. n -> RefundRows]
  BY <1>1, <1>2 DEF AdvanceRefund
<1>4. refunds' \in Seq(RefundRows) /\ Len(refunds') = n
  BY <1>1, <1>3
<1>5. \A x \in RefundRows : [x EXCEPT !.status = x.status] = x
  BY DEF RefundRows
<1>6. \A k \in 1 .. n : refunds'[k] = IF k = i THEN new(k) ELSE refunds[k]
  BY <1>1 DEF AdvanceRefund
<1>7. \A k \in 1 .. n : new(k) = IF refunds[k].status = from
                                   THEN [refunds[k] EXCEPT !.status = to]
                                   ELSE refunds[k]
  BY <1>1, <1>5
<1> HIDE DEF new
<1> QED BY <1>4, <1>6, <1>7

LEMMA QueuedType ==
  ASSUME refunds \in Seq(RefundRows), NEW i, NEW k \in BOOLEAN,
         refunds' = [refunds EXCEPT ![i] =
                       IF @.status = "pending"
                         THEN [@ EXCEPT !.status = "queued", !.known = k]
                         ELSE @]
  PROVE  /\ refunds' \in Seq(RefundRows) /\ Len(refunds') = Len(refunds)
         /\ \A j \in 1 .. Len(refunds) :
              refunds'[j] = IF j = i /\ refunds[j].status = "pending"
                              THEN [refunds[j] EXCEPT !.status = "queued", !.known = k]
                              ELSE refunds[j]
<1> DEFINE n == Len(refunds)
           new(j) == IF refunds[j].status = "pending"
                       THEN [refunds[j] EXCEPT !.status = "queued", !.known = k]
                       ELSE refunds[j]
<1>1. refunds \in [1 .. n -> RefundRows] /\ n \in Nat
  OBVIOUS
<1>2. \A j \in 1 .. n : new(j) \in RefundRows
  BY <1>1 DEF RefundRows, PayoutStatuses
<1>3. refunds' \in [1 .. n -> RefundRows]
  BY <1>1, <1>2
<1>4. refunds' \in Seq(RefundRows) /\ Len(refunds') = n
  BY <1>1, <1>3
<1> QED BY <1>1, <1>4

LEMMA RefundType ==
  ASSUME EndsTyped, NEW r \in Requests, RefundStep(r), UNCHANGED cancelVars
  PROVE  EndsTyped' /\ Slot(r, RefundRequests)
<1>1. /\ req = [q \in Requests |-> req[q]] /\ Carries(req[r])
      /\ refunds \in Seq(RefundRows) /\ Len(refunds) <= MaxRefunds
      /\ returning \in [RefundIds -> ReturnStates]
      /\ status \in Statuses /\ escrow \in EscrowStates
  BY DEF EndsTyped, MoneyTyped, RefundsTypeOK
<1> DEFINE Keeps ==
             /\ Slot(r, RefundRequests) /\ RefundsTypeOK'
             /\ UNCHANGED money /\ status' \in Statuses /\ escrow' \in EscrowStates
<1>2. Keeps
  <2> USE <1>1
      DEF Slot, RefundRequests, RefundsTypeOK, At, Begin, Goto, Done, row, refundVars,
          Carries, AskOps, RefundOps
  <2>1. CASE RefundCount(r)  BY <2>1 DEF RefundCount
  <2>2. CASE RefundDeposit(r)  BY <2>2 DEF RefundDeposit
  <2>3. CASE RefundInsert(r)
    <3>1. req[r].whole \in BOOLEAN /\ req[r].ref \in Checkouts
      BY <2>3 DEF RefundInsert
    <3> DEFINE e == [status |-> "pending", ref |-> req[r].ref,
                     whole |-> req[r].whole, known |-> FALSE]
    <3>2. e \in RefundRows
      BY <3>1 DEF RefundRows, PayoutStatuses
    <3>3. refunds' = Append(refunds, e)
      BY <2>3 DEF RefundInsert
    <3> HIDE DEF e
    <3>4. refunds' \in Seq(RefundRows) /\ Len(refunds') = Len(refunds) + 1
      BY <3>2, <3>3
    <3> QED BY <2>3, <3>4, MaxRefundsAssumption DEF RefundInsert, RefundIds
  <2>4. CASE RefundAccepted(r)  BY <2>4 DEF RefundAccepted, ReturnStates
  <2>5. CASE RefundNotOk(r)  BY <2>5 DEF RefundNotOk, ReturnStates
  <2>6. CASE RefundRefused(r)
    BY <2>6, AdvanceRefundType DEF RefundRefused, PayoutStatuses
  <2>7. CASE RefundQueued(r)
    <3>1. req[r].known \in BOOLEAN
      BY <2>7 DEF RefundQueued
    <3> QED BY <2>7, <3>1, QueuedType DEF RefundQueued
  <2>8. ASSUME NEW i \in RefundIds, RefundReconcileRead(r, i)
        PROVE  Keeps
    BY <2>8 DEF RefundReconcileRead
  <2>9. CASE RefundReconcileAnswer(r)  BY <2>9 DEF RefundReconcileAnswer
  <2>10. CASE RefundReconcileFailed(r)
    BY <2>10, AdvanceRefundType DEF RefundReconcileFailed, PayoutStatuses
  <2>11. CASE RefundClaim(r)
    BY <2>11, AdvanceRefundType DEF RefundClaim, PayoutStatuses
  <2>12. CASE RefundMark(r)  BY <2>12 DEF RefundMark, EscrowStates
  <2> QED
    BY <2>1, <2>2, <2>3, <2>4, <2>5, <2>6, <2>7, <2>8, <2>9, <2>10, <2>11, <2>12
    DEF RefundStep
<1>3. \A x \in RefundRequests : x.op \notin RefOps
  BY DEF RefundRequests, RefOps
<1>4. MoneyTyped'
  BY <1>2, <1>3, AsideTyped DEF EndsTyped
<1>5. Carries(req'[r])
  BY <1>2, KindsCarry DEF Slot
<1> QED BY <1>2, <1>4, <1>5, SlotEnds DEF EndsTyped, cancelVars

LEMMA CancelType ==
  ASSUME EndsTyped, NEW r \in Requests, CancelStep(r)
  PROVE  EndsTyped' /\ Slot(r, CancelRequests \cup RefundRequests)
<1>1. /\ req = [q \in Requests |-> req[q]] /\ Carries(req[r])
      /\ status \in Statuses /\ escrow \in EscrowStates
      /\ cancelSide \in Parties \cup {Nobody} /\ asked \subseteq Parties
  BY DEF EndsTyped, MoneyTyped
<1> DEFINE Keeps ==
             /\ Slot(r, CancelRequests \cup RefundRequests) /\ Carries(req'[r])
             /\ UNCHANGED <<money, refundVars>> /\ status' \in Statuses /\ escrow' = escrow
             /\ cancelSide' \in Parties \cup {Nobody} /\ asked' \subseteq Parties
<1>2. Keeps
  <2> USE <1>1
      DEF Slot, CancelRequests, RefundRequests, At, Begin, Goto, Done, row, cancelVars,
          SendRefund, Carries, AskOps, RefundOps, CancelOps, Sides, Parties, Idle, Statuses
  <2>1. ASSUME NEW side \in Parties, RequestCancelRead(r, side)
        PROVE  Keeps
    BY <2>1 DEF RequestCancelRead
  <2>2. CASE RequestCancelWrite(r)  BY <2>2 DEF RequestCancelWrite
  <2>3. ASSUME NEW side \in Sides, AnswerCancelRead(r, side)
        PROVE  Keeps
    BY <2>3 DEF AnswerCancelRead
  <2>4. CASE RefuseWrite(r)  BY <2>4 DEF RefuseWrite
  <2>5. CASE AgreeWrite(r)
    <3>1. CASE Moves(req[r].status, "cancelled") /\ SendRefund(r, TRUE)
      BY <2>5, <3>1 DEF AgreeWrite
    <3>2. CASE Done(r)
      BY <2>5, <3>2 DEF AgreeWrite
    <3> QED BY <2>5, <3>1, <3>2 DEF AgreeWrite
  <2>6. CASE OperatorCancelRead(r)  BY <2>6 DEF OperatorCancelRead
  <2>7. CASE OperatorCancelWrite(r)
    <3>1. CASE Moves(req[r].status, "cancelled") /\ SendRefund(r, TRUE)
      BY <2>7, <3>1 DEF OperatorCancelWrite
    <3>2. CASE Done(r)
      BY <2>7, <3>2 DEF OperatorCancelWrite
    <3> QED BY <2>7, <3>1, <3>2 DEF OperatorCancelWrite
  <2> QED BY <2>1, <2>2, <2>3, <2>4, <2>5, <2>6, <2>7 DEF CancelStep
<1>3. \A x \in CancelRequests \cup RefundRequests : x.op \notin RefOps
  BY DEF CancelRequests, RefundRequests, RefOps
<1>4. MoneyTyped'
  BY <1>1, <1>2, <1>3, AsideTyped DEF EndsTyped
<1> QED BY <1>2, <1>4, SlotEnds DEF EndsTyped, RefundsTypeOK, refundVars

LEMMA ReturnEnds ==
  ASSUME EndsTyped, NEW i \in RefundIds, ReturnMoves(i), UNCHANGED cancelVars
  PROVE  EndsTyped'
BY DEF ReturnMoves, EndsTyped, MoneyTyped, RefundsTypeOK, ReturnStates, cancelVars, row,
       money, history

LEMMA PayerEnds ==
  ASSUME EndsTyped, NEW i \in Checkouts, PayerActs(i), UNCHANGED <<refundVars, cancelVars>>
  PROVE  EndsTyped'
BY PayerType DEF PayerActs, EndsTyped, RefundsTypeOK, refundVars, cancelVars

LEMMA AdvanceEnds == EndsTyped /\ DealAdvances => EndsTyped'
<1> SUFFICES ASSUME EndsTyped, DealAdvances PROVE EndsTyped'
  OBVIOUS
<1>1. MoneyTyped'
  BY MovesType DEF DealAdvances, EndsTyped
<1> QED
  BY <1>1 DEF DealAdvances, MovesTo, EndsTyped, RefundsTypeOK, refundVars, cancelVars

LEMMA StillEnds == EndsTyped /\ UNCHANGED cancellationVars => EndsTyped'
BY DEF EndsTyped, MoneyTyped, RefundsTypeOK, cancellationVars, refundVars, cancelVars,
       row, money, history

-------------------------------------------------------------------------------
(* Cancellation: the deposit *)

MoneyOps == RefOps \cup {"fund.write", "refund.write", "complete.write"}

(* A request that has no part in the deposit leaves its invariants alone:  *)
(* it may end the deal, complete it only over a deposit, and move a        *)
(* deposit that was taken, and no more.                                    *)
LEMMA AsideFunds ==
  ASSUME Funds, MoneyTyped', NEW r \in Requests, NEW kind, Slot(r, kind),
         \A x \in kind : x.op \notin MoneyOps, UNCHANGED money,
         escrow' = escrow \/ (escrow \in Deposited /\ escrow' \in Deposited),
         status' = status \/ status' # "completed" \/ Compensation # "paid"
           \/ escrow \in Deposited
  PROVE  Funds'
<1>1. \A q \in Requests : req'[q] = req[q] \/ req'[q].op \notin MoneyOps
  BY DEF Funds, Attempts, MoneyTyped, Slot, Idle, MoneyOps, RefOps
<1>2. Attempts'
  BY <1>1
  DEF Funds, Attempts, AttemptsInOrder, At, Starting, MoneyOps, RefOps, money, history
<1>3. HeldIsBacked' /\ CompletedWasFunded'
  BY DEF Funds, HeldIsBacked, CompletedWasFunded, Deposited, money, history
<1>4. ReadStillHolds'
  BY <1>1 DEF Funds, ReadStillHolds, At, MoneyOps, Deposited
<1> QED BY <1>2, <1>3, <1>4 DEF Funds

LEMMA AsideFollows ==
  ASSUME MoneyTyped, MoneyFollowsDeal, NEW r \in Requests, NEW kind, Slot(r, kind),
         \A x \in kind : x.op \notin MoneyOps, UNCHANGED money,
         status' = status \/ (status' = "cancelled" /\ escrow # "released"),
         escrow' = escrow \/ (escrow' = "refunded" /\ status' = "cancelled")
  PROVE  MoneyFollowsDeal'
<1>1. \A q \in Requests : req'[q] = req[q] \/ req'[q].op \notin MoneyOps
  BY DEF MoneyTyped, Slot, Idle, MoneyOps, RefOps
<1> QED BY <1>1 DEF MoneyFollowsDeal, At, MoneyOps, RefOps, money, history

LEMMA AsideImplements ==
  ASSUME MoneyTyped, NEW r \in Requests, NEW kind, Slot(r, kind),
         \A x \in kind : x.op \notin MoneyOps, req[r].op \notin MoneyOps, UNCHANGED money,
         escrow' = escrow \/ (escrow = "held" /\ escrow' = "refunded")
  PROVE  [Promise!DepositNext]_(Promise!depositVars)
<1>1. /\ \A q \in Requests : q # r => req'[q] = req[q]
      /\ ~At(r, "settle.hold") /\ ~At(r, "settle.hold")'
  BY DEF MoneyTyped, Slot, Idle, At, MoneyOps, RefOps
<1>2. CreditedNow' = CreditedNow /\ PaidNow' = PaidNow /\ paymentRef' = paymentRef
  BY <1>1, NothingCredited DEF money, history, PaidNow
<1>3. CASE escrow' = escrow
  BY <1>2, <1>3, Stutter DEF FundsNow
<1>4. CASE escrow = "held" /\ escrow' = "refunded"
  <2>1. Promise!Leave("refunded")
    BY <1>2, <1>4 DEF Promise!Leave, Deposited, CreditedNow, PaidNow
  <2> QED BY <2>1 DEF Promise!DepositNext
<1> QED BY <1>3, <1>4

(* Held funds leave the booking only when the deal completes, or by hand.  *)
LEMMA HeldLeaves ==
  ASSUME NEW r \in Requests, EscrowStep(r), escrow = "held", escrow' # "held"
  PROVE  \/ status' = "completed" /\ escrow' = "released"
         \/ At(r, "refund.write") /\ escrow' = "refunded" /\ handRefund'
<1> USE DEF row
<1>1. CASE StartStep(r)
  BY <1>1 DEF StartStep, PayDeposit, StartInsert, Initialized, NotInitialized,
              StartRefused, StartPending
<1>2. CASE SettleStep(r)
  BY <1>2 DEF SettleStep, SettleRead, VerifyUndecided, VerifyAnswer, SettleFail,
              SettleReopen, SettleMismatch, SettleClaim, SettleHold
<1>3. CASE OperatorStep(r) \/ CompleteStep(r) \/ Dropped(r)
  BY <1>3 DEF OperatorStep, CompleteStep, FundRead, FundWrite, RecordRefundRead,
              RecordRefundWrite, CompleteRead, CompleteWrite, Dropped, Die
<1> QED BY <1>1, <1>2, <1>3 DEF EscrowStep

(* How a deal that is called off ends: nobody asks Chapa before it is      *)
(* cancelled, the one who moved it asks, and what that one read as held is *)
(* still held.                                                             *)
Ended ==
  /\ status # "disputed"
  /\ Len(refunds) > 0 => status = "cancelled" /\ escrow \in Deposited
  /\ Len(refunds) <= 1
  /\ \A r \in Requests :
       /\ req[r].op \in RefundOps => status = "cancelled" /\ escrow \in Deposited
       /\ req[r].op \in AskOps => Len(refunds) = 0
       /\ req[r].op \in {"cancel.agree", "cancel.operator"} /\ req[r].escrow = "held"
            /\ status \notin {"cancelled", "completed"} => escrow = "held"
  /\ \A r, q \in Requests : req[r].op \in AskOps /\ req[q].op \in AskOps => r = q

Ending == EndsTyped /\ Funds /\ MoneyFollowsDeal /\ Ended

LEMMA EscrowEnding ==
  ASSUME Ending, NEW r \in Requests, EscrowStep(r), UNCHANGED <<refundVars, cancelVars>>
  PROVE  Ending'
<1>1. EndsTyped' /\ Slot(r, EscrowRequests)
  BY EscrowEnds DEF Ending
<1>2. Funds' /\ MoneyFollowsDeal'
  BY HandlerFunds, HandlerFollows DEF Ending
<1>3. /\ \A q \in Requests : q # r => req'[q] = req[q]
      /\ req'[r].op \notin RefundOps \cup CancelOps
  BY <1>1 DEF Ending, EndsTyped, MoneyTyped, Slot, Idle, EscrowRequests, RefundOps,
              AskOps, CancelOps
<1>4. escrow \in Deposited => escrow' \in Deposited
  BY DepositStays
<1>5. status' = status \/ (status = "awaiting_settlement" /\ status' = "completed")
  BY EscrowMoves
<1>6. escrow = "held" /\ status' \notin {"cancelled", "completed"} => escrow' = "held"
  BY <1>5, HeldLeaves DEF Ending, MoneyFollowsDeal
<1>7. Ended'
  BY <1>3, <1>4, <1>5, <1>6 DEF Ending, Ended, refundVars, RefundOps, AskOps, CancelOps
<1> QED BY <1>1, <1>2, <1>7 DEF Ending

(* send inserts one row and is no longer asking; nothing else adds a row,  *)
(* and reconcile starts no send.                                           *)
LEMMA RefundShape ==
  ASSUME EndsTyped, NEW r \in Requests, RefundStep(r)
  PROVE  /\ \/ Len(refunds') = Len(refunds)
            \/ /\ At(r, "refund.insert") /\ Len(refunds') = Len(refunds) + 1
               /\ req'[r].op \notin AskOps
         /\ req'[r].op \in AskOps => req[r].op \in AskOps
<1> USE AdvanceRefundType
    DEF EndsTyped, MoneyTyped, RefundsTypeOK, At, Begin, Goto, Done, Idle, AskOps,
        refundVars, PayoutStatuses
<1>1. CASE RefundCount(r) \/ RefundDeposit(r)
  BY <1>1 DEF RefundCount, RefundDeposit
<1>2. CASE RefundInsert(r)
  <2>1. Len(refunds') = Len(refunds) + 1
    BY <1>2 DEF RefundInsert
  <2> QED BY <1>2, <2>1 DEF RefundInsert
<1>3. CASE RefundAccepted(r) \/ RefundNotOk(r)
  BY <1>3 DEF RefundAccepted, RefundNotOk
<1>4. CASE RefundRefused(r) \/ RefundReconcileFailed(r)
  BY <1>4 DEF RefundRefused, RefundReconcileFailed
<1>5. CASE RefundQueued(r)
  <2>1. Len(refunds') = Len(refunds)
    BY <1>5 DEF RefundQueued
  <2> QED BY <1>5, <2>1 DEF RefundQueued
<1>6. ASSUME NEW i \in RefundIds, RefundReconcileRead(r, i)
      PROVE  Len(refunds') = Len(refunds) /\ req'[r].op \notin AskOps
  BY <1>6 DEF RefundReconcileRead
<1>7. CASE RefundReconcileAnswer(r) \/ RefundMark(r)
  BY <1>7 DEF RefundReconcileAnswer, RefundMark
<1>8. CASE RefundClaim(r)
  BY <1>8 DEF RefundClaim
<1> QED BY <1>1, <1>2, <1>3, <1>4, <1>5, <1>6, <1>7, <1>8 DEF RefundStep

LEMMA RefundEnding ==
  ASSUME Ending, NEW r \in Requests, RefundStep(r), UNCHANGED cancelVars
  PROVE  Ending' /\ [Promise!DepositNext]_(Promise!depositVars)
<1>1. EndsTyped' /\ Slot(r, RefundRequests) /\ MoneyTyped'
  BY RefundType DEF Ending, EndsTyped
<1>2. \A x \in RefundRequests : x.op \in RefundOps /\ x.op \notin MoneyOps
  BY DEF RefundRequests, RefundOps, AskOps, MoneyOps, RefOps
<1>3. /\ UNCHANGED money /\ status' = status /\ status = "cancelled"
      /\ escrow \in Deposited /\ (escrow' = escrow \/ escrow' = "refunded")
      /\ req[r].op \in RefundOps \cup {"idle"}
  BY DEF RefundStep, RefundCount, RefundDeposit, RefundInsert, RefundAccepted,
         RefundNotOk, RefundRefused, RefundQueued, RefundReconcileRead,
         RefundReconcileAnswer, RefundReconcileFailed, RefundClaim, RefundMark,
         At, Begin, Idle, row, Ending, Ended, RefundOps, AskOps
<1>4. escrow \in {"held", "refunded"} /\ req[r].op \notin MoneyOps
  BY <1>3 DEF Ending, MoneyFollowsDeal, Deposited, RefundOps, AskOps, MoneyOps, RefOps
<1>5. Funds' /\ MoneyFollowsDeal'
  BY <1>1, <1>2, <1>3, <1>4, AsideFunds, AsideFollows
  DEF Ending, EndsTyped, Deposited
<1>6. [Promise!DepositNext]_(Promise!depositVars)
  BY <1>1, <1>2, <1>3, <1>4, AsideImplements DEF Ending, EndsTyped
<1>7. /\ \/ Len(refunds') = Len(refunds)
         \/ /\ At(r, "refund.insert") /\ Len(refunds') = Len(refunds) + 1
            /\ req'[r].op \notin AskOps
      /\ req'[r].op \in AskOps => req[r].op \in AskOps
  BY RefundShape DEF Ending
<1>8. Ended'
  BY <1>1, <1>3, <1>4, <1>7 DEF Ending, Ended, EndsTyped, MoneyTyped, Slot, Idle, RefundOps,
         AskOps, Deposited, At
<1> QED BY <1>1, <1>5, <1>6, <1>8 DEF Ending

(* What a press that ends the deal, or asks to, does to it.                *)
LEMMA CancelShape ==
  ASSUME EndsTyped, NEW r \in Requests, CancelStep(r)
  PROVE  /\ UNCHANGED <<money, refundVars>> /\ escrow' = escrow
         /\ req[r].op \in CancelOps \cup {"idle"}
         /\ \/ status' = status /\ req'[r].op \notin RefundOps
            \/ /\ req[r].op \in {"cancel.agree", "cancel.operator"}
               /\ Moves(req[r].status, "cancelled") /\ status' = "cancelled"
               /\ \/ req'[r].op \notin RefundOps
                  \/ req[r].escrow = "held" /\ req'[r].op = "refund.count"
               /\ req'[r].op \notin CancelOps
         /\ req'[r].op \in {"cancel.agree", "cancel.operator"} => req'[r].escrow = escrow
<1> USE DEF EndsTyped, MoneyTyped, At, Begin, Goto, Done, Idle, row, RefundOps, AskOps,
            CancelOps, SendRefund
<1>1. ASSUME NEW side \in Parties, RequestCancelRead(r, side)
      PROVE  /\ UNCHANGED <<money, refundVars>> /\ escrow' = escrow /\ status' = status
             /\ req[r].op = "idle" /\ req'[r].op = "cancel.ask"
  BY <1>1 DEF RequestCancelRead
<1>2. CASE RequestCancelWrite(r)  BY <1>2 DEF RequestCancelWrite
<1>3. ASSUME NEW side \in Sides, AnswerCancelRead(r, side)
      PROVE  /\ UNCHANGED <<money, refundVars>> /\ escrow' = escrow /\ status' = status
             /\ req[r].op = "idle" /\ req'[r].op \in {"cancel.refuse", "cancel.agree"}
             /\ req'[r].op = "cancel.agree" => req'[r].escrow = escrow
  BY <1>3 DEF AnswerCancelRead
<1>4. CASE RefuseWrite(r)  BY <1>4 DEF RefuseWrite
<1>5. CASE AgreeWrite(r)  BY <1>5 DEF AgreeWrite
<1>6. CASE OperatorCancelRead(r)  BY <1>6 DEF OperatorCancelRead
<1>7. CASE OperatorCancelWrite(r)  BY <1>7 DEF OperatorCancelWrite
<1> QED BY <1>1, <1>2, <1>3, <1>4, <1>5, <1>6, <1>7 DEF CancelStep

LEMMA CancelEnding ==
  ASSUME Ending, NEW r \in Requests, CancelStep(r)
  PROVE  Ending' /\ [Promise!DepositNext]_(Promise!depositVars)
<1> DEFINE kind == CancelRequests \cup RefundRequests
<1>1. EndsTyped' /\ Slot(r, kind) /\ MoneyTyped'
  BY CancelType DEF Ending, EndsTyped
<1>2. /\ \A x \in kind : x.op \notin MoneyOps
      /\ CancelOps \cap MoneyOps = {} /\ "idle" \notin MoneyOps
  BY DEF CancelRequests, RefundRequests, CancelOps, MoneyOps, RefOps
<1>3. /\ UNCHANGED <<money, refundVars>> /\ escrow' = escrow
      /\ req[r].op \in CancelOps \cup {"idle"}
      /\ req'[r].op \in {"cancel.agree", "cancel.operator"} => req'[r].escrow = escrow
  BY CancelShape DEF Ending
<1>4. \/ status' = status /\ req'[r].op \notin RefundOps
      \/ /\ status \notin {"cancelled", "completed"} /\ status' = "cancelled"
         /\ req'[r].op \in RefundOps => escrow = "held"
  <2>1. CASE status' = status /\ req'[r].op \notin RefundOps
    BY <2>1
  <2>2. CASE /\ req[r].op \in {"cancel.agree", "cancel.operator"}
             /\ Moves(req[r].status, "cancelled") /\ status' = "cancelled"
             /\ \/ req'[r].op \notin RefundOps
                \/ req[r].escrow = "held" /\ req'[r].op = "refund.count"
    <3>1. status \notin {"cancelled", "completed"}
      BY <2>2 DEF Moves, CanTransition, Transitions
    <3> QED BY <2>2, <3>1 DEF Ending, Ended
  <2> QED BY <2>1, <2>2, CancelShape DEF Ending
<1>5. status' # status => escrow # "released"
  BY <1>4 DEF Ending, Ended, MoneyFollowsDeal
<1>6. req[r].op \notin MoneyOps
  BY <1>2, <1>3
<1>7. Funds'
  BY <1>1, <1>2, <1>3, <1>4, AsideFunds DEF Ending
<1>8. MoneyFollowsDeal'
  BY <1>1, <1>2, <1>3, <1>4, <1>5, AsideFollows DEF Ending, EndsTyped
<1>9. [Promise!DepositNext]_(Promise!depositVars)
  BY <1>1, <1>2, <1>3, <1>6, AsideImplements DEF Ending, EndsTyped
<1>10. /\ \A q \in Requests : q # r => req'[q] = req[q]
       /\ req[r].op \notin RefundOps
       /\ status = "cancelled" => req'[r].op \notin RefundOps
  BY <1>1, <1>3, <1>4 DEF Ending, EndsTyped, MoneyTyped, Slot, CancelOps, RefundOps, AskOps
<1>11. Ended'
  BY <1>3, <1>4, <1>10 DEF Ending, Ended, refundVars, AskOps, RefundOps, Deposited
<1> QED BY <1>1, <1>7, <1>8, <1>9, <1>11 DEF Ending

LEMMA InitEnding == CancellationInit => Ending
BY InitEnds, InitFunds, InitFollows
   DEF CancellationInit, EscrowInit, RefundsInit, Ending, Ended, Idle, RefundOps, AskOps

LEMMA StepEnding ==
  ASSUME Ending, [CancellationNext]_cancellationVars
  PROVE  Ending'
<1>1. ASSUME NEW i \in Checkouts, PayerActs(i), UNCHANGED <<refundVars, cancelVars>>
      PROVE  Ending'
  BY <1>1, PayerEnds, PayerFunds, PayerFollows DEF Ending, Ended, PayerActs, row, refundVars
<1>2. ASSUME NEW i \in RefundIds, ReturnMoves(i), UNCHANGED cancelVars
      PROVE  Ending'
  <2>1. UNCHANGED <<row, req, money, refunds>>
    BY <1>2 DEF ReturnMoves
  <2>2. UNCHANGED escrowVars
    BY <2>1 DEF escrowVars
  <2> QED
    BY <1>2, <2>1, <2>2, ReturnEnds, StepFunds, StepFollows DEF Ending, Ended, row
<1>3. CASE DealAdvances
  <2>1. /\ status \in Statuses
        /\ MovesTo(Statuses \ {"completed", "cancelled", "disputed"})
        /\ status' \notin {"completed", "cancelled", "disputed"}
        /\ UNCHANGED <<escrow, req, money, refundVars>>
    BY <1>3 DEF DealAdvances, MovesTo, Ending, EndsTyped, MoneyTyped
  <2>2. status \notin {"completed", "cancelled"}
    BY <2>1 DEF MovesTo, Moves, CanTransition, Transitions, Ending, Ended
  <2>3. DealMoves
    BY <2>1 DEF DealMoves, MovesTo, Ending, Ended
  <2>4. Funds' /\ MoneyFollowsDeal'
    BY <2>3, StepFunds, StepFollows DEF EscrowNext, Ending
  <2>5. Ended'
    BY <2>1, <2>2 DEF Ending, Ended, refundVars
  <2> QED BY <1>3, <2>4, <2>5, AdvanceEnds DEF Ending
<1>4. CASE UNCHANGED cancellationVars
  <2>1. UNCHANGED <<escrowVars, status, escrow, req, refunds>>
    BY <1>4 DEF cancellationVars, escrowVars, row, refundVars
  <2> QED
    BY <1>4, <2>1, StillEnds, StepFunds, StepFollows DEF Ending, Ended
<1> QED BY <1>1, <1>2, <1>3, <1>4, EscrowEnding, RefundEnding, CancelEnding DEF CancellationNext

LEMMA EndingCorrect == CancellationSpec => []Ending
BY InitEnding, StepEnding, PTL DEF CancellationSpec

(* However the parties' agreement, an operator's press, retries and dying  *)
(* requests interleave, one refund at most is ever asked of Chapa.         *)
THEOREM RefundedOnce == CancellationSpec => []RefundedAtMostOnce
<1>1. Ending => RefundedAtMostOnce
  BY DEF Ending, Ended, EndsTyped, RefundsTypeOK, RefundedAtMostOnce, MoneyBack
<1> QED BY <1>1, EndingCorrect, PTL

(* A deal that can be called off keeps the promise of Deposit: a return    *)
(* Chapa confirmed leaves escrow once, and only from funds that are there. *)
THEOREM CancellationImplements ==
  ASSUME Compensation = "paid"
  PROVE  CancellationSpec => KeepsDeposit
<1>1. CancellationInit => Promise!DepositInit
  BY InitImplements DEF CancellationInit
<1>2. ASSUME Ending, [CancellationNext]_cancellationVars
      PROVE  [Promise!DepositNext]_(Promise!depositVars)
  <2> Funds /\ MoneyFollowsDeal
    BY <1>2 DEF Ending
  <2>1. ASSUME NEW i \in RefundIds, ReturnMoves(i)
        PROVE  [Promise!DepositNext]_(Promise!depositVars)
    <3>1. UNCHANGED escrowVars
      BY <2>1 DEF ReturnMoves, escrowVars
    <3> QED BY <1>2, <3>1, StepImplements
  <2>2. CASE DealAdvances
    <3>1. UNCHANGED <<escrow, req, money>>
      BY <2>2 DEF DealAdvances, MovesTo
    <3> QED
      BY <3>1, Stutter DEF PaidNow, CreditedNow, FundsNow, At, money, history
  <2>3. CASE UNCHANGED cancellationVars
    <3>1. UNCHANGED escrowVars
      BY <2>3 DEF cancellationVars, escrowVars
    <3> QED BY <1>2, <3>1, StepImplements
  <2> QED
    BY <1>2, <2>1, <2>2, <2>3, HandlerImplements, PayerImplements, RefundEnding, CancelEnding
    DEF CancellationNext
<1>3. Ending /\ [CancellationNext]_cancellationVars => [Promise!DepositNext]_(Promise!depositVars)
  BY <1>2
<1> QED
  BY <1>1, <1>3, EndingCorrect, PTL DEF CancellationSpec, KeepsDeposit, Promise!DepositSpec

-------------------------------------------------------------------------------
(* Cancellation: what a refund knows of its money *)

Returned(i) ==
  /\ i \in 1 .. Len(refunds)
  /\ refunds[i].whole /\ refunds[i].status = "success" /\ returning[i] = "paid"

(* One send at most carries each row to Chapa, which has nothing of it     *)
(* before it is asked; a reconcile claims what did arrive, and the booking *)
(* is marked after the whole of it was claimed.                            *)
ReturnsFollowed ==
  /\ escrow = "refunded" => handRefund \/ \E i \in RefundIds : Returned(i)
  /\ \A i \in RefundIds : i > Len(refunds) => returning[i] = "none"
  /\ \A r \in Requests :
       /\ At(r, "refund.call") =>
            req[r].id \in 1 .. Len(refunds) /\ returning[req[r].id] = "none"
       /\ req[r].op \in {"refund.verify", "refund.claim"} =>
            req[r].id \in 1 .. Len(refunds)
       /\ At(r, "refund.claim") => returning[req[r].id] = "paid"
       /\ At(r, "refund.mark") => Returned(req[r].id)
  /\ \A r, q \in Requests :
       At(r, "refund.call") /\ At(q, "refund.call") /\ req[r].id = req[q].id => r = q

(* A request that carries the id of a refund carries one within the bound. *)
LEMMA RefundIdType ==
  ASSUME EndsTyped, NEW r \in Requests, req[r].op \in RefundOps \ AskOps
  PROVE  req[r].id \in RefundIds
BY DEF EndsTyped, Carries, RefundRequests, RefundOps, AskOps

(* A step that leaves the rows and their returns alone.                    *)
LEMMA QuietReturns ==
  ASSUME EndsTyped, ReturnsFollowed, NEW r \in Requests, NEW state,
         req' = [req EXCEPT ![r] = state], UNCHANGED refundVars,
         escrow' = "refunded" => escrow = "refunded" \/ handRefund',
         handRefund => handRefund',
         state.op \notin {"refund.call", "refund.mark"},
         state.op \in {"refund.verify", "refund.claim"} => state.id \in 1 .. Len(refunds),
         state.op = "refund.claim" => returning[state.id] = "paid"
  PROVE  ReturnsFollowed'
BY DEF EndsTyped, MoneyTyped, ReturnsFollowed, Returned, At, refundVars

(* A step that writes one row, of which nobody has claimed the return yet. *)
LEMMA WriteReturns ==
  ASSUME EndsTyped, ReturnsFollowed, NEW r \in Requests, NEW state,
         req' = [req EXCEPT ![r] = state], UNCHANGED <<escrow, money, returning>>,
         Len(refunds') = Len(refunds),
         \A k \in 1 .. Len(refunds) : Returned(k) => refunds'[k] = refunds[k],
         state.op \notin RefundOps \/ (state.op = "refund.mark" /\ Returned(state.id)')
  PROVE  ReturnsFollowed'
<1>1. \A k \in 1 .. Len(refunds) : Returned(k) => Returned(k)'
  BY DEF Returned
<1>2. \A k : Returned(k) => Returned(k)'
  BY <1>1 DEF Returned
<1> QED
  BY <1>2 DEF EndsTyped, MoneyTyped, ReturnsFollowed, At, RefundOps, AskOps, money, history

LEMMA RefundReturns ==
  ASSUME EndsTyped, ReturnsFollowed, NEW r \in Requests, RefundStep(r)
  PROVE  ReturnsFollowed'
<1> USE DEF At, Begin, Goto, Done, row, money, history
<1>1. CASE RefundCount(r)  BY <1>1, QuietReturns DEF RefundCount, Idle
<1>2. CASE RefundDeposit(r)  BY <1>2, QuietReturns DEF RefundDeposit, Idle
<1>3. CASE RefundInsert(r)
  <2>1. Len(refunds) + 1 \in RefundIds /\ Len(refunds) \in Nat
    BY <1>3, MaxRefundsAssumption DEF RefundInsert, RefundIds, EndsTyped, RefundsTypeOK
  <2>2. /\ Len(refunds') = Len(refunds) + 1
        /\ \A k \in 1 .. Len(refunds) : refunds'[k] = refunds[k]
    BY <1>3 DEF RefundInsert, EndsTyped, RefundsTypeOK
  <2>3. /\ req' = [req EXCEPT ![r] = [op |-> "refund.call", id |-> Len(refunds) + 1]]
        /\ returning' = returning /\ escrow' = escrow /\ handRefund' = handRefund
    BY <1>3 DEF RefundInsert
  <2>4. \A k : Returned(k) => Returned(k)'
    BY <2>1, <2>2, <2>3 DEF Returned
  <2>5. \A q \in Requests : At(q, "refund.call") => req[q].id # Len(refunds) + 1
    BY <2>1 DEF ReturnsFollowed
  <2>6. returning[Len(refunds) + 1] = "none"
    BY <2>1 DEF ReturnsFollowed
  <2> QED
    BY <2>1, <2>2, <2>3, <2>4, <2>5, <2>6
    DEF EndsTyped, MoneyTyped, ReturnsFollowed, RefundIds
<1>4. CASE RefundAccepted(r) \/ RefundNotOk(r)
  <2>1. /\ At(r, "refund.call") /\ UNCHANGED <<escrow, handRefund, refunds>>
        /\ returning' \in {returning, [returning EXCEPT ![req[r].id] = "accepted"]}
        /\ \A q \in Requests : q # r => req'[q] = req[q]
        /\ req'[r].op \in {"refund.queued", "refund.refused"}
    BY <1>4 DEF RefundAccepted, RefundNotOk, EndsTyped, MoneyTyped
  <2>2. \A k \in RefundIds : k # req[r].id => returning'[k] = returning[k]
    BY <2>1 DEF EndsTyped, RefundsTypeOK
  <2>3. returning[req[r].id] = "none" /\ req[r].id \in 1 .. Len(refunds)
    BY <2>1 DEF ReturnsFollowed
  <2>4. Len(refunds) \in Nat /\ 1 .. Len(refunds) \subseteq RefundIds
    BY MaxRefundsAssumption DEF EndsTyped, RefundsTypeOK, RefundIds
  <2>5. \A k : Returned(k) => Returned(k)'
    BY <2>1, <2>2, <2>3, <2>4 DEF Returned
  <2> HIDE DEF At, RefundIds
  <2> QED
    BY <2>1, <2>2, <2>3, <2>4, <2>5 DEF ReturnsFollowed, At
<1>5. CASE RefundRefused(r) \/ RefundReconcileFailed(r)
  <2>1. PICK from \in {"pending", "queued"} : AdvanceRefund(req[r].id, from, "failed")
    BY <1>5 DEF RefundRefused, RefundReconcileFailed
  <2>2. /\ req' = [req EXCEPT ![r] = Idle] /\ UNCHANGED <<escrow, money, returning>>
        /\ Idle.op \notin RefundOps
    BY <1>5 DEF RefundRefused, RefundReconcileFailed, Idle, RefundOps, AskOps
  <2>3. refunds \in Seq(RefundRows)
    BY DEF EndsTyped, RefundsTypeOK
  <2>4. "failed" \in PayoutStatuses /\ from # "success"
    BY DEF PayoutStatuses
  <2>5. /\ Len(refunds') = Len(refunds)
        /\ \A k \in 1 .. Len(refunds) : refunds[k].status # from => refunds'[k] = refunds[k]
    BY <2>1, <2>3, <2>4, AdvanceRefundType
  <2>6. \A k \in 1 .. Len(refunds) : Returned(k) => refunds'[k] = refunds[k]
    BY <2>4, <2>5 DEF Returned
  <2> QED BY <2>2, <2>5, <2>6, WriteReturns
<1>6. CASE RefundQueued(r)
  <2>1. req[r].known \in BOOLEAN /\ refunds \in Seq(RefundRows)
    BY <1>6 DEF RefundQueued, EndsTyped, RefundsTypeOK, Carries, RefundOps, RefundRequests
  <2>2. /\ req' = [req EXCEPT ![r] = Idle] /\ UNCHANGED <<escrow, money, returning>>
        /\ Idle.op \notin RefundOps
    BY <1>6 DEF RefundQueued, Idle, RefundOps, AskOps
  <2>3. /\ Len(refunds') = Len(refunds)
        /\ \A k \in 1 .. Len(refunds) :
             refunds[k].status # "pending" => refunds'[k] = refunds[k]
    <3> PICK i \in {req[r].id}, known \in BOOLEAN : known = req[r].known
      BY <2>1
    <3>1. refunds' = [refunds EXCEPT ![i] =
                        IF @.status = "pending"
                          THEN [@ EXCEPT !.status = "queued", !.known = known]
                          ELSE @]
      BY <1>6 DEF RefundQueued
    <3> QED BY <2>1, <3>1, QueuedType
  <2>4. \A k \in 1 .. Len(refunds) : Returned(k) => refunds'[k] = refunds[k]
    BY <2>3 DEF Returned
  <2> QED BY <2>2, <2>3, <2>4, WriteReturns
<1>7. ASSUME NEW i \in RefundIds, RefundReconcileRead(r, i) PROVE ReturnsFollowed'
  BY <1>7, QuietReturns DEF RefundReconcileRead
<1>8. CASE RefundReconcileAnswer(r)
  BY <1>8, QuietReturns DEF RefundReconcileAnswer, Idle, ReturnsFollowed
<1>9. CASE RefundClaim(r)
  <2> PICK i \in RefundIds : i = req[r].id
    BY <1>9, RefundIdType DEF RefundClaim, RefundOps, AskOps
  <2>1. i \in 1 .. Len(refunds) /\ returning[i] = "paid" /\ refunds[i] \in RefundRows
    BY <1>9 DEF RefundClaim, ReturnsFollowed, EndsTyped, RefundsTypeOK
  <2>2. /\ refunds \in Seq(RefundRows) /\ "success" \in PayoutStatuses
        /\ AdvanceRefund(i, "queued", "success") /\ returning' = returning
    BY <1>9 DEF RefundClaim, EndsTyped, RefundsTypeOK, PayoutStatuses
  <2>3. /\ Len(refunds') = Len(refunds)
        /\ \A k \in 1 .. Len(refunds) :
             refunds[k].status # "queued" => refunds'[k] = refunds[k]
        /\ refunds[i].status = "queued" => refunds'[i] = [refunds[i] EXCEPT !.status = "success"]
    <3>1. /\ Len(refunds') = Len(refunds)
          /\ \A k \in 1 .. Len(refunds) :
               refunds'[k] = IF k = i /\ refunds[k].status = "queued"
                               THEN [refunds[k] EXCEPT !.status = "success"]
                               ELSE refunds[k]
      BY <2>2, AdvanceRefundType
    <3> QED BY <2>1, <3>1
  <2>4. \A k \in 1 .. Len(refunds) : Returned(k) => refunds'[k] = refunds[k]
    BY <2>3 DEF Returned
  <2>5. CASE Done(r)
    <3>1. /\ req' = [req EXCEPT ![r] = Idle] /\ UNCHANGED <<escrow, money, returning>>
          /\ Idle.op \notin RefundOps
      BY <1>9, <2>5 DEF RefundClaim, Idle, RefundOps, AskOps
    <3> QED BY <2>3, <2>4, <3>1, WriteReturns
  <2>6. CASE /\ refunds[i].status = "queued" /\ refunds[i].whole
             /\ Goto(r, [op |-> "refund.mark", id |-> i])
    <3>1. Returned(i)'
      BY <2>1, <2>2, <2>3, <2>6 DEF Returned, RefundRows
    <3> PICK mark : mark = [op |-> "refund.mark", id |-> i]
      OBVIOUS
    <3>2. /\ req' = [req EXCEPT ![r] = mark] /\ UNCHANGED <<escrow, money, returning>>
          /\ mark.op = "refund.mark" /\ mark.id = i
      BY <1>9, <2>6 DEF RefundClaim
    <3>3. Returned(mark.id)'
      BY <3>1, <3>2
    <3> QED BY <2>3, <2>4, <3>2, <3>3, WriteReturns
  <2> QED BY <1>9, <2>5, <2>6 DEF RefundClaim
<1>10. CASE RefundMark(r)
  <2>1. Returned(req[r].id) /\ req[r].id \in RefundIds
    BY <1>10, RefundIdType DEF RefundMark, ReturnsFollowed, RefundOps, AskOps
  <2>2. /\ UNCHANGED <<refunds, returning, handRefund>>
        /\ req' = [req EXCEPT ![r] = Idle]
    BY <1>10 DEF RefundMark, refundVars
  <2> QED
    BY <2>1, <2>2 DEF EndsTyped, MoneyTyped, ReturnsFollowed, Returned, Idle
<1> QED
  BY <1>1, <1>2, <1>3, <1>4, <1>5, <1>6, <1>7, <1>8, <1>9, <1>10 DEF RefundStep

(* No handler of the deposit forgets a return made by hand, or marks the   *)
(* booking refunded without one.                                           *)
LEMMA HandReturns ==
  ASSUME NEW r \in Requests, EscrowStep(r)
  PROVE  /\ handRefund' \in {handRefund, TRUE}
         /\ escrow' = "refunded" => escrow = "refunded" \/ handRefund' = TRUE
<1> USE DEF row, money, history
<1>1. CASE StartStep(r)
  BY <1>1 DEF StartStep, PayDeposit, StartInsert, Initialized, NotInitialized,
              StartRefused, StartPending
<1>2. CASE SettleStep(r)
  BY <1>2 DEF SettleStep, SettleRead, VerifyUndecided, VerifyAnswer, SettleFail,
              SettleReopen, SettleMismatch, SettleClaim, SettleHold
<1>3. CASE OperatorStep(r) \/ CompleteStep(r) \/ Dropped(r)
  BY <1>3 DEF OperatorStep, CompleteStep, FundRead, FundWrite, RecordRefundRead,
              RecordRefundWrite, CompleteRead, CompleteWrite, Dropped, Die
<1> QED BY <1>1, <1>2, <1>3 DEF EscrowStep

LEMMA StepReturns ==
  ASSUME EndsTyped, ReturnsFollowed, [CancellationNext]_cancellationVars
  PROVE  ReturnsFollowed'
<1>1. ASSUME NEW r \in Requests, EscrowStep(r), UNCHANGED <<refundVars, cancelVars>>
      PROVE  ReturnsFollowed'
  <2>1. Slot(r, EscrowRequests)
    BY <1>1, EscrowEnds
  <2>2. req'[r].op \notin RefundOps /\ req' = [req EXCEPT ![r] = req'[r]]
    BY <2>1 DEF Slot, EscrowRequests, Idle, RefundOps, AskOps
  <2>3. /\ escrow' = "refunded" => escrow = "refunded" \/ handRefund'
        /\ handRefund => handRefund'
    BY <1>1, HandReturns
  <2> QED BY <1>1, <2>2, <2>3, QuietReturns DEF RefundOps, AskOps
<1>2. ASSUME NEW r \in Requests, CancelStep(r) PROVE ReturnsFollowed'
  <2>1. Slot(r, CancelRequests \cup RefundRequests)
    BY <1>2, CancelType
  <2>2. /\ UNCHANGED <<money, refundVars>> /\ escrow' = escrow
        /\ req'[r].op \in RefundOps => req'[r].op = "refund.count"
    BY <1>2, CancelShape
  <2>3. req' = [req EXCEPT ![r] = req'[r]]
    BY <2>1 DEF Slot
  <2> QED
    BY <2>2, <2>3, QuietReturns DEF refundVars, RefundOps, AskOps, money, history
<1>3. ASSUME NEW i \in Checkouts, PayerActs(i), UNCHANGED <<refundVars, cancelVars>>
      PROVE  ReturnsFollowed'
  BY <1>3 DEF PayerActs, ReturnsFollowed, Returned, At, row, history, refundVars
<1>4. ASSUME NEW i \in RefundIds, ReturnMoves(i) PROVE ReturnsFollowed'
  <2>1. /\ \A k \in RefundIds : returning'[k] # returning[k] => returning[k] = "accepted"
        /\ UNCHANGED <<row, req, money, refunds>>
    BY <1>4 DEF ReturnMoves, EndsTyped, RefundsTypeOK
  <2>2. Len(refunds) \in Nat /\ 1 .. Len(refunds) \subseteq RefundIds
    BY MaxRefundsAssumption DEF EndsTyped, RefundsTypeOK, RefundIds
  <2>3. \A k : Returned(k) => Returned(k)'
    BY <2>1, <2>2 DEF Returned
  <2> HIDE DEF RefundIds
  <2> QED
    BY <2>1, <2>2, <2>3, Zenon DEF ReturnsFollowed, At, row, money, history
<1>5. CASE DealAdvances
  BY <1>5 DEF DealAdvances, MovesTo, ReturnsFollowed, Returned, At, money, history, refundVars
<1>6. CASE UNCHANGED cancellationVars
  BY <1>6 DEF cancellationVars, ReturnsFollowed, Returned, At, row, money, history, refundVars
<1> QED BY <1>1, <1>2, <1>3, <1>4, <1>5, <1>6, RefundReturns DEF CancellationNext

(* The booking of a deal that was called off reads refunded only when a    *)
(* whole refund arrived, or an operator recorded one made by hand.         *)
THEOREM RefundedBacked == CancellationSpec => []RefundedIsBacked
<1>1. CancellationInit => ReturnsFollowed
  BY DEF CancellationInit, EscrowInit, RefundsInit, ReturnsFollowed, Idle, At
<1>2. ReturnsFollowed => RefundedIsBacked
  BY DEF ReturnsFollowed, RefundedIsBacked, Returned
<1>3. Ending => EndsTyped
  BY DEF Ending
<1> QED BY <1>1, <1>2, <1>3, StepReturns, EndingCorrect, PTL DEF CancellationSpec

-------------------------------------------------------------------------------
(* Cancellation: two presses from two people *)

(* The side a deal waits on did ask, and whoever is about to agree read    *)
(* that the other one had.                                                 *)
Consent ==
  /\ cancelSide # Nobody => cancelSide \in asked
  /\ \A r \in Requests : At(r, "cancel.agree") => asked \ {req[r].side} # {}

LEMMA CancelConsent ==
  ASSUME EndsTyped, Consent, NEW r \in Requests, CancelStep(r)
  PROVE  Consent'
<1> USE DEF EndsTyped, MoneyTyped, Consent, At, Begin, Goto, Done, Idle, row, cancelVars,
            SendRefund
<1>1. ASSUME NEW side \in Parties, RequestCancelRead(r, side) PROVE Consent'
  BY <1>1 DEF RequestCancelRead
<1>2. CASE RequestCancelWrite(r)  BY <1>2 DEF RequestCancelWrite
<1>3. ASSUME NEW side \in Sides, AnswerCancelRead(r, side) PROVE Consent'
  BY <1>3 DEF AnswerCancelRead, MayAnswer
<1>4. CASE RefuseWrite(r)  BY <1>4 DEF RefuseWrite
<1>5. CASE AgreeWrite(r)  BY <1>5 DEF AgreeWrite
<1>6. CASE OperatorCancelRead(r)  BY <1>6 DEF OperatorCancelRead
<1>7. CASE OperatorCancelWrite(r)  BY <1>7 DEF OperatorCancelWrite
<1> QED BY <1>1, <1>2, <1>3, <1>4, <1>5, <1>6, <1>7 DEF CancelStep

LEMMA StepConsent ==
  ASSUME EndsTyped, Consent, [CancellationNext]_cancellationVars
  PROVE  Consent'
<1> USE DEF Consent, At, cancelVars
<1>1. ASSUME NEW r \in Requests, EscrowStep(r), UNCHANGED <<refundVars, cancelVars>>
      PROVE  Consent'
  BY <1>1, EscrowEnds DEF EndsTyped, MoneyTyped, Slot, EscrowRequests, Idle
<1>2. ASSUME NEW r \in Requests, RefundStep(r), UNCHANGED cancelVars PROVE Consent'
  BY <1>2, RefundType DEF EndsTyped, MoneyTyped, Slot, RefundRequests, Idle
<1>3. ASSUME NEW i \in Checkouts, PayerActs(i), UNCHANGED <<refundVars, cancelVars>>
      PROVE  Consent'
  BY <1>3 DEF PayerActs
<1>4. ASSUME NEW i \in RefundIds, ReturnMoves(i), UNCHANGED cancelVars PROVE Consent'
  BY <1>4 DEF ReturnMoves
<1>5. CASE DealAdvances  BY <1>5 DEF DealAdvances, MovesTo
<1>6. CASE UNCHANGED cancellationVars  BY <1>6 DEF cancellationVars
<1> QED BY <1>1, <1>2, <1>3, <1>4, <1>5, <1>6, CancelConsent DEF CancellationNext

(* No party ends the deal alone: when an agreement cancels it, somebody    *)
(* else did ask, even if that request was refused or asked again since.    *)
THEOREM BothAgreed == CancellationSpec => AgreedByBoth
<1> DEFINE Agreed ==
      \A r \in Requests :
        At(r, "cancel.agree") /\ status # "cancelled" /\ status' = "cancelled"
          /\ req'[r] # req[r]
        => asked \ {req[r].side} # {}
<1>1. CancellationInit => Consent
  BY DEF CancellationInit, EscrowInit, Consent, At, Idle
<1>2. Consent => Agreed
  BY DEF Consent
<1>3. Ending => EndsTyped
  BY DEF Ending
<1> QED
  BY <1>1, <1>2, <1>3, StepConsent, EndingCorrect, PTL DEF CancellationSpec, AgreedByBoth

-------------------------------------------------------------------------------
(* Disputes: types *)

DeskTyped ==
  /\ EndsTyped
  /\ cases \in Seq(CaseRows) /\ Len(cases) <= MaxCases
  /\ auditFrom \in Statuses \cup {NoState}
  /\ frozenAt \in Statuses \cup {NoState}
  /\ \A r \in Requests : req[r].op \in CaseOps => req[r] \in DisputeRequests

LEMMA CloseType ==
  ASSUME cases \in Seq(CaseRows), NEW d, NEW as \in {"resolved", "withdrawn"},
         CloseCase(d, as)
  PROVE  cases' \in Seq(CaseRows) /\ Len(cases') = Len(cases)
<1> DEFINE n == Len(cases)
           new(k) == [cases[k] EXCEPT !.status = IF @ = "open" THEN as ELSE @]
<1>1. cases \in [1 .. n -> CaseRows] /\ n \in Nat
  OBVIOUS
<1>2. \A k \in 1 .. n : new(k) \in CaseRows
  BY <1>1 DEF CaseRows
<1>3. cases' \in [1 .. n -> CaseRows]
  BY <1>1, <1>2 DEF CloseCase
<1> QED BY <1>1, <1>3

LEMMA AnswerType ==
  ASSUME cases \in Seq(CaseRows), NEW d, NEW r \in Requests,
         cases' = [cases EXCEPT ![d].answer = r]
  PROVE  cases' \in Seq(CaseRows) /\ Len(cases') = Len(cases)
<1> DEFINE n == Len(cases)
<1>1. cases \in [1 .. n -> CaseRows] /\ n \in Nat
  OBVIOUS
<1>2. \A k \in 1 .. n : [cases[k] EXCEPT !.answer = r] \in CaseRows
  BY <1>1 DEF CaseRows
<1>3. cases' \in [1 .. n -> CaseRows]
  BY <1>1, <1>2
<1> QED BY <1>1, <1>3

(* What a request of the desk carries. *)
LEMMA CaseCarried ==
  ASSUME DeskTyped, NEW r \in Requests
  PROVE  /\ req[r].op \in {"raise.check", "raise.insert", "raise.freeze", "raise.audit"} =>
              req[r] \in [op : {"raise.check", "raise.insert", "raise.freeze", "raise.audit"},
                          side : Parties, seen : Statuses]
         /\ req[r].op \in {"respond.write", "withdraw.find", "resolve.booking"} =>
              req[r].id \in CaseIds
         /\ req[r].op \in {"withdraw.close", "withdraw.resume"} =>
              req[r] \in [op : {"withdraw.close", "withdraw.resume"}, id : CaseIds, to : Statuses]
         /\ At(r, "resolve.write") =>
              req[r] \in [op : {"resolve.write"}, id : CaseIds, resolution : Resolutions,
                          escrow : EscrowStates]
         /\ At(r, "resolve.close") =>
              req[r].id \in CaseIds /\ req[r].resolution \in Resolutions
<1>1. req[r].op \in CaseOps => req[r] \in DisputeRequests
  BY DEF DeskTyped
<1> QED BY <1>1 DEF DisputeRequests, CaseOps, At

LEMMA CaseType ==
  ASSUME DeskTyped, NEW r \in Requests, CaseStep(r)
  PROVE  DeskTyped' /\ Slot(r, DisputeRequests \cup RefundRequests)
<1> DEFINE Keeps ==
             /\ Slot(r, DisputeRequests \cup RefundRequests) /\ UNCHANGED otherVars
             /\ status' \in Statuses /\ escrow' \in EscrowStates
             /\ cases' \in Seq(CaseRows) /\ Len(cases') <= MaxCases
             /\ auditFrom' \in Statuses \cup {NoState}
             /\ frozenAt' \in Statuses \cup {NoState}
<1>1. /\ req = [q \in Requests |-> req[q]]
      /\ status \in Statuses /\ escrow \in EscrowStates
      /\ cases \in Seq(CaseRows) /\ Len(cases) <= MaxCases /\ Len(cases) \in Nat
      /\ auditFrom \in Statuses \cup {NoState}
      /\ frozenAt \in Statuses \cup {NoState}
  BY DEF DeskTyped, EndsTyped, MoneyTyped
<1>2. Keeps
  <2> USE <1>1, CaseCarried
      DEF Slot, DisputeRequests, RefundRequests, At, Begin, Goto, Done, row, caseVars
  <2>1. ASSUME NEW side \in Parties, RaiseRead(r, side) PROVE Keeps
    BY <2>1 DEF RaiseRead
  <2>2. CASE RaiseCheck(r)  BY <2>2 DEF RaiseCheck
  <2>3. CASE RaiseInsert(r)
    <3> DEFINE e == [status |-> "open", side |-> req[r].side, answer |-> NoRequest]
    <3>1. e \in CaseRows
      BY <2>3 DEF RaiseInsert, CaseRows
    <3>2. cases' = Append(cases, e)
      BY <2>3 DEF RaiseInsert
    <3> HIDE DEF e
    <3>3. cases' \in Seq(CaseRows) /\ Len(cases') = Len(cases) + 1
      BY <3>1, <3>2
    <3> QED BY <2>3, <3>3, MaxCasesAssumption DEF RaiseInsert
  <2>4. CASE RaiseFreeze(r)  BY <2>4 DEF RaiseFreeze, Statuses
  <2>5. CASE RaiseAudit(r)  BY <2>5 DEF RaiseAudit
  <2>6. ASSUME NEW side \in Parties, NEW d \in CaseIds,
               RespondRead(r, side, d) \/ WithdrawRead(r, side, d)
        PROVE  Keeps
    BY <2>6 DEF RespondRead, WithdrawRead
  <2>7. CASE RespondWrite(r)  BY <2>7, AnswerType DEF RespondWrite
  <2>8. CASE WithdrawFind(r)
    BY <2>8 DEF WithdrawFind, StatusBeforeDispute, Statuses
  <2>9. CASE WithdrawClose(r)  BY <2>9, CloseType DEF WithdrawClose
  <2>10. CASE WithdrawResume(r)  BY <2>10 DEF WithdrawResume
  <2>11. ASSUME NEW d \in CaseIds, ResolveRead(r, d) PROVE Keeps
    BY <2>11 DEF ResolveRead
  <2>12. CASE ResolveBooking(r)  BY <2>12 DEF ResolveBooking
  <2>13. CASE ResolveWrite(r)
    <3>1. ResolutionOutcome(req[r].resolution).status \in Statuses
      BY DEF ResolutionOutcome, Statuses
    <3>2. EscrowAfter(req[r].resolution, req[r].escrow) \in EscrowStates
      BY <2>13 DEF ResolveWrite, EscrowAfter, EscrowStates
    <3> QED BY <2>13, <3>1, <3>2 DEF ResolveWrite
  <2>14. CASE ResolveClose(r)
    <3>1. cases' \in Seq(CaseRows) /\ Len(cases') = Len(cases)
      BY <2>14, CloseType DEF ResolveClose
    <3>2. CASE Done(r)
      BY <2>14, <3>1, <3>2 DEF ResolveClose
    <3>3. CASE SendRefund(r, req[r].resolution = "refunded")
      BY <2>14, <3>1, <3>3 DEF ResolveClose, SendRefund
    <3> QED BY <2>14, <3>2, <3>3 DEF ResolveClose
  <2> QED
    BY <2>1, <2>2, <2>3, <2>4, <2>5, <2>6, <2>7, <2>8, <2>9, <2>10, <2>11, <2>12, <2>13,
       <2>14 DEF CaseStep
<1>3. \A x \in DisputeRequests \cup RefundRequests :
        x.op \notin RefOps /\ (x.op \in CaseOps => x \in DisputeRequests) /\ Carries(x)
  BY DEF DisputeRequests, RefundRequests, RefOps, CaseOps, Carries, RefundOps, AskOps,
         CancelOps
<1>4. MoneyTyped'
  BY <1>2, <1>3, AsideTyped DEF DeskTyped, EndsTyped, otherVars
<1>5. Carries(req'[r]) /\ (req'[r].op \in CaseOps => req'[r] \in DisputeRequests)
  BY <1>2, <1>3, KindsCarry DEF Slot, Idle, CaseOps
<1>6. EndsTyped'
  BY <1>2, <1>4, <1>5, SlotEnds
  DEF DeskTyped, EndsTyped, RefundsTypeOK, otherVars, refundVars, cancelVars
<1>7. \A q \in Requests : req'[q].op \in CaseOps => req'[q] \in DisputeRequests
  BY <1>2, <1>5 DEF DeskTyped, EndsTyped, MoneyTyped, Slot
<1> QED BY <1>2, <1>6, <1>7 DEF DeskTyped

LEMMA CancellationType ==
  ASSUME EndsTyped, [CancellationNext]_cancellationVars
  PROVE  /\ EndsTyped'
         /\ req' = req \/ \E r \in Requests :
              Slot(r, EscrowRequests \cup RefundRequests \cup CancelRequests)
<1> DEFINE kind == EscrowRequests \cup RefundRequests \cup CancelRequests
<1>1. ASSUME NEW r \in Requests, EscrowStep(r), UNCHANGED <<refundVars, cancelVars>>
      PROVE  EndsTyped' /\ Slot(r, kind)
  BY <1>1, EscrowEnds DEF Slot
<1>2. ASSUME NEW r \in Requests, RefundStep(r), UNCHANGED cancelVars
      PROVE  EndsTyped' /\ Slot(r, kind)
  BY <1>2, RefundType DEF Slot
<1>3. ASSUME NEW r \in Requests, CancelStep(r)
      PROVE  EndsTyped' /\ Slot(r, kind)
  BY <1>3, CancelType DEF Slot
<1> HIDE DEF kind
<1>4. ASSUME NEW i \in Checkouts, PayerActs(i), UNCHANGED <<refundVars, cancelVars>>
      PROVE  EndsTyped' /\ req' = req
  BY <1>4, PayerEnds DEF PayerActs
<1>5. ASSUME NEW i \in RefundIds, ReturnMoves(i), UNCHANGED cancelVars
      PROVE  EndsTyped' /\ req' = req
  BY <1>5, ReturnEnds DEF ReturnMoves
<1>6. CASE DealAdvances
  BY <1>6, AdvanceEnds DEF DealAdvances, MovesTo
<1>7. CASE UNCHANGED cancellationVars
  BY <1>7, StillEnds DEF cancellationVars
<1> QED BY <1>1, <1>2, <1>3, <1>4, <1>5, <1>6, <1>7 DEF CancellationNext, kind

LEMMA DealKeepsDesk ==
  ASSUME DeskTyped, [CancellationNext]_cancellationVars, UNCHANGED caseVars
  PROVE  DeskTyped'
<1>1. \A x \in EscrowRequests \cup RefundRequests \cup CancelRequests : x.op \notin CaseOps
  BY DEF EscrowRequests, RefundRequests, CancelRequests, CaseOps
<1>2. EndsTyped' /\ (\A q \in Requests : req'[q] = req[q] \/ req'[q].op \notin CaseOps)
  BY <1>1, CancellationType DEF DeskTyped, EndsTyped, MoneyTyped, Slot, Idle, CaseOps
<1> QED BY <1>2 DEF DeskTyped, caseVars

LEMMA InitDesk == DisputesInit => DeskTyped /\ DisputesTypeOK
<1> SUFFICES ASSUME DisputesInit PROVE DeskTyped /\ DisputesTypeOK
  OBVIOUS
<1>1. EndsTyped
  BY InitEnds DEF DisputesInit
<1>2. cases \in Seq(CaseRows) /\ Len(cases) = 0
  BY DEF DisputesInit
<1>3. req = [r \in Requests |-> Idle]
  BY DEF DisputesInit, CancellationInit, EscrowInit
<1> QED
  BY <1>1, <1>2, <1>3, MaxCasesAssumption
  DEF DisputesInit, DeskTyped, DisputesTypeOK, EndsTyped, MoneyTyped, Idle, CaseOps

LEMMA StepDesk ==
  ASSUME DeskTyped, DisputesTypeOK, [DisputesNext]_disputeVars
  PROVE  (DeskTyped /\ DisputesTypeOK)'
<1> DEFINE deal == EscrowRequests \cup RefundRequests \cup CancelRequests
           desk == DisputeRequests \cup RefundRequests
           All == [Requests -> {Idle} \cup EscrowRequests \cup RefundRequests
                                \cup CancelRequests \cup DisputeRequests]
<1>1. ASSUME [CancellationNext]_cancellationVars, UNCHANGED caseVars
      PROVE  DeskTyped' /\ req' \in All
  <2>1. req' = req \/ \E r \in Requests : Slot(r, deal)
    BY <1>1, CancellationType DEF DeskTyped
  <2> QED BY <1>1, <2>1, DealKeepsDesk DEF DisputesTypeOK, Slot
<1>2. ASSUME NEW r \in Requests, CaseStep(r)
      PROVE  DeskTyped' /\ req' \in All
  <2>1. DeskTyped' /\ Slot(r, desk)
    BY <1>2, CaseType
  <2> QED BY <2>1 DEF DisputesTypeOK, Slot
<1>3. UNCHANGED disputeVars => [CancellationNext]_cancellationVars /\ UNCHANGED caseVars
  BY DEF disputeVars, cancellationVars
<1>4. DeskTyped' /\ req' \in All
  BY <1>1, <1>2, <1>3 DEF DisputesNext
<1> QED BY <1>4 DEF DeskTyped, EndsTyped, MoneyTyped, DisputesTypeOK

LEMMA DeskCorrect == DisputesSpec => [](DeskTyped /\ DisputesTypeOK)
<1>1. DeskTyped /\ DisputesTypeOK /\ [DisputesNext]_disputeVars => (DeskTyped /\ DisputesTypeOK)'
  BY StepDesk
<1> QED BY <1>1, InitDesk, PTL DEF DisputesSpec

(* Every variable of Disputes, of Cancellation and of Refunds keeps its    *)
(* type, for any requests, checkouts, cases and bounds.                    *)
THEOREM DisputesTypeCorrect == DisputesSpec => []DisputesTypeOK
BY DeskCorrect, PTL

-------------------------------------------------------------------------------
(* Disputes: the case, the state and the funds of a frozen deal *)

LEMMA EscrowOp ==
  ASSUME ~MayDie, MoneyTyped, NEW r \in Requests, EscrowStep(r)
  PROVE  req[r].op \in MoneyOps \cup {"idle"}
<1> USE DEF At, Begin, Idle, MoneyOps, RefOps
<1>1. CASE StartStep(r)
  BY <1>1 DEF StartStep, PayDeposit, StartInsert, Initialized, NotInitialized,
              StartRefused, StartPending
<1>2. CASE SettleStep(r)
  BY <1>2 DEF SettleStep, SettleRead, VerifyUndecided, VerifyAnswer, SettleFail,
              SettleReopen, SettleMismatch, SettleClaim, SettleHold
<1>3. CASE OperatorStep(r) \/ CompleteStep(r) \/ Dropped(r)
  BY <1>3 DEF OperatorStep, CompleteStep, FundRead, FundWrite, RecordRefundRead,
              RecordRefundWrite, CompleteRead, CompleteWrite, Dropped, Die
<1> QED BY <1>1, <1>2, <1>3 DEF EscrowStep

LEMMA RefundRow ==
  ASSUME NEW r \in Requests, RefundStep(r)
  PROVE  /\ req[r].op \in RefundOps \cup {"idle"}
         /\ UNCHANGED money /\ status' = status /\ (escrow' = escrow \/ escrow' = "refunded")
BY DEF RefundStep, RefundCount, RefundDeposit, RefundInsert, RefundAccepted,
       RefundNotOk, RefundRefused, RefundQueued, RefundReconcileRead,
       RefundReconcileAnswer, RefundReconcileFailed, RefundClaim, RefundMark,
       At, Begin, Idle, row, RefundOps, AskOps

CanFreeze(s) == s \in Statuses /\ CanTransition(s, "disputed")

LEMMA Freezable ==
  /\ Disputable => CanFreeze(status)
  /\ CanFreeze("booked")
  /\ ~CanFreeze("disputed")
BY DEF Disputable, DisputableStatuses, CanFreeze, CanTransition, Transitions, Statuses

(* What a withdrawal finds in the log is a state a deal freezes from; it   *)
(* is the state the newest entry names, when that is one.                  *)
LEMMA FoundState ==
  ASSUME DeskTyped
  PROVE  /\ CanFreeze(StatusBeforeDispute)
         /\ CanFreeze(auditFrom) => StatusBeforeDispute = auditFrom
<1>1. auditFrom \in Statuses \cup {NoState} /\ NoState \notin Statuses
  BY DEF DeskTyped, NoState, Statuses
<1> QED BY <1>1, Freezable DEF StatusBeforeDispute, CanFreeze

(* While a request works on the cases, no other does.                      *)
LEMMA OthersAway ==
  ASSUME DeskTyped, CasesInTurn, CasesInTurn', NEW r \in Requests, CaseStep(r)
  PROVE  \A q \in Requests : q # r => req'[q] = req[q] /\ req[q].op \notin CaseOps
<1>1. Slot(r, DisputeRequests \cup RefundRequests) /\ MoneyTyped
  BY CaseType DEF DeskTyped, EndsTyped
<1>2. \A q \in Requests : q # r => req'[q] = req[q]
  BY <1>1 DEF Slot, MoneyTyped
<1>3. req[r].op \in CaseOps \/ req'[r].op \in CaseOps
  BY <1>1
  DEF CaseStep, CaseOps, MoneyTyped, At, Begin, Goto, RaiseRead, RaiseCheck, RaiseInsert,
      RaiseFreeze, RaiseAudit, RespondRead, RespondWrite, WithdrawRead, WithdrawFind,
      WithdrawClose, WithdrawResume, ResolveRead, ResolveBooking, ResolveWrite, ResolveClose
<1> QED BY <1>2, <1>3 DEF CasesInTurn

(* A frozen deal has its open case, or the request that withdrew it is     *)
(* about to resume the deal, to a state that is not frozen; a case is open *)
(* when it freezes the deal, and a decision has ended the deal when it     *)
(* closes the case.                                                        *)
Kept ==
  /\ status = "disputed" => OpenCases # {} \/ \E r \in Requests : At(r, "withdraw.resume")
  /\ \A r \in Requests :
       /\ At(r, "raise.freeze") => OpenCases # {}
       /\ req[r].op \in {"withdraw.close", "withdraw.resume"} => req[r].to # "disputed"
       /\ At(r, "resolve.close") => status # "disputed"

(* What a frozen deal resumes to: the newest audit entry names the state   *)
(* it was frozen from, unless its raise has still to write that entry; a   *)
(* withdrawal carries that state to the row.                               *)
Resumable ==
  /\ status = "disputed" =>
       \/ \E r \in Requests : At(r, "raise.audit")
       \/ auditFrom = frozenAt /\ CanFreeze(frozenAt)
  /\ \A r \in Requests :
       /\ req[r].op \in {"raise.check", "raise.insert", "raise.freeze"} =>
            req[r].seen = status /\ CanFreeze(status)
       /\ At(r, "raise.audit") => frozenAt = req[r].seen /\ CanFreeze(frozenAt)
       /\ req[r].op \in {"withdraw.close", "withdraw.resume"} =>
            CanFreeze(req[r].to) /\ (status = "disputed" => req[r].to = frozenAt)

LEMMA CaseKept ==
  ASSUME DeskTyped, CasesInTurn, CasesInTurn', Kept, NEW r \in Requests, CaseStep(r)
  PROVE  Kept'
<1>1. /\ req = [q \in Requests |-> req[q]]
      /\ \A q \in Requests : q # r => req'[q] = req[q] /\ req[q].op \notin CaseOps
      /\ cases \in Seq(CaseRows)
  BY OthersAway DEF DeskTyped, EndsTyped, MoneyTyped
<1>2. UNCHANGED cases => OpenCases' = OpenCases
  BY DEF OpenCases
<1> USE <1>1, <1>2, Freezable
    DEF Kept, CaseOps, At, Begin, Goto, Done, Idle, row, caseVars
<1>3. CASE \E side \in Parties : RaiseRead(r, side)  BY <1>3 DEF RaiseRead
<1>4. CASE RaiseCheck(r)  BY <1>4, CaseCarried DEF RaiseCheck
<1>5. CASE RaiseInsert(r)
  <2>1. /\ Len(cases') = Len(cases) + 1 /\ cases'[Len(cases) + 1].status = "open"
        /\ Len(cases) \in Nat
    BY <1>5 DEF RaiseInsert
  <2>2. OpenCases' # {}
    BY <2>1 DEF OpenCases
  <2> QED BY <1>5, <2>2, CaseCarried DEF RaiseInsert
<1>6. CASE RaiseFreeze(r)  BY <1>6, CaseCarried DEF RaiseFreeze
<1>7. CASE RaiseAudit(r)  BY <1>7 DEF RaiseAudit
<1>8. CASE \E side \in Parties, d \in CaseIds :
             RespondRead(r, side, d) \/ WithdrawRead(r, side, d)
  BY <1>8 DEF RespondRead, WithdrawRead
<1>9. CASE RespondWrite(r)
  <2>1. OpenCases' = OpenCases
    BY <1>9, AnswerType DEF RespondWrite, OpenCases, CaseRows
  <2> QED BY <1>9, <2>1 DEF RespondWrite
<1>10. CASE WithdrawFind(r)
  <2> DEFINE s == StatusBeforeDispute
  <2>1. s # "disputed"
    BY FoundState
  <2>2. /\ req' = [req EXCEPT ![r] = [op |-> "withdraw.close", id |-> req[r].id, to |-> s]]
        /\ At(r, "withdraw.find") /\ UNCHANGED <<status, cases>>
    BY <1>10 DEF WithdrawFind
  <2> HIDE DEF s
  <2> QED BY <2>1, <2>2
<1>11. CASE WithdrawClose(r)  BY <1>11, CaseCarried DEF WithdrawClose
<1>12. CASE WithdrawResume(r)  BY <1>12 DEF WithdrawResume
<1>13. CASE \E d \in CaseIds : ResolveRead(r, d)  BY <1>13 DEF ResolveRead
<1>14. CASE ResolveBooking(r)  BY <1>14 DEF ResolveBooking
<1>15. CASE ResolveWrite(r)  BY <1>15 DEF ResolveWrite, ResolutionOutcome
<1>16. CASE ResolveClose(r)  BY <1>16 DEF ResolveClose, SendRefund
<1> QED
  BY <1>3, <1>4, <1>5, <1>6, <1>7, <1>8, <1>9, <1>10, <1>11, <1>12, <1>13, <1>14, <1>15,
     <1>16 DEF CaseStep

LEMMA CaseResumable ==
  ASSUME DeskTyped, CasesInTurn, CasesInTurn', Resumable, NEW r \in Requests, CaseStep(r)
  PROVE  Resumable'
<1>1. /\ req = [q \in Requests |-> req[q]] /\ status \in Statuses
      /\ \A q \in Requests : q # r => req'[q] = req[q] /\ req[q].op \notin CaseOps
  BY OthersAway DEF DeskTyped, EndsTyped, MoneyTyped
<1> USE <1>1, Freezable
    DEF Resumable, CaseOps, At, Begin, Goto, Done, Idle, row, caseVars
<1>2. CASE \E side \in Parties : RaiseRead(r, side)  BY <1>2 DEF RaiseRead
<1>3. CASE RaiseCheck(r)  BY <1>3, CaseCarried DEF RaiseCheck
<1>4. CASE RaiseInsert(r)  BY <1>4, CaseCarried DEF RaiseInsert
<1>5. CASE RaiseFreeze(r)  BY <1>5, CaseCarried DEF RaiseFreeze
<1>6. CASE RaiseAudit(r)  BY <1>6 DEF RaiseAudit
<1>7. CASE \E side \in Parties, d \in CaseIds :
             RespondRead(r, side, d) \/ WithdrawRead(r, side, d)
  BY <1>7 DEF RespondRead, WithdrawRead
<1>8. CASE RespondWrite(r)  BY <1>8 DEF RespondWrite
<1>9. CASE WithdrawFind(r)
  <2> DEFINE s == StatusBeforeDispute
  <2>1. CanFreeze(s) /\ (status = "disputed" => s = frozenAt)
    BY <1>9, FoundState DEF WithdrawFind
  <2>2. /\ req' = [req EXCEPT ![r] = [op |-> "withdraw.close", id |-> req[r].id, to |-> s]]
        /\ At(r, "withdraw.find") /\ UNCHANGED <<status, auditFrom, frozenAt>>
    BY <1>9 DEF WithdrawFind
  <2> HIDE DEF s
  <2> QED BY <2>1, <2>2
<1>10. CASE WithdrawClose(r)  BY <1>10, CaseCarried DEF WithdrawClose
<1>11. CASE WithdrawResume(r)  BY <1>11 DEF WithdrawResume
<1>12. CASE \E d \in CaseIds : ResolveRead(r, d)  BY <1>12 DEF ResolveRead
<1>13. CASE ResolveBooking(r)  BY <1>13 DEF ResolveBooking
<1>14. CASE ResolveWrite(r)  BY <1>14 DEF ResolveWrite, ResolutionOutcome
<1>15. CASE ResolveClose(r)  BY <1>15 DEF ResolveClose, SendRefund
<1> QED
  BY <1>2, <1>3, <1>4, <1>5, <1>6, <1>7, <1>8, <1>9, <1>10, <1>11, <1>12, <1>13, <1>14,
     <1>15 DEF CaseStep

(* A request that works on no case freezes nothing and thaws nothing.      *)
Quiet(r) ==
  /\ req[r].op \notin CaseOps /\ req'[r].op \notin CaseOps
  /\ \A q \in Requests : q # r => req'[q] = req[q]
  /\ status' = status \/ status' # "disputed"

LEMMA DealQuiet ==
  ASSUME ~MayDie, EndsTyped, CancellationNext
  PROVE  \/ UNCHANGED <<req, status>>
         \/ req' = req /\ status' # "disputed"
         \/ \E r \in Requests : Quiet(r)
<1> USE DEF EndsTyped, MoneyTyped
<1>1. ASSUME NEW r \in Requests, EscrowStep(r), UNCHANGED <<refundVars, cancelVars>>
      PROVE  Quiet(r)
  <2>1. Slot(r, EscrowRequests) /\ req[r].op \in MoneyOps \cup {"idle"}
    BY <1>1, EscrowEnds, EscrowOp
  <2>2. \A x \in EscrowRequests : x.op \notin CaseOps
    BY DEF EscrowRequests, CaseOps
  <2>3. status' = status \/ status' # "disputed"
    BY <1>1, EscrowMoves
  <2> QED BY <2>1, <2>2, <2>3 DEF Quiet, Slot, Idle, CaseOps, MoneyOps, RefOps
<1>2. ASSUME NEW r \in Requests, RefundStep(r), UNCHANGED cancelVars PROVE Quiet(r)
  <2>1. Slot(r, RefundRequests) /\ req[r].op \in RefundOps \cup {"idle"} /\ status' = status
    BY <1>2, RefundType, RefundRow
  <2>2. \A x \in RefundRequests : x.op \notin CaseOps
    BY DEF RefundRequests, CaseOps
  <2> QED BY <2>1, <2>2 DEF Quiet, Slot, Idle, CaseOps, RefundOps, AskOps
<1>3. ASSUME NEW r \in Requests, CancelStep(r) PROVE Quiet(r)
  <2> DEFINE kind == CancelRequests \cup RefundRequests
  <2>1. /\ Slot(r, kind) /\ req[r].op \in CancelOps \cup {"idle"}
        /\ status' = status \/ status' = "cancelled"
    BY <1>3, CancelType, CancelShape
  <2>2. \A x \in kind : x.op \notin CaseOps
    BY DEF RefundRequests, CancelRequests, CaseOps
  <2> HIDE DEF kind
  <2> QED BY <2>1, <2>2 DEF Quiet, Slot, Idle, CaseOps, CancelOps
<1>4. DealAdvances => req' = req /\ status' # "disputed"
  BY DEF DealAdvances, MovesTo
<1>5. /\ \A i \in Checkouts : PayerActs(i) => UNCHANGED <<req, status>>
      /\ \A i \in RefundIds : ReturnMoves(i) => UNCHANGED <<req, status>>
  BY DEF PayerActs, ReturnMoves, row
<1> QED BY <1>1, <1>2, <1>3, <1>4, <1>5 DEF CancellationNext

LEMMA StepKept ==
  ASSUME ~MayDie, DeskTyped, CasesInTurn, CasesInTurn', Kept, [DisputesNext]_disputeVars
  PROVE  Kept'
<1>1. CASE \E r \in Requests : CaseStep(r)
  BY <1>1, CaseKept
<1>2. UNCHANGED cases => OpenCases' = OpenCases
  BY DEF OpenCases
<1>3. CASE UNCHANGED caseVars /\ UNCHANGED <<req, status>>
  BY <1>2, <1>3 DEF Kept, At, caseVars
<1>4. CASE CancellationNext /\ UNCHANGED caseVars
  <2>1. CASE req' = req /\ status' # "disputed"
    BY <1>2, <1>4, <2>1 DEF Kept, At, caseVars
  <2>2. ASSUME NEW r \in Requests, Quiet(r) PROVE Kept'
    BY <1>2, <1>4, <2>2 DEF Quiet, Kept, At, caseVars, CaseOps
  <2> QED BY <1>3, <1>4, <2>1, <2>2, DealQuiet DEF DeskTyped
<1>5. UNCHANGED disputeVars => UNCHANGED caseVars /\ UNCHANGED <<req, status>>
  BY DEF disputeVars, row
<1> QED BY <1>1, <1>3, <1>4, <1>5 DEF DisputesNext

LEMMA StepResumable ==
  ASSUME ~MayDie, DeskTyped, CasesInTurn, CasesInTurn', Resumable,
         [DisputesNext]_disputeVars, [RaiseUndisturbed]_disputeVars
  PROVE  Resumable'
<1>1. CASE \E r \in Requests : CaseStep(r)
  BY <1>1, CaseResumable
<1>2. CASE UNCHANGED caseVars /\ UNCHANGED <<req, status>>
  BY <1>2 DEF Resumable, At, caseVars
<1>3. CASE CancellationNext /\ UNCHANGED caseVars
  <2>1. CASE req' = req /\ status' # "disputed"
    <3>1. (\E r \in Requests : req[r].op \in {"raise.check", "raise.insert", "raise.freeze"})
            => status' = status
      BY <2>1 DEF RaiseUndisturbed, Waits, disputeVars, row
    <3> QED BY <1>3, <2>1, <3>1 DEF Resumable, At, caseVars
  <2>2. ASSUME NEW r \in Requests, Quiet(r) PROVE Resumable'
    <3>1. \A q \in Requests : req[q].op \in CaseOps \/ req'[q].op \in CaseOps => req'[q] = req[q]
      BY <2>2 DEF Quiet
    <3>2. ASSUME NEW q \in Requests, req'[q].op \in {"raise.check", "raise.insert", "raise.freeze"}
          PROVE  status' = status
      BY <3>1, <3>2 DEF RaiseUndisturbed, Waits, CaseOps, disputeVars, row
    <3>3. /\ \A q \in Requests : At(q, "raise.audit") => At(q, "raise.audit")'
          /\ status' = "disputed" => status = "disputed"
      BY <2>2, <3>1 DEF Quiet, At, CaseOps
    <3> QED BY <1>3, <3>1, <3>2, <3>3 DEF Resumable, At, caseVars, CaseOps
  <2> QED BY <1>2, <1>3, <2>1, <2>2, DealQuiet DEF DeskTyped
<1>4. UNCHANGED disputeVars => UNCHANGED caseVars /\ UNCHANGED <<req, status>>
  BY DEF disputeVars, row
<1> QED BY <1>1, <1>2, <1>3, <1>4 DEF DisputesNext

(* No order of calls leaves a deal disputed with no case to withdraw or to *)
(* decide, so long as one request at a time works on its cases; the money, *)
(* the cancellation and the deal itself move beside it.                    *)
THEOREM FrozenKeepsCase ==
  ASSUME ~MayDie
  PROVE  DisputesSpec /\ []CasesInTurn => []FrozenHasCase
<1>1. DisputesInit => Kept
  BY DEF DisputesInit, CancellationInit, EscrowInit, Kept, At, Idle
<1>2. DeskTyped /\ CasesInTurn /\ CasesInTurn' /\ Kept /\ [DisputesNext]_disputeVars => Kept'
  BY StepKept
<1>3. Kept => FrozenHasCase
  BY DEF Kept, FrozenHasCase, AllIdle, At, Idle
<1> QED BY <1>1, <1>2, <1>3, DeskCorrect, PTL DEF DisputesSpec

(* And a withdrawn case puts the deal back where it really was frozen,     *)
(* whatever was argued, answered, decided and raised again before, if      *)
(* nothing moved the deal while its case was being raised.                 *)
THEOREM ResumesThere ==
  ASSUME ~MayDie
  PROVE  DisputesSpec /\ []CasesInTurn /\ [][RaiseUndisturbed]_disputeVars
           => ResumesWhereItWas
<1> DEFINE Resumes ==
      status = "disputed" /\ (\E r \in Requests : At(r, "withdraw.resume") /\ req'[r] = Idle)
        => status' = frozenAt
<1>1. DisputesInit => Resumable
  BY DEF DisputesInit, CancellationInit, EscrowInit, Resumable, At, Idle
<1>2. DeskTyped /\ CasesInTurn /\ CasesInTurn' /\ Resumable
        /\ [DisputesNext]_disputeVars /\ [RaiseUndisturbed]_disputeVars => Resumable'
  BY StepResumable
<1>3. DeskTyped /\ CasesInTurn /\ CasesInTurn' /\ Resumable /\ [DisputesNext]_disputeVars
        => [Resumes]_disputeVars
  <2> SUFFICES ASSUME DeskTyped, CasesInTurn, CasesInTurn', Resumable, DisputesNext,
                      status = "disputed",
                      NEW r \in Requests, At(r, "withdraw.resume"), req'[r] = Idle
               PROVE  status' = frozenAt
    OBVIOUS
  <2>1. req[r].op \in CaseOps /\ req'[r] # req[r]
    BY DEF At, CaseOps, Idle
  <2>2. ~CancellationNext
    BY <2>1, DealQuiet DEF DeskTyped, Quiet, Idle, CaseOps
  <2>3. PICK q \in Requests : CaseStep(q)
    BY <2>2 DEF DisputesNext
  <2>4. q = r
    BY <2>1, <2>3, OthersAway
  <2>5. WithdrawResume(r)
    BY <2>3, <2>4
    DEF CaseStep, At, Begin, Idle, RaiseRead, RaiseCheck, RaiseInsert, RaiseFreeze,
        RaiseAudit, RespondRead, RespondWrite, WithdrawRead, WithdrawFind,
        WithdrawClose, ResolveRead, ResolveBooking, ResolveWrite, ResolveClose
  <2> QED BY <2>5 DEF WithdrawResume, Resumable, At
<1> QED BY <1>1, <1>2, <1>3, DeskCorrect, PTL DEF DisputesSpec, ResumesWhereItWas

(* What a decision and a completion write over is what they read. *)
InTurn ==
  \A r \in Requests :
    /\ At(r, "resolve.write") => req[r].escrow = escrow
    /\ Compensation = "paid" /\ At(r, "complete.write") => escrow = "held"

LEMMA ReleaseShape ==
  ASSUME MoneyTyped, NEW r \in Requests, EscrowStep(r)
  PROVE  /\ Compensation = "paid" /\ req'[r].op = "complete.write"
              => escrow = "held" /\ escrow' = "held"
         /\ escrow' = "released" => escrow = "released" \/ At(r, "complete.write")
<1> USE DEF MoneyTyped, At, Begin, Goto, Done, Idle, row
<1>1. CASE StartStep(r)
  BY <1>1 DEF StartStep, PayDeposit, StartInsert, Initialized, NotInitialized,
              StartRefused, StartPending
<1>2. CASE SettleStep(r)
  BY <1>2 DEF SettleStep, SettleRead, VerifyUndecided, VerifyAnswer, SettleFail,
              SettleReopen, SettleMismatch, SettleClaim, SettleHold
<1>3. CASE OperatorStep(r) \/ Dropped(r)
  BY <1>3 DEF OperatorStep, FundRead, FundWrite, RecordRefundRead, RecordRefundWrite,
              Dropped, Die
<1>4. CASE CompleteStep(r)
  BY <1>4 DEF CompleteStep, CompleteRead, CompleteWrite, AwaitsDeposit
<1> QED BY <1>1, <1>2, <1>3, <1>4 DEF EscrowStep

(* Whoever waits to write waits undisturbed, so a step breaks this only    *)
(* where it reads.                                                         *)
LEMMA QuietTurn ==
  ASSUME MoneyTyped, InTurn, DepositUndisturbed, NEW r \in Requests,
         NEW kind, Slot(r, kind),
         \A x \in kind : x.op \notin {"resolve.write", "complete.write"}
  PROVE  InTurn'
BY DEF MoneyTyped, Slot, Idle, InTurn, At, DepositUndisturbed, Waits

LEMMA CaseTurn ==
  ASSUME DeskTyped, InTurn, DepositUndisturbed, NEW r \in Requests, CaseStep(r)
  PROVE  InTurn'
<1> DEFINE kind == {x \in DisputeRequests \cup RefundRequests : x.op # "resolve.write"}
<1>1. Slot(r, DisputeRequests \cup RefundRequests) /\ MoneyTyped
  BY CaseType DEF DeskTyped, EndsTyped
<1>2. CASE ResolveBooking(r)
  BY <1>1, <1>2 DEF ResolveBooking, InTurn, At, Goto, MoneyTyped, row
<1>3. CASE req'[r].op # "resolve.write"
  <2>1. Slot(r, kind)
    BY <1>1, <1>3 DEF Slot
  <2>2. \A x \in kind : x.op \notin {"resolve.write", "complete.write"}
    BY DEF DisputeRequests, RefundRequests
  <2> HIDE DEF kind
  <2> QED BY <1>1, <2>1, <2>2, QuietTurn
<1>4. req'[r].op = "resolve.write" => ResolveBooking(r)
  <2> USE <1>1, CaseCarried DEF MoneyTyped, At, Begin, Goto, Done, Idle, row, SendRefund
  <2>1. CASE \E side \in Parties : RaiseRead(r, side)
    BY <2>1 DEF RaiseRead
  <2>2. CASE RaiseCheck(r) \/ RaiseInsert(r) \/ RaiseFreeze(r) \/ RaiseAudit(r)
    BY <2>2 DEF RaiseCheck, RaiseInsert, RaiseFreeze, RaiseAudit
  <2>3. CASE \E side \in Parties, d \in CaseIds :
               RespondRead(r, side, d) \/ WithdrawRead(r, side, d)
    BY <2>3 DEF RespondRead, WithdrawRead
  <2>4. CASE RespondWrite(r) \/ WithdrawFind(r) \/ WithdrawClose(r) \/ WithdrawResume(r)
    BY <2>4 DEF RespondWrite, WithdrawFind, WithdrawClose, WithdrawResume
  <2>5. CASE (\E d \in CaseIds : ResolveRead(r, d)) \/ ResolveWrite(r) \/ ResolveClose(r)
    BY <2>5 DEF ResolveRead, ResolveWrite, ResolveClose
  <2> QED BY <2>1, <2>2, <2>3, <2>4, <2>5 DEF CaseStep
<1> QED BY <1>2, <1>3, <1>4

LEMMA DealTurn ==
  ASSUME EndsTyped, InTurn, DepositUndisturbed, [CancellationNext]_cancellationVars
  PROVE  InTurn'
<1> USE DEF EndsTyped
<1>1. ASSUME NEW r \in Requests, EscrowStep(r), UNCHANGED <<refundVars, cancelVars>>
      PROVE  InTurn'
  <2>1. Slot(r, EscrowRequests) /\ \A x \in EscrowRequests : x.op # "resolve.write"
    BY <1>1, EscrowEnds DEF EscrowRequests
  <2>2. Compensation = "paid" /\ req'[r].op = "complete.write" => escrow' = "held"
    BY <1>1, ReleaseShape
  <2> QED BY <2>1, <2>2 DEF MoneyTyped, InTurn, At, Slot, Idle, DepositUndisturbed, Waits
<1>2. ASSUME NEW r \in Requests, RefundStep(r), UNCHANGED cancelVars PROVE InTurn'
  <2>1. Slot(r, RefundRequests)
    BY <1>2, RefundType
  <2>2. \A x \in RefundRequests : x.op \notin {"resolve.write", "complete.write"}
    BY DEF RefundRequests
  <2> QED BY <2>1, <2>2, QuietTurn
<1>3. ASSUME NEW r \in Requests, CancelStep(r) PROVE InTurn'
  <2> DEFINE kind == CancelRequests \cup RefundRequests
  <2>1. Slot(r, kind)
    BY <1>3, CancelType
  <2>2. \A x \in kind : x.op \notin {"resolve.write", "complete.write"}
    BY DEF CancelRequests, RefundRequests
  <2> HIDE DEF kind
  <2> QED BY <2>1, <2>2, QuietTurn
<1>4. CASE UNCHANGED <<req, escrow>>
  BY <1>4 DEF InTurn, At
<1>5. /\ \A i \in Checkouts : PayerActs(i) => UNCHANGED <<req, escrow>>
      /\ \A i \in RefundIds : ReturnMoves(i) => UNCHANGED <<req, escrow>>
      /\ DealAdvances => UNCHANGED <<req, escrow>>
      /\ UNCHANGED cancellationVars => UNCHANGED <<req, escrow>>
  BY DEF PayerActs, ReturnMoves, DealAdvances, MovesTo, cancellationVars, row
<1> QED BY <1>1, <1>2, <1>3, <1>4, <1>5 DEF CancellationNext

-------------------------------------------------------------------------------
(* Disputes: the deposit *)

(* What a step of the desk leaves alone when it writes no decision.        *)
LEMMA DeskKeeps ==
  ASSUME NEW r \in Requests, CaseStep(r), ~At(r, "resolve.write")
  PROVE  escrow' = escrow /\ UNCHANGED otherVars
BY DEF CaseStep, row, RaiseRead, RaiseCheck, RaiseInsert, RaiseFreeze, RaiseAudit,
       RespondRead, RespondWrite, WithdrawRead, WithdrawFind, WithdrawClose,
       WithdrawResume, ResolveRead, ResolveBooking, ResolveWrite, ResolveClose

(* The decision is the one write that overwrites a deposit, and only with  *)
(* what it had read before there was one.                                  *)
LEMMA DecisionWrites ==
  ASSUME DeskTyped, NEW r \in Requests, CaseStep(r), At(r, "resolve.write")
  PROVE  /\ req'[r].op = "resolve.close"
         /\ escrow' \notin Deposited => req[r].escrow \notin Deposited
<1>1. ResolveWrite(r)
  BY DEF CaseStep, At, Begin, Idle, RaiseRead, RaiseCheck, RaiseInsert, RaiseFreeze,
         RaiseAudit, RespondRead, RespondWrite, WithdrawRead, WithdrawFind,
         WithdrawClose, WithdrawResume, ResolveRead, ResolveBooking, ResolveClose
<1> QED
  BY <1>1
  DEF ResolveWrite, EscrowAfter, Deposited, Goto, DeskTyped, EndsTyped, MoneyTyped

(* Held funds leave a deal to the creator or to the brand, however its     *)
(* cases, its cancellation, its checkouts and Chapa's answers interleave   *)
(* and die: only a decision that read the booking before the deposit came  *)
(* writes over it.                                                         *)
THEOREM HeldNotForgotten == DisputesSpec => HeldIsNotForgotten
<1> DEFINE Kept1 ==
      escrow = "held" /\ escrow' \notin Deposited
        => \E r \in Requests :
             At(r, "resolve.write") /\ req[r].escrow \notin Deposited /\ req'[r] # req[r]
<1>1. DeskTyped /\ [DisputesNext]_disputeVars => [Kept1]_disputeVars
  <2> SUFFICES ASSUME DeskTyped, DisputesNext, escrow = "held", escrow' \notin Deposited
               PROVE  \E r \in Requests :
                        At(r, "resolve.write") /\ req[r].escrow \notin Deposited
                          /\ req'[r] # req[r]
    OBVIOUS
  <2>1. ASSUME NEW r \in Requests, EscrowStep(r) PROVE escrow' \in Deposited
    BY <2>1, DepositStays DEF Deposited
  <2>2. ASSUME NEW r \in Requests, RefundStep(r) PROVE escrow' \in Deposited
    BY <2>2, RefundRow DEF Deposited
  <2>3. ASSUME NEW r \in Requests, CancelStep(r) PROVE escrow' \in Deposited
    BY <2>3, CancelShape DEF DeskTyped, Deposited
  <2>4. /\ \A i \in Checkouts : PayerActs(i) => escrow' = escrow
        /\ \A i \in RefundIds : ReturnMoves(i) => escrow' = escrow
        /\ DealAdvances => escrow' = escrow
    BY DEF PayerActs, ReturnMoves, DealAdvances, MovesTo, row
  <2>5. PICK r \in Requests : CaseStep(r)
    BY <2>1, <2>2, <2>3, <2>4 DEF DisputesNext, CancellationNext, Deposited
  <2>6. At(r, "resolve.write")
    BY <2>5, DeskKeeps DEF Deposited
  <2> QED BY <2>5, <2>6, DecisionWrites DEF At
<1> QED BY <1>1, DeskCorrect, PTL DEF DisputesSpec, HeldIsNotForgotten

(* A request that decides a case has it open until it closes it.           *)
Deciding ==
  \A r \in Requests :
    req[r].op \in {"resolve.booking", "resolve.write", "resolve.close"} =>
      req[r].id \in OpenCases

(* While nobody has decided a case, the deposit is kept as in Escrow, a    *)
(* deal frozen after its completion has it, and only one that was taken is *)
(* asked back.                                                             *)
PaidFor ==
  /\ Funds
  /\ Compensation = "paid" /\ status = "disputed" /\ frozenAt = "completed" =>
       escrow \in Deposited
  /\ Len(refunds) > 0 => escrow \in Deposited
  /\ \A r \in Requests :
       /\ req[r].op \in RefundOps => escrow \in Deposited
       /\ req[r].op \in {"cancel.agree", "cancel.operator"} /\ req[r].escrow = "held"
            => escrow \in Deposited

(* What a step of one request does to the cases and to the decisions in    *)
(* progress, while it alone works on them.                                 *)
LEMMA CaseDecides ==
  ASSUME DeskTyped, CasesInTurn, CasesInTurn', Deciding, NEW r \in Requests, CaseStep(r)
  PROVE  Deciding' /\ (DecisionMade => DecisionMade')
<1>1. /\ req = [q \in Requests |-> req[q]]
      /\ \A q \in Requests : q # r => req'[q] = req[q] /\ req[q].op \notin CaseOps
      /\ cases \in Seq(CaseRows) /\ Len(cases) \in Nat
  BY OthersAway DEF DeskTyped, EndsTyped, MoneyTyped
<1>2. UNCHANGED cases => OpenCases' = OpenCases
  BY DEF OpenCases
<1> USE <1>1, <1>2
    DEF Deciding, DecisionMade, CaseOps, At, Begin, Goto, Done, Idle, row, caseVars
<1>3. CASE \E side \in Parties : RaiseRead(r, side)  BY <1>3 DEF RaiseRead
<1>4. CASE RaiseCheck(r)  BY <1>4, CaseCarried DEF RaiseCheck
<1>5. CASE RaiseInsert(r)
  <2>1. \A d \in 1 .. Len(cases) : d \in 1 .. Len(cases') /\ cases'[d] = cases[d]
    BY <1>5 DEF RaiseInsert
  <2> QED BY <1>5, <2>1, CaseCarried DEF RaiseInsert
<1>6. CASE RaiseFreeze(r)  BY <1>6, CaseCarried DEF RaiseFreeze
<1>7. CASE RaiseAudit(r)  BY <1>7 DEF RaiseAudit
<1>8. CASE \E side \in Parties, d \in CaseIds :
             RespondRead(r, side, d) \/ WithdrawRead(r, side, d)
  BY <1>8 DEF RespondRead, WithdrawRead
<1>9. CASE RespondWrite(r)
  <2>1. \A d \in 1 .. Len(cases) :
          d \in 1 .. Len(cases') /\ cases'[d].status = cases[d].status
    BY <1>9, AnswerType DEF RespondWrite, CaseRows
  <2> QED BY <1>9, <2>1 DEF RespondWrite
<1>10. CASE WithdrawFind(r)
  <2> DEFINE s == StatusBeforeDispute
  <2>1. /\ req' = [req EXCEPT ![r] = [op |-> "withdraw.close", id |-> req[r].id, to |-> s]]
        /\ At(r, "withdraw.find") /\ UNCHANGED cases
    BY <1>10 DEF WithdrawFind
  <2> HIDE DEF s
  <2> QED BY <2>1
<1>11. CASE WithdrawClose(r)
  <2>1. \A d \in 1 .. Len(cases) :
          d \in 1 .. Len(cases')
            /\ (cases[d].status = "resolved" => cases'[d].status = "resolved")
    BY <1>11, CloseType DEF WithdrawClose, CloseCase, CaseRows
  <2> QED BY <1>11, <2>1, CaseCarried DEF WithdrawClose
<1>12. CASE WithdrawResume(r)  BY <1>12 DEF WithdrawResume
<1>13. CASE \E d \in CaseIds : ResolveRead(r, d)  BY <1>13 DEF ResolveRead
<1>14. CASE ResolveBooking(r)  BY <1>14 DEF ResolveBooking
<1>15. CASE ResolveWrite(r)  BY <1>15 DEF ResolveWrite
<1>16. CASE ResolveClose(r)
  <2>1. req[r].id \in 1 .. Len(cases) /\ cases[req[r].id].status = "open"
    BY <1>16 DEF ResolveClose, OpenCases
  <2>2. /\ cases'[req[r].id].status = "resolved" /\ Len(cases') = Len(cases)
    BY <1>16, <2>1, CloseType DEF ResolveClose, CloseCase, CaseRows
  <2>3. req'[r].op \notin {"resolve.booking", "resolve.write", "resolve.close"}
    BY <1>16 DEF ResolveClose, SendRefund
  <2> QED BY <2>1, <2>2, <2>3
<1> QED
  BY <1>3, <1>4, <1>5, <1>6, <1>7, <1>8, <1>9, <1>10, <1>11, <1>12, <1>13, <1>14, <1>15,
     <1>16 DEF CaseStep

(* The desk writes no decision: the deal may be frozen, and be completed   *)
(* again where it was.                                                     *)
LEMMA CasePaidFor ==
  ASSUME DeskTyped, Resumable, PaidFor, ~DecisionMade, NEW r \in Requests, CaseStep(r)
  PROVE  PaidFor' \/ DecisionMade'
<1> DEFINE kind == DisputeRequests \cup RefundRequests
<1>1. Slot(r, kind) /\ MoneyTyped' /\ MoneyTyped
  BY CaseType DEF DeskTyped, EndsTyped
<1>2. \A x \in kind : x.op \notin MoneyOps \cup {"cancel.agree", "cancel.operator"}
  BY DEF DisputeRequests, RefundRequests, MoneyOps, RefOps
<1>3. CASE At(r, "resolve.write")
  BY <1>3, DecisionWrites DEF DecisionMade, At
<1>4. CASE ~At(r, "resolve.write")
  <2>1. escrow' = escrow /\ UNCHANGED <<money, refunds>>
    BY <1>4, DeskKeeps DEF otherVars, refundVars
  <2>2. /\ \/ status' = status /\ frozenAt' = frozenAt
           \/ status' = "disputed" /\ frozenAt' = status
           \/ status = "disputed" /\ status' = frozenAt /\ frozenAt' = frozenAt
        /\ req'[r].op \in RefundOps => At(r, "resolve.close")
    <3> USE <1>1, CaseCarried
        DEF MoneyTyped, At, Begin, Goto, Done, Idle, row, caseVars, RefundOps, AskOps
    <3>1. CASE \E side \in Parties : RaiseRead(r, side)  BY <3>1 DEF RaiseRead
    <3>2. CASE RaiseCheck(r) \/ RaiseInsert(r) \/ RaiseFreeze(r) \/ RaiseAudit(r)
      BY <3>2 DEF RaiseCheck, RaiseInsert, RaiseFreeze, RaiseAudit
    <3>3. CASE \E side \in Parties, d \in CaseIds :
                 RespondRead(r, side, d) \/ WithdrawRead(r, side, d)
      BY <3>3 DEF RespondRead, WithdrawRead
    <3>4. CASE RespondWrite(r) \/ WithdrawFind(r) \/ WithdrawClose(r)
      BY <3>4 DEF RespondWrite, WithdrawFind, WithdrawClose
    <3>5. CASE WithdrawResume(r)
      BY <3>5 DEF WithdrawResume, Resumable
    <3>6. CASE (\E d \in CaseIds : ResolveRead(r, d)) \/ ResolveBooking(r)
      BY <3>6 DEF ResolveRead, ResolveBooking
    <3>7. CASE ResolveClose(r)
      BY <3>7 DEF ResolveClose
    <3> QED BY <1>4, <3>1, <3>2, <3>3, <3>4, <3>5, <3>6, <3>7 DEF CaseStep, ResolveWrite
  <2>3. ~At(r, "resolve.close")
    BY DEF DecisionMade
  <2>4. Funds'
    <3>1. status' = status \/ status' # "completed" \/ Compensation # "paid"
            \/ escrow \in Deposited
      BY <2>2 DEF PaidFor
    <3> QED BY <1>1, <1>2, <2>1, <3>1, AsideFunds DEF PaidFor
  <2>5. Compensation = "paid" /\ status' = "disputed" /\ frozenAt' = "completed" =>
          escrow' \in Deposited
    BY <2>1, <2>2 DEF PaidFor, Funds, CompletedWasFunded
  <2>6. \A q \in Requests :
          req'[q] = req[q] \/ req'[q].op \notin RefundOps \cup {"cancel.agree", "cancel.operator"}
    BY <1>1, <1>2, <2>2, <2>3 DEF Slot, MoneyTyped, Idle, RefundOps, AskOps
  <2> QED BY <2>1, <2>4, <2>5, <2>6 DEF PaidFor
<1> QED BY <1>3, <1>4

(* Beside the desk, the deal keeps its deposit as in Cancellation, whether *)
(* or not it was called off.                                               *)
LEMMA DealPaidFor ==
  ASSUME DeskTyped, PaidFor, CancellationNext, UNCHANGED caseVars
  PROVE  PaidFor'
<1> DEFINE Aside(r) ==
      \A q \in Requests : q # r => req'[q] = req[q]
<1>0. EndsTyped /\ MoneyTyped /\ Funds /\ Len(refunds) \in Nat
  BY DEF DeskTyped, EndsTyped, RefundsTypeOK, PaidFor
<1>1. ASSUME NEW r \in Requests, EscrowStep(r), UNCHANGED <<refundVars, cancelVars>>
      PROVE  PaidFor'
  <2>1. Funds' /\ (escrow \in Deposited => escrow' \in Deposited)
    BY <1>0, <1>1, HandlerFunds, DepositStays
  <2>2. /\ Aside(r)
        /\ req'[r].op \notin RefundOps \cup {"cancel.agree", "cancel.operator"}
    BY <1>0, <1>1, EscrowEnds
    DEF MoneyTyped, Slot, Idle, EscrowRequests, RefundOps, AskOps
  <2>3. status' = "disputed" => status = "disputed"
    BY <1>1, EscrowMoves
  <2> QED BY <1>1, <2>1, <2>2, <2>3 DEF PaidFor, refundVars, caseVars
<1>2. ASSUME NEW r \in Requests, RefundStep(r), UNCHANGED cancelVars
      PROVE  PaidFor'
  <2>1. Slot(r, RefundRequests) /\ MoneyTyped'
    BY <1>0, <1>2, RefundType DEF EndsTyped
  <2>2. \A x \in RefundRequests :
          x.op \notin MoneyOps \cup {"cancel.agree", "cancel.operator"}
    BY DEF RefundRequests, MoneyOps, RefOps
  <2>3. /\ UNCHANGED money /\ status' = status /\ (escrow' = escrow \/ escrow' = "refunded")
        /\ req[r].op \in RefundOps \/ Len(refunds) > 0
    <3>1. ASSUME NEW i \in RefundIds, RefundReconcileRead(r, i) PROVE Len(refunds) > 0
      BY <1>0, <3>1 DEF RefundReconcileRead
    <3>2. req[r].op \in RefundOps \/ \E i \in RefundIds : RefundReconcileRead(r, i)
      BY <1>2
      DEF RefundStep, RefundCount, RefundDeposit, RefundInsert, RefundAccepted,
          RefundNotOk, RefundRefused, RefundQueued, RefundReconcileAnswer,
          RefundReconcileFailed, RefundClaim, RefundMark, At, RefundOps, AskOps
    <3> QED BY <1>2, <3>1, <3>2, RefundRow
  <2>4. escrow \in Deposited /\ escrow' \in Deposited
    BY <2>3 DEF PaidFor, Deposited
  <2>5. Funds'
    BY <1>0, <2>1, <2>2, <2>3, <2>4, AsideFunds
  <2> QED
    BY <1>0, <2>1, <2>2, <2>3, <2>4, <2>5 DEF PaidFor, Slot, MoneyTyped, caseVars
<1>3. ASSUME NEW r \in Requests, CancelStep(r)
      PROVE  PaidFor'
  <2> DEFINE kind == CancelRequests \cup RefundRequests
  <2>1. Slot(r, kind) /\ MoneyTyped'
    BY <1>0, <1>3, CancelType DEF EndsTyped
  <2>2. \A x \in kind : x.op \notin MoneyOps
    BY DEF CancelRequests, RefundRequests, MoneyOps, RefOps
  <2>3. /\ UNCHANGED <<money, refundVars>> /\ escrow' = escrow
        /\ status' = status \/ status' = "cancelled"
        /\ req'[r].op \in RefundOps =>
             req[r].op \in {"cancel.agree", "cancel.operator"} /\ req[r].escrow = "held"
        /\ req'[r].op \in {"cancel.agree", "cancel.operator"} => req'[r].escrow = escrow
    BY <1>0, <1>3, CancelShape
  <2>4. Funds'
    BY <1>0, <2>1, <2>2, <2>3, AsideFunds
  <2>5. Aside(r)
    BY <1>0, <2>1 DEF Slot, MoneyTyped
  <2> QED BY <2>3, <2>4, <2>5 DEF PaidFor, Deposited, refundVars, caseVars
<1>4. ASSUME NEW i \in Checkouts, PayerActs(i), UNCHANGED <<refundVars, cancelVars>>
      PROVE  PaidFor'
  BY <1>0, <1>4, PayerFunds DEF PayerActs, PaidFor, refundVars, caseVars, row
<1>5. ASSUME NEW i \in RefundIds, ReturnMoves(i), UNCHANGED cancelVars
      PROVE  PaidFor'
  <2>1. UNCHANGED escrowVars /\ UNCHANGED refunds
    BY <1>5 DEF ReturnMoves, escrowVars
  <2>2. Funds'
    BY <1>0, <2>1, StepFunds
  <2> QED BY <2>1, <2>2 DEF PaidFor, escrowVars, row, caseVars
<1>6. CASE DealAdvances
  <2>1. DealMoves
    BY <1>6 DEF DealAdvances, DealMoves, MovesTo, Moves, CanTransition, Transitions
  <2>2. Funds'
    BY <1>0, <2>1, StepFunds DEF EscrowNext
  <2> QED
    BY <1>6, <2>2 DEF DealAdvances, MovesTo, PaidFor, refundVars, caseVars
<1> QED BY <1>1, <1>2, <1>3, <1>4, <1>5, <1>6 DEF CancellationNext

(* Who works on no case decides none.                                      *)
LEMMA DealDecides ==
  ASSUME ~MayDie, DeskTyped, Deciding, CancellationNext, UNCHANGED caseVars
  PROVE  Deciding' /\ (DecisionMade => DecisionMade')
<1>1. \A q \in Requests : req[q].op \in CaseOps \/ req'[q].op \in CaseOps => req'[q] = req[q]
  BY DealQuiet DEF DeskTyped, Quiet
<1>2. OpenCases' = OpenCases /\ cases' = cases
  BY DEF OpenCases, caseVars
<1> QED BY <1>1, <1>2 DEF Deciding, DecisionMade, At, CaseOps

LEMMA StepPaidFor ==
  ASSUME ~MayDie, DeskTyped, CasesInTurn, CasesInTurn', Resumable, Deciding,
         PaidFor \/ DecisionMade, [DisputesNext]_disputeVars
  PROVE  Deciding' /\ (PaidFor' \/ DecisionMade')
<1>1. CASE \E r \in Requests : CaseStep(r)
  BY <1>1, CaseDecides, CasePaidFor
<1>2. CASE CancellationNext /\ UNCHANGED caseVars
  BY <1>2, DealDecides, DealPaidFor
<1>3. CASE UNCHANGED disputeVars
  <2>1. UNCHANGED <<req, status, escrow, cases, frozenAt, refunds>> /\ UNCHANGED escrowVars
    BY <1>3 DEF disputeVars, row, caseVars, refundVars, escrowVars
  <2>2. Funds => Funds'
    BY <2>1, StepFunds
  <2> QED BY <2>1, <2>2 DEF Deciding, DecisionMade, PaidFor, OpenCases, At
<1> QED BY <1>1, <1>2, <1>3 DEF DisputesNext

(* A deal whose cases nobody decided is completed over money that came in: *)
(* what failed, reopened, froze, resumed, was called off or returned since *)
(* the press read it makes no difference.                                  *)
THEOREM CompletedPaidFor ==
  ASSUME ~MayDie
  PROVE  DisputesSpec /\ []CasesInTurn /\ [][RaiseUndisturbed]_disputeVars
           => []CompletedWasPaidFor
<1> DEFINE IInv == Resumable /\ Deciding /\ (PaidFor \/ DecisionMade)
<1>1. DisputesInit => IInv
  BY InitFunds
  DEF DisputesInit, CancellationInit, EscrowInit, RefundsInit, Resumable, Deciding, PaidFor,
      At, Idle, RefundOps, AskOps
<1>2. DeskTyped /\ CasesInTurn /\ CasesInTurn' /\ IInv
        /\ [DisputesNext]_disputeVars /\ [RaiseUndisturbed]_disputeVars => IInv'
  BY StepResumable, StepPaidFor
<1>3. IInv => CompletedWasPaidFor
  BY DEF PaidFor, Funds, CompletedWasFunded, CompletedWasPaidFor
<1> QED BY <1>1, <1>2, <1>3, DeskCorrect, PTL DEF DisputesSpec

-------------------------------------------------------------------------------
(* Payouts: types *)

LEMMA PayoutsInitType == PayoutsInit => PayoutsTypeOK
BY MaxPayoutsAssumption
   DEF PayoutsInit, PayoutsTypeOK, Accounts, TransferStates, Statuses, Idle

LEMMA AdvanceType ==
  ASSUME payouts \in Seq(Rows), NEW i, NEW from, NEW to \in PayoutStatuses,
         Advance(i, from, to)
  PROVE  payouts' \in Seq(Rows) /\ Len(payouts') = Len(payouts)
<1> DEFINE n == Len(payouts)
<1>1. payouts \in [1 .. n -> Rows] /\ n \in Nat
  OBVIOUS
<1>2. \A k \in 1 .. n : [payouts[k] EXCEPT !.status = IF @ = from THEN to ELSE @] \in Rows
  BY <1>1 DEF Rows
<1>3. payouts' \in [1 .. n -> Rows]
  BY <1>1, <1>2 DEF Advance
<1> QED BY <1>1, <1>3

LEMMA AdvanceRow ==
  ASSUME payouts \in Seq(Rows), NEW i, NEW from, NEW to \in PayoutStatuses,
         Advance(i, from, to), NEW k \in 1 .. Len(payouts)
  PROVE  /\ payouts'[k].number = payouts[k].number
         /\ payouts'[k].manual = payouts[k].manual
         /\ payouts'[k].status =
              IF k = i /\ payouts[k].status = from THEN to ELSE payouts[k].status
BY DEF Advance, Rows

LEMMA InsertType ==
  ASSUME payouts \in Seq(Rows), NEW e \in Rows, payouts' = Append(payouts, e)
  PROVE  payouts' \in Seq(Rows) /\ Len(payouts') = Len(payouts) + 1
OBVIOUS

(* A request that carries an account number carries one a creator typed. *)
NumberOps == {"send.count", "send.insert", "verify.write", "save.write"}

LEMMA NumberType ==
  ASSUME PayoutsTypeOK, NEW r \in Requests, req[r].op \in NumberOps
  PROVE  req[r].number \in Numbers
BY DEF PayoutsTypeOK, PayoutRequests, NumberOps, Idle

LEMMA SendType ==
  ASSUME PayoutsTypeOK, NEW r \in Requests, SendStep(r)
  PROVE  PayoutsTypeOK'
<1> USE AdvanceType, MaxPayoutsAssumption
    DEF PayoutsTypeOK, PayoutRequests, Idle, At, Begin, Goto, Done, row, payoutVars,
        payoutHistory, TransferStates, PayoutStatuses, Accounts
<1>1. CASE SendRead(r)  BY <1>1 DEF SendRead
<1>2. CASE SendAccount(r)  BY <1>2 DEF SendAccount
<1>3. CASE SendCount(r)  BY <1>3 DEF SendCount
<1>4. CASE SendInsert(r)
  <2>1. [manual |-> FALSE, status |-> "pending", number |-> req[r].number] \in Rows
    BY <1>4, NumberType DEF SendInsert, Rows, NumberOps
  <2>2. payouts' \in Seq(Rows) /\ Len(payouts') = Len(payouts) + 1
    BY <1>4, <2>1, InsertType DEF SendInsert
  <2> QED BY <1>4, <2>2 DEF SendInsert, Ids
<1>5. CASE RecordManual(r)
  <2>1. CASE UNCHANGED payouts  BY <1>5, <2>1 DEF RecordManual
  <2>2. CASE Len(payouts) < MaxPayouts
             /\ payouts' = Append(payouts, [manual |-> TRUE, status |-> "success",
                                            number |-> req[r].number])
    <3>1. [manual |-> TRUE, status |-> "success", number |-> req[r].number] \in Rows
      BY <1>5, NumberType DEF RecordManual, Rows, NumberOps
    <3>2. payouts' \in Seq(Rows) /\ Len(payouts') = Len(payouts) + 1
      BY <2>2, <3>1, InsertType
    <3> QED BY <1>5, <2>2, <3>2 DEF RecordManual
  <2> QED BY <1>5, <2>1, <2>2 DEF RecordManual
<1>6. CASE TransferAccepted(r)  BY <1>6 DEF TransferAccepted
<1>7. CASE TransferRefused(r)  BY <1>7 DEF TransferRefused
<1>8. CASE TransferLost(r)  BY <1>8 DEF TransferLost
<1>9. CASE SendRefused(r)  BY <1>9 DEF SendRefused
<1>10. CASE SendQueued(r)  BY <1>10 DEF SendQueued
<1> QED BY <1>1, <1>2, <1>3, <1>4, <1>5, <1>6, <1>7, <1>8, <1>9, <1>10 DEF SendStep, SendPays

LEMMA ReconcileType ==
  ASSUME PayoutsTypeOK, NEW r \in Requests, ReconcileStep(r)
  PROVE  PayoutsTypeOK'
<1> USE AdvanceType, MaxPayoutsAssumption
    DEF PayoutsTypeOK, PayoutRequests, Idle, At, Begin, Goto, Done, row, payoutVars,
        payoutHistory, TransferStates, PayoutStatuses
<1>1. ASSUME NEW i \in Ids, ReconcileRead(r, i) PROVE PayoutsTypeOK'
  BY <1>1 DEF ReconcileRead
<1>2. CASE ReconcileUndecided(r)  BY <1>2 DEF ReconcileUndecided
<1>3. CASE ReconcileAnswer(r)  BY <1>3 DEF ReconcileAnswer
<1>4. CASE ReconcileSuccess(r)  BY <1>4 DEF ReconcileSuccess
<1>5. CASE ReconcileFailed(r)  BY <1>5 DEF ReconcileFailed
<1> QED BY <1>1, <1>2, <1>3, <1>4, <1>5 DEF ReconcileStep

LEMMA AccountType ==
  ASSUME PayoutsTypeOK, NEW r \in Requests, AccountStep(r)
  PROVE  PayoutsTypeOK'
<1> USE NumberType
    DEF PayoutsTypeOK, PayoutRequests, Idle, At, Begin, Goto, Done, row, payoutVars,
        payoutHistory, Accounts, NumberOps
<1>1. ASSUME NEW n \in Numbers, SaveRead(r, n) PROVE PayoutsTypeOK'
  BY <1>1 DEF SaveRead
<1>2. CASE SaveWrite(r)
  <2>1. [number |-> req[r].number, verified |-> FALSE] \in Accounts
    BY <1>2 DEF SaveWrite
  <2>2. account' \in {account, [number |-> req[r].number, verified |-> FALSE]}
    BY <1>2 DEF SaveWrite
  <2>3. account' \in Accounts
    BY <2>1, <2>2
  <2> QED BY <1>2, <2>3 DEF SaveWrite
<1>3. CASE VerifyRead(r)  BY <1>3 DEF VerifyRead
<1>4. CASE VerifyWrite(r)  BY <1>4 DEF VerifyWrite
<1> QED BY <1>1, <1>2, <1>3, <1>4 DEF AccountStep

LEMMA PayoutsStepType == PayoutsTypeOK /\ [PayoutsNext]_allPayoutVars => PayoutsTypeOK'
<1> SUFFICES ASSUME PayoutsTypeOK, [PayoutsNext]_allPayoutVars PROVE PayoutsTypeOK'
  OBVIOUS
<1>1. ASSUME NEW r \in Requests, PayoutStep(r) PROVE PayoutsTypeOK'
  <2>1. CASE SendStep(r)  BY <2>1, SendType
  <2>2. CASE ReconcileStep(r)  BY <2>2, ReconcileType
  <2>3. CASE AccountStep(r)  BY <2>3, AccountType
  <2>4. CASE Die(r) /\ UNCHANGED payoutVars
    BY <2>4 DEF Die, Done, Idle, row, payoutVars, payoutHistory, PayoutsTypeOK
  <2> QED BY <1>1, <2>1, <2>2, <2>3, <2>4 DEF PayoutStep
<1>2. ASSUME NEW i \in Ids, BankMoves(i) PROVE PayoutsTypeOK'
  BY <1>2 DEF BankMoves, PayoutsTypeOK, TransferStates, row, payoutHistory
<1>3. CASE UNCHANGED allPayoutVars
  BY <1>3 DEF allPayoutVars, row, payoutVars, payoutHistory, PayoutsTypeOK
<1> QED BY <1>1, <1>2, <1>3 DEF PayoutsNext

(* Every variable of Payouts keeps its type, whatever the parameters. *)
THEOREM PayoutsTypeCorrect == PayoutsSpec => []PayoutsTypeOK
BY PayoutsInitType, PayoutsStepType, PTL DEF PayoutsSpec

-------------------------------------------------------------------------------
(* Payouts: numbers *)

(* What a request that will insert a row carries, and what stands verified, *)
(* was marked verified by an operator at some time.                        *)
NumbersConfirmed ==
  /\ SentToVerified
  /\ account.verified => account.number \in confirmed
  /\ \A r \in Requests :
       req[r].op \in {"send.count", "send.insert"} => req[r].number \in confirmed

LEMMA SendNumbers ==
  ASSUME PayoutsTypeOK, NumbersConfirmed, NEW r \in Requests, SendStep(r)
  PROVE  NumbersConfirmed'
<1> USE DEF PayoutsTypeOK, NumbersConfirmed, SentToVerified, Idle, At, Begin, Goto, Done,
            payoutVars, payoutHistory
<1>1. CASE SendRead(r)  BY <1>1 DEF SendRead
<1>2. CASE SendAccount(r)  BY <1>2 DEF SendAccount
<1>3. CASE SendCount(r)
  <2> DEFINE next == [op |-> "send.insert", seen |-> req[r].seen, number |-> req[r].number]
  <2>1. UNCHANGED <<payouts, account, confirmed>> /\ req[r].op = "send.count"
    BY <1>3 DEF SendCount
  <2>2. CASE req' = [req EXCEPT ![r] = next]
    BY <2>1, <2>2
  <2>3. CASE Done(r)
    BY <2>1, <2>3
  <2> QED BY <1>3, <2>2, <2>3 DEF SendCount
<1>4. CASE SendInsert(r)  BY <1>4 DEF SendInsert
<1>5. CASE RecordManual(r)  BY <1>5 DEF RecordManual
<1>6. CASE TransferAccepted(r) \/ TransferRefused(r) \/ TransferLost(r)
  BY <1>6 DEF TransferAccepted, TransferRefused, TransferLost
<1>7. CASE SendRefused(r) \/ SendQueued(r)
  BY <1>7, AdvanceRow, AdvanceType DEF SendRefused, SendQueued, PayoutStatuses
<1> QED BY <1>1, <1>2, <1>3, <1>4, <1>5, <1>6, <1>7 DEF SendStep, SendPays

LEMMA StepNumbers ==
  PayoutsTypeOK /\ NumbersConfirmed /\ [PayoutsNext]_allPayoutVars => NumbersConfirmed'
<1> SUFFICES ASSUME PayoutsTypeOK, NumbersConfirmed, [PayoutsNext]_allPayoutVars
             PROVE  NumbersConfirmed'
  OBVIOUS
<1> USE DEF PayoutsTypeOK, NumbersConfirmed, SentToVerified, Idle, At, Begin, Goto, Done,
            payoutVars, payoutHistory
<1>1. ASSUME NEW r \in Requests, SendStep(r) PROVE NumbersConfirmed'
  BY <1>1, SendNumbers
<1>2. ASSUME NEW r \in Requests, ReconcileStep(r) PROVE NumbersConfirmed'
  <2>1. ASSUME NEW i \in Ids, ReconcileRead(r, i) PROVE NumbersConfirmed'
    BY <2>1 DEF ReconcileRead
  <2>2. CASE ReconcileUndecided(r) \/ ReconcileAnswer(r)
    BY <2>2 DEF ReconcileUndecided, ReconcileAnswer
  <2>3. CASE ReconcileSuccess(r) \/ ReconcileFailed(r)
    BY <2>3, AdvanceRow, AdvanceType DEF ReconcileSuccess, ReconcileFailed, PayoutStatuses
  <2> QED BY <1>2, <2>1, <2>2, <2>3 DEF ReconcileStep
<1>3. ASSUME NEW r \in Requests, AccountStep(r) PROVE NumbersConfirmed'
  <2>1. ASSUME NEW n \in Numbers, SaveRead(r, n) PROVE NumbersConfirmed'
    BY <2>1 DEF SaveRead
  <2>2. CASE SaveWrite(r)  BY <2>2 DEF SaveWrite
  <2>3. CASE VerifyRead(r)  BY <2>3 DEF VerifyRead
  <2>4. CASE VerifyWrite(r)  BY <2>4 DEF VerifyWrite, Accounts
  <2> QED BY <1>3, <2>1, <2>2, <2>3, <2>4 DEF AccountStep
<1>4. ASSUME NEW r \in Requests, Die(r), UNCHANGED payoutVars PROVE NumbersConfirmed'
  BY <1>4 DEF Die
<1>5. ASSUME NEW i \in Ids, BankMoves(i) PROVE NumbersConfirmed'
  BY <1>5 DEF BankMoves
<1>6. CASE UNCHANGED allPayoutVars
  BY <1>6 DEF allPayoutVars
<1> QED BY <1>1, <1>2, <1>3, <1>4, <1>5, <1>6 DEF PayoutsNext, PayoutStep

(* Nothing is ever sent to a number no operator marked verified, however   *)
(* the creator edits the account while a press of Send is under way.       *)
THEOREM SendsToVerified == PayoutsSpec => []SentToVerified
<1>1. PayoutsInit => NumbersConfirmed
  BY DEF PayoutsInit, NumbersConfirmed, SentToVerified, Idle
<1>2. NumbersConfirmed => SentToVerified
  BY DEF NumbersConfirmed
<1> QED BY <1>1, <1>2, PayoutsInitType, PayoutsStepType, StepNumbers, PTL DEF PayoutsSpec

-------------------------------------------------------------------------------
(* Payouts: what an attempt knows of its transfer *)

Sending == {"send.transfer", "send.refused", "send.queued"}

(* One press at most carries each row to its answer, the row is pending as *)
(* long as it does, and Chapa has nothing of it before it is asked.        *)
AnswersFollowed ==
  /\ FailedMovedNothing
  /\ \A i \in Ids : i > Len(payouts) => transfer[i] = "none"
  /\ \A r \in Requests :
       /\ req[r].op \in Sending =>
            req[r].id \in 1 .. Len(payouts) /\ payouts[req[r].id].status = "pending"
       /\ At(r, "send.transfer") => transfer[req[r].id] = "none"
       /\ At(r, "send.refused") => transfer[req[r].id] = "none" \/ req[r].id \in lost
       /\ At(r, "reconcile.failed") => transfer[req[r].id] = "failed"
  /\ \A r, q \in Requests :
       req[r].op \in Sending /\ req[q].op \in Sending /\ req[r].id = req[q].id => r = q

(* A request that carries the id of a row carries one within the bound. *)
IdOps == Sending \cup {"reconcile.verify", "reconcile.success", "reconcile.failed"}

LEMMA IdType ==
  ASSUME PayoutsTypeOK, NEW r \in Requests, req[r].op \in IdOps
  PROVE  req[r].id \in Ids
BY DEF PayoutsTypeOK, PayoutRequests, IdOps, Sending, Idle

(* A step that leaves rows and transfers alone, and sends nothing. *)
LEMMA QuietFollowed ==
  ASSUME PayoutsTypeOK, AnswersFollowed, NEW r \in Requests, NEW state,
         req' = [req EXCEPT ![r] = state], UNCHANGED <<payouts, transfer, lost>>,
         state.op \notin Sending,
         state.op = "reconcile.failed" => transfer[state.id] = "failed"
  PROVE  AnswersFollowed'
BY DEF PayoutsTypeOK, AnswersFollowed, FailedMovedNothing, At, Sending

LEMMA SendFollowed ==
  ASSUME PayoutsTypeOK, AnswersFollowed, NEW r \in Requests, SendStep(r)
  PROVE  AnswersFollowed'
<1> USE DEF PayoutsTypeOK, AnswersFollowed, FailedMovedNothing, Idle, At, Begin, Goto,
            Done, payoutVars, payoutHistory, Sending, IdOps, Ids
<1>1. CASE SendRead(r)  BY <1>1, QuietFollowed DEF SendRead
<1>2. CASE SendAccount(r)  BY <1>2, QuietFollowed DEF SendAccount
<1>3. CASE SendCount(r)  BY <1>3, QuietFollowed DEF SendCount
<1>4. CASE SendInsert(r)
  <2>1. Len(payouts) + 1 \in Ids /\ transfer[Len(payouts) + 1] = "none"
    BY <1>4, MaxPayoutsAssumption DEF SendInsert
  <2>2. /\ Len(payouts') = Len(payouts) + 1
        /\ \A k \in 1 .. Len(payouts) : payouts'[k] = payouts[k]
        /\ payouts'[Len(payouts) + 1].status = "pending"
    BY <1>4 DEF SendInsert
  <2>3. req' = [req EXCEPT ![r] = [op |-> "send.transfer", id |-> Len(payouts) + 1]]
        /\ transfer' = transfer /\ lost' = lost
    BY <1>4 DEF SendInsert
  <2>4. FailedMovedNothing' /\ \A i \in Ids : i > Len(payouts') => transfer'[i] = "none"
    BY <2>1, <2>2, <2>3
  <2> QED BY <2>1, <2>2, <2>3, <2>4
<1>5. CASE RecordManual(r)
  <2>1. CASE payouts' = payouts
    BY <1>5, <2>1, QuietFollowed DEF RecordManual
  <2>2. CASE payouts' # payouts
    <3> DEFINE e == [manual |-> TRUE, status |-> "success", number |-> req[r].number]
    <3>0. payouts' = Append(payouts, e) /\ e.status = "success"
      BY <1>5, <2>2 DEF RecordManual
    <3> HIDE DEF e
    <3>1. /\ Len(payouts') = Len(payouts) + 1
          /\ \A k \in 1 .. Len(payouts) : payouts'[k] = payouts[k]
          /\ payouts'[Len(payouts) + 1].status = "success"
      BY <3>0
    <3>2. req' = [req EXCEPT ![r] = Idle] /\ transfer' = transfer /\ lost' = lost
      BY <1>5 DEF RecordManual
    <3>3. FailedMovedNothing'
      BY <3>1, <3>2
    <3> QED BY <3>1, <3>2, <3>3
  <2> QED BY <2>1, <2>2
<1>6. CASE TransferAccepted(r)  BY <1>6, IdType DEF TransferAccepted
<1>7. CASE TransferRefused(r)  BY <1>7, IdType DEF TransferRefused
<1>8. CASE TransferLost(r)  BY <1>8, IdType DEF TransferLost
<1>9. CASE SendRefused(r)
  <2>1. FailedMovedNothing'
    BY <1>9, AdvanceRow, AdvanceType, IdType DEF SendRefused, PayoutStatuses
  <2>2. Len(payouts') = Len(payouts) /\ transfer' = transfer
    BY <1>9, AdvanceType DEF SendRefused, PayoutStatuses
  <2> QED
    BY <1>9, <2>1, <2>2, AdvanceRow, IdType DEF SendRefused, PayoutStatuses
<1>10. CASE SendQueued(r)
  BY <1>10, AdvanceRow, AdvanceType, IdType DEF SendQueued, PayoutStatuses
<1> QED BY <1>1, <1>2, <1>3, <1>4, <1>5, <1>6, <1>7, <1>8, <1>9, <1>10 DEF SendStep, SendPays

LEMMA ReconcileFollowed ==
  ASSUME PayoutsTypeOK, AnswersFollowed, NEW r \in Requests, ReconcileStep(r)
  PROVE  AnswersFollowed'
<1> USE DEF PayoutsTypeOK, AnswersFollowed, FailedMovedNothing, Idle, At, Begin, Goto,
            Done, payoutVars, payoutHistory, Sending, IdOps, Ids
<1>1. ASSUME NEW i \in Ids, ReconcileRead(r, i) PROVE AnswersFollowed'
  BY <1>1, QuietFollowed DEF ReconcileRead
<1>2. CASE ReconcileUndecided(r)  BY <1>2, QuietFollowed DEF ReconcileUndecided
<1>3. CASE ReconcileAnswer(r)  BY <1>3, QuietFollowed DEF ReconcileAnswer
<1>4. CASE ReconcileSuccess(r)
  <2>1. FailedMovedNothing'
    BY <1>4, AdvanceRow, AdvanceType, IdType DEF ReconcileSuccess, PayoutStatuses
  <2>2. Len(payouts') = Len(payouts) /\ transfer' = transfer
    BY <1>4, AdvanceType DEF ReconcileSuccess, PayoutStatuses
  <2> QED
    BY <1>4, <2>1, <2>2, AdvanceRow, IdType DEF ReconcileSuccess, PayoutStatuses
<1>5. CASE ReconcileFailed(r)
  BY <1>5, AdvanceRow, AdvanceType, IdType DEF ReconcileFailed, PayoutStatuses
<1> QED BY <1>1, <1>2, <1>3, <1>4, <1>5 DEF ReconcileStep

LEMMA StepFollowed ==
  ASSUME PayoutsTypeOK, AnswersFollowed, [PayoutsNext]_allPayoutVars
  PROVE  AnswersFollowed'
<1> USE DEF Idle, At, Begin, Goto, Done, payoutVars, payoutHistory, Sending
<1>1. ASSUME NEW r \in Requests, SendStep(r) PROVE AnswersFollowed'
  BY <1>1, SendFollowed
<1>2. ASSUME NEW r \in Requests, ReconcileStep(r) PROVE AnswersFollowed'
  BY <1>2, ReconcileFollowed
<1>3. ASSUME NEW r \in Requests, AccountStep(r) PROVE AnswersFollowed'
  BY <1>3, QuietFollowed DEF AccountStep, SaveRead, SaveWrite, VerifyRead, VerifyWrite
<1>4. ASSUME NEW r \in Requests, Die(r), UNCHANGED payoutVars PROVE AnswersFollowed'
  BY <1>4, QuietFollowed DEF Die
<1>5. ASSUME NEW i \in Ids, BankMoves(i) PROVE AnswersFollowed'
  <2>1. \A k \in Ids : transfer'[k] # transfer[k] =>
          transfer[k] = "accepted" /\ transfer'[k] \in {"paid", "failed"}
    BY <1>5 DEF BankMoves, PayoutsTypeOK
  <2>2. \A k \in 1 .. Len(payouts) : k \in Ids
    BY MaxPayoutsAssumption DEF PayoutsTypeOK, Ids
  <2> QED
    BY <1>5, <2>1, <2>2, IdType
    DEF BankMoves, AnswersFollowed, FailedMovedNothing, IdOps
<1>6. CASE UNCHANGED allPayoutVars
  BY <1>6 DEF allPayoutVars, AnswersFollowed, FailedMovedNothing
<1> QED BY <1>1, <1>2, <1>3, <1>4, <1>5, <1>6 DEF PayoutsNext, PayoutStep

LEMMA FollowedCorrect == PayoutsSpec => [](PayoutsTypeOK /\ AnswersFollowed)
<1>1. PayoutsInit => AnswersFollowed
  BY DEF PayoutsInit, AnswersFollowed, FailedMovedNothing, Idle, At, Sending
<1>2. PayoutsTypeOK /\ AnswersFollowed /\ [PayoutsNext]_allPayoutVars
        => (PayoutsTypeOK /\ AnswersFollowed)'
  BY PayoutsStepType, StepFollowed
<1> QED BY <1>1, <1>2, PayoutsInitType, PTL DEF PayoutsSpec

(* A row that reads failed moved no money unless Chapa's answer about it   *)
(* was lost, for any number of presses and of requests that die.           *)
THEOREM FailedIsFailed == PayoutsSpec => []FailedMovedNothing
<1>1. AnswersFollowed => FailedMovedNothing
  BY DEF AnswersFollowed
<1> QED BY <1>1, FollowedCorrect, PTL

-------------------------------------------------------------------------------
(* Payouts: one press at a time *)

SendOps == {"send.account", "send.count", "send.insert"} \cup Sending

(* Only a sender is inside send; when it is about to insert, no live row   *)
(* stands; and at most one stands ever.                                    *)
OneLive ==
  /\ \A r \in Requests :
       /\ req[r].op \in SendOps => r \in Senders
       /\ At(r, "send.insert") => LiveAttempts = {}
  /\ \A i \in 1 .. Len(payouts) : payouts[i].status # "cancelled"
  /\ \A i, j \in LiveAttempts : i = j

(* A step that inserts no row and revives none. *)
LEMMA QuietLive ==
  ASSUME PayoutsTypeOK, OneLive, NEW r \in Requests, NEW state,
         req' = [req EXCEPT ![r] = state],
         state.op \in SendOps => r \in Senders,
         state.op = "send.insert" => LiveAttempts = {},
         Len(payouts') = Len(payouts),
         \A k \in 1 .. Len(payouts) :
           /\ payouts'[k].status # "cancelled"
           /\ payouts'[k].status \in LivePayoutStatuses
                => payouts[k].status \in LivePayoutStatuses
  PROVE  OneLive'
BY DEF PayoutsTypeOK, OneLive, At, LiveAttempts

LEMMA AdvanceLive ==
  ASSUME PayoutsTypeOK, OneLive, NEW i, NEW from \in LivePayoutStatuses,
         NEW to \in PayoutStatuses \ {"cancelled"}, Advance(i, from, to)
  PROVE  /\ Len(payouts') = Len(payouts)
         /\ \A k \in 1 .. Len(payouts) :
              /\ payouts'[k].status # "cancelled"
              /\ payouts'[k].status \in LivePayoutStatuses
                   => payouts[k].status \in LivePayoutStatuses
BY AdvanceRow, AdvanceType DEF PayoutsTypeOK, OneLive

(* The one sender inserts a row over none that lives. *)
LEMMA InsertLive ==
  ASSUME \A r, q \in Senders : r = q, PayoutsTypeOK, OneLive,
         NEW r \in Requests, At(r, "send.insert"), NEW e \in Rows,
         e.status # "cancelled", payouts' = Append(payouts, e),
         NEW state, req' = [req EXCEPT ![r] = state], state.op # "send.insert"
  PROVE  OneLive'
<1>1. r \in Senders /\ LiveAttempts = {}
  BY DEF OneLive, At, SendOps
<1>2. /\ Len(payouts') = Len(payouts) + 1
      /\ \A k \in 1 .. Len(payouts) : payouts'[k] = payouts[k]
      /\ payouts'[Len(payouts) + 1] = e
  BY DEF PayoutsTypeOK
<1>3. LiveAttempts' \subseteq {Len(payouts) + 1}
  BY <1>1, <1>2 DEF LiveAttempts, PayoutsTypeOK
<1>4. \A i \in 1 .. Len(payouts') : payouts'[i].status # "cancelled"
  BY <1>2 DEF OneLive, PayoutsTypeOK
<1>5. \A q \in Requests :
        /\ req'[q].op \in SendOps => q \in Senders
        /\ req'[q].op # "send.insert"
  BY <1>1 DEF OneLive, PayoutsTypeOK, At, SendOps
<1> QED BY <1>3, <1>4, <1>5 DEF OneLive, At

LEMMA StepLive ==
  ASSUME \A r, q \in Senders : r = q, PayoutsTypeOK, OneLive,
         [PayoutsNext]_allPayoutVars
  PROVE  OneLive'
<1> USE DEF Idle, At, Begin, Goto, Done, payoutVars, payoutHistory, SendOps, Sending
<1>0. /\ {"pending", "queued"} \subseteq LivePayoutStatuses
      /\ {"queued", "success", "failed"} \subseteq PayoutStatuses \ {"cancelled"}
  BY DEF LivePayoutStatuses, PayoutStatuses
<1>1. ASSUME NEW r \in Requests, SendStep(r) PROVE OneLive'
  <2>1. CASE SendRead(r)  BY <2>1, QuietLive DEF SendRead, OneLive
  <2>2. CASE SendAccount(r)  BY <2>2, QuietLive DEF SendAccount, OneLive
  <2>3. CASE SendCount(r)  BY <2>3, QuietLive DEF SendCount, OneLive
  <2>4. CASE SendInsert(r)
    <3> DEFINE e == [manual |-> FALSE, status |-> "pending", number |-> req[r].number]
    <3>1. e \in Rows /\ e.status # "cancelled"
      BY <2>4, NumberType DEF SendInsert, NumberOps, Rows, PayoutStatuses
    <3> DEFINE next == [op |-> "send.transfer", id |-> Len(payouts) + 1]
    <3>2. /\ payouts' = Append(payouts, e) /\ At(r, "send.insert")
          /\ req' = [req EXCEPT ![r] = next] /\ next.op # "send.insert"
      BY <2>4 DEF SendInsert
    <3> HIDE DEF e, next
    <3> QED BY <3>1, <3>2, InsertLive
  <2>5. CASE RecordManual(r) /\ payouts' # payouts
    <3> DEFINE e == [manual |-> TRUE, status |-> "success", number |-> req[r].number]
    <3>1. e \in Rows /\ e.status # "cancelled"
      BY <2>5, NumberType DEF RecordManual, NumberOps, Rows, PayoutStatuses
    <3> DEFINE next == Idle
    <3>2. /\ payouts' = Append(payouts, e) /\ At(r, "send.insert")
          /\ req' = [req EXCEPT ![r] = next] /\ next.op # "send.insert"
      BY <2>5 DEF RecordManual
    <3> HIDE DEF e, next
    <3> QED BY <3>1, <3>2, InsertLive
  <2>6. CASE RecordManual(r) /\ payouts' = payouts
    BY <2>6, QuietLive DEF RecordManual, OneLive
  <2>7. CASE TransferAccepted(r) \/ TransferRefused(r) \/ TransferLost(r)
    BY <2>7, QuietLive DEF TransferAccepted, TransferRefused, TransferLost, OneLive
  <2>8. CASE SendRefused(r) \/ SendQueued(r)
    BY <2>8, <1>0, QuietLive, AdvanceLive DEF SendRefused, SendQueued
  <2> QED BY <1>1, <2>1, <2>2, <2>3, <2>4, <2>5, <2>6, <2>7, <2>8 DEF SendStep, SendPays
<1>2. ASSUME NEW r \in Requests, ReconcileStep(r) PROVE OneLive'
  <2>1. ASSUME NEW i \in Ids, ReconcileRead(r, i) PROVE OneLive'
    BY <2>1, QuietLive DEF ReconcileRead, OneLive
  <2>2. CASE ReconcileUndecided(r) \/ ReconcileAnswer(r)
    BY <2>2, QuietLive DEF ReconcileUndecided, ReconcileAnswer, OneLive
  <2>3. CASE ReconcileSuccess(r) \/ ReconcileFailed(r)
    BY <2>3, <1>0, QuietLive, AdvanceLive DEF ReconcileSuccess, ReconcileFailed
  <2> QED BY <1>2, <2>1, <2>2, <2>3 DEF ReconcileStep
<1>3. ASSUME NEW r \in Requests, AccountStep(r) PROVE OneLive'
  BY <1>3, QuietLive DEF AccountStep, SaveRead, SaveWrite, VerifyRead, VerifyWrite, OneLive
<1>4. ASSUME NEW r \in Requests, Die(r), UNCHANGED payoutVars PROVE OneLive'
  BY <1>4, QuietLive DEF Die, OneLive
<1>5. ASSUME NEW i \in Ids, BankMoves(i) PROVE OneLive'
  BY <1>5 DEF BankMoves, OneLive, LiveAttempts
<1>6. CASE UNCHANGED allPayoutVars
  BY <1>6 DEF allPayoutVars, OneLive, LiveAttempts
<1> QED BY <1>1, <1>2, <1>3, <1>4, <1>5, <1>6 DEF PayoutsNext, PayoutStep

(* With one press of Send at a time a deal is paid at most once, but for a *)
(* transfer whose answer was lost: retries after a refusal, requests that  *)
(* die between two writes and any number of reconciles included.           *)
THEOREM OnePressPaysOnce ==
  ASSUME \A r, q \in Senders : r = q
  PROVE  PayoutsSpec => []PaidAtMostOnce
<1> DEFINE Inv == PayoutsTypeOK /\ AnswersFollowed /\ OneLive
<1>1. PayoutsInit => OneLive
  BY DEF PayoutsInit, OneLive, LiveAttempts, Idle, At, SendOps, Sending
<1>2. PayoutsTypeOK /\ OneLive /\ [PayoutsNext]_allPayoutVars => OneLive'
  BY StepLive
<1>3. PayoutsTypeOK /\ AnswersFollowed /\ OneLive => PaidAtMostOnce
  <2> SUFFICES ASSUME PayoutsTypeOK, AnswersFollowed, OneLive, NEW i \in MoneyOut \ lost
               PROVE  i \in LiveAttempts
    BY DEF PaidAtMostOnce, OneLive
  <2>1. i \in 1 .. Len(payouts) /\ payouts[i] \in Rows
    BY DEF MoneyOut, PayoutsTypeOK
  <2>2. payouts[i].status \in PayoutStatuses \ {"failed", "cancelled"}
    BY <2>1 DEF AnswersFollowed, FailedMovedNothing, OneLive, MoneyOut, Rows
  <2> QED
    BY <2>1, <2>2 DEF LiveAttempts, LivePayoutStatuses, PayoutStatuses
<1> QED BY <1>1, <1>2, <1>3, FollowedCorrect, PTL DEF PayoutsSpec

-------------------------------------------------------------------------------
(* Payouts: operators alone *)

(* Every row was recorded by hand, under the one reference there is. *)
OneByHand ==
  /\ \A r \in Requests : req[r].op \notin IdOps
  /\ \A i \in Ids : transfer[i] = "none"
  /\ \A i, j \in 1 .. Len(payouts) : payouts[i].manual /\ i = j

LEMMA StepByHand ==
  ASSUME ~GatewayEnabled, PayoutsTypeOK, OneByHand, [PayoutsNext]_allPayoutVars
  PROVE  OneByHand'
<1> USE DEF PayoutsTypeOK, OneByHand, IdOps, Sending, Idle, At, Begin, Goto, Done, payoutVars,
            payoutHistory
<1>1. ASSUME NEW r \in Requests, SendStep(r) PROVE OneByHand'
  <2>1. CASE SendRead(r) \/ SendAccount(r) \/ SendCount(r)
    BY <2>1 DEF SendRead, SendAccount, SendCount
  <2>2. CASE RecordManual(r)
    BY <2>2 DEF RecordManual
  <2> QED
    BY <1>1, <2>1, <2>2
    DEF SendStep, SendPays, SendInsert, TransferAccepted, TransferRefused, TransferLost,
        SendRefused, SendQueued
<1>2. ASSUME NEW r \in Requests, ReconcileStep(r) PROVE OneByHand'
  BY <1>2 DEF ReconcileStep, ReconcileRead, ReconcileUndecided, ReconcileAnswer,
              ReconcileSuccess, ReconcileFailed
<1>3. ASSUME NEW r \in Requests, AccountStep(r) PROVE OneByHand'
  BY <1>3 DEF AccountStep, SaveRead, SaveWrite, VerifyRead, VerifyWrite
<1>4. ASSUME NEW r \in Requests, Die(r), UNCHANGED payoutVars PROVE OneByHand'
  BY <1>4 DEF Die
<1>5. ASSUME NEW i \in Ids, BankMoves(i) PROVE OneByHand'
  BY <1>5 DEF BankMoves
<1>6. CASE UNCHANGED allPayoutVars
  BY <1>6 DEF allPayoutVars
<1> QED BY <1>1, <1>2, <1>3, <1>4, <1>5, <1>6 DEF PayoutsNext, PayoutStep

(* While the gateway is off a deal is paid at most once, however many      *)
(* operators press Send together.                                          *)
THEOREM HandPaysOnce ==
  ASSUME ~GatewayEnabled
  PROVE  PayoutsSpec => []PaidAtMostOnce
<1>1. PayoutsInit => OneByHand
  BY DEF PayoutsInit, OneByHand, Idle, IdOps, Sending
<1>2. PayoutsTypeOK /\ OneByHand /\ [PayoutsNext]_allPayoutVars => OneByHand'
  BY StepByHand
<1>3. OneByHand => PaidAtMostOnce
  BY DEF OneByHand, PaidAtMostOnce, MoneyOut
<1> QED BY <1>1, <1>2, <1>3, PayoutsInitType, PayoutsStepType, PTL DEF PayoutsSpec


-------------------------------------------------------------------------------
(* Settlement: types *)

PressOps == {"send.account", "send.count", "send.insert"}

QueueOps == PressOps \cup IdOps

SettlementTyped == DeskTyped /\ SettlementTypeOK /\ account \in Accounts

(* What a request of the queue carries. *)
LEMMA QueueCarried ==
  ASSUME SettlementTypeOK, NEW r \in Requests
  PROVE  req[r].op \in QueueOps => req[r] \in PayoutRequests
BY DEF SettlementTypeOK, QueueOps, PressOps, IdOps, Sending, Idle, EscrowRequests,
       RefundRequests, CancelRequests, DisputeRequests

LEMMA QueueFields ==
  ASSUME SettlementTypeOK, NEW r \in Requests
  PROVE  /\ req[r].op \in PressOps => req[r].seen \in Statuses
         /\ req[r].op \in {"send.count", "send.insert"} => req[r].number \in Numbers
         /\ req[r].op \in IdOps => req[r].id \in Ids
BY QueueCarried DEF PayoutRequests, QueueOps, PressOps, IdOps, Sending

(* What a press of Send, or a reconciliation, does to the queue. *)
QueueTyped(r) ==
  /\ Slot(r, PayoutRequests)
  /\ payouts' \in Seq(Rows) /\ Len(payouts') <= MaxPayouts
  /\ transfer' \in [Ids -> TransferStates]
  /\ UNCHANGED <<row, account>>
  /\ payouts # << >> \/ payouts' = << >> \/ At(r, "send.insert")

LEMMA PressType ==
  ASSUME SettlementTyped, NEW r \in Requests, SendStep(r)
  PROVE  QueueTyped(r)
<1>1. /\ payouts \in Seq(Rows) /\ Len(payouts) \in Nat /\ Len(payouts) <= MaxPayouts
      /\ transfer \in [Ids -> TransferStates] /\ account \in Accounts
      /\ status \in Statuses /\ (payouts # << >> <=> Len(payouts) # 0)
      /\ req = [q \in Requests |-> req[q]]
  BY DEF SettlementTyped, SettlementTypeOK, DeskTyped, EndsTyped, MoneyTyped
<1> USE <1>1, AdvanceType, MaxPayoutsAssumption, QueueFields
    DEF SettlementTyped, QueueTyped, Slot, PayoutRequests, At, Begin, Goto, Done, row,
        payoutVars, payoutHistory, PressOps, IdOps, Sending
<1>2. CASE SendRead(r)  BY <1>2 DEF SendRead
<1>3. CASE SendAccount(r)  BY <1>3 DEF SendAccount, Accounts
<1>4. CASE SendCount(r)  BY <1>4 DEF SendCount
<1>5. CASE SendInsert(r)
  <2>1. [manual |-> FALSE, status |-> "pending", number |-> req[r].number] \in Rows
    BY <1>5 DEF SendInsert, Rows, PayoutStatuses
  <2>2. payouts' \in Seq(Rows) /\ Len(payouts') = Len(payouts) + 1
    BY <1>5, <2>1, InsertType DEF SendInsert
  <2> QED BY <1>5, <2>2 DEF SendInsert, Ids
<1>6. CASE RecordManual(r)
  <2>1. CASE UNCHANGED payouts  BY <1>6, <2>1 DEF RecordManual
  <2>2. CASE Len(payouts) < MaxPayouts
             /\ payouts' = Append(payouts, [manual |-> TRUE, status |-> "success",
                                            number |-> req[r].number])
    <3>1. [manual |-> TRUE, status |-> "success", number |-> req[r].number] \in Rows
      BY <1>6 DEF RecordManual, Rows, PayoutStatuses
    <3>2. payouts' \in Seq(Rows) /\ Len(payouts') = Len(payouts) + 1
      BY <2>2, <3>1, InsertType
    <3> QED BY <1>6, <2>2, <3>2 DEF RecordManual
  <2> QED BY <1>6, <2>1, <2>2 DEF RecordManual
<1>7. CASE TransferAccepted(r)  BY <1>7 DEF TransferAccepted, TransferStates
<1>8. CASE TransferRefused(r)  BY <1>8 DEF TransferRefused
<1>9. CASE TransferLost(r)  BY <1>9 DEF TransferLost, TransferStates
<1>10. ASSUME NEW to \in PayoutStatuses, Advance(req[r].id, "pending", to)
       PROVE  payouts' \in Seq(Rows) /\ Len(payouts') = Len(payouts)
                /\ (payouts # << >> \/ payouts' = << >>)
  <2>1. payouts' \in Seq(Rows) /\ Len(payouts') = Len(payouts)
    BY <1>10
  <2> QED BY <2>1
<1>11. CASE SendRefused(r)  BY <1>10, <1>11 DEF SendRefused, PayoutStatuses
<1>12. CASE SendQueued(r)  BY <1>10, <1>12 DEF SendQueued, PayoutStatuses
<1> QED
  BY <1>2, <1>3, <1>4, <1>5, <1>6, <1>7, <1>8, <1>9, <1>11, <1>12 DEF SendStep, SendPays

LEMMA AskType ==
  ASSUME SettlementTyped, NEW r \in Requests, ReconcileStep(r)
  PROVE  QueueTyped(r)
<1>1. /\ payouts \in Seq(Rows) /\ Len(payouts) \in Nat /\ Len(payouts) <= MaxPayouts
      /\ transfer \in [Ids -> TransferStates]
  BY DEF SettlementTyped, SettlementTypeOK
<1>2. ASSUME NEW to \in PayoutStatuses, Advance(req[r].id, "queued", to)
      PROVE  payouts' \in Seq(Rows) /\ Len(payouts') <= MaxPayouts
               /\ (payouts # << >> \/ payouts' = << >>)
  <2>1. payouts' \in Seq(Rows) /\ Len(payouts') = Len(payouts)
    BY <1>1, <1>2, AdvanceType
  <2> QED BY <1>1, <2>1
<1> USE <1>1, QueueFields
    DEF SettlementTyped, DeskTyped, EndsTyped, MoneyTyped, QueueTyped, Slot, PayoutRequests,
        At, Begin, Goto, Done, row, payoutVars, payoutHistory, IdOps, Sending
<1>3. ASSUME NEW i \in Ids, ReconcileRead(r, i) PROVE QueueTyped(r)
  BY <1>3 DEF ReconcileRead
<1>4. CASE ReconcileUndecided(r)  BY <1>4 DEF ReconcileUndecided
<1>5. CASE ReconcileAnswer(r)  BY <1>5 DEF ReconcileAnswer
<1>6. CASE ReconcileSuccess(r)  BY <1>2, <1>6 DEF ReconcileSuccess, PayoutStatuses
<1>7. CASE ReconcileFailed(r)  BY <1>2, <1>7 DEF ReconcileFailed, PayoutStatuses
<1> QED BY <1>3, <1>4, <1>5, <1>6, <1>7 DEF ReconcileStep

(* A step of the queue is nothing to the deal or to the desk. *)
LEMMA QueueDesk ==
  ASSUME DeskTyped, NEW r \in Requests, Slot(r, PayoutRequests),
         UNCHANGED <<row, otherVars, caseVars>>
  PROVE  DeskTyped'
<1>1. \A x \in PayoutRequests : x.op \notin RefOps \cup RefundOps \cup CancelOps \cup CaseOps
  BY DEF PayoutRequests, RefOps, RefundOps, AskOps, CancelOps, CaseOps
<1>2. Idle.op \notin RefOps \cup RefundOps \cup CancelOps \cup CaseOps
  BY DEF Idle, RefOps, RefundOps, AskOps, CancelOps, CaseOps
<1>3. /\ req' = [q \in Requests |-> req'[q]]
      /\ \A q \in Requests : req'[q] = req[q]
           \/ req'[q].op \notin RefOps \cup RefundOps \cup CancelOps \cup CaseOps
  BY <1>1, <1>2 DEF DeskTyped, EndsTyped, MoneyTyped, Slot
<1>4. MoneyTyped'
  BY <1>3 DEF DeskTyped, EndsTyped, MoneyTyped, row, otherVars, money, history
<1>5. \A q \in Requests : Carries(req'[q])
  BY <1>3 DEF DeskTyped, EndsTyped, Carries, CancelOps
<1>6. EndsTyped'
  BY <1>4, <1>5 DEF DeskTyped, EndsTyped, RefundsTypeOK, otherVars, refundVars, cancelVars
<1> QED BY <1>3, <1>6 DEF DeskTyped, caseVars

LEMMA InitSettlement == SettlementInit => SettlementTyped
<1> SUFFICES ASSUME SettlementInit PROVE SettlementTyped
  OBVIOUS
<1> USE DEF SettlementInit
<1>1. paymentRef \in Checkouts \cup {NoRef, Manual}
  <2>1. Checkouts # {} => (CHOOSE i \in Checkouts : TRUE) \in Checkouts
    OBVIOUS
  <2> QED BY <2>1
<1>2. req = [r \in Requests |-> Idle]
  OBVIOUS
<1>3. MoneyTyped
  <2>1. payment \in [Checkouts -> PaymentStates] /\ checkout \in [Checkouts -> CheckoutStates]
    BY DEF PaymentStates, CheckoutStates
  <2>2. status \in Statuses /\ escrow \in EscrowStates /\ dropped \subseteq Checkouts
    BY DEF Statuses, EscrowStates
  <2>3. handRefund \in BOOLEAN
    OBVIOUS
  <2>4. req = [r \in Requests |-> req[r]] /\ \A r \in Requests : req[r].op \notin RefOps
    BY <1>2 DEF Idle, RefOps
  <2> QED BY <1>1, <2>1, <2>2, <2>3, <2>4 DEF MoneyTyped
<1>4. /\ refunds \in Seq(RefundRows) /\ Len(refunds) = 0
      /\ cases \in Seq(CaseRows) /\ Len(cases) = 0
      /\ payouts \in Seq(Rows) /\ Len(payouts) = 0
  BY DEF RefundsInit
<1>5. RefundsTypeOK
  BY <1>4, MaxRefundsAssumption DEF RefundsInit, RefundsTypeOK, ReturnStates
<1>6. EndsTyped
  BY <1>2, <1>3, <1>5 DEF EndsTyped, Carries, Idle, AskOps, RefundOps, CancelOps
<1>7. DeskTyped
  BY <1>2, <1>4, <1>6, MaxCasesAssumption DEF DeskTyped, Idle, CaseOps
<1>8. account \in Accounts
  BY DEF Accounts
<1>9. SettlementTypeOK
  BY <1>2, <1>4, MaxPayoutsAssumption DEF SettlementTypeOK, TransferStates
<1> QED BY <1>7, <1>8, <1>9 DEF SettlementTyped

LEMMA StepSettlement ==
  ASSUME SettlementTyped, [SettlementNext]_settlementVars
  PROVE  SettlementTyped'
<1> DEFINE All == [Requests -> {Idle} \cup EscrowRequests \cup RefundRequests
                     \cup CancelRequests \cup DisputeRequests \cup PayoutRequests]
<1>1. DeskTyped /\ req \in All /\ owed \in BOOLEAN /\ afterPayout \in [CaseIds -> BOOLEAN]
  BY DEF SettlementTyped, SettlementTypeOK
<1>2. ASSUME NEW r \in Requests, DeskStep(r) PROVE SettlementTyped'
  <2>1. DeskTyped' /\ Slot(r, DisputeRequests \cup RefundRequests)
    BY <1>1, <1>2, CaseType DEF DeskStep
  <2>2. req' \in All
    BY <1>1, <2>1 DEF Slot
  <2>3. owed' \in BOOLEAN /\ afterPayout' \in [CaseIds -> BOOLEAN]
    BY <1>1, <1>2 DEF DeskStep, AlreadyPaid
  <2> HIDE DEF All
  <2>4. UNCHANGED <<payouts, transfer, account>>
    BY <1>2 DEF DeskStep, payoutVars
  <2> QED BY <2>1, <2>2, <2>3, <2>4 DEF SettlementTyped, SettlementTypeOK, All
<1>3. CASE DealStep
  <2>1. /\ DeskTyped'
        /\ req' = req \/ \E r \in Requests :
             Slot(r, EscrowRequests \cup RefundRequests \cup CancelRequests)
    BY <1>1, <1>3, DealKeepsDesk, CancellationType DEF DealStep, DeskTyped
  <2>2. req' \in All
    BY <1>1, <2>1 DEF Slot
  <2> HIDE DEF All
  <2>3. UNCHANGED <<payouts, transfer, account, owed, afterPayout>>
    BY <1>3 DEF DealStep, payoutVars
  <2> QED BY <2>1, <2>2, <2>3 DEF SettlementTyped, SettlementTypeOK, All
<1>4. ASSUME NEW r \in Requests, SendStep(r) \/ ReconcileStep(r),
             UNCHANGED <<otherVars, caseVars, owed, afterPayout>>
      PROVE  SettlementTyped'
  <2>1. QueueTyped(r)
    BY <1>4, PressType, AskType
  <2>2. DeskTyped'
    BY <1>1, <1>4, <2>1, QueueDesk DEF QueueTyped
  <2>3. req' \in All
    BY <1>1, <2>1 DEF Slot, QueueTyped
  <2> HIDE DEF All
  <2> QED BY <1>4, <2>1, <2>2, <2>3 DEF SettlementTyped, SettlementTypeOK, QueueTyped, All
<1>5. ASSUME UNCHANGED <<row, req, otherVars, caseVars, payouts, account, owed, afterPayout>>,
             transfer' \in [Ids -> TransferStates]
      PROVE  SettlementTyped'
  <2>1. EndsTyped'
    BY <1>1, <1>5, StillEnds DEF DeskTyped, cancellationVars, otherVars
  <2>2. DeskTyped'
    BY <1>1, <1>5, <2>1 DEF DeskTyped, caseVars
  <2> HIDE DEF All
  <2> QED BY <1>5, <2>2 DEF SettlementTyped, SettlementTypeOK
<1>6. ASSUME NEW i \in Ids, BankMoves(i), UNCHANGED <<otherVars, caseVars, owed, afterPayout>>
      PROVE  SettlementTyped'
  BY <1>5, <1>6 DEF BankMoves, SettlementTyped, SettlementTypeOK, TransferStates
<1>7. CASE UNCHANGED settlementVars
  BY <1>5, <1>7
  DEF settlementVars, disputeVars, otherVars, payoutVars, SettlementTyped, SettlementTypeOK
<1>8. CASE QueueStep
  BY <1>4, <1>6, <1>8 DEF QueueStep
<1> QED BY <1>2, <1>3, <1>7, <1>8 DEF SettlementNext

LEMMA SettlementCorrect == SettlementSpec => []SettlementTyped
BY InitSettlement, StepSettlement, PTL DEF SettlementSpec

(* Every variable of the queue, the desk and the deal keeps its type when  *)
(* they work on one booking, whatever the parameters.                      *)
THEOREM SettlementTypeCorrect == SettlementSpec => []SettlementTypeOK
<1>1. SettlementTyped => SettlementTypeOK
  BY DEF SettlementTyped
<1> QED BY <1>1, SettlementCorrect, PTL

-------------------------------------------------------------------------------
(* Settlement: both ends of the money *)

PaidFrom == Compensation = "paid" /\ escrow \in {"released", "refunded"} /\ ~handRefund

(* What the queue and the desk leave to each other: every checkout of the  *)
(* deal is settled, so none funds it again; a press of Send works on funds *)
(* that were released, a deal with a payout was paid from those, neither   *)
(* was returned by hand, and what was returned stays returned.             *)
PaidOut ==
  /\ \A i \in Checkouts : payment[i] = "success"
  /\ \A r \in Requests :
       /\ req[r].op \notin RefOps
       /\ req[r].op \in PressOps => PaidFrom
  /\ payouts # << >> => PaidFrom
  /\ Compensation = "paid" /\ handRefund => escrow = "refunded"

Settled == SettlementTyped /\ InTurn /\ PaidOut

(* Where a request that is none of the queue's may take the deposit.       *)
MoneyStays ==
  /\ Compensation = "paid" /\ escrow \in {"released", "refunded"}
       => escrow' \in {escrow, "refunded"}
  /\ handRefund' = handRefund \/ (escrow = "held" /\ escrow' = "refunded")
  /\ payment' = payment

LEMMA InitSettled == SettlementInit => Settled
<1> SUFFICES ASSUME SettlementInit PROVE Settled
  OBVIOUS
<1> USE DEF SettlementInit
<1>1. req = [r \in Requests |-> Idle]
  OBVIOUS
<1>2. InTurn
  BY <1>1 DEF InTurn, At, Idle
<1>3. PaidOut
  BY <1>1 DEF PaidOut, Idle, RefOps, PressOps
<1> QED BY <1>2, <1>3, InitSettlement DEF Settled

LEMMA QuietPaidOut ==
  ASSUME MoneyTyped, PaidOut, NEW r \in Requests, NEW kind, Slot(r, kind),
         \A x \in kind : x.op \notin RefOps \cup PressOps, UNCHANGED payouts, MoneyStays
  PROVE  PaidOut'
<1>1. \A q \in Requests : req'[q] = req[q] \/ req'[q].op \notin RefOps \cup PressOps
  BY DEF MoneyTyped, Slot, Idle, RefOps, PressOps
<1>2. PaidFrom => PaidFrom'
  BY DEF PaidFrom, MoneyStays
<1>3. Compensation = "paid" /\ handRefund' => escrow' = "refunded"
  BY DEF PaidOut, MoneyStays
<1>4. \A i \in Checkouts : payment'[i] = "success"
  BY DEF PaidOut, MoneyStays
<1> QED BY <1>1, <1>2, <1>3, <1>4 DEF PaidOut

(* Every checkout has its success: none is begun, and none settled again.  *)
LEMMA EscrowStays ==
  ASSUME MoneyTyped, InTurn, PaidOut, NEW r \in Requests, EscrowStep(r)
  PROVE  MoneyStays /\ req'[r].op \notin RefOps
<1> USE DEF MoneyTyped, InTurn, PaidOut, MoneyStays, At, Begin, Goto, Done, Idle, row, money,
            history, RefOps
<1>1. ~StartStep(r)
  BY DEF StartStep, PayDeposit, FreshRef, StartInsert, Initialized, NotInitialized,
         StartRefused, StartPending
<1>2. ~SettleStep(r)
  BY DEF SettleStep, SettleRead, VerifyUndecided, VerifyAnswer, SettleFail, SettleReopen,
         SettleMismatch, SettleClaim, SettleHold
<1>3. CASE OperatorStep(r)
  BY <1>3 DEF OperatorStep, FundRead, FundWrite, RecordRefundRead, RecordRefundWrite
<1>4. CASE CompleteStep(r)
  BY <1>4 DEF CompleteStep, CompleteRead, CompleteWrite
<1>5. CASE Dropped(r)
  BY <1>5 DEF Dropped, Die
<1> QED BY <1>1, <1>2, <1>3, <1>4, <1>5 DEF EscrowStep

LEMMA CaseStays ==
  ASSUME InTurn, NEW r \in Requests, CaseStep(r)
  PROVE  MoneyStays
<1>1. CASE ResolveWrite(r)
  BY <1>1 DEF ResolveWrite, EscrowAfter, InTurn, MoneyStays, otherVars, money, history
<1>2. CASE ~ResolveWrite(r)
  BY <1>2
  DEF CaseStep, MoneyStays, row, otherVars, money, history, RaiseRead, RaiseCheck,
      RaiseInsert, RaiseFreeze, RaiseAudit, RespondRead, RespondWrite, WithdrawRead,
      WithdrawFind, WithdrawClose, WithdrawResume, ResolveRead, ResolveBooking, ResolveClose
<1> QED BY <1>1, <1>2

LEMMA DeskSettled ==
  ASSUME Settled, DepositUndisturbed, NEW r \in Requests, DeskStep(r)
  PROVE  InTurn' /\ PaidOut'
<1> DEFINE kind == DisputeRequests \cup RefundRequests
<1>1. DeskTyped /\ MoneyTyped /\ InTurn
  BY DEF Settled, SettlementTyped, DeskTyped, EndsTyped
<1>2. Slot(r, kind) /\ InTurn' /\ MoneyStays
  BY <1>1, CaseType, CaseTurn, CaseStays DEF DeskStep
<1>3. \A x \in kind : x.op \notin RefOps \cup PressOps
  BY DEF DisputeRequests, RefundRequests, RefOps, PressOps
<1>4. UNCHANGED payouts
  BY DEF DeskStep, payoutVars
<1> HIDE DEF kind
<1> QED BY <1>1, <1>2, <1>3, <1>4, QuietPaidOut DEF Settled

LEMMA DealSettled ==
  ASSUME Settled, DepositUndisturbed, DealStep
  PROVE  InTurn' /\ PaidOut'
<1>1. /\ EndsTyped /\ MoneyTyped /\ InTurn /\ PaidOut /\ CancellationNext
      /\ UNCHANGED <<caseVars, payouts>>
  BY DEF DealStep, Settled, SettlementTyped, DeskTyped, EndsTyped, payoutVars
<1>2. InTurn'
  BY <1>1, DealTurn
<1>3. ASSUME NEW r \in Requests, EscrowStep(r), UNCHANGED <<refundVars, cancelVars>>
      PROVE  PaidOut'
  <2> DEFINE kind == {x \in EscrowRequests : x.op \notin RefOps}
  <2>1. MoneyStays /\ Slot(r, kind)
    BY <1>1, <1>3, EscrowStays, EscrowEnds DEF Slot, Idle, RefOps
  <2>2. \A x \in kind : x.op \notin RefOps \cup PressOps
    BY DEF EscrowRequests, PressOps
  <2> HIDE DEF kind
  <2> QED BY <1>1, <2>1, <2>2, QuietPaidOut
<1>4. ASSUME NEW r \in Requests, RefundStep(r), UNCHANGED cancelVars PROVE PaidOut'
  <2>1. MoneyStays /\ Slot(r, RefundRequests)
    BY <1>1, <1>4, RefundRow, RefundType DEF MoneyStays, money, history
  <2>2. \A x \in RefundRequests : x.op \notin RefOps \cup PressOps
    BY DEF RefundRequests, RefOps, PressOps
  <2> QED BY <1>1, <2>1, <2>2, QuietPaidOut
<1>5. ASSUME NEW r \in Requests, CancelStep(r) PROVE PaidOut'
  <2> DEFINE kind == CancelRequests \cup RefundRequests
  <2>1. MoneyStays /\ Slot(r, kind)
    BY <1>1, <1>5, CancelShape, CancelType DEF MoneyStays, money, history
  <2>2. \A x \in kind : x.op \notin RefOps \cup PressOps
    BY DEF CancelRequests, RefundRequests, RefOps, PressOps
  <2> HIDE DEF kind
  <2> QED BY <1>1, <2>1, <2>2, QuietPaidOut
<1>6. ASSUME UNCHANGED <<req, escrow, handRefund, payment>> PROVE PaidOut'
  BY <1>1, <1>6 DEF PaidOut, PaidFrom
<1>7. /\ \A i \in Checkouts : PayerActs(i) => UNCHANGED <<req, escrow, handRefund, payment>>
      /\ \A i \in RefundIds : ReturnMoves(i) => UNCHANGED <<req, escrow, handRefund, payment>>
      /\ DealAdvances => UNCHANGED <<req, escrow, handRefund, payment>>
  BY DEF PayerActs, ReturnMoves, DealAdvances, MovesTo, row, money, history
<1>8. PaidOut'
  BY <1>1, <1>3, <1>4, <1>5, <1>6, <1>7 DEF CancellationNext
<1> QED BY <1>2, <1>8

(* A press of Send begins on released funds, and its row is the first.     *)
LEMMA PressPaid ==
  ASSUME MoneyTyped, PaidOut, NEW r \in Requests, SendStep(r) \/ ReconcileStep(r)
  PROVE  req'[r].op \in PressOps => PaidFrom
<1> USE DEF MoneyTyped, PaidOut, PaidFrom, At, Begin, Goto, Done, Idle, PressOps
<1>1. CASE SendRead(r)  BY <1>1 DEF SendRead
<1>2. CASE SendAccount(r)  BY <1>2 DEF SendAccount
<1>3. CASE SendCount(r)  BY <1>3 DEF SendCount
<1>4. CASE SendPays(r)  BY <1>4 DEF SendPays, SendInsert, RecordManual
<1>5. CASE \/ TransferAccepted(r) \/ TransferRefused(r) \/ TransferLost(r)
           \/ SendRefused(r) \/ SendQueued(r)
  BY <1>5 DEF TransferAccepted, TransferRefused, TransferLost, SendRefused, SendQueued
<1>6. CASE ReconcileStep(r)
  BY <1>6 DEF ReconcileStep, ReconcileRead, ReconcileUndecided, ReconcileAnswer,
              ReconcileSuccess, ReconcileFailed
<1> QED BY <1>1, <1>2, <1>3, <1>4, <1>5, <1>6 DEF SendStep

LEMMA QueueSettled ==
  ASSUME Settled, QueueStep
  PROVE  InTurn' /\ PaidOut'
<1>1. /\ SettlementTyped /\ MoneyTyped /\ InTurn /\ PaidOut /\ UNCHANGED otherVars
  BY DEF QueueStep, Settled, SettlementTyped, DeskTyped, EndsTyped
<1>2. UNCHANGED <<handRefund, payment>>
  BY <1>1 DEF otherVars, money, history
<1>3. ASSUME NEW r \in Requests, SendStep(r) \/ ReconcileStep(r) PROVE InTurn' /\ PaidOut'
  <2>1. QueueTyped(r) /\ (req'[r].op \in PressOps => PaidFrom)
    BY <1>1, <1>3, PressType, AskType, PressPaid
  <2>2. \A q \in Requests : q # r => req'[q] = req[q]
    BY <1>1, <2>1 DEF QueueTyped, Slot, MoneyTyped
  <2>3. /\ req'[r].op \notin RefOps
        /\ req'[r].op \notin {"resolve.write", "complete.write"}
    BY <2>1 DEF QueueTyped, Slot, Idle, PayoutRequests, RefOps
  <2>4. escrow' = escrow /\ (PaidFrom <=> PaidFrom')
    BY <1>2, <2>1 DEF QueueTyped, row, PaidFrom
  <2>5. payouts' # << >> => PaidFrom
    BY <1>1, <2>1 DEF QueueTyped, PaidOut, At, PressOps
  <2>6. PaidOut'
    BY <1>1, <1>2, <2>1, <2>2, <2>3, <2>4, <2>5 DEF PaidOut
  <2> QED BY <1>1, <2>2, <2>3, <2>4, <2>6 DEF InTurn, At
<1>4. ASSUME NEW i \in Ids, BankMoves(i) PROVE InTurn' /\ PaidOut'
  BY <1>1, <1>2, <1>4 DEF BankMoves, InTurn, PaidOut, PaidFrom, At, row
<1> QED BY <1>3, <1>4 DEF QueueStep

LEMMA SettledCorrect ==
  SettlementSpec /\ [][DepositUndisturbed]_settlementVars => []Settled
<1>1. UNCHANGED settlementVars /\ Settled => InTurn' /\ PaidOut'
  BY DEF settlementVars, disputeVars, otherVars, money, history, row, payoutVars, Settled,
         InTurn, PaidOut, PaidFrom, At
<1>2. Settled /\ [SettlementNext]_settlementVars /\ [DepositUndisturbed]_settlementVars
        => InTurn' /\ PaidOut'
  BY <1>1, DeskSettled, DealSettled, QueueSettled DEF SettlementNext
<1>3. Settled /\ [SettlementNext]_settlementVars /\ [DepositUndisturbed]_settlementVars
        => Settled'
  BY <1>2, StepSettlement DEF Settled
<1> QED BY <1>3, InitSettled, PTL DEF SettlementSpec

(* The queue pays from released funds only, and nothing that is argued or  *)
(* decided afterwards takes the release back, whether Chapa or an operator *)
(* moves the money.  A decision and a completion find the funds as they    *)
(* read them; otherwise presses, cases, refunds and cancellations          *)
(* interleave and die as they like.                                        *)
THEOREM PaysFromReleased ==
  SettlementSpec /\ [][DepositUndisturbed]_settlementVars => []PaidWasReleased
<1>1. Settled => PaidWasReleased
  BY DEF Settled, PaidOut, PaidFrom, PaidWasReleased
<1> QED BY <1>1, SettledCorrect, PTL

(* Then operators never record both a payout to the creator and a return   *)
(* of the deposit to the brand.                                            *)
THEOREM PaysOneSide ==
  SettlementSpec /\ [][DepositUndisturbed]_settlementVars => []NotPaidBothWays
<1>1. Settled => NotPaidBothWays
  <2> SUFFICES ASSUME Settled, handRefund PROVE MoneyOut = {}
    BY DEF NotPaidBothWays
  <2>1. payouts = << >>
    BY DEF Settled, PaidOut, PaidFrom
  <2> QED BY <2>1 DEF MoneyOut
<1> QED BY <1>1, SettledCorrect, PTL
===============================================================================
