------------------------------- MODULE Disputes --------------------------------
(***************************************************************************)
(* Arguing about a deal: lib/server/disputes.ts, the raise, respond and    *)
(* withdraw handlers of the booking page, and the operator's decision on   *)
(* /dashboard/admin/disputes.  A case freezes the deal by moving it to     *)
(* `disputed`; withdrawing it puts the deal back to the state the audit    *)
(* log says it was frozen from; a decision ends the deal, and asks         *)
(* Refunds for the brand's share.  It runs beside everything that moves    *)
(* the same deal in Escrow and Cancellation.                               *)
(***************************************************************************)
EXTENDS Cancellation

CONSTANTS
  WindowDays,  \* dispute_window_days: 0 makes completion final
  MaxCases     \* bound on the cases ever raised on the deal

ASSUME WindowAssumption == WindowDays \in Nat
ASSUME MaxCasesAssumption == MaxCases \in Nat

VARIABLES
  cases,      \* the disputes rows of the booking, by id
  auditFrom,  \* from_state of the newest dispute_raised audit entry
  frozenAt    \* history: the state the deal really was in when it was frozen

NoState == "none"

NoRequest == "none"

ASSUME NoRequestAssumption == NoRequest \notin Requests

caseVars == <<cases, auditFrom, frozenAt>>
disputeVars == <<row, req, money, refundVars, cancelVars, caseVars>>
otherVars == <<money, refundVars, cancelVars>>

CaseIds == 1 .. MaxCases

(* answer: which request's text stands as the other side's answer. *)
CaseRows ==
  [status : {"open", "resolved", "withdrawn"}, side : Parties,
   answer : Requests \cup {NoRequest}]

DisputeRequests ==
  [op : {"raise.check", "raise.insert", "raise.freeze", "raise.audit"},
   side : Parties, seen : Statuses]
    \cup [op : {"respond.write", "withdraw.find", "resolve.booking"}, id : CaseIds]
    \cup [op : {"withdraw.close", "withdraw.resume"}, id : CaseIds, to : Statuses]
    \cup [op : {"resolve.write"}, id : CaseIds, resolution : Resolutions,
          escrow : EscrowStates]
    \cup [op : {"resolve.close"}, id : CaseIds, resolution : Resolutions]

DisputesInit ==
  /\ CancellationInit
  /\ cases = << >>
  /\ auditFrom = NoState
  /\ frozenAt = NoState

OpenCases == {d \in 1 .. Len(cases) : cases[d].status = "open"}

-------------------------------------------------------------------------------
(* raiseDispute *)

(* disputeProblem; whether the window of a completed deal has closed is    *)
(* the clock's business, so it may refuse at any time.                     *)
Disputable ==
  \/ status \in DisputableStatuses
  \/ status = "completed" /\ WindowDays > 0

RaiseRead(r, side) ==
  /\ Disputable
  /\ Len(cases) < MaxCases
  /\ Begin(r, [op |-> "raise.check", side |-> side, seen |-> status])
  /\ UNCHANGED <<row, otherVars, caseVars>>

RaiseCheck(r) ==
  /\ At(r, "raise.check")
  /\ \/ OpenCases = {} /\ Goto(r, [req[r] EXCEPT !.op = "raise.insert"])
     \/ OpenCases # {} /\ Done(r)
  /\ UNCHANGED <<row, otherVars, caseVars>>

RaiseInsert(r) ==
  /\ At(r, "raise.insert")
  /\ Len(cases) < MaxCases
  /\ cases' = Append(cases, [status |-> "open", side |-> req[r].side,
                             answer |-> NoRequest])
  /\ Goto(r, [req[r] EXCEPT !.op = "raise.freeze"])
  /\ UNCHANGED <<row, otherVars, auditFrom, frozenAt>>

(* By id alone: the deal freezes from whatever state it has reached. *)
RaiseFreeze(r) ==
  /\ At(r, "raise.freeze")
  /\ status' = "disputed"
  /\ frozenAt' = status
  /\ Goto(r, [req[r] EXCEPT !.op = "raise.audit"])
  /\ UNCHANGED <<escrow, otherVars, cases, auditFrom>>

(* The audit entry names the state the request read at its start. *)
RaiseAudit(r) ==
  /\ At(r, "raise.audit")
  /\ auditFrom' = req[r].seen
  /\ Done(r)
  /\ UNCHANGED <<row, otherVars, cases, frozenAt>>

-------------------------------------------------------------------------------
(* respondDispute *)

RespondRead(r, side, d) ==
  /\ d \in OpenCases
  /\ cases[d].side # side
  /\ cases[d].answer = NoRequest
  /\ Begin(r, [op |-> "respond.write", id |-> d])
  /\ UNCHANGED <<row, otherVars, caseVars>>

RespondWrite(r) ==
  /\ At(r, "respond.write")
  /\ cases' = [cases EXCEPT ![req[r].id].answer = r]
  /\ Done(r)
  /\ UNCHANGED <<row, otherVars, auditFrom, frozenAt>>

-------------------------------------------------------------------------------
(* withdrawDispute *)

WithdrawRead(r, side, d) ==
  /\ d \in OpenCases
  /\ cases[d].side = side
  /\ Begin(r, [op |-> "withdraw.find", id |-> d])
  /\ UNCHANGED <<row, otherVars, caseVars>>

(* A slip: the audit log is not read. *)
BugStatusBeforeDispute == "booked"

(* statusBeforeDispute, with `booked` for an entry it cannot use. *)
StatusBeforeDispute ==
  IF auditFrom # NoState /\ CanTransition(auditFrom, "disputed")
    THEN auditFrom
    ELSE "booked"

WithdrawFind(r) ==
  /\ At(r, "withdraw.find")
  /\ Goto(r, [op |-> "withdraw.close", id |-> req[r].id, to |-> StatusBeforeDispute])
  /\ UNCHANGED <<row, otherVars, caseVars>>

(* A slip: a status the column does not have. *)
BugCloseCase(d, as) == cases' = [cases EXCEPT ![d].status = "closed"]

CloseCase(d, as) ==
  cases' = [cases EXCEPT ![d].status = IF @ = "open" THEN as ELSE @]

(* A slip: the case is closed and the deal stays frozen. *)
BugWithdrawClose(r) ==
  /\ At(r, "withdraw.close")
  /\ CloseCase(req[r].id, "withdrawn")
  /\ Done(r)
  /\ UNCHANGED <<row, otherVars, auditFrom, frozenAt>>

WithdrawClose(r) ==
  /\ At(r, "withdraw.close")
  /\ CloseCase(req[r].id, "withdrawn")
  /\ Goto(r, [req[r] EXCEPT !.op = "withdraw.resume"])
  /\ UNCHANGED <<row, otherVars, auditFrom, frozenAt>>

WithdrawResume(r) ==
  /\ At(r, "withdraw.resume")
  /\ status' = IF status = "disputed" THEN req[r].to ELSE status
  /\ Done(r)
  /\ UNCHANGED <<escrow, otherVars, caseVars>>

-------------------------------------------------------------------------------
(* resolve *)

(* The case must be open; the state of the booking is not asked. *)
ResolveRead(r, d) ==
  /\ d \in OpenCases
  /\ Begin(r, [op |-> "resolve.booking", id |-> d])
  /\ UNCHANGED <<row, otherVars, caseVars>>

ResolveBooking(r) ==
  /\ At(r, "resolve.booking")
  /\ \E resolution \in Resolutions :
        Goto(r, [op |-> "resolve.write", id |-> req[r].id,
                 resolution |-> resolution, escrow |-> escrow])
  /\ UNCHANGED <<row, otherVars, caseVars>>

(* A slip: the outcome is written over whatever was read. *)
BugEscrowAfter(resolution, seen) == ResolutionOutcome(resolution).escrow

(* A slip: funds that are not released fall back to the column's default.  *)
BugEscrowAfterDefault(resolution, seen) ==
  IF ResolutionOutcome(resolution).escrow = "released" /\ seen = "held"
    THEN "released"
    ELSE "unfunded"

(* Released only over funds read as held; otherwise what was read is       *)
(* written back.  By id alone.                                             *)
EscrowAfter(resolution, seen) ==
  IF ResolutionOutcome(resolution).escrow = "released" /\ seen = "held"
    THEN "released"
    ELSE seen

ResolveWrite(r) ==
  /\ At(r, "resolve.write")
  /\ status' = ResolutionOutcome(req[r].resolution).status
  /\ escrow' = EscrowAfter(req[r].resolution, req[r].escrow)
  /\ Goto(r, [op |-> "resolve.close", id |-> req[r].id,
              resolution |-> req[r].resolution])
  /\ UNCHANGED <<otherVars, caseVars>>

(* Then the brand's share is asked for, in whole or in part. *)
ResolveClose(r) ==
  /\ At(r, "resolve.close")
  /\ CloseCase(req[r].id, "resolved")
  /\ IF req[r].resolution = "released"
       THEN Done(r)
       ELSE SendRefund(r, req[r].resolution = "refunded")
  /\ UNCHANGED <<row, otherVars, auditFrom, frozenAt>>

-------------------------------------------------------------------------------
CaseStep(r) ==
  \/ \E side \in Parties : RaiseRead(r, side)
  \/ RaiseCheck(r) \/ RaiseInsert(r) \/ RaiseFreeze(r) \/ RaiseAudit(r)
  \/ \E side \in Parties, d \in CaseIds :
       RespondRead(r, side, d) \/ WithdrawRead(r, side, d)
  \/ RespondWrite(r)
  \/ WithdrawFind(r) \/ WithdrawClose(r) \/ WithdrawResume(r)
  \/ \E d \in CaseIds : ResolveRead(r, d)
  \/ ResolveBooking(r) \/ ResolveWrite(r) \/ ResolveClose(r)

DisputesNext ==
  \/ CancellationNext /\ UNCHANGED caseVars
  \/ \E r \in Requests : CaseStep(r)

DisputesSpec == DisputesInit /\ [][DisputesNext]_disputeVars

(* A request runs to its answer, and operators keep doing what the handlers *)
(* let them do about money: record funds and returns, ask Chapa again.     *)
Continues(r) ==
  /\ req[r] # Idle
  /\ \/ EscrowStep(r) /\ UNCHANGED <<refundVars, cancelVars, caseVars>>
     \/ RefundStep(r) /\ UNCHANGED <<cancelVars, caseVars>>
     \/ CancelStep(r) /\ UNCHANGED caseVars
     \/ CaseStep(r)

OperatorFairness ==
  \A r \in Requests :
    /\ WF_disputeVars(Continues(r))
    /\ SF_disputeVars(FundRead(r) /\ UNCHANGED <<refundVars, cancelVars, caseVars>>)
    /\ SF_disputeVars(RecordRefundRead(r)
                        /\ UNCHANGED <<refundVars, cancelVars, caseVars>>)
    /\ SF_disputeVars((\E i \in RefundIds : RefundReconcileRead(r, i))
                        /\ UNCHANGED <<cancelVars, caseVars>>)

-------------------------------------------------------------------------------
(* Properties *)

(* Every variable keeps its type: the row with its request to cancel, the  *)
(* rows of refunds and disputes, and what the requests carry.              *)
DisputesTypeOK ==
  /\ status \in Statuses /\ escrow \in EscrowStates
  /\ cancelSide \in Parties \cup {Nobody} /\ asked \subseteq Parties
  /\ RefundsTypeOK
  /\ req \in [Requests -> {Idle} \cup EscrowRequests \cup RefundRequests
                            \cup CancelRequests \cup DisputeRequests]
  /\ cases \in Seq(CaseRows) /\ Len(cases) <= MaxCases
  /\ auditFrom \in Statuses \cup {NoState}
  /\ frozenAt \in Statuses \cup {NoState}

AllIdle == \A r \in Requests : req[r] = Idle

(* What keeps requests that act by id on what they read out of each        *)
(* other's way.  Nothing in the code does: a property that needs one of    *)
(* these says so, and fails without it.                                    *)
Waits(r, ops) == req[r].op \in ops /\ req'[r] = req[r]

CaseOps ==
  {"raise.check", "raise.insert", "raise.freeze", "raise.audit", "respond.write",
   "withdraw.find", "withdraw.close", "withdraw.resume",
   "resolve.booking", "resolve.write", "resolve.close"}

(* The cases of the deal are worked on by one request at a time.           *)
CasesInTurn ==
  \A r, q \in Requests : req[r].op \in CaseOps /\ req[q].op \in CaseOps => r = q

(* Nothing moves the deal between a raise's read and its freeze.           *)
RaiseUndisturbed ==
  (\E r \in Requests : Waits(r, {"raise.check", "raise.insert", "raise.freeze"}))
    => status' = status

(* Nothing moves the funds between the read and the write of a decision,   *)
(* or of a completion.                                                     *)
DepositUndisturbed ==
  (\E r \in Requests : Waits(r, {"resolve.write", "complete.write"}))
    => escrow' = escrow

(* "There is only ever one" open case on a booking (openFor). *)
OneOpenCase == \A d, e \in OpenCases : d = e

(* A frozen deal always has the open case that froze it, so somebody can   *)
(* withdraw or decide it: no order of legal calls leaves it `disputed`     *)
(* with nothing to decide.                                                 *)
FrozenHasCase == AllIdle /\ status = "disputed" => OpenCases # {}

(* "The booking returns to where it was": withdrawing a case puts the deal *)
(* back to the very state it was frozen from.                              *)
ResumesWhereItWas ==
  [][ status = "disputed"
        /\ (\E r \in Requests : At(r, "withdraw.resume") /\ req'[r] = Idle)
      => status' = frozenAt ]_disputeVars

(* A paid deal is completed over money that came in, recorded by hand or   *)
(* paid at the very checkout the booking names, whatever failed, reopened, *)
(* was disputed and resumed since the press read it.  Only an operator's   *)
(* decision completes one without.                                         *)
DecisionMade ==
  \/ \E d \in 1 .. Len(cases) : cases[d].status = "resolved"
  \/ \E r \in Requests : At(r, "resolve.close")

CompletedWasPaidFor ==
  Compensation = "paid" /\ status = "completed" =>
    \/ escrow \in Deposited /\ HeldIsBacked
    \/ DecisionMade

(* "A paid booking cannot complete until its deposit is recorded" (README, *)
(* The lifecycle), whoever completes it.                                   *)
CompletionNeedsCompensation ==
  Compensation = "paid" /\ status = "completed" => escrow \in Deposited

(* Held funds leave escrow only to the creator or back to the brand: no    *)
(* late answer of Chapa, second checkout, case or decision overwrites      *)
(* them, but for a decision that read the booking before its deposit came. *)
HeldIsNotForgotten ==
  [][ escrow = "held" /\ escrow' \notin Deposited
        => \E r \in Requests :
             At(r, "resolve.write") /\ req[r].escrow \notin Deposited /\ req'[r] # req[r]
    ]_disputeVars

(* "Only for money that is actually there" (resolve), without exception.   *)
HeldStaysDeposited == [][ escrow = "held" => escrow' \in Deposited ]_disputeVars

(* `released` "is written only over funds that were `held`" (resolve).     *)
ReleasedOnlyHeld ==
  [][ Compensation = "paid" /\ escrow # "released" /\ escrow' = "released"
        => escrow = "held" ]_disputeVars

(* The lifecycle declares no state after `cancelled`, and "anything absent *)
(* is rejected server-side" (domain/booking.ts).                           *)
CancelledIsFinal == [][ status = "cancelled" => status' = "cancelled" ]_disputeVars

(* "The other side's one written answer" (respond), fixed when it is said. *)
AnswerIsFixed ==
  [][ \A d \in 1 .. Len(cases) :
        cases[d].answer # NoRequest => cases'[d].answer = cases[d].answer ]_disputeVars

(* "An operator sees the failed row and retries it" (README, Getting out   *)
(* of a deal): a refund that failed is followed by another attempt, or by  *)
(* a return made by hand.                                                  *)
FailedIsRetried ==
  \A i \in RefundIds :
    (i \in 1 .. Len(refunds) /\ refunds[i].status = "failed")
      ~> (LiveRefunds # {} \/ escrow = "refunded")
===============================================================================
