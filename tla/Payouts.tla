-------------------------------- MODULE Payouts --------------------------------
(***************************************************************************)
(* Paying the creator of one completed deal: lib/server/payouts.ts, the    *)
(* operator's actions on /dashboard/admin/payouts and the creator's bank   *)
(* details on /dashboard/payouts.                                          *)
(*                                                                         *)
(* With the gateway on an operator's press runs send: check, insert a      *)
(* pending row, ask Chapa, mark it queued; reconcile, from the webhook or  *)
(* the operator, later records what Chapa says.  With it off the press     *)
(* runs recordManual, which inserts one row under a fixed reference.       *)
(***************************************************************************)
EXTENDS BookingRow, Sequences

CONSTANTS
  Senders,      \* the requests that may be an operator's press of Send
  Numbers,      \* bank account numbers the creator may type
  MaxPayouts    \* bound on the payout rows of the deal

ASSUME SendersAssumption == Senders \subseteq Requests
ASSUME MaxPayoutsAssumption == MaxPayouts \in Nat

VARIABLES
  payouts,    \* the payouts rows of the booking, by id
  transfer,   \* the transfer of each row at Chapa
  account,    \* payout_accounts of the creator
  confirmed,  \* history: every number that stood in a row marked verified
  lost        \* history: the rows whose transfer Chapa took without an answer

payoutHistory == <<confirmed, lost>>
payoutVars == <<payouts, transfer, account, payoutHistory>>
allPayoutVars == <<row, req, payoutVars>>

NoNumber == "none"

ASSUME NumbersAssumption == NoNumber \notin Numbers

Ids == 1 .. MaxPayouts

Accounts == [number : Numbers \cup {NoNumber}, verified : BOOLEAN]

(* manual: the fixed reference `-PO-MANUAL` instead of a random one. *)
Rows == [manual : BOOLEAN, status : PayoutStatuses, number : Numbers]

TransferStates == {"none", "accepted", "paid", "failed"}

PayoutRequests ==
  [op : {"send.account"}, seen : Statuses]
    \cup [op : {"send.count", "send.insert"}, seen : Statuses, number : Numbers]
    \cup [op : {"send.transfer", "send.refused", "send.queued",
                "reconcile.verify", "reconcile.success", "reconcile.failed"},
          id : Ids]
    \cup [op : {"verify.write"}, number : Numbers]
    \cup [op : {"save.write"}, number : Numbers, existing : BOOLEAN]

PayoutsInit ==
  /\ status = "completed"
  /\ escrow = "released"
  /\ req = [r \in Requests |-> Idle]
  /\ payouts = << >>
  /\ transfer = [i \in Ids |-> "none"]
  /\ account = [number |-> NoNumber, verified |-> FALSE]
  /\ confirmed = {}
  /\ lost = {}

-------------------------------------------------------------------------------
(* send and recordManual *)

(* A slip: the press does not ask whether the funds were released. *)
BugSendRead(r) ==
  /\ r \in Senders
  /\ Compensation = "paid"
  /\ Begin(r, [op |-> "send.account", seen |-> status])
  /\ UNCHANGED <<row, payoutVars>>

(* The booking is read; payoutProblem wants it paid and released, and does *)
(* not ask for its status.                                                 *)
SendRead(r) ==
  /\ r \in Senders
  /\ Compensation = "paid"
  /\ escrow = "released"
  /\ Begin(r, [op |-> "send.account", seen |-> status])
  /\ UNCHANGED <<row, payoutVars>>

(* accountFor: without an account, or an unverified one, nothing is sent. *)
SendAccount(r) ==
  /\ At(r, "send.account")
  /\ \/ /\ account.number # NoNumber
        /\ account.verified
        /\ Goto(r, [op |-> "send.count", seen |-> req[r].seen,
                    number |-> account.number])
     \/ /\ ~(account.number # NoNumber /\ account.verified)
        /\ Done(r)
  /\ UNCHANGED <<row, payoutVars>>

LiveAttempts == {i \in 1 .. Len(payouts) : payouts[i].status \in LivePayoutStatuses}

SendCount(r) ==
  /\ At(r, "send.count")
  /\ \/ /\ LiveAttempts = {}
        /\ Goto(r, [op |-> "send.insert", seen |-> req[r].seen,
                    number |-> req[r].number])
     \/ /\ LiveAttempts # {}
        /\ Done(r)
  /\ UNCHANGED <<row, payoutVars>>

(* A slip: the row freezes the account as it stands at the insert. *)
BugSendInsert(r) ==
  /\ At(r, "send.insert")
  /\ GatewayEnabled
  /\ Len(payouts) < MaxPayouts
  /\ payouts' = Append(payouts, [manual |-> FALSE, status |-> "pending",
                                 number |-> account.number])
  /\ Goto(r, [op |-> "send.transfer", id |-> Len(payouts) + 1])
  /\ UNCHANGED <<row, transfer, account, payoutHistory>>

(* A row under a fresh reference, before Chapa is asked. *)
SendInsert(r) ==
  /\ At(r, "send.insert")
  /\ GatewayEnabled
  /\ Len(payouts) < MaxPayouts
  /\ payouts' = Append(payouts, [manual |-> FALSE, status |-> "pending",
                                 number |-> req[r].number])
  /\ Goto(r, [op |-> "send.transfer", id |-> Len(payouts) + 1])
  /\ UNCHANGED <<row, transfer, account, payoutHistory>>

(* recordManual: the unique index refuses a second row of this reference. *)
RecordManual(r) ==
  /\ At(r, "send.insert")
  /\ ~GatewayEnabled
  /\ \/ /\ \A i \in 1 .. Len(payouts) : ~payouts[i].manual
        /\ Len(payouts) < MaxPayouts
        /\ payouts' = Append(payouts, [manual |-> TRUE, status |-> "success",
                                       number |-> req[r].number])
     \/ /\ \E i \in 1 .. Len(payouts) : payouts[i].manual
        /\ UNCHANGED payouts
  /\ Done(r)
  /\ UNCHANGED <<row, transfer, account, payoutHistory>>

(* The button of the queue: through Chapa, or what a person paid is recorded. *)
SendPays(r) == IF GatewayEnabled THEN SendInsert(r) ELSE RecordManual(r)

TransferAccepted(r) ==
  /\ At(r, "send.transfer")
  /\ transfer' = [transfer EXCEPT ![req[r].id] = "accepted"]
  /\ Goto(r, [op |-> "send.queued", id |-> req[r].id])
  /\ UNCHANGED <<row, payouts, account, payoutHistory>>

TransferRefused(r) ==
  /\ At(r, "send.transfer")
  /\ Goto(r, [op |-> "send.refused", id |-> req[r].id])
  /\ UNCHANGED <<row, payoutVars>>

(* Chapa took the instruction and its answer never came: call() reports a  *)
(* timeout and a dropped connection the way it reports a refusal.          *)
TransferLost(r) ==
  /\ MayLose
  /\ At(r, "send.transfer")
  /\ transfer' = [transfer EXCEPT ![req[r].id] = "accepted"]
  /\ lost' = lost \cup {req[r].id}
  /\ Goto(r, [op |-> "send.refused", id |-> req[r].id])
  /\ UNCHANGED <<row, payouts, account, confirmed>>

(* Every later write tests the status it expects the row to have. *)
Advance(i, from, to) ==
  payouts' = [payouts EXCEPT ![i].status = IF @ = from THEN to ELSE @]

SendRefused(r) ==
  /\ At(r, "send.refused")
  /\ Advance(req[r].id, "pending", "failed")
  /\ Done(r)
  /\ UNCHANGED <<row, transfer, account, payoutHistory>>

SendQueued(r) ==
  /\ At(r, "send.queued")
  /\ Advance(req[r].id, "pending", "queued")
  /\ Done(r)
  /\ UNCHANGED <<row, transfer, account, payoutHistory>>

-------------------------------------------------------------------------------
(* Chapa, and reconcile *)

BankMoves(i) ==
  /\ transfer[i] = "accepted"
  /\ \E s \in {"paid", "failed"} : transfer' = [transfer EXCEPT ![i] = s]
  /\ UNCHANGED <<row, req, payouts, account, payoutHistory>>

ReconcileRead(r, i) ==
  /\ GatewayEnabled
  /\ i \in 1 .. Len(payouts)
  /\ payouts[i].status # "success"
  /\ Begin(r, [op |-> "reconcile.verify", id |-> i])
  /\ UNCHANGED <<row, payoutVars>>

(* Unreachable, unknown to Chapa or still on its way: nothing is decided. *)
ReconcileUndecided(r) ==
  /\ At(r, "reconcile.verify")
  /\ Done(r)
  /\ UNCHANGED <<row, payoutVars>>

(* A slip: a transfer still on its way reads as one that failed. *)
BugReconcileAnswer(r) ==
  /\ At(r, "reconcile.verify")
  /\ LET answer == IF transfer[req[r].id] = "paid" THEN "reconcile.success"
                                                  ELSE "reconcile.failed"
     IN Goto(r, [op |-> answer, id |-> req[r].id])
  /\ UNCHANGED <<row, payoutVars>>

ReconcileAnswer(r) ==
  /\ At(r, "reconcile.verify")
  /\ \/ /\ transfer[req[r].id] = "paid"
        /\ Goto(r, [op |-> "reconcile.success", id |-> req[r].id])
     \/ /\ transfer[req[r].id] = "failed"
        /\ Goto(r, [op |-> "reconcile.failed", id |-> req[r].id])
  /\ UNCHANGED <<row, payoutVars>>

(* A slip: success is written only over a pending row. *)
BugReconcileSuccess(r) ==
  /\ At(r, "reconcile.success")
  /\ Advance(req[r].id, "pending", "success")
  /\ Done(r)
  /\ UNCHANGED <<row, transfer, account, payoutHistory>>

ReconcileSuccess(r) ==
  /\ At(r, "reconcile.success")
  /\ Advance(req[r].id, "queued", "success")
  /\ Done(r)
  /\ UNCHANGED <<row, transfer, account, payoutHistory>>

ReconcileFailed(r) ==
  /\ At(r, "reconcile.failed")
  /\ Advance(req[r].id, "queued", "failed")
  /\ Done(r)
  /\ UNCHANGED <<row, transfer, account, payoutHistory>>

-------------------------------------------------------------------------------
(* the creator's bank details *)

(* saveAccount reads whether there is a row, then updates it or inserts    *)
(* one; the unique index on the creator refuses a second insert.           *)
SaveRead(r, n) ==
  /\ Begin(r, [op |-> "save.write", number |-> n,
               existing |-> account.number # NoNumber])
  /\ UNCHANGED <<row, payoutVars>>

SaveWrite(r) ==
  /\ At(r, "save.write")
  /\ \/ /\ req[r].existing \/ account.number = NoNumber
        /\ account' = [number |-> req[r].number, verified |-> FALSE]
     \/ /\ ~req[r].existing
        /\ account.number # NoNumber
        /\ UNCHANGED account
  /\ Done(r)
  /\ UNCHANGED <<row, payouts, transfer, payoutHistory>>

(* An operator reads the number on the page, then posts the id of the row. *)
VerifyRead(r) ==
  /\ account.number # NoNumber
  /\ Begin(r, [op |-> "verify.write", number |-> account.number])
  /\ UNCHANGED <<row, payoutVars>>

VerifyWrite(r) ==
  /\ At(r, "verify.write")
  /\ \E v \in BOOLEAN :
        /\ account' = [account EXCEPT !.verified = v]
        /\ confirmed' = IF v THEN confirmed \cup {account.number} ELSE confirmed
  /\ Done(r)
  /\ UNCHANGED <<row, payouts, transfer, lost>>

-------------------------------------------------------------------------------
SendStep(r) ==
  \/ SendRead(r) \/ SendAccount(r) \/ SendCount(r) \/ SendPays(r)
  \/ TransferAccepted(r) \/ TransferRefused(r) \/ TransferLost(r)
  \/ SendRefused(r) \/ SendQueued(r)

ReconcileStep(r) ==
  \/ \E i \in Ids : ReconcileRead(r, i)
  \/ ReconcileUndecided(r) \/ ReconcileAnswer(r)
  \/ ReconcileSuccess(r) \/ ReconcileFailed(r)

AccountStep(r) ==
  \/ \E n \in Numbers : SaveRead(r, n)
  \/ SaveWrite(r) \/ VerifyRead(r) \/ VerifyWrite(r)

PayoutStep(r) ==
  \/ SendStep(r) \/ ReconcileStep(r) \/ AccountStep(r)
  \/ Die(r) /\ UNCHANGED payoutVars

PayoutsNext ==
  \/ \E r \in Requests : PayoutStep(r)
  \/ \E i \in Ids : BankMoves(i)

PayoutsSpec == PayoutsInit /\ [][PayoutsNext]_allPayoutVars

(* A request that is not killed runs to its answer; the webhook or an      *)
(* operator pressing Refresh keeps asking about a row that is not settled, *)
(* Chapa answers some of the questions, and not every such request dies.   *)
PayoutRequestEnds(r) ==
  \/ SendAccount(r) \/ SendCount(r) \/ SendPays(r)
  \/ TransferAccepted(r) \/ SendRefused(r) \/ SendQueued(r)
  \/ ReconcileUndecided(r) \/ ReconcileSuccess(r) \/ ReconcileFailed(r)
  \/ SaveWrite(r) \/ VerifyWrite(r)

PayoutFairness ==
  /\ \A r \in Requests : WF_allPayoutVars(PayoutRequestEnds(r))
  /\ \A i \in Ids :
       /\ SF_allPayoutVars(\E r \in Requests : transfer[i] = "paid" /\ ReconcileRead(r, i))
       /\ SF_allPayoutVars(\E r \in Requests :
                    At(r, "reconcile.verify") /\ req[r].id = i /\ ReconcileAnswer(r))
       /\ SF_allPayoutVars(\E r \in Requests :
                    At(r, "reconcile.success") /\ req[r].id = i /\ ReconcileSuccess(r))

FairPayoutsSpec == PayoutsSpec /\ PayoutFairness

-------------------------------------------------------------------------------
(* Properties *)

(* Every variable keeps its type. *)
PayoutsTypeOK ==
  /\ status \in Statuses
  /\ req \in [Requests -> {Idle} \cup PayoutRequests]
  /\ payouts \in Seq(Rows) /\ Len(payouts) <= MaxPayouts
  /\ transfer \in [Ids -> TransferStates]
  /\ account \in Accounts
  /\ confirmed \subseteq Numbers \cup {NoNumber}
  /\ lost \subseteq Ids

(* The rows whose money went out, or is on its way. *)
MoneyOut ==
  {i \in 1 .. Len(payouts) :
      \/ payouts[i].manual /\ payouts[i].status = "success"
      \/ transfer[i] \in {"accepted", "paid"}}

(* A deal is paid at most once: no two presses of Send, however they       *)
(* interleave with reconcile and retries, leave two transfers out, but for *)
(* a transfer whose answer was lost.                                       *)
PaidAtMostOnce == \A i, j \in MoneyOut \ lost : i = j

(* A row reads failed, and so lets the deal be paid again, only when no    *)
(* money of it moved or Chapa's answer about it was lost (call, send).     *)
FailedMovedNothing ==
  \A i \in 1 .. Len(payouts) :
    payouts[i].status = "failed" /\ i \notin lost
      => transfer[i] \notin {"accepted", "paid"}

(* "A failure here means no money moved" (send, at the write of failed):   *)
(* the same with no answer excepted.                                       *)
FailureMovesNothing ==
  \A i \in 1 .. Len(payouts) :
    payouts[i].status = "failed" => transfer[i] \notin {"accepted", "paid"}

(* What is sent goes to a number that stood verified: the row freezes the  *)
(* account send read, so a creator editing it meanwhile changes nothing.   *)
SentToVerified ==
  \A i \in 1 .. Len(payouts) : payouts[i].number \in confirmed

(* "An account verified in March could be pointed at a different person in *)
(* April without anyone looking again" (saveAccount): an operator never    *)
(* marks a number verified other than the one that was looked at.          *)
VerifiesWhatWasSeen ==
  [][ \A r \in Requests :
        At(r, "verify.write") /\ account'.verified /\ req'[r] = Idle
          /\ confirmed' # confirmed
        => req[r].number = account'.number ]_allPayoutVars

(* A queued row whose transfer Chapa paid reads success in the end, though *)
(* answers are late and requests die while they record them.               *)
QueuedIsSettled ==
  \A i \in Ids :
    (i \in 1 .. Len(payouts) /\ payouts[i].status = "queued" /\ transfer[i] = "paid")
      ~> (i \in 1 .. Len(payouts) /\ payouts[i].status = "success")

(* "A crash between the two" leaves a record that can be chased (send):    *)
(* every transfer Chapa paid reads success in the end.                     *)
PaidIsSettled ==
  \A i \in Ids :
    transfer[i] = "paid" ~> i \in 1 .. Len(payouts) /\ payouts[i].status = "success"
===============================================================================
