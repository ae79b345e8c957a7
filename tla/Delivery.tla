-------------------------------- MODULE Delivery --------------------------------
(***************************************************************************)
(* The work of a booked deal, beside the money of Escrow: the concept and  *)
(* its review, the submissions and their review, the proof that the work   *)
(* is live.  Every handler (src/routes/dashboard/bookings/[id]) marks its  *)
(* own row first, by id, and moves the deal afterwards with transition().  *)
(***************************************************************************)
EXTENDS Escrow, Sequences

CONSTANTS
  Allowance,      \* bookings.revisions_allowed
  MaxConcepts,    \* bound on the concepts ever submitted
  MaxSubmissions  \* bound on the submissions ever made

ASSUME AllowanceAssumption == Allowance \in Nat
ASSUME BoundsAssumption == MaxConcepts \in Nat /\ MaxSubmissions \in Nat

VARIABLES
  concepts,       \* concepts.status of the rows of the booking, by id
  submissions,    \* submissions.status of the rows of the booking, by id
  revisionsUsed,  \* bookings.revisions_used
  proof,          \* whether the booking has its post_proofs row
  waived,         \* whether the log says an operator waived the proof
  frozenFrom,     \* where a dispute found the deal; NotFrozen otherwise
  misread         \* history: whether one froze it in a state it had not read

freeze == <<frozenFrom, misread>>
work == <<concepts, submissions, revisionsUsed, proof, waived, freeze>>
deliveryVars == <<escrowVars, work>>

NotFrozen == "none"

ConceptIds == 1 .. MaxConcepts
SubmissionIds == 1 .. MaxSubmissions

DeliveryRequests ==
  [op : {"concept.insert", "concept.move", "waive.move", "proof.insert", "proof.move"}]
    \cup [op : {"reviewConcept.concept"}, seen : Statuses, funds : EscrowStates]
    \cup [op : {"reviewConcept.mark"}, id : ConceptIds, to : {"in_production", "booked"}]
    \cup [op : {"reviewConcept.move"}, to : {"in_production", "booked"}]
    \cup [op : {"submit.insert", "submit.move"}, seen : {"in_production", "revision"}]
    \cup [op : {"review.submission"}, seen : Statuses, used : Nat]
    \cup [op : {"review.mark"}, id : SubmissionIds, seen : Statuses,
          to : {"approved", "revision"}]
    \cup [op : {"raise.freeze"}, seen : DisputableStatuses]
    \cup [op : {"review.move"}, seen : Statuses, to : {"approved", "revision"}]

(* Signing the contract books the deal. *)
DeliveryInit ==
  /\ status = "booked"
  /\ escrow = "unfunded"
  /\ req = [r \in Requests |-> Idle]
  /\ payment = [i \in Checkouts |-> "none"]
  /\ checkout = [i \in Checkouts |-> "none"]
  /\ paymentRef = NoRef
  /\ handRefund = FALSE
  /\ dropped = {}
  /\ concepts = << >>
  /\ submissions = << >>
  /\ revisionsUsed = 0
  /\ proof = FALSE
  /\ waived = FALSE
  /\ frozenFrom = NotFrozen
  /\ misread = FALSE

(* transition(): the move, if the deal still stands where it was read. *)
Transition(from, to) ==
  status' = IF Moves(from, to) THEN to ELSE status

-------------------------------------------------------------------------------
(* submitConcept *)

SubmitConcept(r) ==
  /\ status = "booked"
  /\ Begin(r, [op |-> "concept.insert"])
  /\ UNCHANGED <<row, money, work>>

ConceptInsert(r) ==
  /\ At(r, "concept.insert")
  /\ Len(concepts) < MaxConcepts
  /\ concepts' = Append(concepts, "submitted")
  /\ Goto(r, [op |-> "concept.move"])
  /\ UNCHANGED <<row, money, submissions, revisionsUsed, proof, waived, freeze>>

ConceptMove(r) ==
  /\ At(r, "concept.move")
  /\ Transition("booked", "concept")
  /\ Done(r)
  /\ UNCHANGED <<escrow, money, work>>

-------------------------------------------------------------------------------
(* reviewConcept *)

ReviewConcept(r) ==
  /\ Begin(r, [op |-> "reviewConcept.concept", seen |-> status, funds |-> escrow])
  /\ UNCHANGED <<row, money, work>>

(* Approving needs the funds, as the booking was read: a brand that has    *)
(* not paid may still ask for changes.                                     *)
ReviewConceptRow(r) ==
  /\ At(r, "reviewConcept.concept")
  /\ \/ /\ req[r].seen = "concept"
        /\ \E c \in DOMAIN concepts, to \in {"in_production", "booked"} :
             /\ concepts[c] = "submitted"
             /\ to = "in_production" =>
                  CanApproveConcept(req[r].seen, Compensation, req[r].funds)
             /\ Goto(r, [op |-> "reviewConcept.mark", id |-> c, to |-> to])
     \/ Done(r)
  /\ UNCHANGED <<row, money, work>>

(* By id alone: a second review of the same concept writes over the first. *)
ReviewConceptMark(r) ==
  /\ At(r, "reviewConcept.mark")
  /\ concepts' = [concepts EXCEPT ![req[r].id] =
       IF req[r].to = "in_production" THEN "approved" ELSE "changes_requested"]
  /\ Goto(r, [op |-> "reviewConcept.move", to |-> req[r].to])
  /\ UNCHANGED <<row, money, submissions, revisionsUsed, proof, waived, freeze>>

ReviewConceptMove(r) ==
  /\ At(r, "reviewConcept.move")
  /\ Transition("concept", req[r].to)
  /\ Done(r)
  /\ UNCHANGED <<escrow, money, work>>

-------------------------------------------------------------------------------
(* submit *)

Submit(r) ==
  /\ status \in {"in_production", "revision"}
  /\ Begin(r, [op |-> "submit.insert", seen |-> status])
  /\ UNCHANGED <<row, money, work>>

SubmitInsert(r) ==
  /\ At(r, "submit.insert")
  /\ Len(submissions) < MaxSubmissions
  /\ submissions' = Append(submissions, "submitted")
  /\ Goto(r, [req[r] EXCEPT !.op = "submit.move"])
  /\ UNCHANGED <<row, money, concepts, revisionsUsed, proof, waived, freeze>>

SubmitMove(r) ==
  /\ At(r, "submit.move")
  /\ Transition(req[r].seen, "submitted")
  /\ Done(r)
  /\ UNCHANGED <<escrow, money, work>>

-------------------------------------------------------------------------------
(* review *)

Review(r) ==
  /\ Begin(r, [op |-> "review.submission", seen |-> status, used |-> revisionsUsed])
  /\ UNCHANGED <<row, money, work>>

(* The submission must be unreviewed; the status of the deal is left to    *)
(* the transition, and the allowance is judged on the booking as read.     *)
ReviewRow(r) ==
  /\ At(r, "review.submission")
  /\ \/ \E s \in DOMAIN submissions, to \in {"approved", "revision"} :
          /\ submissions[s] = "submitted"
          /\ to = "revision" => req[r].used < Allowance
          /\ Goto(r, [op |-> "review.mark", id |-> s, seen |-> req[r].seen, to |-> to])
     \/ Done(r)
  /\ UNCHANGED <<row, money, work>>

ReviewMark(r) ==
  /\ At(r, "review.mark")
  /\ submissions' = [submissions EXCEPT ![req[r].id] =
       IF req[r].to = "approved" THEN "approved" ELSE "revision_requested"]
  /\ Goto(r, [op |-> "review.move", seen |-> req[r].seen, to |-> req[r].to])
  /\ UNCHANGED <<row, money, concepts, revisionsUsed, proof, waived, freeze>>

(* A slip: the allowance is consumed even when the deal did not move. *)
BugReviewMove(r) ==
  /\ At(r, "review.move")
  /\ Transition(req[r].seen, req[r].to)
  /\ revisionsUsed' = IF req[r].to = "revision" THEN revisionsUsed + 1 ELSE revisionsUsed
  /\ Done(r)
  /\ UNCHANGED <<escrow, money, concepts, submissions, proof, waived, freeze>>

(* The counter grows in the same write as the move, from its value then. *)
ReviewMove(r) ==
  /\ At(r, "review.move")
  /\ Transition(req[r].seen, req[r].to)
  /\ revisionsUsed' =
       IF req[r].to = "revision" /\ Moves(req[r].seen, "revision")
         THEN revisionsUsed + 1
         ELSE revisionsUsed
  /\ Done(r)
  /\ UNCHANGED <<escrow, money, concepts, submissions, proof, waived, freeze>>

-------------------------------------------------------------------------------
(* submitProof and waiveProof *)

(* A slip: the deal moves before the proof is stored. *)
BugSubmitProof(r) ==
  /\ status = "approved"
  /\ Begin(r, [op |-> "proof.move"])
  /\ UNCHANGED <<row, money, work>>

(* The upload of the screenshot is the await before the row is inserted. *)
SubmitProof(r) ==
  /\ status = "approved"
  /\ Begin(r, [op |-> "proof.insert"])
  /\ UNCHANGED <<row, money, work>>

(* One proof a booking: the unique index throws on a second. *)
ProofInsert(r) ==
  /\ At(r, "proof.insert")
  /\ \/ /\ ~proof
        /\ proof' = TRUE
        /\ Goto(r, [op |-> "proof.move"])
     \/ /\ proof
        /\ UNCHANGED proof
        /\ Done(r)
  /\ UNCHANGED <<row, money, concepts, submissions, revisionsUsed, waived, freeze>>

ProofMove(r) ==
  /\ At(r, "proof.move")
  /\ Transition("approved", "awaiting_settlement")
  /\ Done(r)
  /\ UNCHANGED <<escrow, money, work>>

WaiveProof(r) ==
  /\ status = "approved"
  /\ Begin(r, [op |-> "waive.move"])
  /\ UNCHANGED <<row, money, work>>

(* A slip: a status the table of the deal does not have. *)
BugWaiveMove(r) ==
  /\ At(r, "waive.move")
  /\ status' = "waived"
  /\ waived' = TRUE
  /\ Done(r)
  /\ UNCHANGED <<escrow, money, concepts, submissions, revisionsUsed, proof, freeze>>

(* The reason goes to the log with the move. *)
WaiveMove(r) ==
  /\ At(r, "waive.move")
  /\ Transition("approved", "awaiting_settlement")
  /\ waived' = (waived \/ Moves("approved", "awaiting_settlement"))
  /\ Done(r)
  /\ UNCHANGED <<escrow, money, concepts, submissions, revisionsUsed, proof, freeze>>

-------------------------------------------------------------------------------
(* What Disputes and Cancellation do to the deal meanwhile.  A case        *)
(* freezes the deal by id, whatever became of it since the raise read it,  *)
(* and keeps the state that was read.  Withdrawn, it puts the deal back    *)
(* there; decided, it ends the deal.                                       *)

Raise(r) ==
  /\ status \in DisputableStatuses
  /\ Begin(r, [op |-> "raise.freeze", seen |-> status])
  /\ UNCHANGED <<row, money, work>>

Frozen(r) ==
  /\ At(r, "raise.freeze")
  /\ status' = "disputed"
  /\ frozenFrom' = req[r].seen
  /\ misread' = (misread \/ status # req[r].seen)
  /\ Done(r)
  /\ UNCHANGED <<escrow, money, concepts, submissions, revisionsUsed, proof, waived>>

Thawed ==
  /\ status = "disputed"
  /\ \E r \in Requests : req[r] = Idle
  /\ status' = frozenFrom
  /\ frozenFrom' = NotFrozen
  /\ UNCHANGED <<escrow, req, money>>

(* Funds held are released with a deal decided for the creator; those      *)
(* decided for the brand stay held until Chapa has returned them.          *)
Decided ==
  /\ status = "disputed"
  /\ \E r \in Requests : req[r] = Idle
  /\ \E resolution \in Resolutions :
       LET outcome == ResolutionOutcome(resolution)
       IN  /\ status' = outcome.status
           /\ escrow' = IF outcome.escrow = "released" /\ escrow = "held"
                          THEN "released"
                          ELSE escrow
  /\ frozenFrom' = NotFrozen
  /\ UNCHANGED <<req, money>>

CalledOff ==
  /\ status \in CancellableStatuses
  /\ MovesTo({"cancelled"})
  /\ UNCHANGED frozenFrom

-------------------------------------------------------------------------------
ConceptStep(r) ==
  \/ SubmitConcept(r) \/ ConceptInsert(r) \/ ConceptMove(r)
  \/ ReviewConcept(r) \/ ReviewConceptRow(r) \/ ReviewConceptMark(r) \/ ReviewConceptMove(r)

SubmissionStep(r) ==
  \/ Submit(r) \/ SubmitInsert(r) \/ SubmitMove(r)
  \/ Review(r) \/ ReviewRow(r) \/ ReviewMark(r) \/ ReviewMove(r)

ProofStep(r) ==
  \/ SubmitProof(r) \/ ProofInsert(r) \/ ProofMove(r)
  \/ WaiveProof(r) \/ WaiveMove(r)

DeliveryStep(r) ==
  ConceptStep(r) \/ SubmissionStep(r) \/ ProofStep(r) \/ Raise(r) \/ Frozen(r)

DeliveryNext ==
  \/ \E r \in Requests : DeliveryStep(r)
  \/ \E r \in Requests : EscrowStep(r) /\ UNCHANGED work
  \/ \E i \in Checkouts : PayerActs(i) /\ UNCHANGED work
  \/ /\ Thawed \/ Decided \/ CalledOff
     /\ UNCHANGED <<concepts, submissions, revisionsUsed, proof, waived, misread>>

DeliverySpec == DeliveryInit /\ [][DeliveryNext]_deliveryVars

-------------------------------------------------------------------------------
(* Properties *)

(* Every variable keeps its type. *)
DeliveryTypeOK ==
  /\ status \in Statuses
  /\ escrow \in EscrowStates
  /\ req \in [Requests -> {Idle} \cup EscrowRequests \cup DeliveryRequests]
  /\ concepts \in Seq({"submitted", "approved", "changes_requested"})
  /\ Len(concepts) <= MaxConcepts
  /\ submissions \in Seq({"submitted", "approved", "revision_requested"})
  /\ Len(submissions) <= MaxSubmissions
  /\ revisionsUsed \in Nat
  /\ proof \in BOOLEAN /\ waived \in BOOLEAN
  /\ frozenFrom \in DisputableStatuses \cup {NotFrozen}
  /\ misread \in BOOLEAN

(* A creator never works on a paid deal whose deposit was not taken: a     *)
(* concept is approved on funds that were read before, beside checkouts    *)
(* that fail and reopen the booking, disputes and settlements              *)
(* (reviewConcept, canApproveConcept).                                     *)
ProductionWasFunded ==
  Compensation = "paid"
    /\ status \in {"in_production", "submitted", "revision", "approved",
                   "awaiting_settlement"}
    => escrow \in Deposited

(* Every revision consumed answers work handed in for it: presses on one   *)
(* submission, or one that lost to a dispute, never consume a second       *)
(* (review, "one increment was lost").  Only a case that was raised on a   *)
(* deal under review and froze it after the review can give the same       *)
(* submission a second one, when it is withdrawn.                          *)
RevisionsWereDelivered ==
  ~misread => revisionsUsed <= Len(submissions)

(* A deal waits for settlement only when its proof is stored, or an        *)
(* operator waived it, whoever presses at the same moment.                 *)
SettledWasShown ==
  status = "awaiting_settlement" => proof \/ waived

(* A revision "consumes one of the agreed allowance" (README, The          *)
(* lifecycle), and the allowance is never exceeded: what the comment in    *)
(* review says two concurrent requests no longer do.                       *)
WithinAllowance == revisionsUsed <= Allowance

(* "A disputed booking is inert everywhere" (README, Getting out of a      *)
(* deal): a deal that resumes as submitted still has work to review, since *)
(* nobody could review it while it was frozen.                             *)
WorkIsReviewable ==
  status = "submitted" /\ (\A r \in Requests : req[r] = Idle) =>
    \E s \in DOMAIN submissions : submissions[s] = "submitted"

(* The work of an approved deal reads as approved: a request for changes   *)
(* that lost to the approval "must not write over it" (transition).        *)
ApprovedIsMarked ==
  status = "approved" /\ (\A r \in Requests : req[r] = Idle) =>
    \E s \in DOMAIN submissions : submissions[s] = "approved"
===============================================================================
