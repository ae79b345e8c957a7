----------------------------- MODULE BookingDomain -----------------------------
(***************************************************************************)
(* The rules of a deal as pure operators: the lifecycle table, the states  *)
(* each action is allowed from, and what a dispute decision does to the    *)
(* booking.  They are src/lib/domain/booking.ts, dispute.ts and payout.ts, *)
(* which talk to no database; the modules that do talk to it extend this   *)
(* one.                                                                    *)
(***************************************************************************)
EXTENDS Integers, FiniteSets

Statuses ==
  {"proposed", "negotiating", "contracting", "booked", "concept",
   "in_production", "submitted", "revision", "approved",
   "awaiting_settlement", "completed", "cancelled", "disputed"}

EscrowStates == {"unfunded", "pending", "held", "released", "refunded"}

Compensations == {"paid", "barter", "event_pass"}

Sides == {"creator", "organization", "admin"}

Parties == Sides \ {"admin"}

(* Which states may follow which; a pair that is absent is refused. *)
Transitions ==
  [ proposed            |-> {"negotiating", "contracting", "cancelled"},
    negotiating         |-> {"negotiating", "contracting", "cancelled"},
    contracting         |-> {"booked", "cancelled"},
    booked              |-> {"concept", "cancelled", "disputed"},
    concept             |-> {"booked", "in_production", "cancelled", "disputed"},
    in_production       |-> {"submitted", "cancelled", "disputed"},
    submitted           |-> {"revision", "approved", "disputed"},
    revision            |-> {"submitted", "cancelled", "disputed"},
    approved            |-> {"awaiting_settlement", "disputed"},
    awaiting_settlement |-> {"completed", "disputed"},
    completed           |-> {"disputed"},
    cancelled           |-> {},
    disputed            |-> {"completed", "cancelled"} ]

CanTransition(from, to) == to \in Transitions[from]

(* A paid deal whose funds are not held still waits for its deposit. *)
AwaitsDeposit(compensation, escrow) ==
  compensation = "paid" /\ escrow # "held"

FundableStatuses ==
  {"booked", "concept", "in_production", "submitted", "revision",
   "approved", "awaiting_settlement", "disputed"}

CanApproveConcept(status, compensation, escrow) ==
  status = "concept" /\ ~AwaitsDeposit(compensation, escrow)

DisputableStatuses ==
  {"booked", "concept", "in_production", "submitted", "revision",
   "approved", "awaiting_settlement"}

CancellableStatuses ==
  {"contracting", "booked", "concept", "in_production", "revision"}

Resolutions == {"released", "refunded", "split"}

(* Where a decision on a dispute leaves the booking and its escrow. *)
ResolutionOutcome(resolution) ==
  IF resolution = "refunded"
    THEN [status |-> "cancelled", escrow |-> "refunded"]
    ELSE [status |-> "completed", escrow |-> "released"]

PayoutStatuses == {"pending", "queued", "success", "failed", "cancelled"}

(* A slip: a queued attempt no longer speaks for the money. *)
BugLivePayoutStatuses == {"pending", "success"}

(* The attempts that speak for the money of a booking. *)
LivePayoutStatuses == {"pending", "queued", "success"}
===============================================================================
