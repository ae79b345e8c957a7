------------------------------ MODULE BookingRow -------------------------------
(***************************************************************************)
(* One row of the bookings table and the HTTP requests that work on it.    *)
(*                                                                         *)
(* The server is one Node process.  A request runs until it awaits a query *)
(* or a call to the payment provider, and any other request may run        *)
(* meanwhile; nothing holds a transaction across two queries.  A request   *)
(* is therefore a record: op names the await it stands at, and the other   *)
(* fields are the values it read earlier and still acts on.  Each module   *)
(* that extends this one has an action per await of its handlers.          *)
(***************************************************************************)
EXTENDS BookingDomain

CONSTANTS
  Requests,        \* the requests that may be in flight together
  Compensation,    \* what the brand gives: fixed when the deal is opened
  GatewayEnabled,  \* PAYMENT_GATEWAY_ENABLED
  MayDie,          \* whether a request may end between two of its awaits
  MayLose          \* whether Chapa's answer to an instruction may be lost

ASSUME CompensationAssumption == Compensation \in Compensations
ASSUME SwitchAssumption ==
  GatewayEnabled \in BOOLEAN /\ MayDie \in BOOLEAN /\ MayLose \in BOOLEAN

VARIABLES
  status,   \* bookings.status
  escrow,   \* bookings.escrow_status
  req       \* the requests in flight

row == <<status, escrow>>

Idle == [op |-> "idle"]

At(r, op) == req[r].op = op

(* A free slot takes a new request, which stops at its first await. *)
Begin(r, state) == req[r] = Idle /\ req' = [req EXCEPT ![r] = state]

(* The request moves on to its next await, or answers and is gone. *)
Goto(r, state) == req' = [req EXCEPT ![r] = state]
Done(r) == req' = [req EXCEPT ![r] = Idle]

(* A slip: the write does not test the state the caller read. *)
BugMoves(from, to) == CanTransition(from, to)

(* The write of transition(): the row moves only if it still stands where  *)
(* the caller read it, and the table allows the move.                      *)
Moves(from, to) == status = from /\ CanTransition(from, to)

(* The process stops, or a query throws: the writes already made stay, and *)
(* the rest of the handler never runs.                                     *)
Die(r) ==
  /\ MayDie
  /\ req[r] # Idle
  /\ Done(r)
  /\ UNCHANGED row
===============================================================================
