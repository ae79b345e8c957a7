--------------------------------- MODULE Claims ---------------------------------
(***************************************************************************)
(* Claiming a profile that was imported before its creator arrived: the    *)
(* claim and withdraw handlers of routes/dashboard/profile/claim, the      *)
(* decision of an operator at routes/dashboard/admin/claims, a profile     *)
(* made instead (routes/dashboard/profile/create), and the listing where   *)
(* profiles are shown, hidden and deleted.                                 *)
(*                                                                         *)
(* A claimant is an account whose role may claim; an operator's role is    *)
(* asked once, when the decision arrives.                                  *)
(***************************************************************************)
EXTENDS Integers, Sequences

CONSTANTS
  Profiles,   \* profiles imported with nobody behind them
  Claimants,  \* accounts
  Nobody,     \* creators.user_id is null
  Requests,   \* the requests in flight
  Desks,      \* those that may carry an operator's decision
  Mortal,     \* those the process may stop in
  MaxClaims   \* bound on the claims ever made

ASSUME ClaimsAssumption ==
  /\ Nobody \notin Claimants /\ MaxClaims \in Nat
  /\ Desks \subseteq Requests /\ Mortal \subseteq Requests

VARIABLES
  profile,  \* creators: the imported profiles
  made,     \* creators: the profile an account made itself
  claims,   \* creator_claims, by id
  req       \* the requests in flight

creators == <<profile, made>>
claimsVars == <<creators, claims, req>>

ClaimIds == 1 .. MaxClaims

Decisions == {"approved", "rejected"}
ClaimStatuses == {"pending", "withdrawn"} \cup Decisions

(* CLAIM_TRANSITIONS: every closed state is terminal. *)
CanDecideClaim(from, to) == from = "pending" /\ to \in ClaimStatuses \ {"pending"}

Idle == [op |-> "idle"]
At(r, op) == req[r].op = op
Goto(r, state) == req' = [req EXCEPT ![r] = state]
Step(r, op) == Goto(r, [req[r] EXCEPT !.op = op])
Done(r) == Goto(r, Idle)

Owns(u, p) == profile[p].owner = u

(* getCreatorFor: a profile that was deleted is not one. *)
HasProfile(u) ==
  made[u] = "live" \/ \E p \in Profiles : Owns(u, p) /\ ~profile[p].deleted

(* The unique index on creators.user_id, where a deleted row still stands. *)
IndexTaken(u) == made[u] # "none" \/ \E p \in Profiles : Owns(u, p)

HasOpenClaim(u) ==
  \E i \in 1 .. Len(claims) : claims[i].by = u /\ claims[i].status = "pending"

ClaimsInit ==
  /\ profile = [p \in Profiles |-> [owner |-> Nobody, shown |-> TRUE, deleted |-> FALSE]]
  /\ made = [u \in Claimants |-> "none"]
  /\ claims = << >>
  /\ req = [r \in Requests |-> Idle]

-------------------------------------------------------------------------------
(* The claimant: asks, withdraws, or makes a profile *)

ClaimReads(r, u, p) ==
  /\ req[r] = Idle
  /\ ~HasProfile(u)
  /\ Goto(r, [op |-> "claim.open", by |-> u, profile |-> p])
  /\ UNCHANGED <<creators, claims>>

(* "One open claim per account." *)
ClaimLooks(r) ==
  /\ At(r, "claim.open")
  /\ IF HasOpenClaim(req[r].by) THEN Done(r) ELSE Step(r, "claim.target")
  /\ UNCHANGED <<creators, claims>>

Claimable(p) == Owns(Nobody, p) /\ profile[p].shown /\ ~profile[p].deleted

ClaimTargets(r) ==
  /\ At(r, "claim.target")
  /\ IF Claimable(req[r].profile) THEN Step(r, "claim.insert") ELSE Done(r)
  /\ UNCHANGED <<creators, claims>>

ClaimInserts(r) ==
  /\ At(r, "claim.insert")
  /\ Len(claims) < MaxClaims
  /\ claims' = Append(claims, [profile |-> req[r].profile, by |-> req[r].by,
                               status |-> "pending"])
  /\ Done(r)
  /\ UNCHANGED creators

WithdrawReads(r, i) ==
  /\ req[r] = Idle
  /\ i <= Len(claims)
  /\ CanDecideClaim(claims[i].status, "withdrawn")
  /\ Goto(r, [op |-> "withdraw.write", id |-> i])
  /\ UNCHANGED <<creators, claims>>

(* By id alone. *)
Closes(i, as) == claims' = [claims EXCEPT ![i].status = as]

WithdrawWrites(r) ==
  /\ At(r, "withdraw.write")
  /\ Closes(req[r].id, "withdrawn")
  /\ Done(r)
  /\ UNCHANGED creators

CreateReads(r, u) ==
  /\ req[r] = Idle
  /\ ~HasProfile(u)
  /\ Goto(r, [op |-> "create.insert", by |-> u])
  /\ UNCHANGED <<creators, claims>>

(* The handle was free; the index refuses an account that has a row. *)
CreateInserts(r) ==
  /\ At(r, "create.insert")
  /\ made' = IF IndexTaken(req[r].by) THEN made ELSE [made EXCEPT ![req[r].by] = "live"]
  /\ Done(r)
  /\ UNCHANGED <<profile, claims>>

-------------------------------------------------------------------------------
(* The operator: decides *)

DecideReads(d, i, verdict) ==
  /\ req[d] = Idle
  /\ i <= Len(claims)
  /\ CanDecideClaim(claims[i].status, verdict)
  /\ Goto(d, [op |-> IF verdict = "approved" THEN "decide.target" ELSE "decide.write",
              id |-> i, verdict |-> verdict, claim |-> claims[i]])
  /\ UNCHANGED <<creators, claims>>

(* A slip: the profile the queue showed is trusted. *)
BugFree(p) == ~profile[p].deleted

(* Re-read for the decision, hidden or not. *)
Free(p) == Owns(Nobody, p) /\ ~profile[p].deleted

DecideTargets(d) ==
  /\ At(d, "decide.target")
  /\ IF Free(req[d].claim.profile) THEN Step(d, "decide.account") ELSE Done(d)
  /\ UNCHANGED <<creators, claims>>

DecideAccounts(d) ==
  /\ At(d, "decide.account")
  /\ IF HasProfile(req[d].claim.by) THEN Done(d) ELSE Step(d, "decide.attach")
  /\ UNCHANGED <<creators, claims>>

(* A slip: the claim is closed, and the account never attached. *)
BugDecideAttaches(d) ==
  /\ At(d, "decide.attach")
  /\ Closes(req[d].id, "approved")
  /\ Done(d)
  /\ UNCHANGED creators

(* By id alone; where the index refuses, the request ends with an error. *)
DecideAttaches(d) ==
  /\ At(d, "decide.attach")
  /\ LET u == req[d].claim.by IN
       \/ /\ ~IndexTaken(u)
          /\ profile' = [profile EXCEPT ![req[d].claim.profile].owner = u]
          /\ Step(d, "decide.write")
       \/ /\ IndexTaken(u)
          /\ Done(d)
          /\ UNCHANGED profile
  /\ UNCHANGED <<made, claims>>

DecideWrites(d) ==
  /\ At(d, "decide.write")
  /\ Closes(req[d].id, req[d].verdict)
  /\ IF req[d].verdict = "approved" THEN Step(d, "decide.rivals") ELSE Done(d)
  /\ UNCHANGED creators

DecideRivals(d) ==
  /\ At(d, "decide.rivals")
  /\ Goto(d, [op |-> "decide.close", todo |->
       {i \in 1 .. Len(claims) :
          /\ i # req[d].id
          /\ claims[i].profile = req[d].claim.profile
          /\ claims[i].status = "pending"}])
  /\ UNCHANGED <<creators, claims>>

(* Every other claim on the profile is closed, one after the other. *)
DecideCloses(d) ==
  /\ At(d, "decide.close")
  /\ \/ req[d].todo = {} /\ Done(d) /\ UNCHANGED claims
     \/ \E i \in req[d].todo :
          /\ Closes(i, "rejected")
          /\ Goto(d, [req[d] EXCEPT !.todo = @ \ {i}])
  /\ UNCHANGED creators

-------------------------------------------------------------------------------
(* The listing of the operators and the encoders *)

ShowOrHide(p) ==
  /\ ~profile[p].deleted
  /\ profile' = [profile EXCEPT ![p].shown = ~@]
  /\ UNCHANGED <<made, claims, req>>

DeleteImported(p) ==
  /\ ~profile[p].deleted
  /\ profile' = [profile EXCEPT ![p].deleted = TRUE]
  /\ UNCHANGED <<made, claims, req>>

DeleteMade(u) ==
  /\ made[u] = "live"
  /\ made' = [made EXCEPT ![u] = "deleted"]
  /\ UNCHANGED <<profile, claims, req>>

(* The process stops: the request ends where it was. *)
Dies(r) ==
  /\ req[r] # Idle
  /\ Done(r)
  /\ UNCHANGED <<creators, claims>>

-------------------------------------------------------------------------------
ClaimantStep(r) ==
  \/ \E u \in Claimants : CreateReads(r, u) \/ \E p \in Profiles : ClaimReads(r, u, p)
  \/ ClaimLooks(r) \/ ClaimTargets(r) \/ ClaimInserts(r) \/ CreateInserts(r)
  \/ \E i \in ClaimIds : WithdrawReads(r, i)
  \/ WithdrawWrites(r)

DeskStep(d) ==
  \/ \E i \in ClaimIds, verdict \in Decisions : DecideReads(d, i, verdict)
  \/ DecideTargets(d) \/ DecideAccounts(d) \/ DecideAttaches(d)
  \/ DecideWrites(d) \/ DecideRivals(d) \/ DecideCloses(d)

ListingStep ==
  \/ \E p \in Profiles : ShowOrHide(p) \/ DeleteImported(p)
  \/ \E u \in Claimants : DeleteMade(u)

ClaimsNext ==
  \/ \E r \in Requests : ClaimantStep(r)
  \/ \E d \in Desks : DeskStep(d)
  \/ \E r \in Mortal : Dies(r)
  \/ ListingStep

ClaimsSpec == ClaimsInit /\ [][ClaimsNext]_claimsVars

-------------------------------------------------------------------------------
(* Every variable keeps its type: the rows of creators and creator_claims, *)
(* and what the requests carry from one await to the next.                 *)
Claim == [profile : Profiles, by : Claimants, status : ClaimStatuses]

RequestTypes ==
  {Idle} \cup [op : {"claim.open", "claim.target", "claim.insert"}, by : Claimants,
               profile : Profiles]
    \cup [op : {"withdraw.write"}, id : ClaimIds] \cup [op : {"create.insert"}, by : Claimants]
    \cup [op : {"decide.target", "decide.account", "decide.attach", "decide.write",
                "decide.rivals"}, id : ClaimIds, verdict : Decisions, claim : Claim]
    \cup [op : {"decide.close"}, todo : SUBSET ClaimIds]

ClaimsTypeOK ==
  /\ profile \in [Profiles ->
       [owner : Claimants \cup {Nobody}, shown : BOOLEAN, deleted : BOOLEAN]]
  /\ made \in [Claimants -> {"none", "live", "deleted"}]
  /\ claims \in Seq(Claim) /\ Len(claims) <= MaxClaims
  /\ req \in [Requests -> RequestTypes]

(* "A profile can only be handed over once" (decide): whoever was given an *)
(* imported profile keeps it, through rival claims, withdrawals beside the *)
(* decision, decisions that stop half way and profiles that are hidden.    *)
HandedOverOnce ==
  [][\A p \in Profiles : ~Owns(Nobody, p) => profile'[p].owner = profile[p].owner]_claimsVars

(* A claim that reads approved is one whose claimant has the profile: what *)
(* the queue, the audit log and the claimant are told did happen, wherever *)
(* the decision stopped.                                                   *)
ApprovedOwns ==
  \A i \in 1 .. Len(claims) :
    claims[i].status = "approved" => Owns(claims[i].by, claims[i].profile)

-------------------------------------------------------------------------------
(* What the code or its documentation says and the code does not do. *)

(* "Every closed state is terminal" (CLAIM_TRANSITIONS). *)
ClosedIsTerminal ==
  [][\A i \in 1 .. Len(claims) :
       claims[i].status # "pending" => claims'[i].status = claims[i].status]_claimsVars

(* "One open claim per account" (claim). *)
OneOpenClaim ==
  \A i, j \in 1 .. Len(claims) :
    claims[i].by = claims[j].by /\ claims[i].status = "pending" /\ claims[j].status = "pending"
      => i = j

(* Approval is "the single write that attaches the account": whoever was   *)
(* given a profile has an approved claim, once every request has ended.    *)
OwnedWasApproved ==
  (\A r \in Requests : req[r] = Idle)
    => \A p \in Profiles : ~Owns(Nobody, p) =>
         \E i \in 1 .. Len(claims) :
           claims[i].status = "approved" /\ claims[i].profile = p /\ Owns(claims[i].by, p)

(* No claim is left "waiting" on a profile that was handed over, once      *)
(* every request has ended.                                                *)
NoneIsLeftWaiting ==
  (\A r \in Requests : req[r] = Idle)
    => \A i \in 1 .. Len(claims) :
         claims[i].status = "pending" => Owns(Nobody, claims[i].profile)

(* The account is re-read before the write so that the unique index does   *)
(* not answer with a driver error.                                         *)
IndexNeverRefuses ==
  \A d \in Requests : At(d, "decide.attach") => ~IndexTaken(req[d].claim.by)
===============================================================================
