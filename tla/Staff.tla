--------------------------------- MODULE Staff ----------------------------------
(***************************************************************************)
(* The accounts of the staff: the operators change roles, bar accounts and *)
(* invite colleagues (routes/dashboard/admin/users), an invitation is one  *)
(* link to one address (lib/server/invites.ts), and whoever opens it makes *)
(* the account it is for (routes/invite/[token]).                          *)
(*                                                                         *)
(* Sign-up, bans and sessions are better-auth's: an account is one per     *)
(* address, barring it ends its sessions, and banUser and unbanUser ask    *)
(* again whether the caller is an operator.                                *)
(***************************************************************************)
EXTENDS Integers, Sequences

CONSTANTS
  Accounts,    \* the addresses
  Founders,    \* the operators there are at first
  Roles,       \* the roles setRole may give
  StaffRoles,  \* the roles an invitation may carry
  Desks,       \* the requests of operators in flight
  Visits,      \* the acceptances in flight
  Mortal,      \* those of both the process may stop in
  MaxInvites   \* bound on the invitations

ASSUME StaffAssumption ==
  /\ Founders \subseteq Accounts /\ MaxInvites \in Nat
  /\ "admin" \in StaffRoles /\ StaffRoles \subseteq Roles
  /\ Roles \subseteq {"creator", "business", "encoder", "admin"}
  /\ Desks \cap Visits = {} /\ Mortal \subseteq Desks \cup Visits

VARIABLES
  account,  \* user, by address: the role, none before the sign-up; and banned
  invites,  \* staff_invites, by id
  req       \* the requests in flight

staffVars == <<account, invites, req>>

Requests == Desks \cup Visits

InviteIds == 1 .. MaxInvites

Idle == [op |-> "idle"]
At(r, op) == req[r].op = op
Goto(r, state) == req' = [req EXCEPT ![r] = state]
Step(r, op) == Goto(r, [req[r] EXCEPT !.op = op])
Done(r) == Goto(r, Idle)

Exists(a) == account[a].role # "none"

(* requireRole, and the permission better-auth asks for. *)
Operator(a) == account[a] = [role |-> "admin", banned |-> FALSE]

(* liveInvite: issued, not spent, not withdrawn, not yet stale. *)
Live(i) == ~invites[i].accepted /\ ~invites[i].revoked /\ ~invites[i].expired

Issued == 1 .. Len(invites)

StaffInit ==
  /\ account = [a \in Accounts |->
       [role |-> IF a \in Founders THEN "admin" ELSE "none", banned |-> FALSE]]
  /\ invites = << >>
  /\ req = [r \in Requests |-> Idle]

(* The sign-up form, which sells two roles; the one it asked for is stamped *)
(* a moment after the account is there, and the two writes are one here.   *)
Register(a) ==
  /\ ~Exists(a)
  /\ \E role \in Roles \cap {"creator", "business"} :
       account' = [account EXCEPT ![a].role = role]
  /\ UNCHANGED <<invites, req>>

-------------------------------------------------------------------------------
(* Roles and bans *)

(* "An operator cannot demote themselves." *)
RoleReads(d, o, a, role) ==
  /\ req[d] = Idle
  /\ Operator(o) /\ Exists(a)
  /\ a = o => role = "admin"
  /\ Goto(d, [op |-> "role.write", a |-> a, role |-> role])
  /\ UNCHANGED <<account, invites>>

RoleWrites(d) ==
  /\ At(d, "role.write")
  /\ account' = [account EXCEPT ![req[d].a].role = req[d].role]
  /\ Done(d)
  /\ UNCHANGED invites

(* A ban is lifted before the next, so that it starts from nothing. *)
BanReads(d, o, a) ==
  /\ req[d] = Idle
  /\ Operator(o) /\ Exists(a) /\ a # o
  /\ Goto(d, [op |-> IF account[a].banned THEN "ban.lift" ELSE "ban.write", by |-> o, a |-> a])
  /\ UNCHANGED <<account, invites>>

UnbanReads(d, o, a) ==
  /\ req[d] = Idle
  /\ Operator(o) /\ Exists(a)
  /\ Goto(d, [op |-> "unban.write", by |-> o, a |-> a])
  /\ UNCHANGED <<account, invites>>

(* better-auth does it for an operator, and refuses anybody else. *)
Bars(d, op, banned, next) ==
  /\ At(d, op)
  /\ IF Operator(req[d].by)
       THEN /\ account' = [account EXCEPT ![req[d].a].banned = banned]
            /\ IF next = "idle" THEN Done(d) ELSE Step(d, next)
       ELSE Done(d) /\ UNCHANGED account
  /\ UNCHANGED invites

BanLifts(d) == Bars(d, "ban.lift", FALSE, "ban.write")
BanWrites(d) == Bars(d, "ban.write", TRUE, "idle")
UnbanWrites(d) == Bars(d, "unban.write", FALSE, "idle")

(* A ban with a duration is over. *)
BanEnds(a) ==
  /\ account[a].banned
  /\ account' = [account EXCEPT ![a].banned = FALSE]
  /\ UNCHANGED <<invites, req>>

-------------------------------------------------------------------------------
(* Invitations *)

InviteReads(d, o, a, role) ==
  /\ req[d] = Idle
  /\ Operator(o) /\ ~Exists(a)
  /\ Goto(d, [op |-> "invite.replace", a |-> a, role |-> role])
  /\ UNCHANGED <<account, invites>>

(* createInvite: the live one of the address is withdrawn first. *)
InviteReplaces(d) ==
  /\ At(d, "invite.replace")
  /\ invites' = [i \in Issued |->
       IF invites[i].email = req[d].a /\ Live(i)
         THEN [invites[i] EXCEPT !.revoked = TRUE] ELSE invites[i]]
  /\ Step(d, "invite.insert")
  /\ UNCHANGED account

InviteInserts(d) ==
  /\ At(d, "invite.insert")
  /\ Len(invites) < MaxInvites
  /\ invites' = Append(invites,
       [email |-> req[d].a, role |-> req[d].role, accepted |-> FALSE, revoked |-> FALSE,
        expired |-> FALSE, made |-> FALSE])
  /\ Done(d)
  /\ UNCHANGED account

RevokeReads(d, o, i) ==
  /\ req[d] = Idle
  /\ Operator(o) /\ i \in Issued /\ Live(i)
  /\ Goto(d, [op |-> "revoke.write", id |-> i])
  /\ UNCHANGED <<account, invites>>

(* By id alone. *)
RevokeWrites(d) ==
  /\ At(d, "revoke.write")
  /\ invites' = [invites EXCEPT ![req[d].id].revoked = TRUE]
  /\ Done(d)
  /\ UNCHANGED account

WeekEnds(i) ==
  /\ i \in Issued
  /\ ~invites[i].expired
  /\ invites' = [invites EXCEPT ![i].expired = TRUE]
  /\ UNCHANGED <<account, req>>

-------------------------------------------------------------------------------
(* Accepting one *)

AcceptReads(v, i) ==
  /\ req[v] = Idle
  /\ i \in Issued /\ Live(i)
  /\ Goto(v, [op |-> "accept.claim", id |-> i])
  /\ UNCHANGED <<account, invites>>

(* A slip: the read before it decides. *)
BugMayClaim(i) == TRUE

MayClaim(i) == Live(i)

(* claimInvite: "the one whose UPDATE changes a row" goes on. *)
AcceptClaims(v) ==
  /\ At(v, "accept.claim")
  /\ LET i == req[v].id IN
       \/ /\ MayClaim(i)
          /\ invites' = [invites EXCEPT ![i].accepted = TRUE]
          /\ Step(v, "accept.signup")
       \/ /\ ~MayClaim(i)
          /\ Done(v)
          /\ UNCHANGED invites
  /\ UNCHANGED account

(* A slip: a refused sign-up answers at once. *)
BugRefused(v) == Done(v)

Refused(v) == Step(v, "accept.release")

(* An address that has an account is refused, and so may any other be. *)
AcceptSignsUp(v) ==
  /\ At(v, "accept.signup")
  /\ LET a == invites[req[v].id].email IN
       \/ /\ ~Exists(a)
          /\ account' = [account EXCEPT ![a].role = "creator"]
          /\ Step(v, "accept.stamp")
       \/ /\ Refused(v)
          /\ UNCHANGED account
  /\ UNCHANGED invites

(* releaseInvite, by id alone. *)
AcceptReleases(v) ==
  /\ At(v, "accept.release")
  /\ invites' = [invites EXCEPT ![req[v].id].accepted = FALSE]
  /\ Done(v)
  /\ UNCHANGED account

(* The role is the invitation's. *)
AcceptStamps(v) ==
  /\ At(v, "accept.stamp")
  /\ LET invite == invites[req[v].id] IN
       account' = [account EXCEPT ![invite.email].role = invite.role]
  /\ Step(v, "accept.attach")
  /\ UNCHANGED invites

AcceptAttaches(v) ==
  /\ At(v, "accept.attach")
  /\ invites' = [invites EXCEPT ![req[v].id].made = TRUE]
  /\ Done(v)
  /\ UNCHANGED account

(* The process stops: the request ends where it was. *)
Dies(r) ==
  /\ req[r] # Idle
  /\ Done(r)
  /\ UNCHANGED <<account, invites>>

-------------------------------------------------------------------------------
DeskStep(d) ==
  \/ \E o, a \in Accounts :
       \/ \E role \in Roles : RoleReads(d, o, a, role)
       \/ \E role \in StaffRoles : InviteReads(d, o, a, role)
       \/ BanReads(d, o, a) \/ UnbanReads(d, o, a)
  \/ \E o \in Accounts, i \in InviteIds : RevokeReads(d, o, i)
  \/ RoleWrites(d) \/ BanLifts(d) \/ BanWrites(d) \/ UnbanWrites(d)
  \/ InviteReplaces(d) \/ InviteInserts(d) \/ RevokeWrites(d)

VisitStep(v) ==
  \/ \E i \in InviteIds : AcceptReads(v, i)
  \/ AcceptClaims(v) \/ AcceptSignsUp(v) \/ AcceptReleases(v) \/ AcceptStamps(v)
  \/ AcceptAttaches(v)

StaffNext ==
  \/ \E d \in Desks : DeskStep(d)
  \/ \E v \in Visits : VisitStep(v)
  \/ \E a \in Accounts : Register(a) \/ BanEnds(a)
  \/ \E i \in InviteIds : WeekEnds(i)
  \/ \E r \in Mortal : Dies(r)

StaffSpec == StaffInit /\ [][StaffNext]_staffVars

-------------------------------------------------------------------------------
(* Every variable keeps its type: the rows of user and staff_invites, and  *)
(* what the requests carry from one await to the next.                     *)
Invite ==
  [email : Accounts, role : StaffRoles, accepted : BOOLEAN, revoked : BOOLEAN,
   expired : BOOLEAN, made : BOOLEAN]

AcceptOps == {"accept.signup", "accept.release", "accept.stamp", "accept.attach"}

RequestTypes ==
  {Idle} \cup [op : {"role.write"}, a : Accounts, role : Roles]
    \cup [op : {"ban.lift", "ban.write", "unban.write"}, by : Accounts, a : Accounts]
    \cup [op : {"invite.replace", "invite.insert"}, a : Accounts, role : StaffRoles]
    \cup [op : {"revoke.write", "accept.claim"} \cup AcceptOps, id : InviteIds]

StaffTypeOK ==
  /\ account \in [Accounts -> [role : Roles \cup {"none", "creator"}, banned : BOOLEAN]]
  /\ invites \in Seq(Invite) /\ Len(invites) <= MaxInvites
  /\ req \in [Requests -> RequestTypes]
  /\ \A r \in Requests :
       req[r].op \in {"revoke.write", "accept.claim"} \cup AcceptOps => req[r].id \in Issued

Spending(v, i) == req[v].op \in AcceptOps /\ req[v].id = i

(* An invitation is "good for one use": of two that accept it at once only *)
(* one is ever past the claim, through refused sign-ups, invitations put   *)
(* back, withdrawn and issued again, and requests that die.                *)
OneSpender ==
  \A v, w \in Visits, i \in InviteIds : Spending(v, i) /\ Spending(w, i) => v = w

(* A refused sign-up does not "burn a colleague's only link": a spent      *)
(* invitation made the account of its address, or somebody is still making *)
(* it.  An acceptance that is cut short does burn it: none is, here.       *)
NoLinkIsBurnt ==
  \A i \in Issued : invites[i].accepted =>
    Exists(invites[i].email) \/ \E v \in Visits : Spending(v, i)

-------------------------------------------------------------------------------
(* What the code or its documentation says and the code does not do. *)

(* "An operator cannot demote themselves and lock everyone out" (setRole). *)
AnOperatorRemains == \E a \in Accounts : Operator(a)

(* "An address never has two working links" (createInvite). *)
OneWorkingLink ==
  \A i, j \in Issued :
    Live(i) /\ Live(j) /\ invites[i].email = invites[j].email => i = j

(* "Withdraws a pending invitation": what reads withdrawn made no account. *)
WithdrawnMadeNothing == \A i \in Issued : ~(invites[i].revoked /\ invites[i].made)
===============================================================================
