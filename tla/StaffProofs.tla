------------------------------- MODULE StaffProofs ------------------------------
(***************************************************************************)
(* What TLAPS proves of Staff for any number of accounts, invitations and  *)
(* requests: the types; that one acceptance spends an invitation; and,     *)
(* where no acceptance is cut short, that none is lost to a refusal.       *)
(***************************************************************************)
EXTENDS Staff, TLAPS

-------------------------------------------------------------------------------
(* Types *)

AccountRows == [role : Roles \cup {"none", "creator"}, banned : BOOLEAN]

Carries(r) == req[r].op \in {"revoke.write", "accept.claim"} \cup AcceptOps

(* A request that carries an invitation carries one that was issued. *)
LEMMA CarriesIssued ==
  ASSUME StaffTypeOK, NEW r \in Requests, Carries(r)
  PROVE  /\ req[r].id \in Issued /\ req[r].id \in InviteIds
         /\ \A op \in AcceptOps : [req[r] EXCEPT !.op = op] \in RequestTypes
<1> DEFINE Carried == [op : {"revoke.write", "accept.claim"} \cup AcceptOps, id : InviteIds]
<1>1. req[r].id \in Issued
  BY DEF StaffTypeOK, Carries
<1>2. req[r] \in Carried
  BY DEF StaffTypeOK, RequestTypes, Carries, AcceptOps, Idle
<1>3. Carried \subseteq RequestTypes
  BY DEF RequestTypes
<1>4. \A op \in AcceptOps : [req[r] EXCEPT !.op = op] \in Carried
  BY <1>2
<1> QED BY <1>1, <1>2, <1>3, <1>4

(* One request moves on; the rows keep their types, and none is removed. *)
LEMMA StaffMoves ==
  ASSUME StaffTypeOK, NEW r \in Requests, NEW state \in RequestTypes, Goto(r, state),
         account' \in [Accounts -> AccountRows], invites' \in Seq(Invite),
         Len(invites) <= Len(invites'), Len(invites') <= MaxInvites,
         state.op \in {"revoke.write", "accept.claim"} \cup AcceptOps => state.id \in Issued
  PROVE  StaffTypeOK'
<1>1. req' \in [Requests -> RequestTypes]
  BY DEF StaffTypeOK, Goto
<1>2. Issued \subseteq Issued'
  BY DEF Issued, StaffTypeOK
<1>3. \A s \in Requests : req'[s] = IF s = r THEN state ELSE req[s]
  BY DEF StaffTypeOK, Goto
<1>4. \A s \in Requests :
        req'[s].op \in {"revoke.write", "accept.claim"} \cup AcceptOps => req'[s].id \in Issued'
  BY <1>2, <1>3 DEF StaffTypeOK
<1> QED BY <1>1, <1>4 DEF StaffTypeOK, AccountRows

LEMMA RowsType ==
  ASSUME StaffTypeOK
  PROVE  /\ account \in [Accounts -> AccountRows]
         /\ invites \in Seq(Invite) /\ Len(invites) \in Nat /\ Len(invites) <= MaxInvites
         /\ \A i \in Issued : invites[i] \in Invite
BY DEF StaffTypeOK, AccountRows, Issued

LEMMA IdleType == Idle \in RequestTypes /\ Idle.op \notin {"revoke.write", "accept.claim"} \cup AcceptOps
BY DEF Idle, RequestTypes, AcceptOps

(* One invitation is marked. *)
LEMMA MarkType ==
  ASSUME StaffTypeOK, NEW i \in Issued, NEW row \in Invite, invites' = [invites EXCEPT ![i] = row]
  PROVE  invites' \in Seq(Invite) /\ Len(invites') = Len(invites)
<1>1. invites \in [1 .. Len(invites) -> Invite] /\ Len(invites) \in Nat
  BY DEF StaffTypeOK
<1>2. invites' \in [1 .. Len(invites) -> Invite]
  BY <1>1
<1> QED BY <1>1, <1>2

(* The request ends, or goes on with what it carries. *)
LEMMA StaffEnds ==
  ASSUME StaffTypeOK, NEW r \in Requests, Goto(r, Idle), account' \in [Accounts -> AccountRows],
         invites' \in Seq(Invite), Len(invites') \in Nat,
         Len(invites) <= Len(invites'), Len(invites') <= MaxInvites
  PROVE  StaffTypeOK'
BY IdleType, StaffMoves

LEMMA DeskStaffType ==
  ASSUME StaffTypeOK, NEW d \in Desks, DeskStep(d)
  PROVE  StaffTypeOK'
<1>0. d \in Requests /\ Roles \subseteq Roles \cup {"none", "creator"}
  BY DEF Requests
<1> USE StaffAssumption, RowsType, IdleType DEF Done
<1>1. ASSUME NEW o \in Accounts, NEW a \in Accounts, NEW role \in Roles, RoleReads(d, o, a, role)
      PROVE  StaffTypeOK'
  <2> DEFINE state == [op |-> "role.write", a |-> a, role |-> role]
  <2>1. state \in RequestTypes /\ state.op \notin {"revoke.write", "accept.claim"} \cup AcceptOps
    BY DEF RequestTypes, AcceptOps
  <2> QED BY <1>0, <1>1, <2>1, StaffMoves DEF RoleReads
<1>2. ASSUME NEW o \in Accounts, NEW a \in Accounts, NEW role \in StaffRoles, InviteReads(d, o, a, role)
      PROVE  StaffTypeOK'
  <2> DEFINE state == [op |-> "invite.replace", a |-> a, role |-> role]
  <2>1. state \in RequestTypes /\ state.op \notin {"revoke.write", "accept.claim"} \cup AcceptOps
    BY DEF RequestTypes, AcceptOps
  <2> QED BY <1>0, <1>2, <2>1, StaffMoves DEF InviteReads
<1>3. ASSUME NEW o \in Accounts, NEW a \in Accounts, BanReads(d, o, a) \/ UnbanReads(d, o, a)
      PROVE  StaffTypeOK'
  <2>1. PICK op \in {"ban.lift", "ban.write", "unban.write"} :
          Goto(d, [op |-> op, by |-> o, a |-> a])
    BY <1>3 DEF BanReads, UnbanReads
  <2> DEFINE state == [op |-> op, by |-> o, a |-> a]
  <2>2. state \in RequestTypes /\ state.op \notin {"revoke.write", "accept.claim"} \cup AcceptOps
    BY <2>1 DEF RequestTypes, AcceptOps
  <2>3. UNCHANGED <<account, invites>>
    BY <1>3 DEF BanReads, UnbanReads
  <2> QED BY <1>0, <2>1, <2>2, <2>3, StaffMoves
<1>4. ASSUME NEW o \in Accounts, NEW i \in InviteIds, RevokeReads(d, o, i) PROVE StaffTypeOK'
  <2> DEFINE state == [op |-> "revoke.write", id |-> i]
  <2>1. state \in RequestTypes /\ state.id \in Issued
    BY <1>4 DEF RequestTypes, RevokeReads
  <2> QED BY <1>0, <1>4, <2>1, StaffMoves DEF RevokeReads
<1>5. CASE RoleWrites(d)
  <2>1. req[d].a \in Accounts /\ req[d].role \in Roles
    BY <1>0, <1>5 DEF RoleWrites, At, StaffTypeOK, RequestTypes, AcceptOps, Idle
  <2>2. account' \in [Accounts -> AccountRows]
    BY <1>0, <1>5, <2>1 DEF RoleWrites, AccountRows
  <2> QED BY <1>0, <1>5, <2>2, StaffMoves DEF RoleWrites
<1>6. CASE BanLifts(d) \/ BanWrites(d) \/ UnbanWrites(d)
  <2>1. req[d] \in [op : {"ban.lift", "ban.write", "unban.write"}, by : Accounts, a : Accounts]
    BY <1>0, <1>6 DEF BanLifts, BanWrites, UnbanWrites, Bars, At, StaffTypeOK, RequestTypes,
                      AcceptOps, Idle
  <2>2. account' = account \/ \E b \in BOOLEAN : account' = [account EXCEPT ![req[d].a].banned = b]
    BY <1>6 DEF BanLifts, BanWrites, UnbanWrites, Bars
  <2>5. account' \in [Accounts -> AccountRows]
    <3>1. account \in [Accounts -> AccountRows] /\ req[d].a \in Accounts
      BY <2>1
    <3>2. \A b \in BOOLEAN : [account[req[d].a] EXCEPT !.banned = b] \in AccountRows
      BY <3>1 DEF AccountRows
    <3> QED BY ONLY <2>2, <3>1, <3>2
  <2>6. UNCHANGED invites
    BY <1>6 DEF BanLifts, BanWrites, UnbanWrites, Bars
  <2>3. Goto(d, Idle) \/ Goto(d, [req[d] EXCEPT !.op = "ban.write"])
    BY <1>6 DEF BanLifts, BanWrites, UnbanWrites, Bars, Step
  <2>4. /\ [req[d] EXCEPT !.op = "ban.write"] \in RequestTypes
        /\ [req[d] EXCEPT !.op = "ban.write"].op \notin {"revoke.write", "accept.claim"} \cup AcceptOps
    BY <2>1 DEF RequestTypes, AcceptOps
  <2>7. CASE Goto(d, Idle)
    BY <1>0, <2>5, <2>6, <2>7, StaffEnds
  <2>8. CASE Goto(d, [req[d] EXCEPT !.op = "ban.write"])
    <3> DEFINE state == [req[d] EXCEPT !.op = "ban.write"]
    <3>1. Goto(d, state)
      BY <2>8
    <3>2. state \in RequestTypes /\ state.op \notin {"revoke.write", "accept.claim"} \cup AcceptOps
      BY <2>4
    <3> HIDE DEF state
    <3> QED BY <1>0, <2>5, <2>6, <3>1, <3>2, StaffMoves
  <2> QED BY <2>3, <2>7, <2>8
<1>7. CASE InviteReplaces(d)
  <2>1. req[d] \in [op : {"invite.replace", "invite.insert"}, a : Accounts, role : StaffRoles]
    BY <1>0, <1>7 DEF InviteReplaces, At, StaffTypeOK, RequestTypes, AcceptOps, Idle
  <2>2. /\ [req[d] EXCEPT !.op = "invite.insert"] \in RequestTypes
        /\ [req[d] EXCEPT !.op = "invite.insert"].op \notin {"revoke.write", "accept.claim"} \cup AcceptOps
    BY <2>1 DEF RequestTypes, AcceptOps
  <2>3. \A i \in Issued : [invites[i] EXCEPT !.revoked = TRUE] \in Invite
    BY DEF Invite
  <2>4. invites' \in [1 .. Len(invites) -> Invite]
    BY <1>7, <2>3 DEF InviteReplaces, Issued
  <2>5. invites' \in Seq(Invite) /\ Len(invites') = Len(invites)
    BY <2>4
  <2>6. UNCHANGED account /\ Goto(d, [req[d] EXCEPT !.op = "invite.insert"])
    BY <1>7 DEF InviteReplaces, Step
  <2>7. Len(invites) <= Len(invites') /\ Len(invites') <= MaxInvites
    BY <2>5
  <2> QED BY <1>0, <2>2, <2>5, <2>6, <2>7, StaffMoves
<1>8. CASE InviteInserts(d)
  <2>1. req[d] \in [op : {"invite.replace", "invite.insert"}, a : Accounts, role : StaffRoles]
    BY <1>0, <1>8 DEF InviteInserts, At, StaffTypeOK, RequestTypes, AcceptOps, Idle
  <2> DEFINE row == [email |-> req[d].a, role |-> req[d].role, accepted |-> FALSE,
                     revoked |-> FALSE, expired |-> FALSE, made |-> FALSE]
  <2>2. row \in Invite
    BY <2>1 DEF Invite
  <2>3. invites' = Append(invites, row)
    BY <1>8 DEF InviteInserts
  <2> HIDE DEF row
  <2>4. invites' \in Seq(Invite) /\ Len(invites') = Len(invites) + 1
    BY <2>2, <2>3
  <2>5. UNCHANGED account /\ Goto(d, Idle) /\ Len(invites) < MaxInvites
    BY <1>8 DEF InviteInserts
  <2>6. Len(invites) <= Len(invites') /\ Len(invites') <= MaxInvites /\ Len(invites') \in Nat
    BY <2>4, <2>5
  <2> QED BY <1>0, <2>4, <2>5, <2>6, StaffEnds
<1>9. CASE RevokeWrites(d)
  <2>1. req[d].id \in Issued
    BY <1>0, <1>9, CarriesIssued DEF RevokeWrites, At, Carries
  <2>2. [invites[req[d].id] EXCEPT !.revoked = TRUE] \in Invite
    BY <2>1 DEF Invite
  <2>3. invites' \in Seq(Invite) /\ Len(invites') = Len(invites)
    BY <1>9, <2>1, <2>2, MarkType DEF RevokeWrites
  <2>4. UNCHANGED account /\ Goto(d, Idle)
    BY <1>9 DEF RevokeWrites
  <2>5. Len(invites) <= Len(invites') /\ Len(invites') <= MaxInvites /\ Len(invites') \in Nat
    BY <2>3
  <2> QED BY <1>0, <2>3, <2>4, <2>5, StaffEnds
<1> QED BY <1>1, <1>2, <1>3, <1>4, <1>5, <1>6, <1>7, <1>8, <1>9 DEF DeskStep

LEMMA VisitStaffType ==
  ASSUME StaffTypeOK, NEW v \in Visits, VisitStep(v)
  PROVE  StaffTypeOK'
<1>0. v \in Requests
  BY DEF Requests
<1> USE StaffAssumption, RowsType, IdleType DEF Done
<1>1. ASSUME NEW i \in InviteIds, AcceptReads(v, i) PROVE StaffTypeOK'
  <2> DEFINE state == [op |-> "accept.claim", id |-> i]
  <2>1. state \in RequestTypes /\ state.id \in Issued
    BY <1>1 DEF RequestTypes, AcceptReads
  <2> QED BY <1>0, <1>1, <2>1, StaffMoves DEF AcceptReads
<1>2. ASSUME Carries(v), account' \in [Accounts -> AccountRows],
             \/ UNCHANGED invites
             \/ \E row \in Invite : invites' = [invites EXCEPT ![req[v].id] = row],
             Goto(v, Idle) \/ \E op \in AcceptOps : Goto(v, [req[v] EXCEPT !.op = op])
      PROVE  StaffTypeOK'
  <2>1. req[v].id \in Issued /\ \A op \in AcceptOps : [req[v] EXCEPT !.op = op] \in RequestTypes
    BY <1>0, <1>2, CarriesIssued
  <2>2. invites' \in Seq(Invite) /\ Len(invites') = Len(invites)
    BY <1>2, <2>1, MarkType
  <2>5. Len(invites) <= Len(invites') /\ Len(invites') <= MaxInvites /\ Len(invites') \in Nat
    BY <2>2
  <2>3. CASE Goto(v, Idle)
    BY <1>0, <1>2, <2>2, <2>3, <2>5, StaffEnds
  <2>4. ASSUME NEW op \in AcceptOps, Goto(v, [req[v] EXCEPT !.op = op]) PROVE StaffTypeOK'
    <3> DEFINE state == [req[v] EXCEPT !.op = op]
    <3>1. Goto(v, state) /\ state \in RequestTypes /\ state.id = req[v].id
      BY <2>1, <2>4
    <3> HIDE DEF state
    <3> QED BY <1>0, <1>2, <2>1, <2>2, <2>5, <3>1, StaffMoves
  <2> QED BY <1>2, <2>3, <2>4
<1>3. ASSUME Carries(v)
      PROVE  \A b \in BOOLEAN : /\ [invites[req[v].id] EXCEPT !.accepted = b] \in Invite
                                /\ [invites[req[v].id] EXCEPT !.made = b] \in Invite
  BY <1>0, <1>3, CarriesIssued DEF Invite
<1>4. CASE AcceptClaims(v)
  <2>1. Carries(v)
    BY <1>4 DEF AcceptClaims, At, Carries
  <2> QED BY <1>2, <1>3, <1>4, <2>1 DEF AcceptClaims, Step, AcceptOps
<1>5. CASE AcceptSignsUp(v)
  <2>1. Carries(v)
    BY <1>5 DEF AcceptSignsUp, At, Carries, AcceptOps
  <2>2. account' \in [Accounts -> AccountRows]
    BY <1>5 DEF AcceptSignsUp, AccountRows
  <2> QED BY <1>2, <1>5, <2>1, <2>2 DEF AcceptSignsUp, Refused, Step, AcceptOps
<1>6. CASE AcceptReleases(v)
  <2>1. Carries(v)
    BY <1>6 DEF AcceptReleases, At, Carries, AcceptOps
  <2> QED BY <1>2, <1>3, <1>6, <2>1 DEF AcceptReleases
<1>7. CASE AcceptStamps(v)
  <2>1. Carries(v)
    BY <1>7 DEF AcceptStamps, At, Carries, AcceptOps
  <2>2. invites[req[v].id].role \in Roles
    BY <1>0, <2>1, CarriesIssued DEF Invite
  <2>3. account' \in [Accounts -> AccountRows]
    BY <1>7, <2>2 DEF AcceptStamps, AccountRows
  <2> QED BY <1>2, <1>7, <2>1, <2>3 DEF AcceptStamps, Step, AcceptOps
<1>8. CASE AcceptAttaches(v)
  <2>1. Carries(v)
    BY <1>8 DEF AcceptAttaches, At, Carries, AcceptOps
  <2> QED BY <1>2, <1>3, <1>8, <2>1 DEF AcceptAttaches
<1> QED BY <1>1, <1>4, <1>5, <1>6, <1>7, <1>8 DEF VisitStep

LEMMA StaffStepType == StaffTypeOK /\ [StaffNext]_staffVars => StaffTypeOK'
<1> SUFFICES ASSUME StaffTypeOK, [StaffNext]_staffVars PROVE StaffTypeOK'
  OBVIOUS
<1>1. ASSUME NEW a \in Accounts, Register(a) \/ BanEnds(a) PROVE StaffTypeOK'
  <2>1. account' \in [Accounts -> AccountRows]
    BY <1>1, RowsType DEF Register, BanEnds, AccountRows
  <2> QED BY <1>1, <2>1 DEF Register, BanEnds, StaffTypeOK, AccountRows, Issued
<1>2. ASSUME NEW i \in InviteIds, WeekEnds(i) PROVE StaffTypeOK'
  <2>1. [invites[i] EXCEPT !.expired = TRUE] \in Invite
    BY <1>2, RowsType DEF WeekEnds, Invite
  <2>2. invites' \in Seq(Invite) /\ Len(invites') = Len(invites)
    BY <1>2, <2>1, MarkType DEF WeekEnds
  <2> QED BY <1>2, <2>2 DEF WeekEnds, StaffTypeOK, Issued
<1>3. ASSUME NEW r \in Mortal, Dies(r) PROVE StaffTypeOK'
  <2>1. r \in Requests
    BY StaffAssumption DEF Requests
  <2> QED BY <1>3, <2>1, RowsType, IdleType, StaffMoves, StaffAssumption DEF Dies, Done
<1>4. CASE UNCHANGED staffVars
  BY <1>4 DEF staffVars, StaffTypeOK, Issued
<1> QED BY <1>1, <1>2, <1>3, <1>4, DeskStaffType, VisitStaffType DEF StaffNext

LEMMA StaffInitType == StaffInit => StaffTypeOK
BY StaffAssumption DEF StaffInit, StaffTypeOK, RequestTypes, Idle, AcceptOps

(* The rows of user and staff_invites, and what the requests on them carry,*)
(* keep their types: an invitation that is carried was issued.             *)
THEOREM StaffTypeCorrect == StaffSpec => []StaffTypeOK
BY StaffInitType, StaffStepType, PTL DEF StaffSpec

-------------------------------------------------------------------------------
(* What everybody but the visitor does to an invitation *)

(* No invitation is spent or put back, and no account removed. *)
RowsKept ==
  /\ Issued \subseteq Issued'
  /\ \A i \in Issued :
       invites'[i].accepted = invites[i].accepted /\ invites'[i].email = invites[i].email
  /\ \A i \in Issued' \ Issued : ~invites'[i].accepted
  /\ \A a \in Accounts : account[a].role # "none" => account'[a].role # "none"

VisitsStay == \A v \in Visits : req'[v] = req[v]

LEMMA KeptInvites ==
  ASSUME StaffTypeOK, UNCHANGED invites,
         \A a \in Accounts : account[a].role # "none" => account'[a].role # "none"
  PROVE  RowsKept
BY DEF RowsKept, Issued

LEMMA DeskKeeps ==
  ASSUME StaffTypeOK, NEW d \in Desks, DeskStep(d)
  PROVE  RowsKept /\ VisitsStay
<1>0. d \in Requests /\ d \notin Visits
  BY StaffAssumption DEF Requests
<1>1. VisitsStay
  <2>1. \A state : Goto(d, state) => VisitsStay
    BY <1>0 DEF Goto, StaffTypeOK, VisitsStay, Requests
  <2>2. \E state : Goto(d, state)
    BY DEF DeskStep, RoleReads, InviteReads, BanReads, UnbanReads, RevokeReads, RoleWrites,
       BanLifts, BanWrites, UnbanWrites, Bars, InviteReplaces, InviteInserts, RevokeWrites,
       Step, Done
  <2> QED BY <2>1, <2>2
<1>2. CASE UNCHANGED <<account, invites>>
  BY <1>1, <1>2, KeptInvites
<1>3. CASE RoleWrites(d)
  <2>1. req[d].role \in Roles
    BY <1>0, <1>3 DEF RoleWrites, At, StaffTypeOK, RequestTypes, AcceptOps, Idle
  <2>2. \A a \in Accounts : account[a].role # "none" => account'[a].role # "none"
    BY <1>3, <2>1, RowsType, StaffAssumption DEF RoleWrites, AccountRows
  <2> QED BY <1>1, <1>3, <2>2, KeptInvites DEF RoleWrites
<1>4. CASE BanLifts(d) \/ BanWrites(d) \/ UnbanWrites(d)
  <2>1. account' = account \/ \E b \in BOOLEAN : account' = [account EXCEPT ![req[d].a].banned = b]
    BY <1>4 DEF BanLifts, BanWrites, UnbanWrites, Bars
  <2>2. UNCHANGED invites
    BY <1>4 DEF BanLifts, BanWrites, UnbanWrites, Bars
  <2>3. \A a \in Accounts : account[a].role # "none" => account'[a].role # "none"
    BY <2>1, RowsType DEF AccountRows
  <2> QED BY <1>1, <2>2, <2>3, KeptInvites
<1>5. CASE InviteReplaces(d)
  <2>1. invites' = [i \in Issued |->
          IF invites[i].email = req[d].a /\ Live(i)
            THEN [invites[i] EXCEPT !.revoked = TRUE] ELSE invites[i]]
    BY <1>5 DEF InviteReplaces
  <2>2. \A i \in Issued : invites'[i].accepted = invites[i].accepted /\ invites'[i].email = invites[i].email
    <3> TAKE i \in Issued
    <3>1. invites[i] \in Invite
      BY RowsType
    <3>2. invites'[i] = [invites[i] EXCEPT !.revoked = TRUE] \/ invites'[i] = invites[i]
      BY <2>1
    <3> QED BY <3>1, <3>2 DEF Invite
  <2>3. Issued' = Issued
    BY <2>1, RowsType DEF Issued
  <2>4. UNCHANGED account
    BY <1>5 DEF InviteReplaces
  <2> QED BY <1>1, <2>2, <2>3, <2>4 DEF RowsKept
<1>6. CASE InviteInserts(d)
  <2> DEFINE row == [email |-> req[d].a, role |-> req[d].role, accepted |-> FALSE,
                     revoked |-> FALSE, expired |-> FALSE, made |-> FALSE]
  <2>1. invites' = Append(invites, row) /\ row.accepted = FALSE /\ UNCHANGED account
    BY <1>6 DEF InviteInserts
  <2> HIDE DEF row
  <2>2. /\ Len(invites) \in Nat /\ Len(invites') = Len(invites) + 1
        /\ \A i \in 1 .. Len(invites) : invites'[i] = invites[i]
        /\ invites'[Len(invites) + 1] = row
    BY <2>1, RowsType
  <2>3. \A i \in Issued' \ Issued : i = Len(invites) + 1
    BY <2>2 DEF Issued
  <2>4. Issued \subseteq Issued'
    BY <2>2 DEF Issued
  <2> QED BY <1>1, <2>1, <2>2, <2>3, <2>4 DEF RowsKept, Issued
<1>7. CASE RevokeWrites(d)
  <2>1. invites' = [invites EXCEPT ![req[d].id].revoked = TRUE] /\ UNCHANGED account
    BY <1>7 DEF RevokeWrites
  <2>2. Issued' = Issued /\ \A i \in Issued :
          invites'[i].accepted = invites[i].accepted /\ invites'[i].email = invites[i].email
    BY <2>1, RowsType DEF Issued, Invite
  <2> QED BY <1>1, <2>1, <2>2 DEF RowsKept
<1> QED BY <1>2, <1>3, <1>4, <1>5, <1>6, <1>7
       DEF DeskStep, RoleReads, InviteReads, BanReads, UnbanReads, RevokeReads

LEMMA OthersKeep ==
  ASSUME StaffTypeOK,
         \/ \E a \in Accounts : Register(a) \/ BanEnds(a)
         \/ \E i \in InviteIds : WeekEnds(i)
  PROVE  RowsKept /\ VisitsStay
<1>1. ASSUME NEW a \in Accounts, Register(a) \/ BanEnds(a) PROVE RowsKept /\ VisitsStay
  BY <1>1, RowsType, KeptInvites DEF Register, BanEnds, AccountRows, VisitsStay
<1>2. ASSUME NEW i \in InviteIds, WeekEnds(i) PROVE RowsKept /\ VisitsStay
  <2>1. invites' = [invites EXCEPT ![i].expired = TRUE] /\ UNCHANGED <<account, req>>
    BY <1>2 DEF WeekEnds
  <2>2. Issued' = Issued /\ \A j \in Issued :
          invites'[j].accepted = invites[j].accepted /\ invites'[j].email = invites[j].email
    BY <2>1, RowsType DEF Issued, Invite
  <2> QED BY <2>1, <2>2 DEF RowsKept, VisitsStay
<1> QED BY <1>1, <1>2

-------------------------------------------------------------------------------
(* Good for one use *)

(* Whoever is past the claim found the invitation unspent, and marked it. *)
SpenderMarked ==
  \A v \in Visits, i \in InviteIds : Spending(v, i) => i \in Issued /\ invites[i].accepted

SpendInv == StaffTypeOK /\ OneSpender /\ SpenderMarked

(* Nobody begins to spend one, and those that do stay marked. *)
LEMMA SpendKeeps ==
  ASSUME SpendInv, StaffTypeOK',
         \A v \in Visits, i \in InviteIds :
           Spending(v, i)' => Spending(v, i) /\ i \in Issued' /\ invites'[i].accepted
  PROVE  SpendInv'
BY DEF SpendInv, OneSpender, SpenderMarked

LEMMA SpendOutside ==
  ASSUME SpendInv, StaffTypeOK', RowsKept,
         \A v \in Visits : req'[v] = req[v] \/ req'[v] = Idle
  PROVE  SpendInv'
<1>1. ASSUME NEW v \in Visits, NEW i \in InviteIds, Spending(v, i)'
      PROVE  Spending(v, i) /\ i \in Issued' /\ invites'[i].accepted
  <2>1. Spending(v, i)
    BY <1>1 DEF Spending, Idle, AcceptOps
  <2> QED BY <2>1 DEF SpendInv, SpenderMarked, RowsKept
<1> QED BY <1>1, SpendKeeps

(* A step of a visitor past the claim, that leaves the mark. *)
LEMMA SpendGoesOn ==
  ASSUME SpendInv, StaffTypeOK', NEW v \in Visits, req[v].op \in AcceptOps,
         Goto(v, Idle) \/ \E op \in AcceptOps : Goto(v, [req[v] EXCEPT !.op = op]),
         Issued' = Issued, \A i \in Issued : invites'[i].accepted = invites[i].accepted
  PROVE  SpendInv'
<1>1. v \in Requests /\ req \in [Requests -> RequestTypes]
  BY DEF Requests, SpendInv, StaffTypeOK
<1>2. \A w \in Visits \ {v} : req'[w] = req[w]
  BY <1>1 DEF Goto, Requests
<1>3. \A op \in AcceptOps : [req[v] EXCEPT !.op = op].id = req[v].id
  BY <1>1 DEF RequestTypes, AcceptOps, Idle
<1>4. req'[v] = Idle \/ req'[v].id = req[v].id
  BY <1>1, <1>3 DEF Goto
<1>5. ASSUME NEW w \in Visits, NEW i \in InviteIds, Spending(w, i)'
      PROVE  Spending(w, i) /\ i \in Issued' /\ invites'[i].accepted
  <2>1. Spending(w, i)
    BY <1>2, <1>4, <1>5 DEF Spending, Idle, AcceptOps
  <2> QED BY <2>1 DEF SpendInv, SpenderMarked
<1> QED BY <1>5, SpendKeeps

LEMMA SpendOfVisit ==
  ASSUME SpendInv, StaffTypeOK', NEW v \in Visits, VisitStep(v)
  PROVE  SpendInv'
<1>0. v \in Requests /\ req \in [Requests -> RequestTypes] /\ StaffTypeOK
  BY DEF Requests, SpendInv, StaffTypeOK
<1>1. ASSUME NEW i \in InviteIds, AcceptReads(v, i) PROVE SpendInv'
  <2>1. /\ req'[v].op = "accept.claim" /\ UNCHANGED invites
        /\ \A w \in Visits \ {v} : req'[w] = req[w]
    BY <1>0, <1>1 DEF AcceptReads, Goto, Requests
  <2>2. \A w \in Visits, j \in InviteIds : Spending(w, j)' => Spending(w, j)
    BY <2>1 DEF Spending, AcceptOps
  <2> QED BY <2>1, <2>2, SpendKeeps DEF SpendInv, SpenderMarked, Issued
<1>2. CASE AcceptClaims(v)
  <2> DEFINE k == req[v].id
  <2>1. k \in Issued /\ k \in InviteIds
    BY <1>0, <1>2, CarriesIssued DEF AcceptClaims, At, Carries
  <2>2. CASE ~MayClaim(k)
    <3>1. UNCHANGED invites /\ Goto(v, Idle)
      BY <1>2, <2>2 DEF AcceptClaims, Done
    <3>2. \A w \in Visits : req'[w] = req[w] \/ req'[w] = Idle
      BY <1>0, <3>1 DEF Goto, Requests
    <3>3. UNCHANGED account
      BY <1>2 DEF AcceptClaims
    <3> QED BY <1>0, <3>1, <3>2, <3>3, SpendOutside, KeptInvites
  <2>3. CASE MayClaim(k)
    <3>1. ~invites[k].accepted
      BY <2>3 DEF MayClaim, Live
    <3>2. /\ invites' = [invites EXCEPT ![k].accepted = TRUE]
          /\ Goto(v, [req[v] EXCEPT !.op = "accept.signup"])
      BY <1>2, <2>3 DEF AcceptClaims, Step
    <3>3. Issued' = Issued /\ invites'[k].accepted
          /\ \A i \in Issued : invites[i].accepted => invites'[i].accepted
      BY <1>0, <2>1, <3>2, RowsType DEF Issued, Invite
    <3>4. \A w \in Visits : ~Spending(w, k)
      BY <2>1, <3>1 DEF SpendInv, SpenderMarked
    <3>5. \A w \in Visits \ {v} : req'[w] = req[w]
      BY <1>0, <3>2 DEF Goto, Requests
    <3>6. [req[v] EXCEPT !.op = "accept.signup"].id = k
      BY <1>0, <1>2 DEF AcceptClaims, At, RequestTypes, AcceptOps, Idle
    <3>7. req'[v].id = k
      BY <1>0, <3>2, <3>6 DEF Goto
    <3>8. \A w \in Visits, i \in InviteIds :
            Spending(w, i)' => (w = v /\ i = k) \/ (w # v /\ i # k /\ Spending(w, i))
      BY <3>4, <3>5, <3>7 DEF Spending
    <3>9. OneSpender'
      BY <3>8 DEF OneSpender, SpendInv
    <3>10. SpenderMarked'
      BY <2>1, <3>3, <3>8 DEF SpenderMarked, SpendInv
    <3> QED BY <3>9, <3>10 DEF SpendInv
  <2> QED BY <2>2, <2>3
<1>3. CASE AcceptSignsUp(v) \/ AcceptStamps(v)
  <2>1. /\ req[v].op \in AcceptOps /\ UNCHANGED invites
        /\ \E op \in AcceptOps : Goto(v, [req[v] EXCEPT !.op = op])
    BY <1>3 DEF AcceptSignsUp, AcceptStamps, Refused, Step, At, AcceptOps
  <2> QED BY <2>1, SpendGoesOn DEF Issued
<1>4. CASE AcceptAttaches(v)
  <2>1. req[v].op \in AcceptOps /\ Goto(v, Idle)
    BY <1>4 DEF AcceptAttaches, At, Done, AcceptOps
  <2>2. Issued' = Issued /\ \A i \in Issued : invites'[i].accepted = invites[i].accepted
    BY <1>0, <1>4, RowsType DEF AcceptAttaches, Issued, Invite
  <2> QED BY <2>1, <2>2, SpendGoesOn
<1>5. CASE AcceptReleases(v)
  <2> DEFINE k == req[v].id
  <2>1. k \in Issued /\ k \in InviteIds /\ Spending(v, k)
    BY <1>0, <1>5, CarriesIssued DEF AcceptReleases, At, Carries, AcceptOps, Spending
  <2>2. Issued' = Issued /\ \A i \in Issued \ {k} : invites'[i].accepted = invites[i].accepted
    <3>1. invites' = [invites EXCEPT ![k].accepted = FALSE]
      BY <1>5 DEF AcceptReleases
    <3>2. Issued' = Issued
      BY <1>0, <3>1, RowsType DEF Issued
    <3>3. \A i \in Issued \ {k} : invites'[i] = invites[i]
      BY <1>0, <3>1, RowsType DEF Issued
    <3> QED BY <3>2, <3>3
  <2>3. req'[v] = Idle /\ \A w \in Visits \ {v} : req'[w] = req[w]
    BY <1>0, <1>5 DEF AcceptReleases, Done, Goto, Requests
  <2>4. \A w \in Visits, i \in InviteIds : Spending(w, i)' => w # v /\ Spending(w, i)
    BY <2>3 DEF Spending, Idle, AcceptOps
  <2>5. \A w \in Visits : Spending(w, k) => w = v
    BY <2>1 DEF SpendInv, OneSpender
  <2> QED BY <2>2, <2>4, <2>5, SpendKeeps DEF SpendInv, SpenderMarked
<1> QED BY <1>1, <1>2, <1>3, <1>4, <1>5 DEF VisitStep

LEMMA SpendStep == SpendInv /\ [StaffNext]_staffVars => SpendInv'
<1> SUFFICES ASSUME SpendInv, [StaffNext]_staffVars PROVE SpendInv'
  OBVIOUS
<1>0. StaffTypeOK /\ StaffTypeOK'
  BY StaffStepType DEF SpendInv
<1>1. ASSUME NEW r \in Mortal, Dies(r) PROVE SpendInv'
  <2>0. r \in Requests /\ req \in [Requests -> RequestTypes] /\ Goto(r, Idle)
    BY <1>0, <1>1, StaffAssumption DEF Dies, Done, StaffTypeOK, Requests
  <2>1. \A v \in Visits : req'[v] = req[v] \/ req'[v] = Idle
    BY <2>0 DEF Goto, Requests
  <2> QED BY <1>0, <1>1, <2>1, KeptInvites, SpendOutside DEF Dies
<1>2. CASE UNCHANGED staffVars
  BY <1>0, <1>2, KeptInvites, SpendOutside DEF staffVars
<1>3. ASSUME RowsKept, VisitsStay PROVE SpendInv'
  BY <1>0, <1>3, SpendOutside DEF VisitsStay
<1> QED BY <1>0, <1>1, <1>2, <1>3, DeskKeeps, OthersKeep, SpendOfVisit DEF StaffNext

LEMMA SpendInit == StaffInit => SpendInv
BY StaffInitType DEF StaffInit, SpendInv, OneSpender, SpenderMarked, Spending, Idle, AcceptOps,
   Requests

(* An invitation is good for one use: however many open it at once, are    *)
(* refused, put it back or stop half way, one at a time is past the claim. *)
THEOREM OneSpenderOnly == StaffSpec => []OneSpender
<1>1. SpendInv => OneSpender
  BY DEF SpendInv
<1> QED BY <1>1, SpendInit, SpendStep, PTL DEF StaffSpec

-------------------------------------------------------------------------------
(* No link is burnt *)

(* The code has no way back for an acceptance that is cut short. *)
VisitsLive == Mortal \cap Visits = {}

(* Past the sign-up there is an account, and it stays. *)
SignedUp ==
  \A v \in Visits : req[v].op \in {"accept.stamp", "accept.attach"} => Exists(invites[req[v].id].email)

LinkInv == SpendInv /\ NoLinkIsBurnt /\ SignedUp

LEMMA LinkOutside ==
  ASSUME LinkInv, SpendInv', RowsKept, VisitsStay
  PROVE  LinkInv'
<1>0. StaffTypeOK /\ \A v \in Visits : v \in Requests
  BY DEF LinkInv, SpendInv, Requests
<1>1. \A i \in Issued : invites[i].email \in Accounts
  BY <1>0, RowsType DEF Invite
<1>2. \A i \in Issued :
        account[invites[i].email].role # "none" => account'[invites'[i].email].role # "none"
  BY <1>1 DEF RowsKept
<1>3. NoLinkIsBurnt'
  <2> SUFFICES ASSUME NEW i \in Issued', invites'[i].accepted
               PROVE  \/ account'[invites'[i].email].role # "none"
                      \/ \E v \in Visits : req'[v].op \in AcceptOps /\ req'[v].id = i
    BY DEF NoLinkIsBurnt, Exists, Spending
  <2>1. i \in Issued /\ invites[i].accepted
    BY DEF RowsKept
  <2> QED BY <1>2, <2>1 DEF LinkInv, NoLinkIsBurnt, Exists, VisitsStay, Spending
<1>4. SignedUp'
  <2> SUFFICES ASSUME NEW v \in Visits, req'[v].op \in {"accept.stamp", "accept.attach"}
               PROVE  account'[invites'[req'[v].id].email].role # "none"
    BY DEF SignedUp, Exists
  <2>1. req'[v] = req[v]
    BY DEF VisitsStay
  <2>2. req[v].id \in Issued
    BY <1>0, <2>1, CarriesIssued DEF Carries, AcceptOps
  <2>3. account[invites[req[v].id].email].role # "none"
    BY <2>1 DEF LinkInv, SignedUp, Exists
  <2> QED BY <1>2, <2>1, <2>2, <2>3
<1> QED BY <1>3, <1>4 DEF LinkInv

(* A step of one visitor, which marks no invitation but its own. *)
LEMMA LinkMoves ==
  ASSUME LinkInv, SpendInv', NEW v \in Visits, NEW k \in Issued, k = req[v].id,
         Issued' = Issued,
         \A i \in Issued : invites'[i].email = invites[i].email,
         \A i \in Issued \ {k} : invites'[i].accepted => invites[i].accepted,
         \A a \in Accounts : account[a].role # "none" => account'[a].role # "none",
         invites'[k].accepted => \/ account'[invites[k].email].role # "none"
                                 \/ req'[v].op \in AcceptOps /\ req'[v].id = k,
         req'[v].op \in {"accept.stamp", "accept.attach"} =>
           req'[v].id = k /\ account'[invites[k].email].role # "none",
         \A w \in Visits \ {v} : req'[w] = req[w]
  PROVE  LinkInv'
<1>0. StaffTypeOK /\ \A w \in Visits : w \in Requests
  BY DEF LinkInv, SpendInv, Requests
<1>1. \A i \in Issued : invites[i].email \in Accounts
  BY <1>0, RowsType DEF Invite
<1>2. NoLinkIsBurnt'
  <2> SUFFICES ASSUME NEW i \in Issued, invites'[i].accepted
               PROVE  \/ account'[invites'[i].email].role # "none"
                      \/ \E w \in Visits : req'[w].op \in AcceptOps /\ req'[w].id = i
    BY DEF NoLinkIsBurnt, Exists, Spending
  <2>1. CASE i = k
    BY <2>1
  <2>2. CASE i # k
    <3>1. account[invites[i].email].role # "none" \/ \E w \in Visits : Spending(w, i)
      BY <2>2 DEF LinkInv, NoLinkIsBurnt, Exists
    <3>2. ~Spending(v, i)
      BY <2>2 DEF Spending
    <3> QED BY <1>1, <3>1, <3>2 DEF Spending
  <2> QED BY <2>1, <2>2
<1>3. SignedUp'
  <2> SUFFICES ASSUME NEW w \in Visits, req'[w].op \in {"accept.stamp", "accept.attach"}
               PROVE  account'[invites'[req'[w].id].email].role # "none"
    BY DEF SignedUp, Exists
  <2>1. CASE w = v
    BY <2>1
  <2>2. CASE w # v
    <3>1. req'[w] = req[w]
      BY <2>2
    <3>2. req[w].id \in Issued
      BY <1>0, <3>1, CarriesIssued DEF Carries, AcceptOps
    <3>3. account[invites[req[w].id].email].role # "none"
      BY <3>1 DEF LinkInv, SignedUp, Exists
    <3> QED BY <1>1, <3>1, <3>2, <3>3
  <2> QED BY <2>1, <2>2
<1> QED BY <1>2, <1>3 DEF LinkInv

LEMMA LinkOfVisit ==
  ASSUME LinkInv, SpendInv', NEW v \in Visits, VisitStep(v)
  PROVE  LinkInv'
<1> DEFINE k == req[v].id
<1>0. /\ v \in Requests /\ req \in [Requests -> RequestTypes] /\ StaffTypeOK
      /\ account \in [Accounts -> AccountRows] /\ Len(invites) \in Nat
      /\ invites \in Seq(Invite)
  BY RowsType DEF LinkInv, SpendInv, StaffTypeOK, Requests
<1>1. ASSUME NEW i \in InviteIds, AcceptReads(v, i) PROVE LinkInv'
  <2>1. /\ req[v].op = "idle" /\ req'[v].op = "accept.claim"
        /\ UNCHANGED <<account, invites>> /\ \A w \in Visits \ {v} : req'[w] = req[w]
    BY <1>0, <1>1 DEF AcceptReads, Goto, Requests, Idle
  <2>2. \A w \in Visits, j \in Issued : Spending(w, j) => Spending(w, j)'
    BY <2>1 DEF Spending, AcceptOps
  <2>3. NoLinkIsBurnt'
    BY <2>1, <2>2 DEF LinkInv, NoLinkIsBurnt, Issued, Exists
  <2>4. SignedUp'
    BY <2>1 DEF LinkInv, SignedUp, Exists
  <2> QED BY <2>3, <2>4 DEF LinkInv
<1>2. ASSUME Carries(v), NEW state, Goto(v, state)
      PROVE  /\ k \in Issued /\ invites[k].email \in Accounts /\ req'[v] = state
             /\ \A w \in Visits \ {v} : req'[w] = req[w]
             /\ \A op \in AcceptOps : [req[v] EXCEPT !.op = op].op = op /\ [req[v] EXCEPT !.op = op].id = k
  <2>1. k \in Issued /\ invites[k] \in Invite
    BY <1>0, <1>2, CarriesIssued, RowsType
  <2>2. req[v] \in [op : {"revoke.write", "accept.claim"} \cup AcceptOps, id : InviteIds]
    BY <1>0, <1>2 DEF RequestTypes, Carries, AcceptOps, Idle
  <2> QED BY <1>0, <1>2, <2>1, <2>2 DEF Goto, Requests, Invite
<1>3. CASE AcceptClaims(v)
  <2>1. Carries(v)
    BY <1>3 DEF AcceptClaims, At, Carries
  <2>2. CASE ~MayClaim(k)
    <3>1. Goto(v, Idle) /\ UNCHANGED <<account, invites>> /\ req[v].op = "accept.claim"
      BY <1>3, <2>2 DEF AcceptClaims, Done, At
    <3>2. req'[v] = Idle /\ (\A w \in Visits \ {v} : req'[w] = req[w]) /\ k \in Issued
      BY <1>2, <2>1, <3>1
    <3>3. \A w \in Visits, j \in Issued : Spending(w, j) => Spending(w, j)'
      BY <3>1, <3>2 DEF Spending, AcceptOps
    <3>4. NoLinkIsBurnt'
      BY <3>1, <3>3 DEF LinkInv, NoLinkIsBurnt, Issued, Exists
    <3>5. SignedUp'
      BY <3>1, <3>2 DEF LinkInv, SignedUp, Exists, Idle
    <3> QED BY <3>4, <3>5 DEF LinkInv
  <2>3. CASE MayClaim(k)
    <3>1. /\ Goto(v, [req[v] EXCEPT !.op = "accept.signup"]) /\ UNCHANGED account
          /\ invites' = [invites EXCEPT ![k].accepted = TRUE]
      BY <1>3, <2>3 DEF AcceptClaims, Step
    <3>2. /\ k \in Issued /\ req'[v].op = "accept.signup" /\ req'[v].id = k
          /\ \A w \in Visits \ {v} : req'[w] = req[w]
      BY <1>2, <2>1, <3>1 DEF AcceptOps
    <3>3. Issued' = Issued
      BY <1>0, <3>1 DEF Issued
    <3>4. \A i \in Issued : invites'[i].email = invites[i].email
      BY <1>0, <3>1 DEF Issued, Invite
    <3>7. \A i \in Issued \ {k} : invites'[i] = invites[i]
      BY <1>0, <3>1 DEF Issued
    <3>5. \A i \in Issued \ {k} : invites'[i].accepted => invites[i].accepted
      BY <3>7
    <3>6. req'[v].op \in AcceptOps /\ req'[v].op \notin {"accept.stamp", "accept.attach"}
      BY <3>2 DEF AcceptOps
    <3> HIDE DEF k
    <3> QED BY <3>1, <3>2, <3>3, <3>4, <3>5, <3>6, LinkMoves DEF k
  <2> QED BY <2>2, <2>3
<1>4. CASE AcceptSignsUp(v)
  <2>1. Carries(v) /\ UNCHANGED invites /\ req[v].op = "accept.signup"
    BY <1>4 DEF AcceptSignsUp, At, Carries, AcceptOps
  <2>2. CASE Refused(v) /\ UNCHANGED account
    <3>1. Goto(v, [req[v] EXCEPT !.op = "accept.release"])
      BY <2>2 DEF Refused, Step
    <3>2. /\ k \in Issued /\ req'[v].op = "accept.release" /\ req'[v].id = k
          /\ \A w \in Visits \ {v} : req'[w] = req[w]
      BY <1>2, <2>1, <3>1 DEF AcceptOps
    <3>3. req'[v].op \in AcceptOps /\ req'[v].op \notin {"accept.stamp", "accept.attach"}
      BY <3>2 DEF AcceptOps
    <3> QED BY <2>1, <2>2, <3>2, <3>3, LinkMoves DEF Issued
  <2>3. CASE account' = [account EXCEPT ![invites[k].email].role = "creator"] /\ Step(v, "accept.stamp")
    <3>1. Goto(v, [req[v] EXCEPT !.op = "accept.stamp"])
      BY <2>3 DEF Step
    <3>2. /\ k \in Issued /\ invites[k].email \in Accounts /\ req'[v].id = k
          /\ \A w \in Visits \ {v} : req'[w] = req[w]
      BY <1>2, <2>1, <3>1 DEF AcceptOps
    <3>3. /\ account'[invites[k].email].role # "none"
          /\ \A a \in Accounts : account[a].role # "none" => account'[a].role # "none"
      BY <1>0, <2>3, <3>2 DEF AccountRows
    <3> QED BY <2>1, <3>2, <3>3, LinkMoves DEF Issued
  <2> QED BY <1>4, <2>2, <2>3 DEF AcceptSignsUp
<1>5. CASE AcceptReleases(v)
  <2>1. Carries(v) /\ Goto(v, Idle) /\ UNCHANGED account
    BY <1>5 DEF AcceptReleases, At, Carries, AcceptOps, Done
  <2>2. /\ k \in Issued /\ req'[v] = Idle /\ \A w \in Visits \ {v} : req'[w] = req[w]
    BY <1>2, <2>1
  <2>3. invites' = [invites EXCEPT ![k].accepted = FALSE]
    BY <1>5 DEF AcceptReleases
  <2>4. Issued' = Issued /\ ~invites'[k].accepted
    BY <1>0, <2>2, <2>3 DEF Issued, Invite
  <2>5. \A i \in Issued : invites'[i].email = invites[i].email
    BY <1>0, <2>3 DEF Issued, Invite
  <2>8. \A i \in Issued \ {k} : invites'[i] = invites[i]
    BY <1>0, <2>3 DEF Issued
  <2>6. \A i \in Issued \ {k} : invites'[i].accepted => invites[i].accepted
    BY <2>8
  <2>7. req'[v].op \notin {"accept.stamp", "accept.attach"}
    BY <2>2 DEF Idle
  <2> QED BY <2>1, <2>2, <2>4, <2>5, <2>6, <2>7, LinkMoves
<1>6. CASE AcceptStamps(v)
  <2>1. Carries(v) /\ UNCHANGED invites /\ Goto(v, [req[v] EXCEPT !.op = "accept.attach"])
    BY <1>6 DEF AcceptStamps, At, Carries, AcceptOps, Step
  <2>2. /\ k \in Issued /\ invites[k].email \in Accounts /\ req'[v].id = k
        /\ \A w \in Visits \ {v} : req'[w] = req[w]
    BY <1>2, <2>1 DEF AcceptOps
  <2>3. account' = [account EXCEPT ![invites[k].email].role = invites[k].role]
    BY <1>6 DEF AcceptStamps
  <2>4. invites[k].role # "none"
    <3>1. invites[k] \in Invite
      BY <1>0, <2>2, RowsType
    <3> QED BY <3>1, StaffAssumption DEF Invite
  <2>5. /\ account'[invites[k].email].role # "none"
        /\ \A a \in Accounts : account[a].role # "none" => account'[a].role # "none"
    BY <1>0, <2>2, <2>3, <2>4 DEF AccountRows
  <2> QED BY <2>1, <2>2, <2>5, LinkMoves DEF Issued
<1>7. CASE AcceptAttaches(v)
  <2>1. Carries(v) /\ Goto(v, Idle) /\ UNCHANGED account /\ req[v].op = "accept.attach"
    BY <1>7 DEF AcceptAttaches, At, Carries, AcceptOps, Done
  <2>2. /\ k \in Issued /\ req'[v] = Idle /\ \A w \in Visits \ {v} : req'[w] = req[w]
    BY <1>2, <2>1
  <2>3. invites' = [invites EXCEPT ![k].made = TRUE]
    BY <1>7 DEF AcceptAttaches
  <2>4. Issued' = Issued
    BY <1>0, <2>3 DEF Issued
  <2>5. \A i \in Issued : invites'[i].email = invites[i].email
    BY <1>0, <2>3 DEF Issued, Invite
  <2>6. \A i \in Issued : invites'[i].accepted = invites[i].accepted
    BY <1>0, <2>3 DEF Issued, Invite
  <2>7. req'[v].op \notin {"accept.stamp", "accept.attach"}
    BY <2>2 DEF Idle
  <2>8. account'[invites[k].email].role # "none"
    BY <2>1 DEF LinkInv, SignedUp, Exists
  <2>9. NoLinkIsBurnt'
    <3> SUFFICES ASSUME NEW i \in Issued, invites'[i].accepted
                 PROVE  \/ account[invites[i].email].role # "none"
                        \/ \E w \in Visits : req'[w].op \in AcceptOps /\ req'[w].id = i
      BY <2>1, <2>4, <2>5 DEF NoLinkIsBurnt, Exists, Spending
    <3>1. CASE i = k
      BY <2>1, <2>8, <3>1
    <3>2. CASE i # k
      <4>1. account[invites[i].email].role # "none" \/ \E w \in Visits : Spending(w, i)
        BY <2>6 DEF LinkInv, NoLinkIsBurnt, Exists
      <4> QED BY <2>2, <3>2, <4>1 DEF Spending
    <3> QED BY <3>1, <3>2
  <2>10. SignedUp'
    <3> SUFFICES ASSUME NEW w \in Visits, req'[w].op \in {"accept.stamp", "accept.attach"}
                 PROVE  account'[invites'[req'[w].id].email].role # "none"
      BY DEF SignedUp, Exists
    <3>1. req'[w] = req[w] /\ req[w].id \in Issued
      BY <1>0, <2>2, <2>7, CarriesIssued DEF Carries, AcceptOps, Requests
    <3> QED BY <2>1, <2>5, <3>1 DEF LinkInv, SignedUp, Exists
  <2> QED BY <2>9, <2>10 DEF LinkInv
<1> QED BY <1>1, <1>3, <1>4, <1>5, <1>6, <1>7 DEF VisitStep

LEMMA LinkStep ==
  ASSUME VisitsLive, LinkInv, [StaffNext]_staffVars
  PROVE  LinkInv'
<1>0. SpendInv' /\ StaffTypeOK
  BY SpendStep DEF LinkInv, SpendInv
<1>1. ASSUME NEW r \in Mortal, Dies(r) PROVE LinkInv'
  <2>1. r \in Requests /\ r \notin Visits
    BY StaffAssumption DEF VisitsLive, Requests
  <2>2. VisitsStay
    BY <1>0, <1>1, <2>1 DEF Dies, Done, Goto, StaffTypeOK, VisitsStay, Requests
  <2> QED BY <1>0, <1>1, <2>2, KeptInvites, LinkOutside DEF Dies
<1>2. CASE UNCHANGED staffVars
  BY <1>0, <1>2, KeptInvites, LinkOutside DEF staffVars, VisitsStay
<1> QED BY <1>0, <1>1, <1>2, DeskKeeps, OthersKeep, LinkOutside, LinkOfVisit DEF StaffNext

(* "A colleague's only link" is not burnt by a refused sign-up: where no   *)
(* acceptance is cut short, what reads spent made an account, or is being  *)
(* spent now.                                                              *)
THEOREM NoLinkIsEverBurnt ==
  ASSUME VisitsLive PROVE StaffSpec => []NoLinkIsBurnt
<1>1. StaffInit => LinkInv
  <2>1. StaffInit => /\ \A v \in Visits : req[v].op = "idle"
                     /\ Len(invites) = 0
    BY DEF StaffInit, Idle, Requests
  <2> QED BY <2>1, SpendInit DEF LinkInv, NoLinkIsBurnt, SignedUp, Issued
<1>2. LinkInv /\ [StaffNext]_staffVars => LinkInv'
  BY LinkStep
<1>3. LinkInv => NoLinkIsBurnt
  BY DEF LinkInv
<1> QED BY <1>1, <1>2, <1>3, PTL DEF StaffSpec
===============================================================================
