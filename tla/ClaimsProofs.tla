------------------------------ MODULE ClaimsProofs ------------------------------
(***************************************************************************)
(* What TLAPS proves of Claims for any number of profiles, accounts, claims*)
(* and requests: the types; and, where one operator decides at a time, that*)
(* a profile is handed over once and that approved means owned.            *)
(***************************************************************************)
EXTENDS Claims, TLAPS

-------------------------------------------------------------------------------
(* Types *)

LEMMA ClosesType ==
  ASSUME claims \in Seq(Claim), NEW i, NEW as \in ClaimStatuses, Closes(i, as)
  PROVE  /\ claims' \in Seq(Claim) /\ Len(claims') = Len(claims)
         /\ \A k \in 1 .. Len(claims) :
              /\ claims'[k].by = claims[k].by /\ claims'[k].profile = claims[k].profile
              /\ claims'[k].status = IF k = i THEN as ELSE claims[k].status
<1> DEFINE n == Len(claims)
<1>1. claims \in [1 .. n -> Claim] /\ n \in Nat
  OBVIOUS
<1>2. \A k \in 1 .. n : [claims[k] EXCEPT !.status = as] \in Claim
  BY <1>1 DEF Claim
<1>3. claims' \in [1 .. n -> Claim]
  BY <1>1, <1>2 DEF Closes
<1>4. claims' \in Seq(Claim) /\ Len(claims') = n
  BY <1>1, <1>3
<1>5. \A k \in 1 .. n : claims'[k] = IF k = i THEN [claims[k] EXCEPT !.status = as] ELSE claims[k]
  BY <1>1 DEF Closes
<1> QED BY <1>1, <1>4, <1>5 DEF Claim

LEMMA ClaimantType ==
  ASSUME ClaimsTypeOK, NEW r \in Requests, ClaimantStep(r)
  PROVE  ClaimsTypeOK'
<1> USE ClaimsAssumption DEF ClaimsTypeOK, RequestTypes, Idle, At, Goto, Step, Done, creators, ClaimIds
<1>1. ASSUME NEW u \in Claimants, CreateReads(r, u) PROVE ClaimsTypeOK'
  BY <1>1 DEF CreateReads
<1>2. ASSUME NEW u \in Claimants, NEW p \in Profiles, ClaimReads(r, u, p) PROVE ClaimsTypeOK'
  BY <1>2 DEF ClaimReads
<1>3. CASE ClaimLooks(r)
  BY <1>3 DEF ClaimLooks
<1>4. CASE ClaimTargets(r)
  BY <1>4 DEF ClaimTargets
<1>5. CASE ClaimInserts(r)
  <2> DEFINE row == [profile |-> req[r].profile, by |-> req[r].by, status |-> "pending"]
  <2>1. row \in Claim
    BY <1>5 DEF ClaimInserts, Claim, ClaimStatuses
  <2>2. claims' = Append(claims, row) /\ Len(claims) < MaxClaims
    BY <1>5 DEF ClaimInserts
  <2> HIDE DEF row
  <2>3. claims' \in Seq(Claim) /\ Len(claims') <= MaxClaims
    BY <2>1, <2>2
  <2> QED BY <1>5, <2>3 DEF ClaimInserts
<1>6. CASE CreateInserts(r)
  BY <1>6 DEF CreateInserts
<1>7. ASSUME NEW i \in ClaimIds, WithdrawReads(r, i) PROVE ClaimsTypeOK'
  BY <1>7 DEF WithdrawReads
<1>8. CASE WithdrawWrites(r)
  BY <1>8, ClosesType DEF WithdrawWrites, ClaimStatuses
<1> QED BY <1>1, <1>2, <1>3, <1>4, <1>5, <1>6, <1>7, <1>8 DEF ClaimantStep

(* A decision carries the claim it read from one await to the next.        *)
DecideOps == {"decide.target", "decide.account", "decide.attach", "decide.write", "decide.rivals"}

LEMMA DeskCarries ==
  ASSUME ClaimsTypeOK, NEW d \in Requests, req[d].op \in DecideOps
  PROVE  /\ req[d].id \in ClaimIds /\ req[d].verdict \in Decisions /\ req[d].claim \in Claim
         /\ \A op \in DecideOps : [req[d] EXCEPT !.op = op] \in RequestTypes
<1> DEFINE Decision == [op : DecideOps, id : ClaimIds, verdict : Decisions, claim : Claim]
<1>1. req[d] \in Decision
  BY DEF ClaimsTypeOK, RequestTypes, DecideOps, Idle
<1>2. Decision \subseteq RequestTypes
  BY DEF RequestTypes, DecideOps
<1>3. \A op \in DecideOps : [req[d] EXCEPT !.op = op] \in Decision
  BY <1>1
<1> QED BY <1>1, <1>2, <1>3

LEMMA DeskMoves ==
  ASSUME ClaimsTypeOK, NEW d \in Requests, NEW state \in RequestTypes, Goto(d, state)
  PROVE  req' \in [Requests -> RequestTypes]
BY DEF ClaimsTypeOK, Goto

LEMMA DeskType ==
  ASSUME ClaimsTypeOK, NEW d \in Desks, DeskStep(d)
  PROVE  ClaimsTypeOK'
<1> USE ClaimsAssumption DEF ClaimsTypeOK, RequestTypes, Idle, At, Goto, Step, Done, creators, ClaimIds
<1>0. d \in Requests
  OBVIOUS
<1>1. ASSUME NEW i \in ClaimIds, NEW verdict \in Decisions, DecideReads(d, i, verdict)
      PROVE  ClaimsTypeOK'
  <2> DEFINE state == [op |-> IF verdict = "approved" THEN "decide.target" ELSE "decide.write",
                       id |-> i, verdict |-> verdict, claim |-> claims[i]]
  <2>1. claims[i] \in Claim
    BY <1>1 DEF DecideReads
  <2>2. state \in RequestTypes
    BY <2>1
  <2>3. Goto(d, state) /\ UNCHANGED <<profile, made, claims>>
    BY <1>1 DEF DecideReads
  <2> QED BY ONLY <1>0, <2>2, <2>3, DeskMoves, ClaimsTypeOK DEF ClaimsTypeOK
<1>2. CASE DecideTargets(d)
  <2>1. [req[d] EXCEPT !.op = "decide.account"] \in RequestTypes
    BY <1>0, <1>2, DeskCarries DEF DecideTargets, DecideOps
  <2>2. UNCHANGED <<profile, made, claims>>
    BY <1>2 DEF DecideTargets
  <2>3. req' \in [Requests -> RequestTypes]
    BY <1>0, <1>2, <2>1 DEF DecideTargets
  <2> QED BY ONLY <2>2, <2>3, ClaimsTypeOK DEF ClaimsTypeOK
<1>3. CASE DecideAccounts(d)
  <2>1. [req[d] EXCEPT !.op = "decide.attach"] \in RequestTypes
    BY <1>0, <1>3, DeskCarries DEF DecideAccounts, DecideOps
  <2>2. UNCHANGED <<profile, made, claims>>
    BY <1>3 DEF DecideAccounts
  <2>3. req' \in [Requests -> RequestTypes]
    BY <1>0, <1>3, <2>1 DEF DecideAccounts
  <2> QED BY ONLY <2>2, <2>3, ClaimsTypeOK DEF ClaimsTypeOK
<1>4. CASE DecideAttaches(d)
  <2>1. /\ [req[d] EXCEPT !.op = "decide.write"] \in RequestTypes
        /\ req[d].claim.by \in Claimants
    BY <1>0, <1>4, DeskCarries DEF DecideAttaches, DecideOps, Claim
  <2>2. profile' \in [Profiles -> [owner : Claimants \cup {Nobody}, shown : BOOLEAN, deleted : BOOLEAN]]
    BY <1>4, <2>1 DEF DecideAttaches
  <2>3. UNCHANGED <<made, claims>>
    BY <1>4 DEF DecideAttaches
  <2>4. req' \in [Requests -> RequestTypes]
    BY <1>0, <1>4, <2>1 DEF DecideAttaches
  <2> QED BY ONLY <2>2, <2>3, <2>4, ClaimsTypeOK DEF ClaimsTypeOK
<1>5. CASE DecideWrites(d)
  <2>1. /\ req[d].verdict \in ClaimStatuses
        /\ [req[d] EXCEPT !.op = "decide.rivals"] \in RequestTypes
    BY <1>0, <1>5, DeskCarries DEF DecideWrites, ClaimStatuses, DecideOps
  <2>2. claims' \in Seq(Claim) /\ Len(claims') = Len(claims)
    BY <1>5, <2>1, ClosesType DEF DecideWrites
  <2>3. UNCHANGED <<profile, made>>
    BY <1>5 DEF DecideWrites
  <2>4. req' \in [Requests -> RequestTypes]
    BY <1>0, <1>5, <2>1 DEF DecideWrites
  <2> QED BY ONLY <2>2, <2>3, <2>4, ClaimsTypeOK DEF ClaimsTypeOK
<1>6. CASE DecideRivals(d)
  BY <1>0, <1>6 DEF DecideRivals
<1>7. CASE DecideCloses(d)
  <2>1. \A i : Closes(i, "rejected") => claims' \in Seq(Claim) /\ Len(claims') = Len(claims)
    BY ClosesType DEF ClaimStatuses, Decisions
  <2> QED BY <1>0, <1>7, <2>1 DEF DecideCloses
<1> QED BY <1>1, <1>2, <1>3, <1>4, <1>5, <1>6, <1>7 DEF DeskStep

LEMMA ClaimsStepType == ClaimsTypeOK /\ [ClaimsNext]_claimsVars => ClaimsTypeOK'
<1> SUFFICES ASSUME ClaimsTypeOK, [ClaimsNext]_claimsVars PROVE ClaimsTypeOK'
  OBVIOUS
<1>1. CASE ListingStep
  BY <1>1 DEF ListingStep, ShowOrHide, DeleteImported, DeleteMade, ClaimsTypeOK
<1>2. ASSUME NEW r \in Mortal, Dies(r) PROVE ClaimsTypeOK'
  BY <1>2, ClaimsAssumption DEF Dies, Done, Goto, creators, ClaimsTypeOK, RequestTypes
<1>3. CASE UNCHANGED claimsVars
  BY <1>3 DEF claimsVars, creators, ClaimsTypeOK
<1> QED BY <1>1, <1>2, <1>3, ClaimantType, DeskType DEF ClaimsNext

LEMMA ClaimsInitType == ClaimsInit => ClaimsTypeOK
BY ClaimsAssumption DEF ClaimsInit, ClaimsTypeOK, RequestTypes, Idle

(* The rows of creators and creator_claims, and what the requests on them  *)
(* carry, keep their types.                                                *)
THEOREM ClaimsTypeCorrect == ClaimsSpec => []ClaimsTypeOK
BY ClaimsInitType, ClaimsStepType, PTL DEF ClaimsSpec

-------------------------------------------------------------------------------
(* One operator decides at a time *)

(* The code lets two decide at once, and then neither theorem below holds. *)
OneOperator == \A d, e \in Desks : d = e

(* What the operator's decision knows at each of its awaits: the row it    *)
(* read is still that claim, the profile is free until it attaches it, and *)
(* owned by the claimant when it writes that the claim was approved.       *)
Knows(d) ==
  /\ req[d].op \in DecideOps =>
       /\ req[d].id \in 1 .. Len(claims)
       /\ claims[req[d].id].profile = req[d].claim.profile
       /\ claims[req[d].id].by = req[d].claim.by
  /\ req[d].op \in {"decide.account", "decide.attach"} => Owns(Nobody, req[d].claim.profile)
  /\ req[d].op = "decide.write" /\ req[d].verdict = "approved" =>
       Owns(req[d].claim.by, req[d].claim.profile)

HandInv == ClaimsTypeOK /\ ApprovedOwns /\ \A d \in Desks : Knows(d)

(* Nobody is given a profile, and no claim approved, by this step. *)
OwnersStay == \A p \in Profiles : profile'[p].owner = profile[p].owner

RowsStay ==
  /\ Len(claims) <= Len(claims')
  /\ \A k \in 1 .. Len(claims) :
       claims'[k].by = claims[k].by /\ claims'[k].profile = claims[k].profile

NoneApproved ==
  \A k \in 1 .. Len(claims') :
    claims'[k].status = "approved" => k <= Len(claims) /\ claims[k].status = "approved"

LEMMA RowStillOwned ==
  ASSUME HandInv, ClaimsTypeOK', OwnersStay, RowsStay, NoneApproved
  PROVE  ApprovedOwns'
<1> SUFFICES ASSUME NEW k \in 1 .. Len(claims'), claims'[k].status = "approved"
             PROVE  profile'[claims'[k].profile].owner = claims'[k].by
  BY DEF ApprovedOwns, Owns
<1>1. k \in 1 .. Len(claims) /\ claims[k].status = "approved"
  BY DEF NoneApproved
<1>2. claims[k] \in Claim
  BY <1>1 DEF HandInv, ClaimsTypeOK
<1>3. claims[k].profile \in Profiles
  BY <1>2 DEF Claim
<1> QED BY <1>1, <1>3 DEF HandInv, ApprovedOwns, Owns, OwnersStay, RowsStay

LEMMA KnowsStill ==
  ASSUME HandInv, ClaimsTypeOK', OwnersStay, RowsStay, NEW d \in Desks, req'[d] = req[d]
  PROVE  Knows(d)'
<1>1. CASE req[d].op \in DecideOps
  <2>1. req[d].claim.profile \in Profiles /\ req[d].id \in 1 .. Len(claims)
    BY <1>1, DeskCarries, ClaimsAssumption DEF HandInv, Knows, Claim
  <2>2. req[d].id \in 1 .. Len(claims')
    BY <2>1 DEF RowsStay, HandInv, ClaimsTypeOK
  <2> QED BY <1>1, <2>1, <2>2 DEF HandInv, Knows, Owns, OwnersStay, RowsStay
<1>2. CASE req[d].op \notin DecideOps
  BY <1>2 DEF Knows, DecideOps
<1> QED BY <1>1, <1>2

(* A step that leaves the decision alone, or ends it. *)
LEMMA HandKeeps ==
  ASSUME HandInv, ClaimsTypeOK', OwnersStay, RowsStay, NoneApproved,
         \A d \in Desks : req'[d] = req[d] \/ req'[d].op \notin DecideOps
  PROVE  HandInv'
<1>1. \A d \in Desks : Knows(d)'
  BY KnowsStill DEF Knows, DecideOps
<1> QED BY <1>1, RowStillOwned DEF HandInv

(* A claim that is closed, and not as approved. *)
LEMMA RowsClosed ==
  ASSUME claims \in Seq(Claim), NEW i, NEW as \in ClaimStatuses, as # "approved", Closes(i, as)
  PROVE  RowsStay /\ NoneApproved
<1>0. Len(claims) \in Nat
  OBVIOUS
<1>1. Len(claims') = Len(claims)
  BY ClosesType
<1>2. \A k \in 1 .. Len(claims) :
        claims'[k].by = claims[k].by /\ claims'[k].profile = claims[k].profile
  BY ClosesType
<1>3. \A k \in 1 .. Len(claims) :
        claims'[k].status = "approved" => claims[k].status = "approved"
  <2> SUFFICES ASSUME NEW k \in 1 .. Len(claims), claims'[k].status = "approved"
               PROVE  claims[k].status = "approved"
    OBVIOUS
  <2>1. claims'[k].status = IF k = i THEN as ELSE claims[k].status
    BY ClosesType
  <2>2. k # i
    BY <2>1
  <2> QED BY <2>1, <2>2
<1>4. RowsStay
  BY <1>0, <1>1, <1>2 DEF RowsStay
<1>5. NoneApproved
  BY <1>0, <1>1, <1>3 DEF NoneApproved
<1> QED BY <1>4, <1>5

LEMMA HandOfClaimant ==
  ASSUME HandInv, ClaimsTypeOK', NEW r \in Requests, ClaimantStep(r)
  PROVE  HandInv'
<1> USE DEF HandInv, ClaimsTypeOK
<1>1. \A d \in Desks : req'[d] = req[d] \/ req'[d].op \notin DecideOps
  <2> DEFINE moves(state) == Goto(r, state) /\ state.op \notin DecideOps
  <2>1. \A state : moves(state) => \A d \in Desks : req'[d] = req[d] \/ req'[d].op \notin DecideOps
    BY ClaimsAssumption DEF Goto
  <2>2. ASSUME NEW u \in Claimants, CreateReads(r, u) PROVE moves([op |-> "create.insert", by |-> u])
    BY <2>2 DEF CreateReads, DecideOps
  <2>3. ASSUME NEW u \in Claimants, NEW p \in Profiles, ClaimReads(r, u, p)
        PROVE  moves([op |-> "claim.open", by |-> u, profile |-> p])
    BY <2>3 DEF ClaimReads, DecideOps
  <2>4. CASE ClaimLooks(r) \/ ClaimTargets(r)
    <3>1. req[r] \in [op : {"claim.open", "claim.target", "claim.insert"}, by : Claimants,
                      profile : Profiles]
      BY <2>4 DEF ClaimLooks, ClaimTargets, At, RequestTypes, Idle
    <3>2. moves(Idle) \/ \E op \in {"claim.target", "claim.insert"} : Goto(r, [req[r] EXCEPT !.op = op])
      BY <2>4 DEF ClaimLooks, ClaimTargets, Done, Step, Idle, DecideOps
    <3>3. \A op \in {"claim.target", "claim.insert"} : [req[r] EXCEPT !.op = op].op \notin DecideOps
      BY <3>1 DEF DecideOps
    <3> QED BY <2>1, <3>2, <3>3
  <2>5. ASSUME ClaimInserts(r) \/ CreateInserts(r) \/ WithdrawWrites(r) PROVE moves(Idle)
    BY <2>5 DEF ClaimInserts, CreateInserts, WithdrawWrites, Done, Idle, DecideOps
  <2>6. ASSUME NEW i \in ClaimIds, WithdrawReads(r, i) PROVE moves([op |-> "withdraw.write", id |-> i])
    BY <2>6 DEF WithdrawReads, DecideOps
  <2> HIDE DEF moves
  <2> QED BY <2>1, <2>2, <2>3, <2>4, <2>5, <2>6 DEF ClaimantStep
<1>2. OwnersStay
  BY DEF ClaimantStep, CreateReads, ClaimReads, ClaimLooks, ClaimTargets,
     ClaimInserts, CreateInserts, WithdrawReads, WithdrawWrites, creators, OwnersStay
<1>3. RowsStay /\ NoneApproved
  <2>1. CASE UNCHANGED claims
    BY <2>1 DEF RowsStay, NoneApproved
  <2>2. CASE ClaimInserts(r)
    <3>1. claims' = Append(claims, [profile |-> req[r].profile, by |-> req[r].by,
                                    status |-> "pending"])
      BY <2>2 DEF ClaimInserts
    <3>2. Len(claims) \in Nat /\ Len(claims') = Len(claims) + 1
      BY <3>1
    <3>3. \A k \in 1 .. Len(claims) : claims'[k] = claims[k]
      BY <3>1
    <3>4. claims'[Len(claims) + 1].status = "pending"
      BY <3>1
    <3> QED BY <3>2, <3>3, <3>4 DEF RowsStay, NoneApproved
  <2>3. CASE WithdrawWrites(r)
    <3>1. Closes(req[r].id, "withdrawn")
      BY <2>3 DEF WithdrawWrites
    <3> QED BY <3>1, RowsClosed DEF ClaimStatuses
  <2> QED BY <2>1, <2>2, <2>3 DEF ClaimantStep, CreateReads, ClaimReads, ClaimLooks,
             ClaimTargets, CreateInserts, WithdrawReads
<1> HIDE DEF HandInv, ClaimsTypeOK
<1> QED BY <1>1, <1>2, <1>3, HandKeeps

LEMMA HandOfDesk ==
  ASSUME OneOperator, HandInv, ClaimsTypeOK', NEW d \in Desks, DeskStep(d)
  PROVE  HandInv'
<1> USE DEF OneOperator
<1>0. d \in Requests /\ claims \in Seq(Claim) /\ req \in [Requests -> RequestTypes]
  BY ClaimsAssumption DEF HandInv, ClaimsTypeOK
<1>1. ASSUME NEW i \in ClaimIds, NEW verdict \in Decisions, DecideReads(d, i, verdict)
      PROVE  HandInv'
  <2>1. OwnersStay /\ RowsStay /\ NoneApproved
    BY <1>0, <1>1 DEF DecideReads, creators, OwnersStay, RowsStay, NoneApproved
  <2>2. Knows(d)'
    <3>1. req'[d] = [op |-> IF verdict = "approved" THEN "decide.target" ELSE "decide.write",
                     id |-> i, verdict |-> verdict, claim |-> claims[i]]
      BY <1>0, <1>1 DEF DecideReads, Goto
    <3>2. i \in 1 .. Len(claims) /\ UNCHANGED claims
      BY <1>0, <1>1 DEF DecideReads, ClaimIds
    <3> QED BY <3>1, <3>2 DEF Knows
  <2> QED BY <2>1, <2>2, RowStillOwned DEF HandInv
<1>2. CASE DecideTargets(d)
  <2>1. OwnersStay /\ RowsStay /\ NoneApproved
    BY <1>0, <1>2 DEF DecideTargets, creators, OwnersStay, RowsStay, NoneApproved
  <2>2. CASE Free(req[d].claim.profile)
    <3>1. req'[d] = [req[d] EXCEPT !.op = "decide.account"] /\ UNCHANGED <<profile, claims>>
      BY <1>0, <1>2, <2>2 DEF DecideTargets, Step, Goto, creators
    <3>2. Knows(d)'
      BY <1>0, <1>2, <2>2, <3>1, DeskCarries
         DEF HandInv, Knows, Free, Owns, DecideTargets, At, DecideOps
    <3> QED BY <2>1, <3>2, RowStillOwned DEF HandInv
  <2>3. CASE ~Free(req[d].claim.profile)
    <3>1. req'[d] = Idle
      BY <1>0, <1>2, <2>3 DEF DecideTargets, Done, Goto
    <3> QED BY <2>1, <3>1, HandKeeps DEF Idle, DecideOps
  <2> QED BY <2>2, <2>3
<1>3. CASE DecideAccounts(d)
  <2>1. OwnersStay /\ RowsStay /\ NoneApproved
    BY <1>0, <1>3 DEF DecideAccounts, creators, OwnersStay, RowsStay, NoneApproved
  <2>2. CASE ~HasProfile(req[d].claim.by)
    <3>1. req'[d] = [req[d] EXCEPT !.op = "decide.attach"] /\ UNCHANGED <<profile, claims>>
      BY <1>0, <1>3, <2>2 DEF DecideAccounts, Step, Goto, creators
    <3>2. Knows(d)'
      BY <1>0, <1>3, <3>1, DeskCarries DEF HandInv, Knows, Owns, DecideAccounts, At, DecideOps
    <3> QED BY <2>1, <3>2, RowStillOwned DEF HandInv
  <2>3. CASE HasProfile(req[d].claim.by)
    <3>1. req'[d] = Idle
      BY <1>0, <1>3, <2>3 DEF DecideAccounts, Done, Goto
    <3> QED BY <2>1, <3>1, HandKeeps DEF Idle, DecideOps
  <2> QED BY <2>2, <2>3
<1>4. CASE DecideAttaches(d)
  <2> DEFINE u == req[d].claim.by
             p == req[d].claim.profile
  <2>0. RowsStay /\ NoneApproved /\ UNCHANGED claims
    BY <1>0, <1>4 DEF DecideAttaches, RowsStay, NoneApproved
  <2>1. CASE IndexTaken(u)
    <3>1. req'[d] = Idle /\ OwnersStay
      BY <1>0, <1>4, <2>1 DEF DecideAttaches, Done, Goto, OwnersStay
    <3> QED BY <2>0, <3>1, HandKeeps DEF Idle, DecideOps
  <2>2. CASE ~IndexTaken(u)
    <3>1. req'[d] = [req[d] EXCEPT !.op = "decide.write"]
      BY <1>0, <1>4, <2>2 DEF DecideAttaches, Step, Goto
    <3>2. p \in Profiles /\ u \in Claimants /\ Owns(Nobody, p)
      BY <1>0, <1>4, DeskCarries DEF HandInv, Knows, DecideAttaches, At, DecideOps, Claim
    <3>3. profile' = [profile EXCEPT ![p].owner = u]
      BY <1>4, <2>2 DEF DecideAttaches
    <3>4. profile'[p].owner = u /\ \A q \in Profiles \ {p} : profile'[q] = profile[q]
      BY <3>2, <3>3 DEF HandInv, ClaimsTypeOK
    <3>5. Knows(d)'
      BY <1>0, <1>4, <2>0, <3>1, <3>4, DeskCarries
         DEF HandInv, Knows, Owns, DecideAttaches, At, DecideOps
    <3>6. ApprovedOwns'
      <4> SUFFICES ASSUME NEW k \in 1 .. Len(claims), claims[k].status = "approved"
                   PROVE  profile'[claims[k].profile].owner = claims[k].by
        BY <2>0 DEF ApprovedOwns, Owns
      <4>0. claims[k] \in Claim
        BY <1>0
      <4>1. claims[k].profile \in Profiles /\ claims[k].by # Nobody
        BY <4>0, ClaimsAssumption DEF Claim
      <4>2. claims[k].profile # p
        BY <3>2, <4>1 DEF HandInv, ApprovedOwns, Owns
      <4> QED BY <3>4, <4>1, <4>2 DEF HandInv, ApprovedOwns, Owns
    <3> QED BY <3>5, <3>6 DEF HandInv
  <2> QED BY <2>1, <2>2
<1>5. CASE DecideWrites(d)
  <2>1. /\ req[d].op = "decide.write" /\ req[d].verdict \in ClaimStatuses
        /\ Closes(req[d].id, req[d].verdict) /\ OwnersStay /\ UNCHANGED profile
    BY <1>0, <1>5, DeskCarries
       DEF HandInv, DecideWrites, At, DecideOps, ClaimStatuses, creators, OwnersStay
  <2>2. CASE req[d].verdict # "approved"
    <3>1. req'[d] = Idle
      BY <1>0, <1>5, <2>2 DEF DecideWrites, Done, Goto
    <3> QED BY <1>0, <2>1, <2>2, <3>1, HandKeeps, RowsClosed DEF Idle, DecideOps
  <2>3. CASE req[d].verdict = "approved"
    <3>1. req'[d] = [req[d] EXCEPT !.op = "decide.rivals"]
      BY <1>0, <1>5, <2>3 DEF DecideWrites, Step, Goto
    <3>2. /\ Len(claims') = Len(claims)
          /\ \A k \in 1 .. Len(claims) :
               /\ claims'[k].by = claims[k].by /\ claims'[k].profile = claims[k].profile
               /\ claims'[k].status = IF k = req[d].id THEN "approved" ELSE claims[k].status
      BY <1>0, <2>1, <2>3, ClosesType
    <3>3. /\ req[d].id \in 1 .. Len(claims)
          /\ claims[req[d].id].profile = req[d].claim.profile
          /\ claims[req[d].id].by = req[d].claim.by
          /\ Owns(req[d].claim.by, req[d].claim.profile)
      BY <2>1, <2>3 DEF HandInv, Knows, DecideOps
    <3>4. ApprovedOwns'
      BY <2>1, <3>2, <3>3 DEF HandInv, ApprovedOwns, Owns
    <3>5. Knows(d)'
      BY <1>0, <2>1, <3>1, <3>2, <3>3, DeskCarries DEF HandInv, Knows, DecideOps
    <3> QED BY <3>4, <3>5 DEF HandInv
  <2> QED BY <2>2, <2>3
<1>6. CASE DecideRivals(d)
  <2>1. OwnersStay /\ RowsStay /\ NoneApproved
    BY <1>0, <1>6 DEF DecideRivals, creators, OwnersStay, RowsStay, NoneApproved
  <2>2. req'[d].op = "decide.close"
    BY <1>0, <1>6 DEF DecideRivals, Goto
  <2> QED BY <2>1, <2>2, HandKeeps DEF DecideOps
<1>7. CASE DecideCloses(d)
  <2>1. OwnersStay
    BY <1>7 DEF DecideCloses, creators, OwnersStay
  <2>2. CASE Done(d) /\ UNCHANGED claims
    <3>1. req'[d] = Idle /\ RowsStay /\ NoneApproved
      BY <1>0, <2>2 DEF Done, Goto, RowsStay, NoneApproved
    <3> QED BY <2>1, <3>1, HandKeeps DEF Idle, DecideOps
  <2>3. ASSUME NEW i, Closes(i, "rejected"), Goto(d, [req[d] EXCEPT !.todo = @ \ {i}])
        PROVE  HandInv'
    <3>1. RowsStay /\ NoneApproved
      BY <1>0, <2>3, RowsClosed DEF ClaimStatuses, Decisions
    <3>2. req[d] \in [op : {"decide.close"}, todo : SUBSET ClaimIds]
      BY <1>0, <1>7 DEF DecideCloses, At, RequestTypes, Idle
    <3>3. req'[d] = [req[d] EXCEPT !.todo = @ \ {i}]
      BY <1>0, <2>3 DEF Goto
    <3>4. req'[d].op = "decide.close"
      BY <3>2, <3>3
    <3> QED BY <2>1, <3>1, <3>4, HandKeeps DEF DecideOps
  <2> QED BY <1>7, <2>2, <2>3 DEF DecideCloses
<1> QED BY <1>1, <1>2, <1>3, <1>4, <1>5, <1>6, <1>7 DEF DeskStep

LEMMA HandStep ==
  ASSUME OneOperator, HandInv, [ClaimsNext]_claimsVars
  PROVE  HandInv'
<1>0. ClaimsTypeOK'
  BY ClaimsStepType DEF HandInv
<1> USE DEF RowsStay, NoneApproved, OwnersStay
<1>1. CASE ListingStep
  <2>1. OwnersStay
    BY <1>1 DEF HandInv, ClaimsTypeOK, ListingStep, ShowOrHide, DeleteImported, DeleteMade
  <2>2. UNCHANGED <<claims, req>>
    BY <1>1 DEF ListingStep, ShowOrHide, DeleteImported, DeleteMade
  <2>3. RowsStay /\ NoneApproved
    BY <2>2 DEF HandInv, ClaimsTypeOK
  <2> HIDE DEF RowsStay, NoneApproved, OwnersStay
  <2> QED BY <1>0, <2>1, <2>2, <2>3, HandKeeps
<1>2. ASSUME NEW r \in Mortal, Dies(r) PROVE HandInv'
  <2>1. OwnersStay /\ RowsStay /\ NoneApproved
    BY <1>2 DEF HandInv, ClaimsTypeOK, Dies, creators
  <2>2. \A d \in Desks : req'[d] = req[d] \/ req'[d] = Idle
    BY <1>2, ClaimsAssumption DEF HandInv, ClaimsTypeOK, Dies, Done, Goto
  <2>3. Idle.op \notin DecideOps
    BY DEF Idle, DecideOps
  <2> HIDE DEF RowsStay, NoneApproved, OwnersStay
  <2> QED BY <1>0, <2>1, <2>2, <2>3, HandKeeps
<1>3. CASE UNCHANGED claimsVars
  BY <1>3 DEF claimsVars, creators, HandInv, ClaimsTypeOK, ApprovedOwns, Knows, Owns
<1> QED BY <1>0, <1>1, <1>2, <1>3, HandOfClaimant, HandOfDesk DEF ClaimsNext

LEMMA HandInit == ClaimsInit => HandInv
<1> SUFFICES ASSUME ClaimsInit PROVE HandInv
  OBVIOUS
<1>1. \A d \in Desks : req[d].op = "idle"
  BY ClaimsAssumption DEF ClaimsInit, Idle
<1>2. Len(claims) = 0
  BY DEF ClaimsInit
<1> QED BY <1>1, <1>2, ClaimsInitType DEF HandInv, Knows, DecideOps, ApprovedOwns

LEMMA HandInvariant ==
  ASSUME OneOperator PROVE ClaimsSpec => []HandInv
<1>1. HandInv /\ [ClaimsNext]_claimsVars => HandInv'
  BY HandStep
<1> QED BY <1>1, HandInit, PTL DEF ClaimsSpec

(* The claim the queue and the audit log call approved gave the profile to *)
(* its claimant, however many claims, withdrawals and deaths there are,    *)
(* as long as one operator decides at a time.                              *)
THEOREM ApprovedAlwaysOwns ==
  ASSUME OneOperator PROVE ClaimsSpec => []ApprovedOwns
<1>1. HandInv => ApprovedOwns
  BY DEF HandInv
<1> QED BY <1>1, HandInvariant, PTL

(* "A profile can only be handed over once", as long as one operator       *)
(* decides at a time: no step takes it from the account it was given to.   *)
THEOREM HandedOverOnceOnly ==
  ASSUME OneOperator PROVE ClaimsSpec => HandedOverOnce
<1> DEFINE Handed == \A p \in Profiles : ~Owns(Nobody, p) => profile'[p].owner = profile[p].owner
<1>1. HandInv /\ [ClaimsNext]_claimsVars => [Handed]_claimsVars
  <2> SUFFICES ASSUME HandInv, ClaimsNext, NEW p \in Profiles, ~Owns(Nobody, p)
               PROVE  profile'[p].owner = profile[p].owner
    BY DEF claimsVars
  <2>1. CASE UNCHANGED profile
    BY <2>1
  <2>2. CASE ListingStep
    BY <2>2 DEF HandInv, ClaimsTypeOK, ListingStep, ShowOrHide, DeleteImported, DeleteMade
  <2>3. ASSUME NEW d \in Desks, DecideAttaches(d) PROVE profile'[p].owner = profile[p].owner
    <3>1. CASE UNCHANGED profile
      BY <3>1
    <3>2. CASE profile' = [profile EXCEPT ![req[d].claim.profile].owner = req[d].claim.by]
      <4>1. Owns(Nobody, req[d].claim.profile)
        BY <2>3 DEF DecideAttaches, At, HandInv, Knows
      <4>2. p # req[d].claim.profile
        BY <4>1
      <4> QED BY <3>2, <4>2 DEF HandInv, ClaimsTypeOK
    <3> QED BY <2>3, <3>1, <3>2 DEF DecideAttaches
  <2>4. ASSUME NEW r \in Requests, ClaimantStep(r) PROVE UNCHANGED profile
    BY <2>4 DEF ClaimantStep, CreateReads, ClaimReads, ClaimLooks, ClaimTargets,
       ClaimInserts, CreateInserts, WithdrawReads, WithdrawWrites, creators
  <2>5. ASSUME NEW d \in Desks, DeskStep(d), ~DecideAttaches(d) PROVE UNCHANGED profile
    BY <2>5 DEF DeskStep, DecideReads, DecideTargets, DecideAccounts, DecideWrites,
       DecideRivals, DecideCloses, creators
  <2>6. ASSUME NEW r \in Mortal, Dies(r) PROVE UNCHANGED profile
    BY <2>6 DEF Dies, creators
  <2> QED BY <2>1, <2>2, <2>3, <2>4, <2>5, <2>6 DEF ClaimsNext
<1> QED BY <1>1, HandInvariant, PTL DEF ClaimsSpec, HandedOverOnce
===============================================================================
