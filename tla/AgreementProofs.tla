---------------------------- MODULE AgreementProofs ----------------------------
(***************************************************************************)
(* What TLAPS proves of Agreement for any number of requests, offers and   *)
(* contracts, with requests that may die at any await: the types, and that *)
(* a deal is booked only under a contract signed by both, which is final.  *)
(***************************************************************************)
EXTENDS Agreement, SequenceTheorems, TLAPS

-------------------------------------------------------------------------------
(* Types *)

(* Contracts are numbered in order, and a version about to be written is   *)
(* the next at most; a contract is asked for only once there are terms.    *)
Written ==
  /\ \A c \in 1 .. Len(contracts) : contracts[c].version = c
  /\ \A r \in Requests :
       /\ req[r].op \in {"contract.void", "contract.insert"}
            => req[r].version \in 1 .. Len(contracts) + 1
       /\ At(r, "contract.booking") => termsFrom # NoTerms
       /\ req[r].op \in {"sign.write", "sign.complete"} => req[r].id \in 1 .. Len(contracts)

Typed == AgreementTypeOK /\ Written

LEMMA InitTyped == AgreementInit => Typed
<1> SUFFICES ASSUME AgreementInit PROVE Typed
  OBVIOUS
<1> DEFINE first == [by |-> "organization", status |-> "pending"]
<1>1. first \in Proposals
  BY DEF Proposals, Parties, Sides
<1>2. proposals \in Seq(Proposals) /\ Len(proposals) <= MaxProposals
  BY <1>1, MaxProposalsAssumption DEF AgreementInit
<1>3. contracts \in Seq(Contracts) /\ Len(contracts) = 0
  BY DEF AgreementInit
<1>4. req \in [Requests -> {Idle} \cup AgreementRequests]
      /\ \A r \in Requests : req[r].op = "idle"
  BY DEF AgreementInit, Idle
<1>5. Written
  BY <1>3, <1>4 DEF Written, At
<1>6. /\ status \in Statuses /\ termsFrom = NoTerms
      /\ nda \in BOOLEAN /\ died \in BOOLEAN /\ introduction \in Introductions
  BY DEF AgreementInit, Statuses, Introductions
<1>7. Len(contracts) <= MaxContracts
  BY <1>3, MaxContractsAssumption
<1> QED BY <1>2, <1>3, <1>4, <1>5, <1>6, <1>7 DEF Typed, AgreementTypeOK

LEMMA RowsAre ==
  ASSUME NEW S, NEW s \in Seq(S)
  PROVE  s \in [1 .. Len(s) -> S] /\ Len(s) \in Nat /\ DOMAIN s = 1 .. Len(s)
OBVIOUS

(* The rows of one table change without any of them being added or lost.   *)
LEMMA RowsType ==
  ASSUME NEW S, NEW s \in Seq(S), NEW t \in [1 .. Len(s) -> S]
  PROVE  t \in Seq(S) /\ Len(t) = Len(s)
<1>1. Len(s) \in Nat
  OBVIOUS
<1> QED BY <1>1

LEMMA AppendType ==
  ASSUME NEW S, NEW s \in Seq(S), NEW e \in S, NEW t, t = Append(s, e)
  PROVE  /\ t \in Seq(S) /\ Len(t) = Len(s) + 1 /\ t[Len(s) + 1] = e
         /\ \A k \in 1 .. Len(s) : t[k] = s[k]
OBVIOUS

(* One request moves, and the contracts it leaves are in order: so are all *)
(* the others.                                                             *)
LEMMA MovesOn ==
  ASSUME Typed, NEW r \in Requests, NEW state \in {Idle} \cup AgreementRequests, Goto(r, state),
         Len(contracts') \in Nat, Len(contracts) <= Len(contracts'),
         \A c \in 1 .. Len(contracts') : contracts'[c].version = c,
         state.op \in {"contract.void", "contract.insert"}
           => state.version \in 1 .. Len(contracts') + 1,
         state.op = "contract.booking" => termsFrom' # NoTerms,
         state.op \in {"sign.write", "sign.complete"} => state.id \in 1 .. Len(contracts'),
         termsFrom # NoTerms => termsFrom' # NoTerms
  PROVE  Written' /\ req' \in [Requests -> {Idle} \cup AgreementRequests]
<1>1. Len(contracts) \in Nat
  BY DEF Typed, AgreementTypeOK
<1>2. req' \in [Requests -> {Idle} \cup AgreementRequests] /\ req' = [req EXCEPT ![r] = state]
  BY DEF Typed, AgreementTypeOK, Goto
<1> HIDE DEF Idle
<1>3. \A q \in Requests : req'[q] = IF q = r THEN state ELSE req[q]
  BY <1>2 DEF Typed, AgreementTypeOK
<1>4. ASSUME NEW q \in Requests
      PROVE  /\ req'[q].op \in {"contract.void", "contract.insert"}
                  => req'[q].version \in 1 .. Len(contracts') + 1
             /\ At(q, "contract.booking")' => termsFrom' # NoTerms
             /\ req'[q].op \in {"sign.write", "sign.complete"}
                  => req'[q].id \in 1 .. Len(contracts')
  <2>1. CASE q = r
    BY <1>3, <2>1 DEF At
  <2>2. CASE q # r
    <3>1. req'[q] = req[q]
      BY <1>3, <2>2
    <3>2. /\ req[q].op \in {"contract.void", "contract.insert"}
               => req[q].version \in 1 .. Len(contracts) + 1
          /\ req[q].op = "contract.booking" => termsFrom # NoTerms
          /\ req[q].op \in {"sign.write", "sign.complete"} => req[q].id \in 1 .. Len(contracts)
      BY DEF Typed, Written, At
    <3> QED BY <1>1, <3>1, <3>2 DEF At
  <2> QED BY <2>1, <2>2
<1> QED BY <1>2, <1>4 DEF Written

(* The same where no contract is written. *)
LEMMA MovesAlone ==
  ASSUME Typed, NEW r \in Requests, NEW state \in {Idle} \cup AgreementRequests, Goto(r, state),
         UNCHANGED contracts,
         state.op \in {"contract.void", "contract.insert"}
           => state.version \in 1 .. Len(contracts) + 1,
         state.op = "contract.booking" => termsFrom' # NoTerms,
         state.op \in {"sign.write", "sign.complete"} => state.id \in 1 .. Len(contracts),
         termsFrom # NoTerms => termsFrom' # NoTerms
  PROVE  Written' /\ req' \in [Requests -> {Idle} \cup AgreementRequests]
<1>1. /\ Len(contracts') = Len(contracts) /\ Len(contracts) \in Nat
      /\ \A c \in 1 .. Len(contracts') : contracts'[c].version = c
  BY DEF Typed, AgreementTypeOK, Written
<1> QED BY <1>1, MovesOn

(* And where the request ends. *)
LEMMA EndsAlone ==
  ASSUME Typed, NEW r \in Requests, Done(r), UNCHANGED contracts, UNCHANGED termsFrom
  PROVE  Written' /\ req' \in [Requests -> {Idle} \cup AgreementRequests]
<1>1. Goto(r, Idle) /\ Idle.op = "idle"
  BY DEF Done, Goto, Idle
<1> QED BY <1>1, MovesAlone

(* The fields a request carries, and what it may become with them.         *)
LEMMA Carries ==
  ASSUME Typed, NEW r \in Requests
  PROVE  /\ req[r].op \in {"propose.counter", "propose.insert"}
              => /\ req[r].side \in Parties /\ req[r].seen \in Statuses
                 /\ [req[r] EXCEPT !.op = "propose.insert"] =
                      [op |-> "propose.insert", side |-> req[r].side, seen |-> req[r].seen]
         /\ At(r, "respond.proposal") => req[r].side \in Parties /\ req[r].seen \in Statuses
         /\ req[r].op \in {"decline.mark", "accept.mark", "accept.freeze"}
              => /\ req[r].id \in ProposalIds /\ req[r].seen \in Statuses
                 /\ [req[r] EXCEPT !.op = "accept.freeze"] =
                      [op |-> "accept.freeze", id |-> req[r].id, seen |-> req[r].seen]
         /\ At(r, "contract.previous") => req[r].terms \in ProposalIds
         /\ req[r].op \in {"contract.void", "contract.insert"}
              => /\ req[r].terms \in ProposalIds /\ req[r].version \in 1 .. MaxContracts + 1
                 /\ [req[r] EXCEPT !.op = "contract.insert"] =
                      [op |-> "contract.insert", terms |-> req[r].terms, version |-> req[r].version]
         /\ req[r].op \in {"sign.contract", "sign.write"} => req[r].side \in Parties
         /\ req[r].op \in {"sign.write", "sign.complete"} => req[r].id \in ContractIds
         /\ At(r, "introduce.write") => req[r].to \in Introductions /\ req[r].seen \in Statuses
BY DEF Typed, AgreementTypeOK, AgreementRequests, Idle, At

LEMMA OpMoves ==
  ASSUME Typed, NEW r \in Requests
  PROVE  /\ ProposeCounter(r) => req'[r].op = "propose.insert"
         /\ AcceptMark(r) => req'[r].op = "accept.freeze"
         /\ ContractVoid(r) => req'[r].op = "contract.insert"
<1>1. \A state : Goto(r, state) => req'[r] = state
  BY DEF Goto, Typed, AgreementTypeOK
<1>2. ASSUME ProposeCounter(r) PROVE req'[r].op = "propose.insert"
  <2>1. [req[r] EXCEPT !.op = "propose.insert"].op = "propose.insert"
    BY <1>2, Carries DEF ProposeCounter, At
  <2> QED BY <1>1, <1>2, <2>1 DEF ProposeCounter
<1>3. ASSUME AcceptMark(r) PROVE req'[r].op = "accept.freeze"
  <2>1. [req[r] EXCEPT !.op = "accept.freeze"].op = "accept.freeze"
    BY <1>3, Carries DEF AcceptMark, At
  <2> QED BY <1>1, <1>3, <2>1 DEF AcceptMark
<1>4. ASSUME ContractVoid(r) PROVE req'[r].op = "contract.insert"
  <2>1. [req[r] EXCEPT !.op = "contract.insert"].op = "contract.insert"
    BY <1>4, Carries DEF ContractVoid, At
  <2> QED BY <1>1, <1>4, <2>1 DEF ContractVoid
<1> QED BY <1>2, <1>3, <1>4

LEMMA ProposeTyped ==
  ASSUME Typed, NEW r \in Requests, ProposeStep(r)
  PROVE  Typed'
<1>1. ASSUME NEW side \in Parties, ProposeRead(r, side) PROVE Typed'
  <2> DEFINE state == [op |-> "propose.counter", side |-> side, seen |-> status]
  <2>1. /\ state \in {Idle} \cup AgreementRequests /\ Goto(r, state)
        /\ UNCHANGED <<row, proposals, termsFrom, contracts, nda, introduction, died>>
    BY <1>1 DEF ProposeRead, Begin, Goto, Typed, AgreementTypeOK, AgreementRequests
  <2>2. Written' /\ req' \in [Requests -> {Idle} \cup AgreementRequests]
    BY <2>1, MovesAlone
  <2> QED BY <2>1, <2>2 DEF Typed, AgreementTypeOK, row
<1>2. CASE ProposeCounter(r)
  <2> DEFINE state == [req[r] EXCEPT !.op = "propose.insert"]
  <2>1. /\ state \in {Idle} \cup AgreementRequests /\ state.op = "propose.insert"
        /\ Goto(r, state) /\ UNCHANGED <<row, termsFrom, contracts, nda, introduction, died>>
    BY <1>2, Carries DEF ProposeCounter, At, AgreementRequests
  <2>2. Written' /\ req' \in [Requests -> {Idle} \cup AgreementRequests]
    BY <2>1, MovesAlone
  <2>3. proposals \in [1 .. Len(proposals) -> Proposals] /\ DOMAIN proposals = 1 .. Len(proposals)
    BY RowsAre DEF Typed, AgreementTypeOK
  <2>4. \A k \in 1 .. Len(proposals) : [proposals[k] EXCEPT !.status = "countered"] \in Proposals
    BY <2>3 DEF Proposals
  <2>5. proposals' \in [1 .. Len(proposals) -> Proposals]
    BY <1>2, <2>3, <2>4 DEF ProposeCounter
  <2>6. proposals' \in Seq(Proposals) /\ Len(proposals') = Len(proposals)
    BY <2>5, RowsType DEF Typed, AgreementTypeOK
  <2> QED BY <2>1, <2>2, <2>6 DEF Typed, AgreementTypeOK, row
<1>3. CASE ProposeInsert(r)
  <2>1. [by |-> req[r].side, status |-> "pending"] \in Proposals
    BY <1>3, Carries DEF ProposeInsert, Proposals, At
  <2>2. proposals' \in Seq(Proposals) /\ Len(proposals') <= MaxProposals
    BY <1>3, <2>1, AppendType, MaxProposalsAssumption DEF ProposeInsert, Typed, AgreementTypeOK
  <2>3. PICK state \in {[op |-> "propose.status"], Idle} :
          /\ Goto(r, state) /\ state.op \in {"propose.status", "idle"}
          /\ UNCHANGED <<row, termsFrom, contracts, nda, introduction, died>>
    BY <1>3 DEF ProposeInsert, Done, Goto, Idle
  <2>4. state \in {Idle} \cup AgreementRequests
    BY <2>3 DEF AgreementRequests
  <2>5. Written' /\ req' \in [Requests -> {Idle} \cup AgreementRequests]
    BY <2>3, <2>4, MovesAlone
  <2> QED BY <2>2, <2>3, <2>5 DEF Typed, AgreementTypeOK, row
<1>4. CASE ProposeStatus(r)
  <2>1. Written' /\ req' \in [Requests -> {Idle} \cup AgreementRequests]
    BY <1>4, MovesAlone DEF ProposeStatus, Done, Goto, Idle
  <2> QED BY <1>4, <2>1 DEF ProposeStatus, Typed, AgreementTypeOK, Statuses
<1> QED BY <1>1, <1>2, <1>3, <1>4 DEF ProposeStep

LEMMA MarkType ==
  ASSUME proposals \in Seq(Proposals), NEW i, NEW to \in {"declined", "accepted"},
         proposals' = [proposals EXCEPT ![i].status = to]
  PROVE  proposals' \in Seq(Proposals) /\ Len(proposals') = Len(proposals)
<1>1. proposals \in [1 .. Len(proposals) -> Proposals]
  BY RowsAre
<1>2. \A k \in 1 .. Len(proposals) : [proposals[k] EXCEPT !.status = to] \in Proposals
  BY <1>1 DEF Proposals
<1>3. proposals' \in [1 .. Len(proposals) -> Proposals]
  BY <1>1, <1>2
<1> QED BY <1>3, RowsType

LEMMA AnswerTyped ==
  ASSUME Typed, NEW r \in Requests,
         \/ \E side \in Parties : RespondRead(r, side)
         \/ RespondProposal(r) \/ DeclineMark(r) \/ DeclineCancel(r)
         \/ AcceptMark(r) \/ AcceptFreeze(r)
  PROVE  Typed'
<1>1. ASSUME NEW side \in Parties, RespondRead(r, side) PROVE Typed'
  <2> DEFINE state == [op |-> "respond.proposal", side |-> side, seen |-> status]
  <2>1. /\ state \in {Idle} \cup AgreementRequests /\ Goto(r, state)
        /\ UNCHANGED <<row, proposals, termsFrom, contracts, nda, introduction, died>>
    BY <1>1 DEF RespondRead, Begin, Goto, Typed, AgreementTypeOK, AgreementRequests
  <2>2. Written' /\ req' \in [Requests -> {Idle} \cup AgreementRequests]
    BY <2>1, MovesAlone
  <2> QED BY <2>1, <2>2 DEF Typed, AgreementTypeOK, row
<1>2. CASE RespondProposal(r)
  <2>1. UNCHANGED <<row, proposals, termsFrom, contracts, nda, introduction, died>>
    BY <1>2 DEF RespondProposal
  <2>2. ASSUME NEW p \in DOMAIN proposals, NEW op \in {"decline.mark", "accept.mark"},
               Goto(r, [op |-> op, id |-> p, seen |-> req[r].seen])
        PROVE  Written' /\ req' \in [Requests -> {Idle} \cup AgreementRequests]
    <3>1. p \in ProposalIds
      BY MaxProposalsAssumption DEF Typed, AgreementTypeOK, ProposalIds
    <3>2. [op |-> op, id |-> p, seen |-> req[r].seen] \in AgreementRequests
      BY <1>2, <3>1, Carries DEF RespondProposal, AgreementRequests
    <3> QED BY <2>1, <2>2, <3>2, MovesAlone
  <2>3. ASSUME Done(r) PROVE Written' /\ req' \in [Requests -> {Idle} \cup AgreementRequests]
    BY <2>1, <2>3, EndsAlone
  <2>4. Done(r) \/ \E p \in DOMAIN proposals, op \in {"decline.mark", "accept.mark"} :
          Goto(r, [op |-> op, id |-> p, seen |-> req[r].seen])
    BY <1>2 DEF RespondProposal
  <2>5. Written' /\ req' \in [Requests -> {Idle} \cup AgreementRequests]
    BY <2>2, <2>3, <2>4
  <2> QED BY <2>1, <2>5 DEF Typed, AgreementTypeOK, row
<1>3. CASE DeclineMark(r)
  <2>1. proposals' \in Seq(Proposals) /\ Len(proposals') = Len(proposals)
    BY <1>3, MarkType DEF DeclineMark, Typed, AgreementTypeOK
  <2>2. [op |-> "decline.cancel", seen |-> req[r].seen] \in AgreementRequests
    BY <1>3, Carries DEF DeclineMark, AgreementRequests, At
  <2>3. Written' /\ req' \in [Requests -> {Idle} \cup AgreementRequests]
    BY <1>3, <2>2, MovesAlone DEF DeclineMark
  <2> QED BY <1>3, <2>1, <2>3 DEF DeclineMark, Typed, AgreementTypeOK, row
<1>4. CASE DeclineCancel(r)
  <2>1. Written' /\ req' \in [Requests -> {Idle} \cup AgreementRequests]
    BY <1>4, MovesAlone DEF DeclineCancel, Done, Goto, Idle
  <2> QED BY <1>4, <2>1 DEF DeclineCancel, Typed, AgreementTypeOK, Statuses
<1>5. CASE AcceptMark(r)
  <2>1. proposals' \in Seq(Proposals) /\ Len(proposals') = Len(proposals)
    BY <1>5, MarkType DEF AcceptMark, Typed, AgreementTypeOK
  <2>2. /\ [req[r] EXCEPT !.op = "accept.freeze"] \in AgreementRequests
        /\ [req[r] EXCEPT !.op = "accept.freeze"].op = "accept.freeze"
    BY <1>5, Carries DEF AcceptMark, AgreementRequests, At
  <2>3. Written' /\ req' \in [Requests -> {Idle} \cup AgreementRequests]
    BY <1>5, <2>2, MovesAlone DEF AcceptMark
  <2> QED BY <1>5, <2>1, <2>3 DEF AcceptMark, Typed, AgreementTypeOK, row
<1>6. CASE AcceptFreeze(r)
  <2>1. req[r].id \in ProposalIds /\ req[r].id # NoTerms
    <3>1. req[r].op = "accept.freeze"
      BY <1>6 DEF AcceptFreeze, At
    <3>2. req[r].id \in ProposalIds
      BY <3>1, Carries
    <3> QED BY <3>2, MaxProposalsAssumption DEF ProposalIds, NoTerms
  <2>2. PICK state \in {[op |-> "contract.booking"], Idle} :
          /\ Goto(r, state) /\ state.op \in {"contract.booking", "idle"}
          /\ state.op = "contract.booking" \/ UNCHANGED termsFrom
          /\ termsFrom' \in {termsFrom, req[r].id}
          /\ state.op = "contract.booking" => termsFrom' = req[r].id
    BY <1>6 DEF AcceptFreeze, Done, Goto, Idle
  <2>3. state \in {Idle} \cup AgreementRequests
    BY <2>2 DEF AgreementRequests
  <2>4. Written' /\ req' \in [Requests -> {Idle} \cup AgreementRequests]
    BY <1>6, <2>1, <2>2, <2>3, MovesAlone DEF AcceptFreeze
  <2>5. status' \in Statuses
    BY <1>6 DEF AcceptFreeze, Typed, AgreementTypeOK, Statuses
  <2> QED BY <1>6, <2>1, <2>2, <2>4, <2>5 DEF AcceptFreeze, Typed, AgreementTypeOK
<1> QED BY <1>1, <1>2, <1>3, <1>4, <1>5, <1>6

(* What a contract keeps when its row is written again. *)
ContractsKept ==
  /\ contracts' \in Seq(Contracts) /\ Len(contracts') = Len(contracts)
  /\ \A k \in 1 .. Len(contracts) : contracts'[k].version = contracts[k].version

LEMMA VoidKeeps ==
  ASSUME contracts \in Seq(Contracts), NEW r, ContractVoid(r)
  PROVE  ContractsKept
<1>1. contracts \in [1 .. Len(contracts) -> Contracts] /\ DOMAIN contracts = 1 .. Len(contracts)
  BY RowsAre
<1>2. \A k \in 1 .. Len(contracts) : [contracts[k] EXCEPT !.status = "void"] \in Contracts
  BY <1>1 DEF Contracts
<1>3. contracts' \in [1 .. Len(contracts) -> Contracts]
  BY <1>1, <1>2 DEF ContractVoid
<1>4. \A k \in 1 .. Len(contracts) : contracts'[k].version = contracts[k].version
  BY <1>1 DEF ContractVoid, Contracts
<1> QED BY <1>3, <1>4, RowsType DEF ContractsKept

LEMMA SignKeeps ==
  ASSUME contracts \in Seq(Contracts), NEW r, SignWrite(r), req[r].side \in Parties
  PROVE  ContractsKept
<1>1. contracts \in [1 .. Len(contracts) -> Contracts] /\ DOMAIN contracts = 1 .. Len(contracts)
  BY RowsAre
<1>2. \A k \in 1 .. Len(contracts) :
        [contracts[k] EXCEPT !.signed = @ \cup {req[r].side}] \in Contracts
  BY <1>1 DEF Contracts
<1>3. contracts' \in [1 .. Len(contracts) -> Contracts]
  BY <1>1, <1>2 DEF SignWrite
<1>4. \A k \in 1 .. Len(contracts) :
        contracts'[k] \in {contracts[k], [contracts[k] EXCEPT !.signed = @ \cup {req[r].side}]}
  BY <1>1 DEF SignWrite
<1>5. \A k \in 1 .. Len(contracts) : contracts'[k].version = contracts[k].version
  BY <1>1, <1>4 DEF Contracts
<1> QED BY <1>3, <1>5, RowsType DEF ContractsKept

LEMMA CompleteKeeps ==
  ASSUME contracts \in Seq(Contracts), NEW r, SignComplete(r)
  PROVE  ContractsKept
<1>1. contracts \in [1 .. Len(contracts) -> Contracts] /\ DOMAIN contracts = 1 .. Len(contracts)
  BY RowsAre
<1>2. \A k \in 1 .. Len(contracts) : [contracts[k] EXCEPT !.status = "signed"] \in Contracts
  BY <1>1 DEF Contracts
<1>3. contracts' \in [1 .. Len(contracts) -> Contracts]
  BY <1>1, <1>2 DEF SignComplete
<1>4. \A k \in 1 .. Len(contracts) :
        contracts'[k] \in {contracts[k], [contracts[k] EXCEPT !.status = "signed"]}
  BY <1>1 DEF SignComplete
<1>5. \A k \in 1 .. Len(contracts) : contracts'[k].version = contracts[k].version
  BY <1>1, <1>4 DEF Contracts
<1> QED BY <1>3, <1>5, RowsType DEF ContractsKept

(* A request that writes such a row moves on. *)
LEMMA KeptTyped ==
  ASSUME Typed, NEW r \in Requests, NEW state \in {Idle} \cup AgreementRequests, Goto(r, state),
         ContractsKept,
         state.op \in {"contract.void", "contract.insert"}
           => state.version \in 1 .. Len(contracts) + 1,
         state.op # "contract.booking",
         state.op \in {"sign.write", "sign.complete"} => state.id \in 1 .. Len(contracts),
         UNCHANGED <<row, proposals, termsFrom, nda, introduction, died>>
  PROVE  Typed'
<1>1. /\ Len(contracts') = Len(contracts) /\ Len(contracts) \in Nat
      /\ \A c \in 1 .. Len(contracts') : contracts'[c].version = c
  BY DEF Typed, AgreementTypeOK, Written, ContractsKept
<1>2. Written' /\ req' \in [Requests -> {Idle} \cup AgreementRequests]
  BY <1>1, MovesOn
<1> QED BY <1>1, <1>2 DEF Typed, AgreementTypeOK, ContractsKept, row

LEMMA ContractTyped ==
  ASSUME Typed, NEW r \in Requests,
         ContractBooking(r) \/ ContractPrevious(r) \/ ContractVoid(r) \/ ContractInsert(r)
  PROVE  Typed'
<1>1. CASE ContractBooking(r)
  <2>1. termsFrom \in ProposalIds
    BY <1>1 DEF ContractBooking, Typed, Written, AgreementTypeOK
  <2>2. [op |-> "contract.previous", terms |-> termsFrom] \in AgreementRequests
    BY <2>1 DEF AgreementRequests
  <2>3. Written' /\ req' \in [Requests -> {Idle} \cup AgreementRequests]
    BY <1>1, <2>2, MovesAlone DEF ContractBooking
  <2> QED BY <1>1, <2>3 DEF ContractBooking, Typed, AgreementTypeOK, row
<1>2. CASE ContractPrevious(r)
  <2>1. PICK v \in {0} \cup Versions :
          Goto(r, [op |-> "contract.void", terms |-> req[r].terms, version |-> v + 1])
    BY <1>2 DEF ContractPrevious
  <2>2. v \in 0 .. Len(contracts) /\ Len(contracts) \in Nat /\ Len(contracts) <= MaxContracts
    BY DEF Versions, Typed, AgreementTypeOK, Written
  <2>3. /\ v + 1 \in 1 .. Len(contracts) + 1
        /\ [op |-> "contract.void", terms |-> req[r].terms, version |-> v + 1] \in AgreementRequests
    <3>1. req[r].terms \in ProposalIds
      BY <1>2, Carries DEF ContractPrevious
    <3>2. v + 1 \in 1 .. Len(contracts) + 1 /\ v + 1 \in 1 .. MaxContracts + 1
      BY <2>2, MaxContractsAssumption
    <3> QED BY <3>1, <3>2 DEF AgreementRequests
  <2>4. Written' /\ req' \in [Requests -> {Idle} \cup AgreementRequests]
    BY <1>2, <2>1, <2>3, MovesAlone DEF ContractPrevious
  <2> QED BY <1>2, <2>4 DEF ContractPrevious, Typed, AgreementTypeOK, row
<1>3. CASE ContractVoid(r)
  <2> DEFINE state == [req[r] EXCEPT !.op = "contract.insert"]
  <2>1. ContractsKept
    BY <1>3, VoidKeeps DEF Typed, AgreementTypeOK
  <2>2. /\ state \in AgreementRequests /\ state.op = "contract.insert"
        /\ state.version = req[r].version
    <3>1. req[r].op = "contract.void"
      BY <1>3 DEF ContractVoid, At
    <3>2. /\ req[r].terms \in ProposalIds /\ req[r].version \in 1 .. MaxContracts + 1
          /\ state = [op |-> "contract.insert", terms |-> req[r].terms, version |-> req[r].version]
      BY <3>1, Carries
    <3> HIDE DEF state
    <3> QED BY <3>2 DEF AgreementRequests
  <2>3. req[r].version \in 1 .. Len(contracts) + 1
    BY <1>3 DEF ContractVoid, At, Typed, Written
  <2> QED BY <1>3, <2>1, <2>2, <2>3, KeptTyped DEF ContractVoid
<1>4. CASE ContractInsert(r)
  <2>1. /\ Goto(r, Idle) /\ Idle.op = "idle"
        /\ UNCHANGED <<row, proposals, termsFrom, nda, introduction, died>>
    BY <1>4 DEF ContractInsert, Done, Goto, Idle
  <2>2. CASE UNCHANGED contracts
    <3>1. Written' /\ req' \in [Requests -> {Idle} \cup AgreementRequests]
      BY <2>1, <2>2, MovesAlone
    <3> QED BY <2>1, <2>2, <3>1 DEF Typed, AgreementTypeOK, row
  <2>3. CASE ~UNCHANGED contracts
    <3> DEFINE new == [version |-> req[r].version, terms |-> req[r].terms, signed |-> {},
                       status |-> "awaiting_signatures"]
    <3>1. new \in Contracts
      <4>1. req[r].op = "contract.insert"
        BY <1>4 DEF ContractInsert, At
      <4>2. req[r].terms \in ProposalIds /\ req[r].version \in 1 .. MaxContracts + 1
        BY <4>1, Carries
      <4>3. req[r].version \in Nat
        BY <4>2, MaxContractsAssumption
      <4> QED BY <4>2, <4>3 DEF Contracts
    <3>2. /\ Len(contracts) \in Nat /\ Len(contracts) < MaxContracts
          /\ contracts' = Append(contracts, new) /\ req[r].version \notin Versions
      BY <1>4, <2>3 DEF ContractInsert, Typed, AgreementTypeOK
    <3>3. req[r].version \in 1 .. Len(contracts) + 1
      BY <1>4 DEF ContractInsert, At, Typed, Written
    <3>4. 1 .. Len(contracts) \subseteq Versions
      <4>1. \A c \in 1 .. Len(contracts) : c \in DOMAIN contracts /\ contracts[c].version = c
        BY DEF Typed, Written, AgreementTypeOK
      <4> QED BY <4>1 DEF Versions
    <3>5. new.version = Len(contracts) + 1
      BY <3>2, <3>3, <3>4
    <3> HIDE DEF new
    <3>6. /\ contracts' \in Seq(Contracts) /\ Len(contracts') = Len(contracts) + 1
          /\ contracts'[Len(contracts) + 1] = new
          /\ \A k \in 1 .. Len(contracts) : contracts'[k] = contracts[k]
      BY <3>1, <3>2, AppendType DEF Typed, AgreementTypeOK
    <3>7. \A c \in 1 .. Len(contracts') : contracts'[c].version = c
      BY <3>2, <3>5, <3>6 DEF Typed, Written
    <3>8. Written' /\ req' \in [Requests -> {Idle} \cup AgreementRequests]
      BY <2>1, <3>2, <3>6, <3>7, MovesOn
    <3> QED BY <2>1, <3>2, <3>6, <3>8, MaxContractsAssumption DEF Typed, AgreementTypeOK, row
  <2> QED BY <2>2, <2>3
<1> QED BY <1>1, <1>2, <1>3, <1>4

LEMMA RespondTyped ==
  ASSUME Typed, NEW r \in Requests, RespondStep(r)
  PROVE  Typed'
BY AnswerTyped, ContractTyped DEF RespondStep

LEMMA SignTyped ==
  ASSUME Typed, NEW r \in Requests, SignStep(r)
  PROVE  Typed'
<1>1. ASSUME NEW side \in Parties, SignRead(r, side) PROVE Typed'
  <2>1. [op |-> "sign.contract", side |-> side] \in AgreementRequests
    BY DEF AgreementRequests
  <2>2. Written' /\ req' \in [Requests -> {Idle} \cup AgreementRequests]
    BY <1>1, <2>1, MovesAlone DEF SignRead, Begin, Goto
  <2> QED BY <1>1, <2>2 DEF SignRead, Typed, AgreementTypeOK, row
<1>2. CASE SignContract(r)
  <2>1. UNCHANGED <<row, proposals, termsFrom, contracts, nda, introduction, died>>
    BY <1>2 DEF SignContract
  <2>2. ASSUME NEW c \in Current, Goto(r, [op |-> "sign.write", side |-> req[r].side, id |-> c])
        PROVE  Written' /\ req' \in [Requests -> {Idle} \cup AgreementRequests]
    <3>1. c \in 1 .. Len(contracts) /\ c \in ContractIds
      BY MaxContractsAssumption DEF Current, ContractIds, Typed, AgreementTypeOK
    <3>2. [op |-> "sign.write", side |-> req[r].side, id |-> c] \in AgreementRequests
      BY <1>2, <3>1, Carries DEF SignContract, At, AgreementRequests
    <3> QED BY <2>1, <2>2, <3>1, <3>2, MovesAlone
  <2>3. ASSUME Done(r) PROVE Written' /\ req' \in [Requests -> {Idle} \cup AgreementRequests]
    BY <2>1, <2>3, EndsAlone
  <2>4. Done(r) \/ \E c \in Current :
          Goto(r, [op |-> "sign.write", side |-> req[r].side, id |-> c])
    BY <1>2 DEF SignContract
  <2>5. Written' /\ req' \in [Requests -> {Idle} \cup AgreementRequests]
    BY <2>2, <2>3, <2>4
  <2> QED BY <2>1, <2>5 DEF Typed, AgreementTypeOK, row
<1>3. CASE SignWrite(r)
  <2>1. /\ req[r].side \in Parties /\ req[r].id \in ContractIds
        /\ req[r].id \in 1 .. Len(contracts)
    BY <1>3, Carries DEF SignWrite, At, Typed, Written
  <2>2. ContractsKept
    BY <1>3, <2>1, SignKeeps DEF Typed, AgreementTypeOK
  <2>3. PICK state \in {[op |-> "sign.complete", id |-> req[r].id], Idle} : Goto(r, state)
    BY <1>3 DEF SignWrite, Done, Goto
  <2>4. /\ state \in {Idle} \cup AgreementRequests /\ state.op \in {"sign.complete", "idle"}
        /\ state.op = "sign.complete" => state.id = req[r].id
    BY <2>1, <2>3 DEF AgreementRequests, Idle
  <2> QED BY <1>3, <2>1, <2>2, <2>3, <2>4, KeptTyped DEF SignWrite
<1>4. CASE SignComplete(r)
  <2>1. ContractsKept
    BY <1>4, CompleteKeeps DEF Typed, AgreementTypeOK
  <2>2. PICK state \in {[op |-> "sign.book"], Idle} : Goto(r, state)
    BY <1>4 DEF SignComplete, Done, Goto
  <2>3. state \in {Idle} \cup AgreementRequests /\ state.op \in {"sign.book", "idle"}
    BY <2>2 DEF AgreementRequests, Idle
  <2> QED BY <1>4, <2>1, <2>2, <2>3, KeptTyped DEF SignComplete
<1>5. CASE SignBook(r)
  <2>1. Written' /\ req' \in [Requests -> {Idle} \cup AgreementRequests]
    BY <1>5, MovesAlone DEF SignBook, Done, Goto, Idle
  <2> QED BY <1>5, <2>1 DEF SignBook, Typed, AgreementTypeOK, Statuses
<1> QED BY <1>1, <1>2, <1>3, <1>4, <1>5 DEF SignStep

LEMMA IntroduceTyped ==
  ASSUME Typed, NEW r \in Requests, IntroduceStep(r)
  PROVE  Typed'
<1>1. ASSUME NEW to \in Introductions, IntroduceRead(r, to) PROVE Typed'
  <2>1. [op |-> "introduce.write", to |-> to, seen |-> status] \in AgreementRequests
    BY DEF AgreementRequests, Typed, AgreementTypeOK
  <2>2. Written' /\ req' \in [Requests -> {Idle} \cup AgreementRequests]
    BY <1>1, <2>1, MovesAlone DEF IntroduceRead, Begin, Goto
  <2> QED BY <1>1, <2>2 DEF IntroduceRead, Typed, AgreementTypeOK, row
<1>2. CASE IntroduceWrite(r)
  <2>1. req[r].to \in Introductions /\ req[r].seen \in Statuses
    BY <1>2, Carries DEF IntroduceWrite
  <2>2. PICK state \in {[op |-> "introduce.cancel", seen |-> req[r].seen], Idle} : Goto(r, state)
    BY <1>2 DEF IntroduceWrite, Done, Goto
  <2>3. state \in {Idle} \cup AgreementRequests /\ state.op \in {"introduce.cancel", "idle"}
    BY <2>1, <2>2 DEF AgreementRequests, Idle
  <2>4. Written' /\ req' \in [Requests -> {Idle} \cup AgreementRequests]
    BY <1>2, <2>2, <2>3, MovesAlone DEF IntroduceWrite
  <2> QED BY <1>2, <2>1, <2>4 DEF IntroduceWrite, Typed, AgreementTypeOK, row
<1>3. CASE IntroduceCancel(r)
  <2>1. Written' /\ req' \in [Requests -> {Idle} \cup AgreementRequests]
    BY <1>3, MovesAlone DEF IntroduceCancel, Done, Goto, Idle
  <2> QED BY <1>3, <2>1 DEF IntroduceCancel, Typed, AgreementTypeOK, Statuses
<1> QED BY <1>1, <1>2, <1>3 DEF IntroduceStep

AgreementStep(r) == ProposeStep(r) \/ RespondStep(r) \/ SignStep(r) \/ IntroduceStep(r)

LEMMA StepTyped == Typed /\ [AgreementNext]_agreementVars => Typed'
<1> SUFFICES ASSUME Typed, [AgreementNext]_agreementVars PROVE Typed'
  OBVIOUS
<1>1. ASSUME NEW r \in Requests, AgreementStep(r) PROVE Typed'
  BY <1>1, ProposeTyped, RespondTyped, SignTyped, IntroduceTyped DEF AgreementStep
<1>2. ASSUME NEW r \in Requests, Die(r), died' = TRUE,
             UNCHANGED <<proposals, termsFrom, contracts, nda, introduction>>
      PROVE  Typed'
  BY <1>2 DEF Die, Typed, AgreementTypeOK, Written, At, Done, Idle, row
<1>3. CASE AcceptNda
  BY <1>3 DEF AcceptNda, Typed, AgreementTypeOK, Written, At, row
<1>4. CASE LaterMoves
  BY <1>4 DEF LaterMoves, Typed, AgreementTypeOK, Written, At
<1>5. CASE UNCHANGED agreementVars
  BY <1>5 DEF agreementVars, Typed, AgreementTypeOK, Written, At, row
<1> QED BY <1>1, <1>2, <1>3, <1>4, <1>5 DEF AgreementNext, AgreementStep

(* Every variable of Agreement keeps its type. *)
THEOREM AgreementTypeCorrect == AgreementSpec => []AgreementTypeOK
<1>1. Typed => AgreementTypeOK
  BY DEF Typed
<1> QED BY <1>1, InitTyped, StepTyped, PTL DEF AgreementSpec

-------------------------------------------------------------------------------
(* What a step does to one contract *)

Awaits(c) == contracts[c].status = "awaiting_signatures"

(* Nothing; or it voids it, signs it, or completes it, and each only while *)
(* it awaits signatures.  Whoever signs completes it next.                 *)
Changes(c) ==
  \/ contracts'[c] = contracts[c]
  \/ Awaits(c) /\ contracts'[c] = [contracts[c] EXCEPT !.status = "void"]
  \/ Awaits(c) /\ BothSigned(c) /\ contracts'[c] = [contracts[c] EXCEPT !.status = "signed"]
  \/ /\ Awaits(c)
     /\ \E r \in Requests : At(r, "sign.complete")' /\ req'[r].id = c

LEMMA ContractChanges ==
  ASSUME Typed, [AgreementNext]_agreementVars, NEW c \in 1 .. Len(contracts)
  PROVE  Changes(c)
<1>1. contracts \in [1 .. Len(contracts) -> Contracts] /\ DOMAIN contracts = 1 .. Len(contracts)
  BY RowsAre DEF Typed, AgreementTypeOK
<1>2. UNCHANGED contracts => Changes(c)
  BY DEF Changes
<1>3. ASSUME NEW r \in Requests, ProposeStep(r) \/ IntroduceStep(r) PROVE UNCHANGED contracts
  BY <1>3 DEF ProposeStep, ProposeRead, ProposeCounter, ProposeInsert, ProposeStatus,
              IntroduceStep, IntroduceRead, IntroduceWrite, IntroduceCancel
<1>4. ASSUME NEW r \in Requests, RespondStep(r) PROVE Changes(c)
  <2>1. CASE ContractVoid(r)
    BY <1>1, <2>1 DEF ContractVoid, Changes, Awaits
  <2>2. CASE ContractInsert(r)
    <3>1. ASSUME NEW e, contracts' = Append(contracts, e) PROVE contracts'[c] = contracts[c]
      BY <3>1 DEF Typed, AgreementTypeOK
    <3> QED BY <1>2, <2>2, <3>1 DEF ContractInsert, Changes
  <2>3. CASE ~ContractVoid(r) /\ ~ContractInsert(r)
    BY <1>2, <1>4, <2>3
    DEF RespondStep, RespondRead, RespondProposal, DeclineMark, DeclineCancel, AcceptMark,
        AcceptFreeze, ContractBooking, ContractPrevious
  <2> QED BY <2>1, <2>2, <2>3
<1>5. ASSUME NEW r \in Requests, SignStep(r) PROVE Changes(c)
  <2>1. CASE SignWrite(r)
    <3>1. CASE UNCHANGED contracts
      BY <1>2, <3>1
    <3>2. CASE ~UNCHANGED contracts
      <4>1. /\ Awaits(req[r].id)
            /\ contracts' = [contracts EXCEPT ![req[r].id].signed = @ \cup {req[r].side}]
            /\ Goto(r, [op |-> "sign.complete", id |-> req[r].id])
        BY <2>1, <3>2 DEF SignWrite, Awaits
      <4>2. At(r, "sign.complete")' /\ req'[r].id = req[r].id
        BY <4>1 DEF At, Goto, Typed, AgreementTypeOK
      <4>3. CASE c = req[r].id
        BY <4>1, <4>2, <4>3 DEF Changes
      <4>4. CASE c # req[r].id
        BY <1>1, <4>1, <4>4 DEF Changes
      <4> QED BY <4>3, <4>4
    <3> QED BY <3>1, <3>2
  <2>2. CASE SignComplete(r)
    BY <1>1, <1>2, <2>2 DEF SignComplete, Changes, Awaits
  <2>3. CASE ~SignWrite(r) /\ ~SignComplete(r)
    BY <1>2, <1>5, <2>3 DEF SignStep, SignRead, SignContract, SignBook
  <2> QED BY <2>1, <2>2, <2>3
<1>6. CASE \/ AcceptNda \/ LaterMoves \/ UNCHANGED agreementVars
           \/ UNCHANGED <<proposals, termsFrom, contracts, nda, introduction>>
  BY <1>2, <1>6 DEF AcceptNda, LaterMoves, agreementVars
<1> QED BY <1>2, <1>3, <1>4, <1>5, <1>6 DEF AgreementNext

(* Contracts are never taken away; a new one carries no signature.         *)
LEMMA ContractsGrow ==
  ASSUME Typed, [AgreementNext]_agreementVars
  PROVE  \/ Len(contracts') = Len(contracts)
         \/ /\ Len(contracts') = Len(contracts) + 1
            /\ contracts'[Len(contracts) + 1].signed = {}
<1>1. ASSUME NEW r \in Requests, ProposeStep(r) \/ IntroduceStep(r) PROVE UNCHANGED contracts
  BY <1>1 DEF ProposeStep, ProposeRead, ProposeCounter, ProposeInsert, ProposeStatus,
              IntroduceStep, IntroduceRead, IntroduceWrite, IntroduceCancel
<1>2. ASSUME NEW r \in Requests, RespondStep(r)
      PROVE  \/ Len(contracts') = Len(contracts)
             \/ /\ Len(contracts') = Len(contracts) + 1
                /\ contracts'[Len(contracts) + 1].signed = {}
  <2>1. CASE ContractVoid(r)
    BY <2>1, VoidKeeps DEF Typed, AgreementTypeOK, ContractsKept
  <2>2. CASE ContractInsert(r)
    <3>1. ASSUME NEW e, contracts' = Append(contracts, e)
          PROVE  Len(contracts') = Len(contracts) + 1 /\ contracts'[Len(contracts) + 1] = e
      BY <3>1 DEF Typed, AgreementTypeOK
    <3> DEFINE new == [version |-> req[r].version, terms |-> req[r].terms, signed |-> {},
                       status |-> "awaiting_signatures"]
    <3>2. UNCHANGED contracts \/ contracts' = Append(contracts, new)
      BY <2>2 DEF ContractInsert
    <3>3. new.signed = {}
      OBVIOUS
    <3> HIDE DEF new
    <3> QED BY <3>1, <3>2, <3>3
  <2>3. CASE ~ContractVoid(r) /\ ~ContractInsert(r)
    BY <1>2, <2>3
    DEF RespondStep, RespondRead, RespondProposal, DeclineMark, DeclineCancel, AcceptMark,
        AcceptFreeze, ContractBooking, ContractPrevious
  <2> QED BY <2>1, <2>2, <2>3
<1>3. ASSUME NEW r \in Requests, SignStep(r) PROVE Len(contracts') = Len(contracts)
  <2>1. CASE SignWrite(r)
    <3>1. req[r].side \in Parties
      BY <2>1, Carries DEF SignWrite, At
    <3> QED BY <2>1, <3>1, SignKeeps DEF Typed, AgreementTypeOK, ContractsKept
  <2>2. CASE SignComplete(r)
    BY <2>2, CompleteKeeps DEF Typed, AgreementTypeOK, ContractsKept
  <2>3. CASE ~SignWrite(r) /\ ~SignComplete(r)
    BY <1>3, <2>3 DEF SignStep, SignRead, SignContract, SignBook
  <2> QED BY <2>1, <2>2, <2>3
<1>4. CASE \/ AcceptNda \/ LaterMoves \/ UNCHANGED agreementVars
           \/ UNCHANGED <<proposals, termsFrom, contracts, nda, introduction>>
  BY <1>4 DEF AcceptNda, LaterMoves, agreementVars
<1> QED BY <1>1, <1>2, <1>3, <1>4 DEF AgreementNext

(* A contract that is signed or void stays as it is: no signature is added *)
(* to a voided text, and terms agreed again never void a signed one.       *)
THEOREM SignedIsFinal == AgreementSpec => ContractIsFinal
<1> DEFINE Final == \A c \in DOMAIN contracts :
                      contracts[c].status # "awaiting_signatures" => contracts'[c] = contracts[c]
<1>1. Typed /\ [AgreementNext]_agreementVars => Final
  <2> SUFFICES ASSUME Typed, [AgreementNext]_agreementVars, NEW c \in DOMAIN contracts,
                      ~Awaits(c)
               PROVE  contracts'[c] = contracts[c]
    BY DEF Awaits
  <2>1. c \in 1 .. Len(contracts)
    BY DEF Typed, AgreementTypeOK
  <2> QED BY <2>1, ContractChanges DEF Changes
<1>2. Typed /\ [AgreementNext]_agreementVars => [Final]_agreementVars
  BY <1>1
<1> HIDE DEF Final
<1>3. AgreementSpec => [][Final]_agreementVars
  BY <1>2, InitTyped, StepTyped, PTL DEF AgreementSpec
<1> QED BY <1>3 DEF ContractIsFinal, Final

-------------------------------------------------------------------------------
(* A deal is booked under a contract *)

UnderContract ==
  \E c \in 1 .. Len(contracts) : contracts[c].status = "signed" /\ contracts[c].signed = Parties

Early == {"proposed", "negotiating", "contracting", "cancelled"}

BookedInv ==
  /\ status \notin Early => UnderContract
  /\ \A r \in Requests : At(r, "sign.book") => UnderContract

LEMMA StaysUnderContract ==
  ASSUME Typed, Typed', [AgreementNext]_agreementVars, UnderContract
  PROVE  UnderContract'
<1>1. PICK c \in 1 .. Len(contracts) :
        contracts[c].status = "signed" /\ contracts[c].signed = Parties
  BY DEF UnderContract
<1>2. contracts'[c] = contracts[c]
  BY <1>1, ContractChanges DEF Changes, Awaits
<1>3. Len(contracts) \in Nat /\ Len(contracts') \in Nat /\ Len(contracts) <= Len(contracts')
  BY ContractsGrow DEF Typed, AgreementTypeOK
<1> QED BY <1>1, <1>2, <1>3 DEF UnderContract

(* Where the deal may go, and who may book it. *)
LEMMA DealMoves ==
  ASSUME Typed, [AgreementNext]_agreementVars, UNCHANGED status \/ status' \notin Early
  PROVE  \/ UNCHANGED status
         \/ status \notin Early
         \/ \E r \in Requests : At(r, "sign.book")
<1>1. ASSUME NEW r \in Requests, ProposeStep(r)
      PROVE  UNCHANGED status \/ status' \in Early
  BY <1>1 DEF ProposeStep, ProposeRead, ProposeCounter, ProposeInsert, ProposeStatus, row, Early
<1>2. ASSUME NEW r \in Requests, RespondStep(r)
      PROVE  UNCHANGED status \/ status' \in Early
  BY <1>2 DEF RespondStep, RespondRead, RespondProposal, DeclineMark, DeclineCancel, AcceptMark,
        AcceptFreeze, ContractBooking, ContractPrevious, ContractVoid, ContractInsert, row, Early
<1>3. ASSUME NEW r \in Requests, SignStep(r)
      PROVE  UNCHANGED status \/ At(r, "sign.book")
  BY <1>3 DEF SignStep, SignRead, SignContract, SignWrite, SignComplete, SignBook, row
<1>4. ASSUME NEW r \in Requests, IntroduceStep(r)
      PROVE  UNCHANGED status \/ status' \in Early
  BY <1>4 DEF IntroduceStep, IntroduceRead, IntroduceWrite, IntroduceCancel, row, Early
<1>5. CASE LaterMoves
  <2>1. PICK to \in Statuses : /\ Moves(status, to) /\ status' = to
                               /\ to = "cancelled"
                                  \/ status \notin {"proposed", "negotiating", "contracting"}
    BY <1>5 DEF LaterMoves
  <2>2. status # "cancelled"
    BY <2>1 DEF Moves, CanTransition, Transitions
  <2> QED BY <2>1, <2>2 DEF Early
<1>6. ASSUME NEW r \in Requests, Die(r) PROVE UNCHANGED status
  BY <1>6 DEF Die, row
<1>7. CASE AcceptNda \/ UNCHANGED agreementVars
  BY <1>7 DEF AcceptNda, agreementVars, row
<1> QED BY <1>1, <1>2, <1>3, <1>4, <1>5, <1>6, <1>7 DEF AgreementNext

(* Whoever comes to book it has just completed a contract. *)
LEMMA BookerCompleted ==
  ASSUME Typed, [AgreementNext]_agreementVars, NEW q \in Requests, At(q, "sign.book")'
  PROVE  At(q, "sign.book") \/ UnderContract'
<1> USE DEF Typed, AgreementTypeOK, At, Begin, Goto, Done, Idle
<1>1. ASSUME NEW r \in Requests, ProposeStep(r) PROVE At(q, "sign.book")
  <2>1. CASE ProposeCounter(r)
    BY <2>1, OpMoves DEF ProposeCounter
  <2>2. CASE ~ProposeCounter(r)
    BY <1>1, <2>2 DEF ProposeStep, ProposeRead, ProposeInsert, ProposeStatus
  <2> QED BY <2>1, <2>2
<1>2. ASSUME NEW r \in Requests, RespondStep(r) PROVE At(q, "sign.book")
  <2>1. CASE AcceptMark(r)
    BY <2>1, OpMoves DEF AcceptMark
  <2>2. CASE ContractVoid(r)
    BY <2>2, OpMoves DEF ContractVoid
  <2>3. CASE ~AcceptMark(r) /\ ~ContractVoid(r)
    BY <1>2, <2>3
    DEF RespondStep, RespondRead, RespondProposal, DeclineMark, DeclineCancel, AcceptFreeze,
        ContractBooking, ContractPrevious, ContractInsert
  <2> QED BY <2>1, <2>2, <2>3
<1>3. ASSUME NEW r \in Requests, SignComplete(r) PROVE At(q, "sign.book") \/ UnderContract'
  <2>1. CASE req'[r].op # "sign.book"
    BY <1>3, <2>1 DEF SignComplete
  <2>2. CASE req'[r].op = "sign.book"
    <3> DEFINE c == req[r].id
    <3>1. /\ Awaits(c) /\ BothSigned(c)
          /\ contracts' = [contracts EXCEPT ![c].status = "signed"]
      BY <1>3, <2>2 DEF SignComplete, Awaits
    <3>2. c \in 1 .. Len(contracts)
      BY <1>3 DEF SignComplete, Written
    <3>3. contracts \in [1 .. Len(contracts) -> Contracts] /\ Len(contracts) \in Nat
      BY RowsAre
    <3>4. contracts'[c] = [contracts[c] EXCEPT !.status = "signed"]
      BY <3>1, <3>2, <3>3
    <3>5. contracts'[c].status = "signed" /\ contracts'[c].signed = Parties
      BY <3>1, <3>2, <3>3, <3>4 DEF BothSigned, Contracts
    <3>6. Len(contracts') = Len(contracts)
      BY <1>3, CompleteKeeps DEF ContractsKept
    <3> QED BY <3>2, <3>5, <3>6 DEF UnderContract
  <2> QED BY <2>1, <2>2
<1>4. ASSUME NEW r \in Requests, SignStep(r), ~SignComplete(r) PROVE At(q, "sign.book")
  BY <1>4 DEF SignStep, SignRead, SignContract, SignWrite, SignBook
<1>5. ASSUME NEW r \in Requests, IntroduceStep(r) PROVE At(q, "sign.book")
  BY <1>5 DEF IntroduceStep, IntroduceRead, IntroduceWrite, IntroduceCancel
<1>6. ASSUME NEW r \in Requests, Die(r) PROVE At(q, "sign.book")
  BY <1>6 DEF Die
<1>7. CASE AcceptNda \/ LaterMoves \/ UNCHANGED agreementVars
  BY <1>7 DEF AcceptNda, LaterMoves, agreementVars
<1> QED BY <1>1, <1>2, <1>3, <1>4, <1>5, <1>6, <1>7 DEF AgreementNext

(* A deal past its contract has one both sides signed, whatever was        *)
(* proposed, declined, voided or signed again beside it.                   *)
THEOREM AlwaysUnderContract == AgreementSpec => []BookedUnderContract
<1>1. AgreementInit => BookedInv
  BY DEF AgreementInit, BookedInv, Early, At, Idle
<1>2. Typed /\ Typed' /\ BookedInv /\ [AgreementNext]_agreementVars => BookedInv'
  <2> SUFFICES ASSUME Typed, Typed', BookedInv, [AgreementNext]_agreementVars PROVE BookedInv'
    OBVIOUS
  <2>1. status' \notin Early => UnderContract'
    <3> SUFFICES ASSUME status' \notin Early PROVE UnderContract'
      OBVIOUS
    <3>1. UnderContract
      BY DealMoves DEF BookedInv
    <3> QED BY <3>1, StaysUnderContract
  <2>2. ASSUME NEW q \in Requests, At(q, "sign.book")' PROVE UnderContract'
    BY <2>2, BookerCompleted, StaysUnderContract DEF BookedInv
  <2> QED BY <2>1, <2>2 DEF BookedInv, Early
<1>3. Typed /\ BookedInv => BookedUnderContract
  <2> SUFFICES ASSUME Typed, BookedInv PROVE BookedUnderContract
    OBVIOUS
  <2>1. DOMAIN contracts = 1 .. Len(contracts)
    BY RowsAre DEF Typed, AgreementTypeOK
  <2> QED BY <2>1 DEF BookedInv, BookedUnderContract, UnderContract, Early
<1> QED BY <1>1, <1>2, <1>3, InitTyped, StepTyped, PTL DEF AgreementSpec

-------------------------------------------------------------------------------
(* Both signatures complete it *)

Completing(c) == \E r \in Requests : At(r, "sign.complete") /\ req[r].id = c

SignedInv ==
  \A c \in 1 .. Len(contracts) : BothSigned(c) /\ Awaits(c) /\ ~died => Completing(c)

LEMMA DiedStays == died /\ [AgreementNext]_agreementVars => died'
BY DEF AgreementNext, agreementVars, AcceptNda, LaterMoves,
       ProposeStep, ProposeRead, ProposeCounter, ProposeInsert, ProposeStatus,
       RespondStep, RespondRead, RespondProposal, DeclineMark, DeclineCancel, AcceptMark,
       AcceptFreeze, ContractBooking, ContractPrevious, ContractVoid, ContractInsert,
       SignStep, SignRead, SignContract, SignWrite, SignComplete, SignBook,
       IntroduceStep, IntroduceRead, IntroduceWrite, IntroduceCancel

(* A request that leaves its completion leaves the contract complete.      *)
LEMMA KeepsCompleting ==
  ASSUME Typed, [AgreementNext]_agreementVars, NEW c \in 1 .. Len(contracts),
         Completing(c), BothSigned(c), contracts'[c] = contracts[c], Awaits(c), ~died'
  PROVE  Completing(c)'
<1>1. PICK q \in Requests : At(q, "sign.complete") /\ req[q].id = c
  BY DEF Completing
<1> SUFFICES req'[q] = req[q]
  BY <1>1 DEF Completing, At
<1> USE <1>1 DEF Typed, AgreementTypeOK, At, Begin, Goto, Done, Idle
<1>2. ASSUME NEW r \in Requests, ProposeStep(r) PROVE req'[q] = req[q]
  BY <1>2 DEF ProposeStep, ProposeRead, ProposeCounter, ProposeInsert, ProposeStatus
<1>3. ASSUME NEW r \in Requests, RespondStep(r) PROVE req'[q] = req[q]
  BY <1>3 DEF RespondStep, RespondRead, RespondProposal, DeclineMark, DeclineCancel, AcceptMark,
        AcceptFreeze, ContractBooking, ContractPrevious, ContractVoid, ContractInsert
<1>4. ASSUME NEW r \in Requests, SignComplete(r) PROVE req'[q] = req[q]
  <2>1. CASE r = q
    <3>1. contracts' = [contracts EXCEPT ![c].status = "signed"]
      BY <1>4, <2>1 DEF SignComplete, Awaits
    <3>2. contracts \in [1 .. Len(contracts) -> Contracts]
      BY RowsAre
    <3>3. contracts'[c] = [contracts[c] EXCEPT !.status = "signed"]
      BY <3>1, <3>2
    <3>4. contracts'[c].status = "signed"
      BY <3>2, <3>3 DEF Contracts
    <3> QED BY <3>4 DEF Awaits
  <2>2. CASE r # q
    BY <1>4, <2>2 DEF SignComplete
  <2> QED BY <2>1, <2>2
<1>5. ASSUME NEW r \in Requests, SignStep(r), ~SignComplete(r) PROVE req'[q] = req[q]
  BY <1>5 DEF SignStep, SignRead, SignContract, SignWrite, SignBook
<1>6. ASSUME NEW r \in Requests, IntroduceStep(r) PROVE req'[q] = req[q]
  BY <1>6 DEF IntroduceStep, IntroduceRead, IntroduceWrite, IntroduceCancel
<1>7. CASE AcceptNda \/ LaterMoves \/ UNCHANGED agreementVars
  BY <1>7 DEF AcceptNda, LaterMoves, agreementVars
<1> QED BY <1>2, <1>3, <1>4, <1>5, <1>6, <1>7 DEF AgreementNext

(* No contract both sides signed is left "stuck at awaiting_signatures     *)
(* with no button left to press", unless a request died on its way.        *)
THEOREM BothSignaturesComplete == AgreementSpec => []SignedByBothIsSigned
<1>1. AgreementInit => SignedInv
  BY DEF AgreementInit, SignedInv
<1>2. Typed /\ Typed' /\ SignedInv /\ [AgreementNext]_agreementVars => SignedInv'
  <2> SUFFICES ASSUME Typed, Typed', SignedInv, [AgreementNext]_agreementVars,
                      NEW c \in 1 .. Len(contracts'),
                      BothSigned(c)', Awaits(c)', ~died'
               PROVE  Completing(c)'
    BY DEF SignedInv
  <2>1. ~died
    BY DiedStays
  <2>2. CASE c \in 1 .. Len(contracts)
    <3>1. contracts[c] \in Contracts
      BY <2>2, RowsAre DEF Typed, AgreementTypeOK
    <3>2. CASE contracts'[c] = contracts[c]
      <4>1. Awaits(c) /\ BothSigned(c)
        BY <3>2 DEF Awaits, BothSigned
      <4>2. Completing(c)
        BY <2>1, <2>2, <4>1 DEF SignedInv
      <4> QED BY <2>2, <3>2, <4>1, <4>2, KeepsCompleting
    <3>3. CASE contracts'[c] # contracts[c]
      <4>1. Changes(c)
        BY <2>2, ContractChanges
      <4>2. [contracts[c] EXCEPT !.status = "void"].status = "void"
            /\ [contracts[c] EXCEPT !.status = "signed"].status = "signed"
        BY <3>1 DEF Contracts
      <4> QED BY <3>3, <4>1, <4>2 DEF Changes, Awaits, Completing
    <3> QED BY <3>2, <3>3
  <2>3. CASE c \notin 1 .. Len(contracts)
    <3>1. contracts'[c].signed = {}
      <4>1. Len(contracts) \in Nat /\ Len(contracts') \in Nat
        BY DEF Typed, AgreementTypeOK
      <4>2. Len(contracts') = Len(contracts) + 1 /\ c = Len(contracts) + 1
        BY <2>3, <4>1, ContractsGrow
      <4> QED BY <4>1, <4>2, ContractsGrow
    <3> QED BY <3>1 DEF BothSigned, Parties, Sides
  <2> QED BY <2>2, <2>3
<1>3. Typed /\ SignedInv => SignedByBothIsSigned
  <2> SUFFICES ASSUME Typed, SignedInv PROVE SignedByBothIsSigned
    OBVIOUS
  <2>1. DOMAIN contracts = 1 .. Len(contracts)
    BY RowsAre DEF Typed, AgreementTypeOK
  <2> QED BY <2>1 DEF SignedInv, SignedByBothIsSigned, Awaits, Completing
<1> QED BY <1>1, <1>2, <1>3, InitTyped, StepTyped, PTL DEF AgreementSpec

-------------------------------------------------------------------------------
(* A declined introduction *)

(* A deal that is still proposed was so for everybody who ever read it.    *)
DeclinedInv ==
  /\ status = "proposed" =>
       \A r \in Requests : At(r, "introduce.write") => req[r].seen = "proposed"
  /\ introduction = "declined" /\ ~died /\ status = "proposed" =>
       \E r \in Requests : At(r, "introduce.cancel")

(* A declined introduction does not leave the deal at proposed, unless the *)
(* process stops between its two writes.                                   *)
THEOREM DeclinedLeavesProposed == AgreementSpec => []DeclinedIsNotProposed
<1>1. AgreementInit => DeclinedInv
  BY DEF AgreementInit, DeclinedInv, At, Idle
<1>2. Typed /\ DeclinedInv /\ [AgreementNext]_agreementVars => DeclinedInv'
  <2> SUFFICES ASSUME Typed, DeclinedInv, [AgreementNext]_agreementVars, status' = "proposed"
               PROVE  DeclinedInv'
    BY DEF DeclinedInv
  <2> USE DEF Typed, AgreementTypeOK, DeclinedInv, At, Begin, Goto, Done, Idle, row
  <2>1. ASSUME NEW r \in Requests, ProposeStep(r) PROVE DeclinedInv'
    <3>1. CASE ProposeCounter(r)
      BY <3>1, OpMoves DEF ProposeCounter
    <3>2. CASE ~ProposeCounter(r)
      BY <2>1, <3>2 DEF ProposeStep, ProposeRead, ProposeInsert, ProposeStatus
    <3> QED BY <3>1, <3>2
  <2>2. ASSUME NEW r \in Requests, RespondStep(r) PROVE DeclinedInv'
    <3>1. CASE AcceptMark(r)
      BY <3>1, OpMoves DEF AcceptMark
    <3>2. CASE ContractVoid(r)
      BY <3>2, OpMoves DEF ContractVoid
    <3>3. ASSUME NEW side \in Parties, RespondRead(r, side) PROVE DeclinedInv'
      BY <3>3 DEF RespondRead
    <3>4. CASE RespondProposal(r)
      <4>1. UNCHANGED <<row, introduction, died>> /\ req[r].op = "respond.proposal"
        BY <3>4 DEF RespondProposal
      <4>2. PICK next : /\ req' = [req EXCEPT ![r] = next]
                        /\ next.op \notin {"introduce.write", "introduce.cancel"}
        BY <3>4 DEF RespondProposal
      <4>3. \A q \in Requests : q # r => req'[q] = req[q]
        BY <4>2
      <4>4. req'[r].op \notin {"introduce.write", "introduce.cancel"}
        BY <4>2
      <4> QED BY <4>1, <4>3, <4>4
    <3>5. CASE DeclineMark(r)
      BY <3>5 DEF DeclineMark
    <3>6. CASE DeclineCancel(r)
      BY <3>6 DEF DeclineCancel
    <3>7. CASE AcceptFreeze(r)
      BY <3>7 DEF AcceptFreeze
    <3>8. CASE ContractBooking(r)
      BY <3>8 DEF ContractBooking
    <3>9. CASE ContractPrevious(r)
      BY <3>9 DEF ContractPrevious
    <3>10. CASE ContractInsert(r)
      BY <3>10 DEF ContractInsert
    <3> QED
      BY <2>2, <3>1, <3>2, <3>3, <3>4, <3>5, <3>6, <3>7, <3>8, <3>9, <3>10 DEF RespondStep
  <2>3. ASSUME NEW r \in Requests, SignStep(r) PROVE DeclinedInv'
    BY <2>3 DEF SignStep, SignRead, SignContract, SignWrite, SignComplete, SignBook
  <2>4. ASSUME NEW r \in Requests, NEW to \in Introductions, IntroduceRead(r, to)
        PROVE  DeclinedInv'
    BY <2>4 DEF IntroduceRead
  <2>5. ASSUME NEW r \in Requests, IntroduceWrite(r) PROVE DeclinedInv'
    <3>1. UNCHANGED <<row, died>> /\ introduction' = req[r].to /\ req[r].op = "introduce.write"
      BY <2>5 DEF IntroduceWrite
    <3>2. req[r].seen = "proposed"
      BY <3>1
    <3>3. CanTransition(req[r].seen, "cancelled")
      BY <3>2 DEF CanTransition, Transitions
    <3>4. \/ req' = [req EXCEPT ![r] = [op |-> "introduce.cancel", seen |-> req[r].seen]]
          \/ introduction' # "declined" /\ req' = [req EXCEPT ![r] = Idle]
      BY <2>5, <3>1, <3>3 DEF IntroduceWrite
    <3> QED BY <3>1, <3>4
  <2>6. ASSUME NEW r \in Requests, IntroduceCancel(r) PROVE DeclinedInv'
    BY <2>6 DEF IntroduceCancel
  <2>7. ASSUME NEW r \in Requests, Die(r), died' = TRUE PROVE DeclinedInv'
    BY <2>7 DEF Die
  <2>8. CASE LaterMoves
    <3>1. FALSE
      BY <2>8 DEF LaterMoves, Moves, CanTransition, Transitions, Statuses
    <3> QED BY <3>1
  <2>9. CASE AcceptNda \/ UNCHANGED agreementVars
    BY <2>9 DEF AcceptNda, agreementVars
  <2> QED BY <2>1, <2>2, <2>3, <2>4, <2>5, <2>6, <2>7, <2>8, <2>9 DEF AgreementNext, IntroduceStep
<1>3. DeclinedInv => DeclinedIsNotProposed
  BY DEF DeclinedInv, DeclinedIsNotProposed
<1> QED BY <1>1, <1>2, <1>3, InitTyped, StepTyped, PTL DEF AgreementSpec
===============================================================================
