------------------------------- MODULE Agreement --------------------------------
(***************************************************************************)
(* Agreeing on a deal: the proposals the two sides exchange (propose and   *)
(* respond on the booking page), the contract written from the terms that  *)
(* froze (lib/server/contracts.ts) and signed by both (signContract), and  *)
(* the introduction of a creator nobody had met (admin/introductions).     *)
(* What the terms say is abstracted to the proposal they come from.        *)
(***************************************************************************)
EXTENDS BookingRow, Sequences

CONSTANTS
  MaxProposals,  \* bound on the offers ever made
  MaxContracts   \* bound on the contracts ever written

ASSUME MaxProposalsAssumption == MaxProposals \in Nat \ {0}
ASSUME MaxContractsAssumption == MaxContracts \in Nat

VARIABLES
  proposals,     \* the term_proposals rows of the booking, by id
  termsFrom,     \* the proposal bookings.terms_snapshot was written from
  contracts,     \* the contracts rows of the booking, in order of insertion
  nda,           \* whether the creator may see the brand
  introduction,  \* bookings.introduction_status
  died           \* history: whether a request ended between two of its awaits

agreementVars == <<row, req, proposals, termsFrom, contracts, nda, introduction, died>>

NoTerms == 0

ProposalIds == 1 .. MaxProposals
ContractIds == 1 .. MaxContracts

Proposals == [by : Parties, status : {"pending", "countered", "declined", "accepted"}]

(* signed: the sides whose signature the row carries. *)
Contracts ==
  [version : Nat, terms : ProposalIds, signed : SUBSET Parties,
   status : {"awaiting_signatures", "signed", "void"}]

Introductions == {"none", "pending", "contacted", "connected", "declined"}

AgreementRequests ==
  [op : {"propose.counter", "propose.insert"}, side : Parties, seen : Statuses]
    \cup [op : {"propose.status"}]
    \cup [op : {"respond.proposal"}, side : Parties, seen : Statuses]
    \cup [op : {"decline.mark", "accept.mark", "accept.freeze"},
          id : ProposalIds, seen : Statuses]
    \cup [op : {"decline.cancel", "introduce.cancel"}, seen : Statuses]
    \cup [op : {"contract.booking"}]
    \cup [op : {"contract.previous"}, terms : ProposalIds]
    \cup [op : {"contract.void", "contract.insert"},
          terms : ProposalIds, version : 1 .. MaxContracts + 1]
    \cup [op : {"sign.contract"}, side : Parties]
    \cup [op : {"sign.write"}, side : Parties, id : ContractIds]
    \cup [op : {"sign.complete"}, id : ContractIds]
    \cup [op : {"sign.book"}]
    \cup [op : {"introduce.write"}, to : Introductions, seen : Statuses]

(* The brand opens the deal, or selects an application: its offer is the   *)
(* first; a creator who accepted the NDA on the brief sees the brand.      *)
AgreementInit ==
  /\ status = "proposed"
  /\ escrow = "unfunded"
  /\ req = [r \in Requests |-> Idle]
  /\ proposals = <<[by |-> "organization", status |-> "pending"]>>
  /\ termsFrom = NoTerms
  /\ contracts = << >>
  /\ nda \in BOOLEAN
  /\ introduction \in {"none", "pending"}
  /\ died = FALSE

-------------------------------------------------------------------------------
(* propose *)

MayNegotiate(side) == side = "creator" => nda

ProposeRead(r, side) ==
  /\ status \in {"proposed", "negotiating"}
  /\ MayNegotiate(side)
  /\ Len(proposals) < MaxProposals
  /\ Begin(r, [op |-> "propose.counter", side |-> side, seen |-> status])
  /\ UNCHANGED <<row, proposals, termsFrom, contracts, nda, introduction, died>>

(* Every open offer is superseded, whoever made it. *)
ProposeCounter(r) ==
  /\ At(r, "propose.counter")
  /\ proposals' = [p \in DOMAIN proposals |->
       IF proposals[p].status = "pending"
         THEN [proposals[p] EXCEPT !.status = "countered"]
         ELSE proposals[p]]
  /\ Goto(r, [req[r] EXCEPT !.op = "propose.insert"])
  /\ UNCHANGED <<row, termsFrom, contracts, nda, introduction, died>>

ProposeInsert(r) ==
  /\ At(r, "propose.insert")
  /\ Len(proposals) < MaxProposals
  /\ proposals' = Append(proposals, [by |-> req[r].side, status |-> "pending"])
  /\ IF req[r].seen = "proposed" THEN Goto(r, [op |-> "propose.status"]) ELSE Done(r)
  /\ UNCHANGED <<row, termsFrom, contracts, nda, introduction, died>>

(* By id alone: the deal is negotiating again, whatever it has become. *)
ProposeStatus(r) ==
  /\ At(r, "propose.status")
  /\ status' = "negotiating"
  /\ Done(r)
  /\ UNCHANGED <<escrow, proposals, termsFrom, contracts, nda, introduction, died>>

-------------------------------------------------------------------------------
(* respond *)

RespondRead(r, side) ==
  /\ Begin(r, [op |-> "respond.proposal", side |-> side, seen |-> status])
  /\ UNCHANGED <<row, proposals, termsFrom, contracts, nda, introduction, died>>

(* The offer must be open and the other side's; the status of the deal is  *)
(* left to the transition.  An offer below the minimum stays open.         *)
RespondProposal(r) ==
  /\ At(r, "respond.proposal")
  /\ \/ \E p \in DOMAIN proposals, op \in {"decline.mark", "accept.mark"} :
          /\ proposals[p].status = "pending"
          /\ proposals[p].by # req[r].side
          /\ MayNegotiate(req[r].side)
          /\ Goto(r, [op |-> op, id |-> p, seen |-> req[r].seen])
     \/ Done(r)
  /\ UNCHANGED <<row, proposals, termsFrom, contracts, nda, introduction, died>>

DeclineMark(r) ==
  /\ At(r, "decline.mark")
  /\ proposals' = [proposals EXCEPT ![req[r].id].status = "declined"]
  /\ Goto(r, [op |-> "decline.cancel", seen |-> req[r].seen])
  /\ UNCHANGED <<row, termsFrom, contracts, nda, introduction, died>>

DeclineCancel(r) ==
  /\ At(r, "decline.cancel")
  /\ status' = IF Moves(req[r].seen, "cancelled") THEN "cancelled" ELSE status
  /\ Done(r)
  /\ UNCHANGED <<escrow, proposals, termsFrom, contracts, nda, introduction, died>>

AcceptMark(r) ==
  /\ At(r, "accept.mark")
  /\ proposals' = [proposals EXCEPT ![req[r].id].status = "accepted"]
  /\ Goto(r, [req[r] EXCEPT !.op = "accept.freeze"])
  /\ UNCHANGED <<row, termsFrom, contracts, nda, introduction, died>>

(* The snapshot is part of the row the transition writes. *)
AcceptFreeze(r) ==
  /\ At(r, "accept.freeze")
  /\ \/ /\ Moves(req[r].seen, "contracting")
        /\ status' = "contracting"
        /\ termsFrom' = req[r].id
        /\ Goto(r, [op |-> "contract.booking"])
     \/ /\ ~Moves(req[r].seen, "contracting")
        /\ UNCHANGED <<status, termsFrom>>
        /\ Done(r)
  /\ UNCHANGED <<escrow, proposals, contracts, nda, introduction, died>>

-------------------------------------------------------------------------------
(* generateContract, from the booking as it is read again *)

ContractBooking(r) ==
  /\ At(r, "contract.booking")
  /\ Goto(r, [op |-> "contract.previous", terms |-> termsFrom])
  /\ UNCHANGED <<row, proposals, termsFrom, contracts, nda, introduction, died>>

Versions == {contracts[c].version : c \in DOMAIN contracts}

ContractPrevious(r) ==
  /\ At(r, "contract.previous")
  /\ \E v \in {0} \cup Versions :
       /\ \A w \in Versions : w <= v
       /\ Goto(r, [op |-> "contract.void", terms |-> req[r].terms, version |-> v + 1])
  /\ UNCHANGED <<row, proposals, termsFrom, contracts, nda, introduction, died>>

(* A slip: a signed contract is voided with the rest. *)
BugContractVoid(r) ==
  /\ At(r, "contract.void")
  /\ contracts' = [c \in DOMAIN contracts |-> [contracts[c] EXCEPT !.status = "void"]]
  /\ Goto(r, [req[r] EXCEPT !.op = "contract.insert"])
  /\ UNCHANGED <<row, proposals, termsFrom, nda, introduction, died>>

ContractVoid(r) ==
  /\ At(r, "contract.void")
  /\ contracts' = [c \in DOMAIN contracts |->
       IF contracts[c].status = "awaiting_signatures"
         THEN [contracts[c] EXCEPT !.status = "void"]
         ELSE contracts[c]]
  /\ Goto(r, [req[r] EXCEPT !.op = "contract.insert"])
  /\ UNCHANGED <<row, proposals, termsFrom, nda, introduction, died>>

(* The reference carries the version; its unique index refuses a second. *)
ContractInsert(r) ==
  /\ At(r, "contract.insert")
  /\ \/ /\ req[r].version \notin Versions
        /\ Len(contracts) < MaxContracts
        /\ contracts' = Append(contracts,
             [version |-> req[r].version, terms |-> req[r].terms, signed |-> {},
              status |-> "awaiting_signatures"])
     \/ /\ req[r].version \in Versions
        /\ UNCHANGED contracts
  /\ Done(r)
  /\ UNCHANGED <<row, proposals, termsFrom, nda, introduction, died>>

-------------------------------------------------------------------------------
(* signContract, the handler and the function *)

SignRead(r, side) ==
  /\ status = "contracting"
  /\ Begin(r, [op |-> "sign.contract", side |-> side])
  /\ UNCHANGED <<row, proposals, termsFrom, contracts, nda, introduction, died>>

(* currentContract: the newest version that is not void. *)
Current ==
  {c \in DOMAIN contracts :
     /\ contracts[c].status # "void"
     /\ \A d \in DOMAIN contracts :
          contracts[d].status # "void" => contracts[d].version <= contracts[c].version}

SignContract(r) ==
  /\ At(r, "sign.contract")
  /\ LET open == {c \in Current : /\ contracts[c].status = "awaiting_signatures"
                                  /\ req[r].side \notin contracts[c].signed}
     IN \/ \E c \in open :
             Goto(r, [op |-> "sign.write", side |-> req[r].side, id |-> c])
        \/ open = {} /\ Done(r)
  /\ UNCHANGED <<row, proposals, termsFrom, contracts, nda, introduction, died>>

(* The row takes the signature only if this side has not signed meanwhile. *)
SignWrite(r) ==
  /\ At(r, "sign.write")
  /\ LET c == contracts[req[r].id] IN
     \/ /\ c.status = "awaiting_signatures"
        /\ req[r].side \notin c.signed
        /\ contracts' = [contracts EXCEPT ![req[r].id].signed = @ \cup {req[r].side}]
        /\ Goto(r, [op |-> "sign.complete", id |-> req[r].id])
     \/ /\ ~(c.status = "awaiting_signatures" /\ req[r].side \notin c.signed)
        /\ UNCHANGED contracts
        /\ Done(r)
  /\ UNCHANGED <<row, proposals, termsFrom, nda, introduction, died>>

(* A slip: one signature completes the contract. *)
BugBothSigned(c) == contracts[c].signed # {}

BothSigned(c) == contracts[c].signed = Parties

(* A slip: completes only while the deal is still where it was read. *)
BugSignComplete(r) ==
  /\ At(r, "sign.complete")
  /\ LET c == req[r].id
         complete == /\ status = "contracting"
                     /\ contracts[c].status = "awaiting_signatures"
                     /\ BothSigned(c)
     IN \/ /\ complete
           /\ contracts' = [contracts EXCEPT ![c].status = "signed"]
           /\ Goto(r, [op |-> "sign.book"])
        \/ ~complete /\ UNCHANGED contracts /\ Done(r)
  /\ UNCHANGED <<row, proposals, termsFrom, nda, introduction, died>>

(* Whichever request finds both signatures on the row completes it. *)
SignComplete(r) ==
  /\ At(r, "sign.complete")
  /\ LET c == req[r].id IN
     \/ /\ contracts[c].status = "awaiting_signatures"
        /\ BothSigned(c)
        /\ contracts' = [contracts EXCEPT ![c].status = "signed"]
        /\ Goto(r, [op |-> "sign.book"])
     \/ /\ ~(contracts[c].status = "awaiting_signatures" /\ BothSigned(c))
        /\ UNCHANGED contracts
        /\ Done(r)
  /\ UNCHANGED <<row, proposals, termsFrom, nda, introduction, died>>

SignBook(r) ==
  /\ At(r, "sign.book")
  /\ status' = IF Moves("contracting", "booked") THEN "booked" ELSE status
  /\ Done(r)
  /\ UNCHANGED <<escrow, proposals, termsFrom, contracts, nda, introduction, died>>

-------------------------------------------------------------------------------
(* acceptNda, and the introductions queue *)

(* A second press changes nothing more. *)
AcceptNda ==
  /\ \E r \in Requests : req[r] = Idle
  /\ nda' = TRUE
  /\ UNCHANGED <<row, req, proposals, termsFrom, contracts, introduction, died>>

IntroductionNext ==
  [ none      |-> {},
    pending   |-> {"contacted", "declined"},
    contacted |-> {"connected", "declined"},
    connected |-> {},
    declined  |-> {} ]

IntroduceRead(r, to) ==
  /\ to \in IntroductionNext[introduction]
  /\ Begin(r, [op |-> "introduce.write", to |-> to, seen |-> status])
  /\ UNCHANGED <<row, proposals, termsFrom, contracts, nda, introduction, died>>

(* A slip: the refusal is written, and the deal left where it is. *)
BugIntroduceWrite(r) ==
  /\ At(r, "introduce.write")
  /\ introduction' = req[r].to
  /\ Done(r)
  /\ UNCHANGED <<row, proposals, termsFrom, contracts, nda, died>>

(* By id alone, and so is the cancellation that a refusal brings. *)
IntroduceWrite(r) ==
  /\ At(r, "introduce.write")
  /\ introduction' = req[r].to
  /\ IF req[r].to = "declined" /\ CanTransition(req[r].seen, "cancelled")
       THEN Goto(r, [op |-> "introduce.cancel", seen |-> req[r].seen])
       ELSE Done(r)
  /\ UNCHANGED <<row, proposals, termsFrom, contracts, nda, died>>

IntroduceCancel(r) ==
  /\ At(r, "introduce.cancel")
  /\ status' = "cancelled"
  /\ Done(r)
  /\ UNCHANGED <<escrow, proposals, termsFrom, contracts, nda, introduction, died>>

-------------------------------------------------------------------------------
ProposeStep(r) ==
  \/ \E side \in Parties : ProposeRead(r, side)
  \/ ProposeCounter(r) \/ ProposeInsert(r) \/ ProposeStatus(r)

RespondStep(r) ==
  \/ \E side \in Parties : RespondRead(r, side)
  \/ RespondProposal(r) \/ DeclineMark(r) \/ DeclineCancel(r)
  \/ AcceptMark(r) \/ AcceptFreeze(r)
  \/ ContractBooking(r) \/ ContractPrevious(r) \/ ContractVoid(r) \/ ContractInsert(r)

SignStep(r) ==
  \/ \E side \in Parties : SignRead(r, side)
  \/ SignContract(r) \/ SignWrite(r) \/ SignComplete(r) \/ SignBook(r)

IntroduceStep(r) ==
  \/ \E to \in Introductions : IntroduceRead(r, to)
  \/ IntroduceWrite(r) \/ IntroduceCancel(r)

(* Calling the deal off, and what happens to it once it is booked. *)
LaterMoves ==
  /\ \E r \in Requests : req[r] = Idle
  /\ \E to \in Statuses :
       /\ Moves(status, to)
       /\ to = "cancelled" \/ status \notin {"proposed", "negotiating", "contracting"}
       /\ status' = to
  /\ UNCHANGED <<escrow, req, proposals, termsFrom, contracts, nda, introduction, died>>

AgreementNext ==
  \/ \E r \in Requests :
       \/ ProposeStep(r) \/ RespondStep(r) \/ SignStep(r) \/ IntroduceStep(r)
       \/ /\ Die(r)
          /\ died' = TRUE
          /\ UNCHANGED <<proposals, termsFrom, contracts, nda, introduction>>
  \/ AcceptNda
  \/ LaterMoves

AgreementSpec == AgreementInit /\ [][AgreementNext]_agreementVars

-------------------------------------------------------------------------------
(* Properties *)

(* Every variable keeps its type. *)
AgreementTypeOK ==
  /\ status \in Statuses
  /\ req \in [Requests -> {Idle} \cup AgreementRequests]
  /\ proposals \in Seq(Proposals) /\ Len(proposals) <= MaxProposals
  /\ termsFrom \in {NoTerms} \cup ProposalIds
  /\ contracts \in Seq(Contracts) /\ Len(contracts) <= MaxContracts
  /\ nda \in BOOLEAN /\ died \in BOOLEAN
  /\ introduction \in Introductions

(* No contract both sides signed is left "stuck at awaiting_signatures     *)
(* with no button left to press" (signContract), though the two signatures *)
(* land at the same moment: once nobody is about to complete it, it is     *)
(* signed, or void.  A crash just before that write does leave it stuck.   *)
SignedByBothIsSigned ==
  \A c \in DOMAIN contracts :
    /\ BothSigned(c)
    /\ ~died
    /\ \A r \in Requests : ~(At(r, "sign.complete") /\ req[r].id = c)
    => contracts[c].status # "awaiting_signatures"

(* A deal past its contract has one both sides signed, whatever was        *)
(* proposed, declined, voided or signed again beside it.                   *)
BookedUnderContract ==
  status \notin {"proposed", "negotiating", "contracting", "cancelled"} =>
    \E c \in DOMAIN contracts :
      contracts[c].status = "signed" /\ contracts[c].signed = Parties

(* A contract that is signed or void stays as it is: no signature is added *)
(* to a voided text, and terms agreed again never void a signed one.       *)
ContractIsFinal ==
  [][ \A c \in DOMAIN contracts :
        contracts[c].status # "awaiting_signatures" => contracts'[c] = contracts[c]
    ]_agreementVars

(* "A deal left at `proposed` for someone who will never see it is the     *)
(* thing this queue exists to prevent" (README, A deal against a profile   *)
(* nobody has claimed): a declined introduction does not leave one, unless *)
(* the process stops between its two writes.                               *)
DeclinedIsNotProposed ==
  /\ introduction = "declined"
  /\ ~died
  /\ \A r \in Requests : ~At(r, "introduce.cancel")
  => status # "proposed"

(* "Accepting the open proposal writes a termsSnapshot once", and nothing  *)
(* downstream rewrites it (README, The lifecycle).                         *)
TermsFreeze ==
  [][ termsFrom # NoTerms => termsFrom' = termsFrom ]_agreementVars

(* "Two presses from two people, which is what stops one party walking     *)
(* away" (README, Getting out of a deal): declining an offer, one press of *)
(* one side, ends only a deal the two never agreed on.                     *)
DeclineEndsOnlyOffers ==
  [][ \A r \in Requests :
        At(r, "decline.cancel") /\ status # "cancelled" /\ status' = "cancelled"
          /\ req'[r] = Idle
        => status \in {"proposed", "negotiating"} ]_agreementVars
===============================================================================
