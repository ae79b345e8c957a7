----------------------------- MODULE DeliveryProofs ----------------------------
(***************************************************************************)
(* What holds of Delivery for every set of requests and checkouts, every   *)
(* allowance and every bound, whichever requests die: the handlers of the  *)
(* work beside those of the money, whose lemmas EscrowProofs gives.        *)
(***************************************************************************)
EXTENDS Delivery, EscrowProofs, FiniteSetTheorems

-------------------------------------------------------------------------------
(* Types *)

(* A deal is frozen exactly while it is known where it was frozen from, so *)
(* the state a withdrawn case puts it back to is always one of the table.  *)
FrozenIsKnown == status = "disputed" <=> frozenFrom # NotFrozen

WorkTyped == MoneyTyped /\ DeliveryTypeOK /\ FrozenIsKnown

LEMMA InitWork == DeliveryInit => WorkTyped
<1> SUFFICES ASSUME DeliveryInit PROVE WorkTyped
  OBVIOUS
<1>1. MoneyTyped
  BY DEF DeliveryInit, MoneyTyped, Statuses, EscrowStates, PaymentStates,
         CheckoutStates, RefOps, Idle
<1>2. /\ concepts \in Seq({"submitted", "approved", "changes_requested"})
      /\ submissions \in Seq({"submitted", "approved", "revision_requested"})
  BY DEF DeliveryInit
<1>3. Len(concepts) = 0 /\ Len(submissions) = 0
  BY DEF DeliveryInit
<1>4. req \in [Requests -> {Idle} \cup EscrowRequests \cup DeliveryRequests]
  BY DEF DeliveryInit
<1>5. /\ revisionsUsed \in Nat /\ proof \in BOOLEAN /\ waived \in BOOLEAN
      /\ frozenFrom \in DisputableStatuses \cup {NotFrozen} /\ misread \in BOOLEAN
  BY DEF DeliveryInit
<1>6. DeliveryTypeOK
  BY <1>1, <1>2, <1>3, <1>4, <1>5, BoundsAssumption DEF MoneyTyped, DeliveryTypeOK
<1>7. FrozenIsKnown
  BY DEF DeliveryInit, FrozenIsKnown
<1> QED BY <1>1, <1>6, <1>7 DEF WorkTyped

(* The values a request of Delivery carries are those it read.             *)
LEMMA CarriedType ==
  ASSUME DeliveryTypeOK, NEW r \in Requests
  PROVE  /\ At(r, "reviewConcept.concept") => req[r].seen \in Statuses
         /\ req[r].op \in {"reviewConcept.mark", "reviewConcept.move"} =>
              req[r].to \in {"in_production", "booked"}
         /\ At(r, "reviewConcept.mark") => req[r].id \in ConceptIds
         /\ req[r].op \in {"submit.insert", "submit.move"} =>
              req[r] \in [op : {"submit.insert", "submit.move"},
                          seen : {"in_production", "revision"}]
         /\ At(r, "review.submission") =>
              req[r].seen \in Statuses /\ req[r].used \in Nat
         /\ req[r].op \in {"review.mark", "review.move"} =>
              req[r].seen \in Statuses /\ req[r].to \in {"approved", "revision"}
         /\ At(r, "review.mark") => req[r].id \in SubmissionIds
         /\ At(r, "raise.freeze") => req[r].seen \in DisputableStatuses
BY DEF DeliveryTypeOK, DeliveryRequests, EscrowRequests, Idle, At

LEMMA ConceptSlot ==
  ASSUME WorkTyped, NEW r \in Requests, ConceptStep(r)
  PROVE  Slot(r, DeliveryRequests)
<1> USE CarriedType
    DEF WorkTyped, MoneyTyped, Slot, DeliveryRequests, At, Begin, Goto, Done
<1>1. CASE SubmitConcept(r) \/ ConceptInsert(r) \/ ConceptMove(r)
  BY <1>1 DEF SubmitConcept, ConceptInsert, ConceptMove
<1>2. CASE ReviewConcept(r)
  BY <1>2 DEF ReviewConcept
<1>3. CASE ReviewConceptRow(r)
  <2>1. DOMAIN concepts \subseteq ConceptIds
    BY BoundsAssumption DEF DeliveryTypeOK, ConceptIds
  <2> QED BY <1>3, <2>1 DEF ReviewConceptRow
<1>4. CASE ReviewConceptMark(r) \/ ReviewConceptMove(r)
  BY <1>4 DEF ReviewConceptMark, ReviewConceptMove
<1> QED BY <1>1, <1>2, <1>3, <1>4 DEF ConceptStep

LEMMA SubmissionSlot ==
  ASSUME WorkTyped, NEW r \in Requests, SubmissionStep(r)
  PROVE  Slot(r, DeliveryRequests)
<1> USE CarriedType
    DEF WorkTyped, MoneyTyped, Slot, DeliveryRequests, At, Begin, Goto, Done
<1>1. CASE Submit(r)
  BY <1>1 DEF Submit
<1>2. CASE SubmitInsert(r) \/ SubmitMove(r)
  BY <1>2 DEF SubmitInsert, SubmitMove
<1>3. CASE Review(r)
  BY <1>3 DEF Review, DeliveryTypeOK
<1>4. CASE ReviewRow(r)
  <2>1. DOMAIN submissions \subseteq SubmissionIds
    BY BoundsAssumption DEF DeliveryTypeOK, SubmissionIds
  <2> QED BY <1>4, <2>1 DEF ReviewRow
<1>5. CASE ReviewMark(r) \/ ReviewMove(r)
  BY <1>5 DEF ReviewMark, ReviewMove
<1> QED BY <1>1, <1>2, <1>3, <1>4, <1>5 DEF SubmissionStep

LEMMA RestSlot ==
  ASSUME WorkTyped, NEW r \in Requests, ProofStep(r) \/ Raise(r) \/ Frozen(r)
  PROVE  Slot(r, DeliveryRequests)
<1> USE DEF WorkTyped, MoneyTyped, Slot, DeliveryRequests, At, Begin, Goto, Done
<1>1. CASE ProofStep(r)
  BY <1>1 DEF ProofStep, SubmitProof, ProofInsert, ProofMove, WaiveProof, WaiveMove
<1>2. CASE Raise(r) \/ Frozen(r)
  BY <1>2 DEF Raise, Frozen
<1> QED BY <1>1, <1>2

LEMMA StepSlot ==
  ASSUME WorkTyped, NEW r \in Requests, DeliveryStep(r)
  PROVE  Slot(r, DeliveryRequests)
BY ConceptSlot, SubmissionSlot, RestSlot DEF DeliveryStep

(* The types of the requests follow from the slot, those of the money from *)
(* its being left alone.                                                   *)
LEMMA SlotTyped ==
  ASSUME WorkTyped, NEW r \in Requests, Slot(r, DeliveryRequests), UNCHANGED money,
         status' \in Statuses, escrow' \in EscrowStates
  PROVE  /\ MoneyTyped'
         /\ req' \in [Requests -> {Idle} \cup EscrowRequests \cup DeliveryRequests]
<1>1. \A x \in DeliveryRequests : x.op \notin RefOps
  BY DEF DeliveryRequests, RefOps
<1>2. MoneyTyped'
  BY <1>1, AsideTyped DEF WorkTyped
<1> QED BY <1>2 DEF Slot, WorkTyped, DeliveryTypeOK

(* A mark written over one row keeps the rows what they are.               *)
LEMMA MarkType ==
  ASSUME NEW S, NEW rows \in Seq(S), NEW i, NEW mark \in S
  PROVE  /\ [rows EXCEPT ![i] = mark] \in Seq(S)
         /\ Len([rows EXCEPT ![i] = mark]) = Len(rows)
<1> DEFINE n == Len(rows)
<1>1. rows \in [1 .. n -> S] /\ n \in Nat
  OBVIOUS
<1>2. [rows EXCEPT ![i] = mark] \in [1 .. n -> S]
  BY <1>1
<1> QED BY <1>1, <1>2

LEMMA ConceptType ==
  ASSUME WorkTyped, NEW r \in Requests, ConceptStep(r)
  PROVE  WorkTyped'
<1>0. Slot(r, DeliveryRequests)
  BY ConceptSlot
<1> USE <1>0, SlotTyped, CarriedType
    DEF WorkTyped, DeliveryTypeOK, FrozenIsKnown, At, row, work, freeze, Statuses
<1>1. CASE SubmitConcept(r) \/ ReviewConcept(r) \/ ReviewConceptRow(r)
  BY <1>1 DEF SubmitConcept, ReviewConcept, ReviewConceptRow
<1>2. CASE ConceptInsert(r)
  <2>1. concepts' \in Seq({"submitted", "approved", "changes_requested"})
        /\ Len(concepts') = Len(concepts) + 1
    BY <1>2 DEF ConceptInsert
  <2> QED BY <1>2, <2>1, BoundsAssumption DEF ConceptInsert
<1>3. CASE ConceptMove(r) \/ ReviewConceptMove(r)
  BY <1>3 DEF ConceptMove, ReviewConceptMove, Transition, Moves
<1>4. CASE ReviewConceptMark(r)
  <2> DEFINE marks == {"submitted", "approved", "changes_requested"}
  <2>1. PICK mark \in marks : concepts' = [concepts EXCEPT ![req[r].id] = mark]
    BY <1>4 DEF ReviewConceptMark
  <2>2. concepts' \in Seq(marks) /\ Len(concepts') = Len(concepts)
    <3> HIDE DEF marks
    <3>1. concepts \in Seq(marks)
      BY DEF marks
    <3> QED BY <2>1, <3>1, MarkType
  <2> QED BY <1>4, <2>2 DEF ReviewConceptMark
<1> QED BY <1>1, <1>2, <1>3, <1>4 DEF ConceptStep

LEMMA SubmissionType ==
  ASSUME WorkTyped, NEW r \in Requests, SubmissionStep(r)
  PROVE  WorkTyped'
<1>0. Slot(r, DeliveryRequests)
  BY SubmissionSlot
<1> USE <1>0, SlotTyped, CarriedType
    DEF WorkTyped, DeliveryTypeOK, FrozenIsKnown, At, row, work, freeze, Statuses
<1>1. CASE Submit(r) \/ Review(r) \/ ReviewRow(r)
  BY <1>1 DEF Submit, Review, ReviewRow
<1>2. CASE SubmitInsert(r)
  <2>1. submissions' \in Seq({"submitted", "approved", "revision_requested"})
        /\ Len(submissions') = Len(submissions) + 1
    BY <1>2 DEF SubmitInsert
  <2> QED BY <1>2, <2>1, BoundsAssumption DEF SubmitInsert
<1>3. CASE SubmitMove(r)
  BY <1>3 DEF SubmitMove, Transition, Moves, CanTransition, Transitions
<1>4. CASE ReviewMark(r)
  <2> DEFINE marks == {"submitted", "approved", "revision_requested"}
  <2>1. PICK mark \in marks : submissions' = [submissions EXCEPT ![req[r].id] = mark]
    BY <1>4 DEF ReviewMark
  <2>2. submissions' \in Seq(marks) /\ Len(submissions') = Len(submissions)
    <3> HIDE DEF marks
    <3>1. submissions \in Seq(marks)
      BY DEF marks
    <3> QED BY <2>1, <3>1, MarkType
  <2> QED BY <1>4, <2>2 DEF ReviewMark
<1>5. CASE ReviewMove(r)
  BY <1>5 DEF ReviewMove, Transition, Moves, CanTransition, Transitions
<1> QED BY <1>1, <1>2, <1>3, <1>4, <1>5 DEF SubmissionStep

LEMMA ProofType ==
  ASSUME WorkTyped, NEW r \in Requests, ProofStep(r) \/ Raise(r) \/ Frozen(r)
  PROVE  WorkTyped'
<1>0. Slot(r, DeliveryRequests)
  BY RestSlot
<1> USE <1>0, SlotTyped, CarriedType
    DEF WorkTyped, DeliveryTypeOK, FrozenIsKnown, At, row, work, freeze, Statuses
<1>1. CASE SubmitProof(r) \/ ProofInsert(r) \/ WaiveProof(r) \/ Raise(r)
  BY <1>1 DEF SubmitProof, ProofInsert, WaiveProof, Raise
<1>2. CASE ProofMove(r) \/ WaiveMove(r)
  BY <1>2 DEF ProofMove, WaiveMove, Transition, Moves
<1>3. CASE Frozen(r)
  BY <1>3 DEF Frozen, DisputableStatuses, NotFrozen
<1> QED BY <1>1, <1>2, <1>3 DEF ProofStep

LEMMA MoneyType ==
  ASSUME WorkTyped, NEW r \in Requests, EscrowStep(r), UNCHANGED work
  PROVE  WorkTyped'
<1>1. MoneyTyped' /\ Slot(r, EscrowRequests)
  BY HandlerType DEF WorkTyped
<1>2. req' \in [Requests -> {Idle} \cup EscrowRequests \cup DeliveryRequests]
  BY <1>1 DEF Slot, WorkTyped, DeliveryTypeOK
<1>3. status' = "disputed" <=> status = "disputed"
  BY EscrowMoves
<1> QED
  BY <1>1, <1>2, <1>3
  DEF WorkTyped, MoneyTyped, DeliveryTypeOK, FrozenIsKnown, work, freeze

(* What Disputes and Cancellation do to the deal. *)
DeskStep ==
  /\ Thawed \/ Decided \/ CalledOff
  /\ UNCHANGED <<concepts, submissions, revisionsUsed, proof, waived, misread>>

LEMMA DeskType == ASSUME WorkTyped, DeskStep PROVE WorkTyped'
<1> USE DEF DeskStep, WorkTyped, MoneyTyped, DeliveryTypeOK, FrozenIsKnown, money, history
<1>1. CASE Thawed
  BY <1>1 DEF Thawed, Statuses, DisputableStatuses, NotFrozen
<1>2. CASE Decided
  BY <1>2 DEF Decided, ResolutionOutcome, Statuses, EscrowStates, NotFrozen
<1>3. CASE CalledOff
  BY <1>3 DEF CalledOff, MovesTo, Statuses, CancellableStatuses, NotFrozen
<1> QED BY <1>1, <1>2, <1>3

LEMMA StepWork == WorkTyped /\ [DeliveryNext]_deliveryVars => WorkTyped'
<1> SUFFICES ASSUME WorkTyped, [DeliveryNext]_deliveryVars PROVE WorkTyped'
  OBVIOUS
<1>1. ASSUME NEW r \in Requests, DeliveryStep(r) PROVE WorkTyped'
  BY <1>1, ConceptType, SubmissionType, ProofType DEF DeliveryStep
<1>2. ASSUME NEW r \in Requests, EscrowStep(r), UNCHANGED work PROVE WorkTyped'
  BY <1>2, MoneyType
<1>3. ASSUME NEW i \in Checkouts, PayerActs(i), UNCHANGED work PROVE WorkTyped'
  <2>1. MoneyTyped'
    BY <1>3, PayerType DEF WorkTyped
  <2> QED
    BY <1>3, <2>1
    DEF PayerActs, WorkTyped, MoneyTyped, DeliveryTypeOK, FrozenIsKnown, row, work, freeze
<1>4. CASE DeskStep
  BY <1>4, DeskType
<1>5. CASE UNCHANGED deliveryVars
  BY <1>5
  DEF deliveryVars, escrowVars, row, money, history, work, freeze, WorkTyped, MoneyTyped,
      DeliveryTypeOK, FrozenIsKnown
<1> QED BY <1>1, <1>2, <1>3, <1>4, <1>5 DEF DeliveryNext, DeskStep

LEMMA WorkCorrect == DeliverySpec => []WorkTyped
BY InitWork, StepWork, PTL DEF DeliverySpec

(* Every variable of Delivery keeps its type; what makes it inductive is   *)
(* that the state a deal resumes from is known whenever it is frozen.      *)
THEOREM DeliveryTypeCorrect == DeliverySpec => []DeliveryTypeOK
<1>1. WorkTyped => DeliveryTypeOK
  BY DEF WorkTyped
<1> QED BY <1>1, WorkCorrect, PTL

-------------------------------------------------------------------------------
(* Production is funded *)

InProduction ==
  {"in_production", "submitted", "revision", "approved", "awaiting_settlement"}

(* While no deposit was taken: nobody approves a concept, or read funds    *)
(* that would let him, and no case keeps a state of production to resume.  *)
NothingProduced ==
  Compensation = "paid" /\ escrow \notin Deposited =>
    /\ status \notin InProduction
    /\ frozenFrom \notin InProduction
    /\ \A r \in Requests :
         /\ At(r, "reviewConcept.concept") => req[r].funds # "held"
         /\ req[r].op \in {"reviewConcept.mark", "reviewConcept.move"} =>
              req[r].to # "in_production"
         /\ At(r, "raise.freeze") => req[r].seen \notin InProduction

(* Only work under review is approved or sent back. *)
LEMMA ReviewedFrom ==
  ASSUME status \in Statuses, NEW from, NEW to \in {"approved", "revision"}, Moves(from, to)
  PROVE  status = "submitted"
BY DEF Statuses, Moves, CanTransition, Transitions

LEMMA ProducedStep ==
  ASSUME WorkTyped, NothingProduced, NEW r \in Requests, DeliveryStep(r)
  PROVE  NothingProduced'
<1> USE CarriedType
    DEF WorkTyped, MoneyTyped, NothingProduced, InProduction, Deposited,
        Idle, At, Begin, Goto, Done, row, work, freeze
<1>1. CASE ConceptStep(r)
  <2>1. CASE SubmitConcept(r) \/ ConceptInsert(r)
    BY <2>1 DEF SubmitConcept, ConceptInsert
  <2>2. CASE ConceptMove(r)
    BY <2>2 DEF ConceptMove, Transition
  <2>3. CASE ReviewConcept(r)
    BY <2>3 DEF ReviewConcept
  <2>4. CASE ReviewConceptRow(r)
    BY <2>4 DEF ReviewConceptRow, CanApproveConcept, AwaitsDeposit
  <2>5. CASE ReviewConceptMark(r)
    BY <2>5 DEF ReviewConceptMark
  <2>6. CASE ReviewConceptMove(r)
    BY <2>6 DEF ReviewConceptMove, Transition
  <2> QED BY <1>1, <2>1, <2>2, <2>3, <2>4, <2>5, <2>6 DEF ConceptStep
<1>2. CASE SubmissionStep(r)
  <2>1. CASE Submit(r) \/ Review(r) \/ ReviewRow(r)
    BY <2>1 DEF Submit, Review, ReviewRow
  <2>2. CASE SubmitInsert(r)
    BY <2>2 DEF SubmitInsert
  <2>3. CASE SubmitMove(r)
    BY <2>3 DEF SubmitMove, Transition, Moves
  <2>4. CASE ReviewMark(r)
    BY <2>4 DEF ReviewMark
  <2>5. CASE ReviewMove(r)
    <3>1. status' # status => status = "submitted"
      BY <2>5, ReviewedFrom DEF ReviewMove, Transition
    <3> QED BY <2>5, <3>1 DEF ReviewMove, Transition
  <2> QED BY <1>2, <2>1, <2>2, <2>3, <2>4, <2>5 DEF SubmissionStep
<1>3. CASE ProofStep(r)
  BY <1>3 DEF ProofStep, SubmitProof, ProofInsert, ProofMove, WaiveProof, WaiveMove,
              Transition, Moves
<1>4. CASE Raise(r) \/ Frozen(r)
  BY <1>4 DEF Raise, Frozen
<1> QED BY <1>1, <1>2, <1>3, <1>4 DEF DeliveryStep

(* A step of Escrow starts no request of Delivery and changes none.        *)
LEMMA EscrowKeeps ==
  ASSUME WorkTyped, NEW r \in Requests, EscrowStep(r), NEW q \in Requests,
         req'[q] \notin {Idle} \cup EscrowRequests
  PROVE  req'[q] = req[q]
<1>1. Slot(r, EscrowRequests)
  BY HandlerType DEF WorkTyped
<1> QED BY <1>1 DEF Slot, WorkTyped, MoneyTyped

LEMMA StepProduced ==
  ASSUME WorkTyped, NothingProduced, [DeliveryNext]_deliveryVars
  PROVE  NothingProduced'
<1>1. ASSUME NEW r \in Requests, EscrowStep(r), UNCHANGED work
      PROVE  NothingProduced'
  <2>1. escrow' \notin Deposited => escrow \notin Deposited
    BY <1>1, DepositStays
  <2>2. status' \in InProduction => status \in InProduction
    BY <1>1, EscrowMoves DEF InProduction
  <2>3. \A q \in Requests :
          req'[q].op \in {"reviewConcept.concept", "reviewConcept.mark",
                          "reviewConcept.move", "raise.freeze"} => req'[q] = req[q]
    BY <1>1, EscrowKeeps DEF EscrowRequests, Idle
  <2> QED BY <1>1, <2>1, <2>2, <2>3 DEF NothingProduced, At, work, freeze
<1>2. ASSUME NEW i \in Checkouts, PayerActs(i), UNCHANGED work
      PROVE  NothingProduced'
  BY <1>2 DEF PayerActs, NothingProduced, At, row, work, freeze
<1>3. CASE DeskStep
  BY <1>3
  DEF DeskStep, Thawed, Decided, CalledOff, MovesTo, ResolutionOutcome, NothingProduced,
      InProduction, Deposited, At, NotFrozen
<1>4. CASE UNCHANGED deliveryVars
  BY <1>4 DEF deliveryVars, escrowVars, NothingProduced, At, row, work, freeze
<1> QED BY <1>1, <1>2, <1>3, <1>4, ProducedStep DEF DeliveryNext, DeskStep

(* No creator works on a paid deal whose deposit was never taken, though   *)
(* the brand's approval acts on funds it read several awaits before, and   *)
(* checkouts that fail reopen the booking meanwhile.                       *)
THEOREM ProductionAlwaysFunded == DeliverySpec => []ProductionWasFunded
<1>1. DeliveryInit => NothingProduced
  BY DEF DeliveryInit, NothingProduced, InProduction, NotFrozen, Idle, At
<1>2. WorkTyped /\ NothingProduced /\ [DeliveryNext]_deliveryVars => NothingProduced'
  BY StepProduced
<1>3. NothingProduced => ProductionWasFunded
  BY DEF NothingProduced, ProductionWasFunded, InProduction
<1> QED BY <1>1, <1>2, <1>3, WorkCorrect, PTL DEF DeliverySpec

-------------------------------------------------------------------------------
(* What is settled was shown *)

(* Before the proof is stored or waived nothing has reached settlement:    *)
(* not the deal, not a request about to move it there, and no case.        *)
NothingShown ==
  ~proof /\ ~waived =>
    /\ status # "awaiting_settlement"
    /\ frozenFrom # "awaiting_settlement"
    /\ \A r \in Requests :
         /\ ~At(r, "proof.move")
         /\ At(r, "raise.freeze") => req[r].seen # "awaiting_settlement"

LEMMA ShownStep ==
  ASSUME WorkTyped, NothingShown, NEW r \in Requests, DeliveryStep(r)
  PROVE  NothingShown'
<1> USE CarriedType
    DEF WorkTyped, MoneyTyped, NothingShown, Idle, At, Begin, Goto, Done, row, work, freeze
<1>1. CASE ConceptStep(r)
  BY <1>1 DEF ConceptStep, SubmitConcept, ConceptInsert, ConceptMove, ReviewConcept,
              ReviewConceptRow, ReviewConceptMark, ReviewConceptMove, Transition
<1>2. CASE SubmissionStep(r)
  BY <1>2 DEF SubmissionStep, Submit, SubmitInsert, SubmitMove, Review, ReviewRow,
              ReviewMark, ReviewMove, Transition
<1>3. CASE ProofStep(r)
  <2>1. CASE SubmitProof(r) \/ WaiveProof(r)  BY <2>1 DEF SubmitProof, WaiveProof
  <2>2. CASE ProofInsert(r)  BY <2>2 DEF ProofInsert
  <2>3. CASE ProofMove(r)  BY <2>3 DEF ProofMove
  <2>4. CASE WaiveMove(r)  BY <2>4 DEF WaiveMove, Transition
  <2> QED BY <1>3, <2>1, <2>2, <2>3, <2>4 DEF ProofStep
<1>4. CASE Raise(r) \/ Frozen(r)
  BY <1>4 DEF Raise, Frozen
<1> QED BY <1>1, <1>2, <1>3, <1>4 DEF DeliveryStep

LEMMA StepShown ==
  ASSUME WorkTyped, NothingShown, [DeliveryNext]_deliveryVars
  PROVE  NothingShown'
<1>1. ASSUME NEW r \in Requests, EscrowStep(r), UNCHANGED work PROVE NothingShown'
  <2>1. status' = "awaiting_settlement" => status = "awaiting_settlement"
    BY <1>1, EscrowMoves
  <2>2. \A q \in Requests :
          req'[q].op \in {"proof.move", "raise.freeze"} => req'[q] = req[q]
    BY <1>1, EscrowKeeps DEF EscrowRequests, Idle
  <2> QED BY <1>1, <2>1, <2>2 DEF NothingShown, At, work, freeze
<1>2. ASSUME NEW i \in Checkouts, PayerActs(i), UNCHANGED work PROVE NothingShown'
  BY <1>2 DEF PayerActs, NothingShown, At, row, work, freeze
<1>3. CASE DeskStep
  BY <1>3
  DEF DeskStep, Thawed, Decided, CalledOff, MovesTo, ResolutionOutcome, NothingShown,
      At, NotFrozen
<1>4. CASE UNCHANGED deliveryVars
  BY <1>4 DEF deliveryVars, escrowVars, NothingShown, At, row, work, freeze
<1> QED BY <1>1, <1>2, <1>3, <1>4, ShownStep DEF DeliveryNext, DeskStep

(* A deal waits for settlement only with its proof stored or waived: the   *)
(* row comes before the move, and a case cannot bring the deal back to a   *)
(* settlement it had not reached.                                          *)
THEOREM SettledAlwaysShown == DeliverySpec => []SettledWasShown
<1>1. DeliveryInit => NothingShown
  BY DEF DeliveryInit, NothingShown, NotFrozen, Idle, At
<1>2. WorkTyped /\ NothingShown /\ [DeliveryNext]_deliveryVars => NothingShown'
  BY StepShown
<1>3. NothingShown => SettledWasShown
  BY DEF NothingShown, SettledWasShown
<1> QED BY <1>1, <1>2, <1>3, WorkCorrect, PTL DEF DeliverySpec

-------------------------------------------------------------------------------
(* Revisions are delivered *)

(* The submissions on their way to move the deal to review. *)
HandingIn == {r \in Requests : At(r, "submit.move")}

(* The submission the deal is under review for, frozen or not. *)
UnderReview == IF "submitted" \in {status, frozenFrom} THEN 1 ELSE 0

(* Every submission is on its way, under review, or paid for by one        *)
(* revision at most: so long as no case put a review back.                 *)
Accounted ==
  /\ IsFiniteSet(HandingIn)
  /\ ~misread =>
       Cardinality(HandingIn) + revisionsUsed + UnderReview <= Len(submissions)

LEMMA HandingKept ==
  ASSUME WorkTyped, NEW r \in Requests, Slot(r, DeliveryRequests),
         ~At(r, "submit.move"), ~At(r, "submit.move")'
  PROVE  HandingIn' = HandingIn
BY DEF HandingIn, At, Slot, WorkTyped, MoneyTyped

(* Nothing is handed in or consumed, and no review begins.                 *)
LEMMA Kept ==
  ASSUME WorkTyped, WorkTyped', Accounted, HandingIn' = HandingIn,
         revisionsUsed' = revisionsUsed, Len(submissions') = Len(submissions),
         ~misread' => ~misread /\ UnderReview' <= UnderReview
  PROVE  Accounted'
<1>1. Cardinality(HandingIn) \in Nat
  BY FS_CardinalityType DEF Accounted
<1>2. /\ revisionsUsed \in Nat /\ Len(submissions) \in Nat
      /\ UnderReview \in {0, 1} /\ UnderReview' \in {0, 1}
  BY DEF WorkTyped, DeliveryTypeOK, UnderReview
<1> HIDE DEF UnderReview, HandingIn
<1> QED BY <1>1, <1>2 DEF Accounted

LEMMA ConceptAccounted ==
  ASSUME WorkTyped, WorkTyped', Accounted, NEW r \in Requests,
         ConceptStep(r) \/ ProofStep(r) \/ Raise(r) \/ Frozen(r)
  PROVE  Accounted'
<1>1. Slot(r, DeliveryRequests)
  BY ConceptSlot, RestSlot
<1>2. HandingIn' = HandingIn
  <2> USE DEF WorkTyped, MoneyTyped, Idle, At, Begin, Goto, Done
  <2>1. CASE ConceptStep(r)
    BY <1>1, <2>1, HandingKept
    DEF ConceptStep, SubmitConcept, ConceptInsert, ConceptMove, ReviewConcept,
        ReviewConceptRow, ReviewConceptMark, ReviewConceptMove
  <2>2. CASE ProofStep(r)
    BY <1>1, <2>2, HandingKept
    DEF ProofStep, SubmitProof, ProofInsert, ProofMove, WaiveProof, WaiveMove
  <2>3. CASE Raise(r) \/ Frozen(r)
    BY <1>1, <2>3, HandingKept DEF Raise, Frozen
  <2> QED BY <2>1, <2>2, <2>3
<1>3. revisionsUsed' = revisionsUsed /\ submissions' = submissions
  BY DEF ConceptStep, SubmitConcept, ConceptInsert, ConceptMove, ReviewConcept,
         ReviewConceptRow, ReviewConceptMark, ReviewConceptMove,
         ProofStep, SubmitProof, ProofInsert, ProofMove, WaiveProof, WaiveMove,
         Raise, Frozen, work
<1>4. ~misread' => ~misread /\ UnderReview' <= UnderReview
  <2> USE CarriedType DEF UnderReview, WorkTyped, At, row, work, freeze
  <2>1. CASE ConceptStep(r)
    BY <2>1
    DEF ConceptStep, SubmitConcept, ConceptInsert, ConceptMove, ReviewConcept,
        ReviewConceptRow, ReviewConceptMark, ReviewConceptMove, Transition
  <2>2. CASE ProofStep(r)
    BY <2>2
    DEF ProofStep, SubmitProof, ProofInsert, ProofMove, WaiveProof, WaiveMove, Transition
  <2>3. CASE Raise(r)
    BY <2>3 DEF Raise
  <2>4. CASE Frozen(r)
    <3>1. ~misread' => ~misread /\ status = req[r].seen
      BY <2>4 DEF Frozen
    <3>2. status' = "disputed" /\ frozenFrom' = req[r].seen
      BY <2>4 DEF Frozen
    <3>3. status = req[r].seen => UnderReview' <= UnderReview
      BY <3>2
    <3> QED BY <3>1, <3>3
  <2> QED BY <2>1, <2>2, <2>3, <2>4
<1> QED BY <1>2, <1>3, <1>4, Kept

LEMMA SubmissionAccounted ==
  ASSUME WorkTyped, WorkTyped', Accounted, NEW r \in Requests, SubmissionStep(r)
  PROVE  Accounted'
<1>1. Slot(r, DeliveryRequests)
  BY SubmissionSlot
<1>2. IsFiniteSet(HandingIn) /\ Cardinality(HandingIn) \in Nat
  BY FS_CardinalityType DEF Accounted
<1>3. /\ revisionsUsed \in Nat /\ Len(submissions) \in Nat
      /\ UnderReview \in {0, 1} /\ UnderReview' \in {0, 1}
  BY DEF WorkTyped, DeliveryTypeOK, UnderReview
<1>4. CASE Submit(r) \/ Review(r) \/ ReviewRow(r) \/ ReviewMark(r)
  <2>1. HandingIn' = HandingIn
    BY <1>1, <1>4, HandingKept
    DEF Submit, Review, ReviewRow, ReviewMark, WorkTyped, MoneyTyped, Idle, At, Begin,
        Goto, Done
  <2>2. Len(submissions') = Len(submissions)
    BY <1>4, MarkType
    DEF Submit, Review, ReviewRow, ReviewMark, WorkTyped, DeliveryTypeOK, work
  <2>3. revisionsUsed' = revisionsUsed /\ UnderReview' = UnderReview /\ misread' = misread
    BY <1>4 DEF Submit, Review, ReviewRow, ReviewMark, UnderReview, row, work, freeze
  <2> QED BY <2>1, <2>2, <2>3, <1>3, Kept
<1>5. CASE SubmitInsert(r)
  <2>1. HandingIn' = HandingIn \cup {r} /\ r \notin HandingIn
    BY <1>5, CarriedType
    DEF SubmitInsert, HandingIn, WorkTyped, MoneyTyped, At, Goto
  <2>2. /\ Cardinality(HandingIn') = Cardinality(HandingIn) + 1
        /\ IsFiniteSet(HandingIn')
    BY <1>2, <2>1, FS_AddElement
  <2>3. Len(submissions') = Len(submissions) + 1
    BY <1>5 DEF SubmitInsert, WorkTyped, DeliveryTypeOK
  <2>4. revisionsUsed' = revisionsUsed /\ UnderReview' = UnderReview /\ misread' = misread
    BY <1>5 DEF SubmitInsert, UnderReview, row, freeze
  <2> QED BY <1>2, <1>3, <2>2, <2>3, <2>4 DEF Accounted
<1>6. CASE SubmitMove(r)
  <2>1. HandingIn' = HandingIn \ {r} /\ r \in HandingIn
    BY <1>6 DEF SubmitMove, HandingIn, WorkTyped, MoneyTyped, At, Done, Idle
  <2>2. /\ Cardinality(HandingIn') = Cardinality(HandingIn) - 1
        /\ IsFiniteSet(HandingIn')
    BY <1>2, <2>1, FS_RemoveElement
  <2>3. submissions' = submissions /\ revisionsUsed' = revisionsUsed /\ misread' = misread
    BY <1>6 DEF SubmitMove, work, freeze
  <2> QED BY <1>2, <1>3, <2>2, <2>3 DEF Accounted
<1>7. CASE ReviewMove(r)
  <2>1. HandingIn' = HandingIn
    BY <1>1, <1>7, HandingKept DEF ReviewMove, WorkTyped, MoneyTyped, Idle, At, Done
  <2>2. submissions' = submissions /\ misread' = misread
    BY <1>7 DEF ReviewMove, freeze
  <2>3. revisionsUsed' + UnderReview' <= revisionsUsed + UnderReview
    <3>1. CASE Moves(req[r].seen, req[r].to)
      <4>1. status = "submitted" /\ frozenFrom = NotFrozen
        BY <1>7, <3>1, CarriedType, ReviewedFrom
        DEF ReviewMove, At, WorkTyped, DeliveryTypeOK, FrozenIsKnown
      <4>2. UnderReview = 1
        BY <4>1 DEF UnderReview
      <4>3. status' \in {"approved", "revision"} /\ frozenFrom' = NotFrozen
        BY <1>7, <3>1, <4>1, CarriedType DEF ReviewMove, Transition, At, freeze, WorkTyped
      <4>4. UnderReview' = 0
        BY <4>3 DEF UnderReview, NotFrozen
      <4>5. revisionsUsed' \in {revisionsUsed, revisionsUsed + 1}
        BY <1>7 DEF ReviewMove
      <4>6. CASE revisionsUsed' = revisionsUsed
        BY <1>3, <4>2, <4>4, <4>6
      <4>7. CASE revisionsUsed' = revisionsUsed + 1
        BY <1>3, <4>2, <4>4, <4>7
      <4> QED BY <4>5, <4>6, <4>7
    <3>2. CASE ~Moves(req[r].seen, req[r].to)
      <4>1. revisionsUsed' = revisionsUsed /\ status' = status /\ frozenFrom' = frozenFrom
        BY <1>7, <3>2 DEF ReviewMove, Transition, freeze
      <4> QED BY <1>3, <4>1 DEF UnderReview
    <3> QED BY <3>1, <3>2
  <2>4. revisionsUsed' \in Nat
    BY DEF WorkTyped, DeliveryTypeOK
  <2>5. /\ IsFiniteSet(HandingIn') /\ Cardinality(HandingIn') = Cardinality(HandingIn)
        /\ Len(submissions') = Len(submissions)
    BY <1>2, <2>1, <2>2
  <2>6. ASSUME ~misread
        PROVE  Cardinality(HandingIn) + revisionsUsed' + UnderReview' <= Len(submissions)
    <3>1. Cardinality(HandingIn) + revisionsUsed + UnderReview <= Len(submissions)
      BY <2>6 DEF Accounted
    <3>2. \A a, b, c, d, e, f \in Nat :
             a + b + c <= f /\ d + e <= b + c => a + d + e <= f
      OBVIOUS
    <3>3. UnderReview \in Nat /\ UnderReview' \in Nat
      BY <1>3
    <3> QED BY <3>1, <3>2, <3>3, <1>2, <1>3, <2>3, <2>4
  <2> QED BY <2>2, <2>5, <2>6 DEF Accounted
<1> QED BY <1>4, <1>5, <1>6, <1>7 DEF SubmissionStep

LEMMA EscrowAccounted ==
  ASSUME WorkTyped, Accounted, NEW r \in Requests, EscrowStep(r), UNCHANGED work
  PROVE  Accounted'
<1>1. \A q \in Requests : req'[q].op = "submit.move" => req'[q] = req[q]
  BY EscrowKeeps DEF EscrowRequests, Idle
<1>2. HandingIn' \in SUBSET HandingIn
  BY <1>1 DEF HandingIn, At
<1>3. /\ IsFiniteSet(HandingIn) /\ IsFiniteSet(HandingIn')
      /\ Cardinality(HandingIn') <= Cardinality(HandingIn)
  BY <1>2, FS_Subset DEF Accounted
<1>4. Cardinality(HandingIn) \in Nat /\ Cardinality(HandingIn') \in Nat
  BY <1>3, FS_CardinalityType
<1>5. /\ UnderReview' <= UnderReview
      /\ UnderReview \in {0, 1} /\ UnderReview' \in {0, 1}
  BY EscrowMoves DEF UnderReview, work, freeze
<1>6. revisionsUsed \in Nat /\ Len(submissions) \in Nat
  BY DEF WorkTyped, DeliveryTypeOK
<1> QED BY <1>3, <1>4, <1>5, <1>6 DEF Accounted, work, freeze

LEMMA StepAccounted ==
  ASSUME WorkTyped, Accounted, [DeliveryNext]_deliveryVars
  PROVE  Accounted'
<1>0. WorkTyped'
  BY StepWork
<1>1. ASSUME NEW i \in Checkouts, PayerActs(i), UNCHANGED work PROVE Accounted'
  BY <1>1 DEF PayerActs, Accounted, HandingIn, UnderReview, At, row, work, freeze
<1>2. CASE DeskStep
  <2>1. HandingIn' = HandingIn
    BY <1>2 DEF DeskStep, Thawed, Decided, CalledOff, MovesTo, HandingIn, At
  <2>2. UnderReview' <= UnderReview
    BY <1>2
    DEF DeskStep, Thawed, Decided, CalledOff, MovesTo, ResolutionOutcome, UnderReview, NotFrozen
  <2> QED BY <1>0, <1>2, <2>1, <2>2, Kept DEF DeskStep
<1>3. CASE UNCHANGED deliveryVars
  BY <1>3 DEF deliveryVars, escrowVars, Accounted, HandingIn, UnderReview, At, row, work, freeze
<1> QED
  BY <1>0, <1>1, <1>2, <1>3, ConceptAccounted, SubmissionAccounted, EscrowAccounted
  DEF DeliveryNext, DeliveryStep, DeskStep

(* However many requests review one submission, and whatever a dispute     *)
(* does meanwhile, each revision consumed answers its own submission, so   *)
(* long as a case freezes the deal where it read it.                       *)
THEOREM RevisionsAlwaysDelivered == DeliverySpec => []RevisionsWereDelivered
<1>1. DeliveryInit => Accounted
  <2> SUFFICES ASSUME DeliveryInit PROVE Accounted
    OBVIOUS
  <2>1. HandingIn = {}
    BY DEF DeliveryInit, HandingIn, At, Idle
  <2>2. UnderReview = 0 /\ revisionsUsed = 0 /\ Len(submissions) = 0
    BY DEF DeliveryInit, UnderReview, NotFrozen
  <2> QED BY <2>1, <2>2, FS_EmptySet DEF Accounted
<1>2. WorkTyped /\ Accounted /\ [DeliveryNext]_deliveryVars => Accounted'
  BY StepAccounted
<1>3. WorkTyped /\ Accounted => RevisionsWereDelivered
  <2> SUFFICES ASSUME WorkTyped, Accounted, ~misread
               PROVE  revisionsUsed <= Len(submissions)
    BY DEF RevisionsWereDelivered
  <2>1. Cardinality(HandingIn) \in Nat
    BY FS_CardinalityType DEF Accounted
  <2>2. revisionsUsed \in Nat /\ Len(submissions) \in Nat /\ UnderReview \in {0, 1}
    BY DEF WorkTyped, DeliveryTypeOK, UnderReview
  <2> QED BY <2>1, <2>2 DEF Accounted
<1> QED BY <1>1, <1>2, <1>3, WorkCorrect, PTL DEF DeliverySpec

===============================================================================
