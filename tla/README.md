# CreativeHub: TLA+ models and proofs

CreativeHub (`src/`) is a SvelteKit application on MySQL where brands hire
creators. Its core is the *managed deal*: one row of `bookings` that is
negotiated, signed, funded, worked on, settled, paid out, and sometimes
cancelled, disputed or refunded. Around it stand the briefs and applications a
deal comes from, the claims on imported profiles, the staff's accounts and the
trending board. There are almost no transactions around the handlers: each one is a sequence of `await`ed single statements, and any
number of requests (two browser tabs, two parties, an operator, Chapa's
webhook, the payer's return page) interleave between them. What protects the
rows is the `WHERE` clause of each statement. That is what these modules are
about.

Paths below are relative to the repository: the application's code is in
`src/src/`, its documentation in `src/README.md`.

## Inventory

| Component | State it keeps | Operations | Hard behaviour | What makes it correct |
|---|---|---|---|---|
| Booking lifecycle (`lib/domain/booking.ts`, `transition()` of the deal page) | `bookings.status` | the table of transitions, the write that tests the state it read | two actions posted at once; writes that go by id and skip the table | only declared transitions; the loser changes nothing |
| Deposit (`lib/server/payments.ts`; `payDeposit`, `fund`, `settle`, `recordRefund` of the deal page) | `payments`, `bookings.escrow_status`, `payment_ref` | start, settle, fund, complete, record a return | webhook beside return page, two checkouts, late payment, a crash between two writes | funds held only for money that came in, once per reference, and recorded in the end |
| Payouts (`lib/server/payouts.ts`, the queue and account pages) | `payouts`, `payout_accounts` | send, record by hand, reconcile, save and verify the account | two presses, a lost answer, a webhook before `queued` is written, an account edited meanwhile | paid at most once, to a verified number; a failed row moved nothing |
| Refunds (`lib/server/refunds.ts`) | `refunds` | send, reconcile | two callers, a lost `ref_id`, webhook beside operator | returned at most once, only money that was taken |
| Cancellation (deal page, `lib/domain/dispute.ts`) | `bookings.cancel_requested_by/side` | ask, refuse, agree, operator cancels | answers to a request that is no longer there; the deposit landing meanwhile | two sides, one refund |
| Disputes (`lib/server/disputes.ts`, the disputes desk) | `disputes`, `audit_log`, `bookings` | raise, answer, withdraw, decide | freezing and deciding by id; the state to resume is read from a log | a frozen deal has an open case; it resumes where it was; funds are released only if held |
| Agreement (deal page, `contracts.ts`, `nda.ts`, introductions desk) | `term_proposals`, `contracts`, `terms_snapshot`, `introduction_status` | propose, counter, accept, decline, sign, accept the NDA, introduce | both sides at once; a contract regenerated while it is signed | booked only under a contract signed by both; such a contract is final |
| Delivery (deal page) | `concepts`, `submissions`, `post_proofs`, `revisions_used` | submit, review, prove, waive | the row is marked first and the deal moved after; disputes between | production is funded, revisions answer work, settlement is shown |
| Applications (`routes/(public)/campaigns/[slug]`, applications and campaigns pages, `campaign-matches.ts`, `db/rollups.ts`) | `applications`, `campaigns.applications_count`, `match_notified_at`, notifications | apply, withdraw, decide, save, delete, announce, recount | a decision beside a withdrawal; a brief saved twice at once; a recount from rows that move | nobody told twice of a brief; a tally that does not overstate |
| Creator claims (`profile/claim`, `admin/claims`, `profile/create`) | `creator_claims`, `creators.user_id` | claim, withdraw, decide, create, hide, delete | a decision is a chain of awaited statements; rivals, withdrawals, a stop halfway | a profile is handed over once, an approved claim did it |
| Staff (`admin/users`, `invites.ts`, `invite/[token]`) | `user.role`, `user.banned`, `staff_invites` | change a role, bar, unbar, invite, withdraw, accept | two tabs on one link; a refused sign-up after the link is spent | one link, one account; a refused sign-up gives the link back |
| Trending board (`trending-service.ts`, `admin/trending`) | `trending_config`, `_entries`, `_overrides`, `_cooldowns`, `creators.is_trending`, a lock in memory | run, refresh automatically, save, freeze, pin, block, end a rest, tick a box | runs beside runs and settings; more claims on the slots than slots; a run that throws | pins and newcomers get the slots they were promised; a rest is kept; the lock is given back |
| Chapa (outside) | checkouts, transfers, refunds | initialize, verify, transfer, refund, webhook | answers late, lost, repeated | (external: every answer is a choice) |

Outside the models: documents and their numbers, commission arithmetic,
maintenance jobs, the statistics scheduler, the rate limiter, channel ownership,
identity checks, sessions, messages and notifications, the creator score, social
statistics, uploads, the blog and the interface. `PROJECT.json` lists each with
the reason it is not modelled yet, or not at all.

The components of the deal meet in one row. `escrow_status` is written by payments, the
deal page, disputes and refunds; `status` by the deal page, disputes and the
introductions desk; the payout queue reads both, the disputes desk reads the
payout rows, and cancellation and disputes call refunds. Hence the composition
below. The other four share no state the models could tell apart: an application
opens a deal by inserting a row (the initial state of `Agreement`), and an
account's role reaches the others only as a guard read once.

## Modules

```
BookingDomain            tables and predicates of lib/domain
  BookingRow             the row, the requests in flight, transition(), a dying process
    Escrow               deposit: checkouts, funds by hand, completion
      Refunds            returning it
        Cancellation     both parties and an operator calling the deal off
          Disputes       cases on top of all of that
            Settlement   ... composed with Payouts
      Delivery           the work, composed with the deposit
    Payouts              paying the creator
    Agreement            offers, contracts, NDA, introduction
Deposit                  what the deposit promises; Escrow and Cancellation implement it
TrendingBoard            buildBoard, a function of what a run has read
  Trending               runs, the lock, and the operators
Applications             briefs, applications, announcements
Claims                   claims on imported profiles
Staff                    roles, bans, invitations
EscrowProofs             theorems (TLAPS) of Escrow
  DeliveryProofs         ... of Delivery, on the lemmas of EscrowProofs
  SettlementProofs       ... of Cancellation, Disputes, Payouts and Settlement
AgreementProofs, ApplicationsProofs, ClaimsProofs, StaffProofs, TrendingProofs
MC<Module>.tla, MC<Module><Case>.cfg   instances for TLC
```

**How code becomes actions.** `req` is a set of request slots. A handler starts
in a free slot (`Begin`), performs one action per awaited statement (`Goto`)
and frees the slot (`Done`). What a request read and carries across an `await`
is in its slot: `seen`, `ref`, `id`, `escrow`... A guard evaluated on a value
read earlier is evaluated on the slot, never on the row. A conditional
`UPDATE ... WHERE` is one atomic step that changes nothing when the condition
fails. `Die(r)` ends a request between two awaits, as a restart or a thrown
query does: the writes made stay and the rest never runs. Statements without
effect on the modelled state (audit entries, notifications, documents) are
folded into the neighbouring step, except the audit entry of `raise`, which is
read back by `statusBeforeDispute`.

| Module | State | Correspondence |
|---|---|---|
| `Escrow` | `payment` (status of each attempt), `checkout` (what became of it at Chapa), `paymentRef`, `handRefund` and `dropped` (history: a return recorded by hand; the references whose settle died between its two writes) | `PayDeposit`, `StartInsert`, `Initialized`/`NotInitialized`, `StartPending`, `StartRefused` are `payDeposit` and `start`; `SettleRead` .. `SettleHold` are `settle`, in its order: read, verify, fail and reopen, mismatch, claim, hold; `FundRead/Write`, `CompleteRead/Write`, `RecordRefundRead/Write` are the deal page's `fund`, `settle`, `recordRefund` |
| `Payouts` | `payouts`, `transfer`, `account`, `confirmed` and `lost` (history: every number marked verified; the rows whose answer never came) | `SendRead` .. `SendQueued`, `RecordManual` (`SendPays` chooses it with the gateway off, as the queue page does), `ReconcileRead` .. `ReconcileFailed`, `SaveRead/Write`, `VerifyRead/Write` |
| `Refunds` | `refunds`, their state at Chapa | `RefundCount`, `RefundDeposit`, `RefundInsert`, the answer, `RefundReconcileRead` .. `RefundMark` |
| `Cancellation` | `cancelSide`, `asked` (history) | one read and one write action per handler |
| `Disputes` | `cases`, `auditFrom`, `frozenAt` (history) | `Raise...`, `Respond...`, `Withdraw...`, `Resolve...`, each in the order of `disputes.ts` |
| `Settlement` | `owed` (`creator_payout > 0`), `afterPayout` | the steps of both desks on one row |
| `Agreement` | `proposals`, `termsFrom` (which offer the snapshot is), `contracts`, `nda`, `introduction`, `died` (history) | `Propose...`, `Respond...`/`Decline...`/`Accept...`, `Contract...`, `Sign...`, `AcceptNda`, `Introduce...` |
| `Delivery` | `concepts`, `submissions`, `revisionsUsed`, `proof`, `waived`, `frozenFrom` and `misread` (history: where a case found the deal, and whether it froze it in another state than the one it had read) | one action per statement of each handler; the marks come before the moves, as in the code |
| `Applications` | `campaign`, `tally`, `application`, `deals`, `minimum`, `told`, `week`, a second kind of slot `announcer` for the announcement no request awaits | `ApplyReads` .. `ApplyInserts`, `Recounts`; `DecideReads` .. `DecideOffers`; `WithdrawReads/Writes`; `SaveCampaign`, `DeleteCampaign`; `MatchReads`, `MatchClaims` (the conditional write), `MatchGathers`, `MatchCounts`, `MatchTells` (one notification a step) |
| `Claims` | `profile` (owner, hidden, deleted), `made`, `claims` | `ClaimReads` .. `ClaimInserts`, `WithdrawReads/Writes`, `CreateReads/Inserts`, `DecideReads` .. `DecideCloses` in the order of `decide`, the listing |
| `Staff` | `account` (role, banned), `invites` | `RoleReads/Writes`, `BanReads`, `Bars`, `InviteReads` .. `InviteInserts`, `RevokeReads/Writes`, `AcceptReads`, `AcceptClaims`, `AcceptSignsUp`, `AcceptReleases`, `AcceptStamps`, `AcceptAttaches` |
| `TrendingBoard` | none: operators | `buildBoard` in its order: pins, the ranking with caps and the limit on new faces, the slots filled from the bench, the slots kept for newcomers, manual mode. `Arranged` is every sort: position `k` holds the one element with `k - 1` before it |
| `Trending` | `config`, `frozen`, `due`, `overrides`, `entries` with their days, `ticked`, `rest`, `refreshInFlight`, `run` (its own slots) | `AutoCheck`, `AutoConfig` are `maybeAutoRefresh`; `RunConfig`, `RunRead` (the statements of one `Promise.all`, in any order), `RunBuild`, `RunPublish` (the transaction), `RunFails`; `Save`, `Freeze`, `SetOverride`, `ClearCooldown`, `Tick` are the operators |

Amounts are abstracted to whether they match; terms, statements and account
holders to which row they came from. The clock is a choice: the dispute window
of a completed deal, the interval of the refresh and the week of an invitation may
end at any time; tenure and rest on the board are counted in days. Every answer of Chapa is a choice of
the step that asks for it, and with `MayLose` the answer to an instruction may
be lost though the instruction was carried out.

Definitions named `Bug...` are not part of any specification. Each is a
plausible slip in the definition that follows it (a dropped condition, a missed
reset, a swapped order); replacing the one by the other must break the property
that `PROJECT.json` pairs with it, which shows that the property depends on
that line of the code.

## Runs

Every type invariant is proved below; only those of Disputes (which covers
Cancellation's variables) and Delivery are checked by their runs too. `CHECK_DEADLOCK FALSE` in
every run, because a deal really stops: when it is closed and every bound is
used up nothing remains to be done, and so with an application, a claim or an
invitation.

| Run | Asks | Bounds |
|---|---|---|
| `MCEscrow` | Do webhook, return page, brand and deal page together keep the deposit straight, and is a paid checkout recorded in the end? | 2 requests, 2 checkouts, gateway on; requests die |
| `MCPayouts` | Is the creator paid at most once, to a verified number, and is a queued transfer settled in the end? | 2 requests, one of which may send, 2 numbers, 2 rows; requests die, answers are lost |
| `MCCancellation` | Is a called-off deal agreed by two sides and refunded once, while its checkout settles? | 2 requests, 1 checkout, 2 refunds; requests die, answers are lost |
| `MCDisputes` | Do long sequences of cases, cancellation, settlement and refunds keep the case, the status and the money consistent? | 2 requests, in turn on the cases (below), 1 checkout or the deposit by hand, 1 refund, a case after one that was withdrawn, one party that asks to cancel |
| `MCSettlement` | With operators moving the money, can creator and brand both be paid? | 2 requests in turn, 2 cases, 2 payouts, gateway off |
| `MCAgreement` | Is a deal booked only under a contract signed by both? | 2 requests, 2 offers, 2 contracts; requests die |
| `MCDelivery` | Is production funded and settlement shown, beside disputes? | 2 requests, 1 checkout the brand was sent to or the deposit by hand, 2 concepts, 2 submissions, 1 revision |
| `MCTrending` | Does every board give pins and newcomers their slots, keep rests, and is the lock given back, whatever is saved? | 1 run at a time beside the operators, 3 creators of which 2 newcomers, 2 slots, 3 settings, 2 measurements, 1 override; queries throw |
| `MCApplications` | Is nobody told of a brief twice, and is the tally honest, whatever is saved and decided at once? | 1 brief, 2 creators, 2 requests, 2 announcements, which may stop anywhere |
| `MCClaims` | Is a profile handed over once, through rivals, withdrawals and decisions that stop? | 2 profiles, 2 claimants, 2 requests of which one decides, 2 claims; both may stop |
| `MCStaff` | Does an invitation make one account, and a refused sign-up give it back? | 1 operator and 1 colleague, 1 desk that may stop, 2 acceptances, 2 invitations |

Two request slots are enough for every pair of handlers to interleave at every
`await`, including a handler with itself. Two attempts (checkouts, payouts,
refunds, offers, contracts, cases) are enough for one to be retried beside its
predecessor. Two runs leave out, on purpose, overlaps against which the code has no
guard, because it writes by id there; they are named in `Disputes.tla`. `MCDisputes`
leaves out `CasesInTurn` (two requests working on the cases of the deal) and
`RaiseUndisturbed` (the deal moved between a raise's read and its freeze), but has
decisions that read the booking before its funds moved. `MCSettlement` leaves out the
first and `DepositUndisturbed` (the funds moved between the read and the write of a
decision or a completion). Every other interleaving is in. With an overlap back in,
properties of its run fail, as the disagreements below show. `MCDisputes` and
`MCDelivery` start from a deal whose brand was sent to the checkout and has not paid,
so that each may still be paid, late or after a deposit by hand, or be declined and
reopen the booking.
`MCTrending` and `MCClaims`
take one run and one decision at a time for the same reason: two runs may break
`RestIsKept`, when one reads the rests before the other publishes and the board
after. `MCPayouts` with
`GatewayEnabled = FALSE`, `MayLose = FALSE` and `Senders <- TwoRequests` passes
too, and `HandPaysOnce` proves it.

What the properties say:

- **Deposit.** `HeldIsBacked`: funds read as held (or moved on) only if a person
  recorded them or the checkout the booking names was paid. `HandFundsAreReleased`:
  completion is decided on a row read before, and still the deal keeps no funds
  recorded by hand. `SuccessIsRecorded` relates the two rows: once no
  request is between `claim` and `hold`, a successful payment shows on the
  booking. `PaidIsRecorded` is its liveness: what the payer paid ends recorded.
  Both except a reference in `dropped`; `OutcomeIsCarried` does not, and fails.
  `KeepsDeposit` is the refinement of `Deposit`, a module that knows the paid
  references, the credited ones and where the money is, and no request: money
  enters by a credited checkout, once for each, or by hand into an empty deposit,
  and leaves only when it is there. A claimed payment counts as credited when its
  `hold` is done, a reference in `dropped` never.
  `ReferenceFundsOnce` and `HandHoldsOnce` (no repeated webhook and no late press
  funds a deal again after its money left) and `AttemptsInOrder` (how far each
  request has brought its attempt) are proved and no longer run.
- **Payouts.** `PaidAtMostOnce`, `FailedMovedNothing` (what makes a retry safe),
  `SentToVerified`, and `QueuedIsSettled` (liveness). The first two except rows in
  `lost`: nothing in the code can tell such a row from a refused one.
- **Cancellation.** `AgreedByBoth`: the agreement answers a request that the other
  side really made. `RefundedAtMostOnce`, `RefundedIsBacked`: Chapa returns one
  deposit at most, and a booking reads refunded only for money that went back.
  `KeepsDeposit` again: beside cancellations and refunds the deposit still does
  what `Deposit` allows. `Disputes` is not claimed to: its decisions and the mark of
  a split's refund write the funds by id (`HeldStaysDeposited` and `ReleasedOnlyHeld`
  in `MCDisputesViolated`).
- **Disputes.** `FrozenHasCase`, `ResumesWhereItWas`. `HeldIsNotForgotten`: held funds
  are never turned back into unpaid ones, by a checkout that is declined, a second
  one, a refund, a case or a cancellation; only a decision that read the booking before
  its deposit came does that. `CompletedWasPaidFor`: a paid deal completes over a
  deposit that really came, or an operator decided so. The exception is the
  code's: `resolve` completes a deal disputed before the brand paid
  (`disputes.ts:248-263`), and leaves its funds unpaid.
- **Settlement.** `NotPaidBothWays`, `PaidWasReleased`.
- **Agreement.** `SignedByBothIsSigned`, `BookedUnderContract`, `ContractIsFinal`,
  `DeclinedIsNotProposed`.
- **Delivery.** `ProductionWasFunded`, `SettledWasShown`, and
  `RevisionsWereDelivered`: every revision that counts against the allowance answers
  a submission of its own. The last except after `misread`. With three requests,
  a raise reads "submitted", a review sends the work back, the raise freezes the deal
  by id, and its withdrawal puts "submitted" back; a second review that was
  already under way then consumes another revision of the same submission. The
  proof attempt found this; two requests never reach it, because one of them
  has to wait as the stale review.
- **Trending.** Three are about the board a run is about to publish, as a function
  of everything it read in separate statements: `PinsKeepTheirSeats`,
  `NewcomersGetIn`, `NoSlotIsWasted` relate the settings, the caps and the list.
  `RestIsKept` is about what is published: nobody the ranking placed is at rest,
  though tenure was counted on a board, and rests read in a statement, of the past.
  `LockIsGivenBack`: a lock left in memory would end the refresh until a restart.
- **Applications.** `ToldOnce`, `TallyNeverOverstates`.
- **Claims.** `HandedOverOnce`, `ApprovedOwns`.
- **Staff.** `OneSpender`, `NoLinkIsBurnt`.

### Fairness

Only `MCEscrow` and `MCPayouts` (and `FailedIsRetried`, by hand) check liveness.
A request that is not killed runs to its answer (weak fairness of its steps:
Node resumes every continuation). Chapa posts a webhook for every decided
checkout or transfer and repeats it when it is answered 500
(`routes/api/chapa/webhook`), and operators press Refresh on a row that is not
settled, so reading and verifying are strongly fair as long as Chapa is not out
of reach for ever. Strong, because a slot must be free for the webhook to run.
Nothing is assumed of the payer, the brand or the bank. `QueuedIsSettled` also
assumes that not every request that records the answer dies, which is what
strong fairness of `ReconcileSuccess` says, and `PaidIsRecorded` the same of
`SettleClaim`: the row stays pending, so the webhook and the return page come
back to it. After the claim no repeat does, hence `dropped`.

## Where the code and its description disagree

One run, `MCPayoutsTwice`, expects a violation; `PROJECT.json` quotes the line that
is contradicted. The other configurations are run by hand: each `MC<Module>Violated.cfg`
names several properties that all fail, and TLC stops at the first, so leave one
in at a time (`tlc -config MCXViolated.cfg MCX`).

| Configuration | Violated | What happens |
|---|---|---|
| `MCPayoutsTwice` (listed) | `PaidAtMostOnce` | two presses of Send count no live attempt, insert two rows and transfer twice |
| `MCPayoutsViolated` | `FailureMovesNothing` | Chapa takes the transfer, the answer is lost, the row reads failed and may be sent again |
| | `PaidIsSettled` | `send` stops before writing queued; `reconcile` writes only over queued rows |
| | `VerifiesWhatWasSeen` | the creator replaces the number an operator is verifying by id |
| `MCEscrowViolated` | `CompletedHoldsNothing` | a checkout paid late puts funds on a deal that completed |
| | `OutcomeIsCarried` | the process stops between claim and hold; the repeat answers `already` |
| | `FundingStartsWork` | the README's "payment starts the work" is an older rule: concept approval starts it (comment at `payments.ts:239`) |
| `MCCancellationViolated` | `ReturnedOnce` | a return is recorded by hand while Chapa makes one |
| | `CancelledAsksRefund` | the deposit lands while the deal is called off, and nothing asks for it back |
| `MCDisputesViolated` | `FrozenHasCase` | a case is withdrawn, or decided, between its insert and the freeze of its raise |
| | `CancelledIsFinal` | an operator cancels a disputed deal, its case stays open and is decided later, by id; a freeze by id may undo it too (`booking.ts:25`: "Anything absent is rejected server-side") |
| | `OneOpenCase` | both sides raise at once |
| | `AnswerIsFixed` | the "one written answer" is replaced from a second tab |
| | `ResumesWhereItWas` | the deal moves while a case is raised and resumes where it no longer was |
| | `CompletionNeedsCompensation` | "A paid booking cannot complete until its deposit is recorded" (`README.md:264`); a case raised before the brand paid is decided for the creator or split, and `resolve` completes the deal with nothing on hold |
| | `HeldStaysDeposited`, `ReleasedOnlyHeld` | a decision writes back the escrow it read, over funds recorded or returned meanwhile |
| | `FailedIsRetried` (with the settings at the head of the file) | Chapa refuses the refund of a split; no handler asks again |
| `MCSettlement` under `SettlementSpec`, `MaxCases = 1` | `NotPaidBothWays`, `PaidWasReleased` | a deal completes and is paid between the read and the write of a decision, which writes `held` back; the return is recorded by hand |
| `MCSettlementViolated` | `DisputedIsNotPaid`, `PaidCaseIsFlagged` | a payout pressed, or landing, beside a case |
| | `DecidedRefundIsRecordable` | a completed deal decided for the brand reads cancelled and released: `recordRefund` refuses it |
| `MCAgreementViolated` | `TermsFreeze` | a counter-offer beside an acceptance reopens agreed terms and the snapshot is replaced (`README.md:260`) |
| | `DeclineEndsOnlyOffers` | an offer left open is declined after the deal was agreed, and cancels it |
| `MCDeliveryViolated` | `WorkIsReviewable` | a review posted on a disputed deal marks its submission though the move is refused (`README.md:846`) |
| | `WithinAllowance` | a review that read the booking before another one and a resubmission |
| | `ApprovedIsMarked` | an approval and a request for changes posted at once |
| `MCTrendingViolated` | `PinsAreGuaranteed` | with `pinnedFirst` off, a pin seated in a newcomer's slot is taken for the algorithm's and gives way to the next pin, although the setting "still guarantees the slot" |
| | `CapsMeanWhatTheySay` | two newcomers benched for room take reserved slots, and the caps are not asked again |
| | `OneAutoRun` | two visits pass the look at the lock before either takes it |
| | `FrozenBoardHolds` | a run that read the settings publishes after the freeze |
| | `BadgesFollowTheBoard` | the box on a profile form sets the badge beside the board |
| `MCApplicationsViolated` | `SelectionOpensADeal` | the selection is written, then the deal is refused as too small; a second try answers "already selected" |
| | `OneDealEach` | two presses of Select read the application before either writes |
| | `SelectedStays` | a rejection, or a withdrawal, that read the row before the selection overwrites it |
| | `TallyIsExact` | a decision takes a withdrawn application up again and nothing recounts; a request stops before its recount |
| | `WithinWeeklyCap` | two announcements count the week before either tells |
| | `DeletedTakesNone` | the brief is read by id and its deletion is not asked |
| `MCClaimsViolated` (two desks) | `HandedOverOnce`, `ApprovedOwns` | two operators approve rival claims at once, and the second write replaces the owner |
| | `IndexNeverRefuses` | the claimant makes a profile after the decision looked and before it attaches |
| | `ClosedIsTerminal` | a withdrawal or a decision writes the claim by id |
| | `OneOpenClaim` | the account posts two claims at once |
| | `OwnedWasApproved`, `NoneIsLeftWaiting` | the decision stops between its writes |
| `MCStaffViolated` | `AnOperatorRemains` | two operators demote each other |
| | `OneWorkingLink` | two invitations of one address withdraw before either inserts |
| | `WithdrawnMadeNothing` | an invitation is withdrawn by id while it is accepted |
| | `NoLinkIsBurnt` | an acceptance is cut short after it spent the link |

Larger instances that pass and take longer: `MCDisputes` with both parties asking to
cancel, or from a booked deal with no checkout begun; from a new deal
(`DisputesInit` in place of `ResumedInit`), with one request and two cases;
`MCSettlement` with one request and the gateway on (Chapa moving the money).

## Proofs

The theorems hold for every set of requests, checkouts, numbers, creators,
invitations and every bound, from the named assumptions on the
constants and whatever the theorem itself assumes (said below), and with
requests that may die at any await.

**Escrow.** `EscrowTypeOK` is inductive. The money properties are not: that a
`hold` step cannot fund twice depends on what every other request in flight has
done with the same reference. `AttemptsInOrder` states that (an attempt belongs
to one `start`; it is paid only after the payer was sent there; one `settle` at
most carries it from claim to hold, and then the booking does not name it yet).
`Attempts == MoneyTyped /\ AttemptsInOrder` is inductive. `MoneyTyped` types the
money and leaves open what else a request may be doing, so that Delivery,
Cancellation, Disputes and Settlement, whose requests share the slots, rest on the
same lemmas, one a handler. `Funds` adds
`HeldIsBacked`, `ReadStillHolds`, which says that funds
a request has read as deposited stay deposited (escrow leaves the deposited
states in no interleaving), and `CompletedWasFunded`, that a paid deal the page
completed has its funds. The last is a step of the argument and no claim about the system:
a decision breaks it, so it stands in `EscrowProofs` and the property is
`CompletedWasPaidFor`. From these: `TypeCorrect`, `AttemptsCorrect`,
`HeldBacked`; the action properties `FundsOnce`, `HandHolds`;
`HandReleases`; and `SuccessRecorded`, which is inductive beside the types: the
claim opens the exception for one request, and its `hold`, or its death, closes it. `OffReleases` adds `OnlyByHand` (while the gateway is off no
checkout ever exists) and shows that then a completed deal holds nothing, which
`CompletedHoldsNothing` in `MCEscrowViolated` refutes with the gateway on.

`ImplementsDeposit` shows that Escrow implements `Deposit`. A
step of Deposit needs more than `Funds`: money that leaves must still be there
when it leaves. `MoneyFollowsDeal` adds that released funds belong to a completed
or disputed deal, returned ones to a cancelled deal, and that a dropped reference
stays a success no request carries; with `Funds` it is inductive. Then every step
but `SettleHold`, `FundWrite`, `RecordRefundWrite`, `CompleteWrite` and the payer's
is a stutter. It assumes `Compensation = "paid"`, since a barter deal completes
without a deposit.

**Delivery.** Approvals act on funds read three awaits before, so each property
is strengthened by what every request in flight, and a frozen deal, may still
bring about. `ProductionAlwaysFunded` from `NothingProduced`: while a paid deal has
no deposit it is not in production, was not frozen in production, and nobody
carries "production" to the row; escrow never leaves the deposited states
(`EscrowProofs`), so a funded reading stays true. `SettledAlwaysShown` from
`NothingShown`, the same for the proof. `RevisionsAlwaysDelivered` from `Accounted`,
which counts: the submissions on their way, the one under review (frozen or not) and
the revisions consumed are together at most the submissions made, while not
`misread`. `DeliveryTypeCorrect` needs `FrozenIsKnown`, since a withdrawal writes
`frozenFrom` to the row. No assumption but the bounds' types.

**Cancellation.** `RefundedOnce` from `Ended`: a refund exists only when the deal is
cancelled over a deposit, there is one at most, at most one request is about to ask
for one and then none exists, and an agreement that read held funds on a deal still
open finds them held. It needs `Funds` and `MoneyFollowsDeal`; `Ending` is all of them.
`CancellationImplements` shows from the same that Cancellation implements `Deposit`
(with `Compensation = "paid"`, as for Escrow): the mark after a whole refund is the
one new step that moves money. `RefundedBacked` from
`ReturnsFollowed` (one send carries each row to Chapa, which has nothing of it before;
a claim follows a return that arrived, a mark follows the claim of the whole).
`BothAgreed` from `Consent`. Any requests, which may die anywhere, and answers may be lost.

**Disputes.** `DisputesTypeCorrect`, which covers Refunds and Cancellation, without
hypotheses. `HeldNotForgotten` needs none either, and its requests may die: what every
other step does to the funds is known from Escrow, Refunds and Cancellation, and a
decision writes back what it read. The other three hold for any number of requests of
every kind, and name as a temporal hypothesis the overlap of writes by id that would
break them. `FrozenKeepsCase` assumes `[]CasesInTurn` and
rests on `Kept` (a case is open when it freezes the deal, and a request that withdrew
it is about to resume the deal, to a state that is not frozen). `ResumesThere` also
assumes that nothing moves the deal under a raise, and rests on `Resumable`: the
newest audit entry names the state the deal was frozen from, unless its raise has
still to write it, and a withdrawal carries that state. Both assume
`~MayDie`, because a process that stops between closing a case and resuming the deal
(`disputes.ts:179`), or between the freeze and the audit entry, does break them. `CompletedPaidFor` has the
hypotheses of `ResumesThere`. While nobody has decided, `PaidFor` is
inductive: `Funds`, and that a deal frozen after its completion, a refund and a request
about to ask for one all have their deposit, so a withdrawal completes only what was
paid for. `Deciding` (whoever decides a case has it open) keeps a decision that was made.

**Settlement.** `SettlementTypeCorrect`, without hypotheses. `PaysFromReleased` and
`PaysOneSide` assume `DepositUndisturbed` only, which `InTurn` carries from the read to
the write of a decision and a completion: any number of presses, reconciliations,
cases, refunds and cancellations interleave, and may die, whether Chapa or an operator
moves the money. `PaidOut` is the invariant: every checkout of the finished deal is
settled, so none funds it again; a press of Send works on
funds that were released, a deal with a payout was paid from those, neither is
returned by hand, and what was returned stays returned. `CasesInTurn` and
`GatewayEnabled = FALSE`, which keep the run small, are not needed.

**Payouts.** `PayoutsTypeCorrect` by itself; `SendsToVerified` from `NumbersConfirmed`
(a number carried by a request was verified when it was read);
`FailedIsFailed` from `AnswersFollowed` (what each request in flight knows about
its transfer is still true, or its answer was lost); `OnePressPaysOnce`,
assuming that one request at most may send, from `OneLive` (at most one row ever
lives, and none when a row is about to be inserted); `HandPaysOnce`, with the
gateway off and any number of presses, from `OneByHand` (the fixed reference is
unique). That one request at most sends, and the exception of lost answers, are both necessary: `MCPayoutsTwice`
and `FailureMovesNothing` drop one each.

**Agreement.** The type invariant alone is not inductive: `Written` adds that
contract `c` carries version `c`, that a version about to be written is the next
at most, and that a contract a request is signing exists. `ContractChanges` then
says, once for every handler, how a step may change a contract: void or sign it,
or add a signature, and only while it awaits them. `SignedIsFinal` is that lemma
on a row; `AlwaysUnderContract` follows with `BookedInv` (a request on its way to
`sign.book` has seen a contract completed); `BothSignaturesComplete` with
`SignedInv` (a contract with both signatures has a request at `sign.complete`);
`DeclinedLeavesProposed` with `DeclinedInv` (a deal that is still proposed was so
for everybody who read it). No assumption but the bounds' types.

**Applications.** `NobodyToldTwice` rests on `SenderInv`: past the conditional
write there is one announcement a brief, the brief is marked, and those it has
still to tell have not heard. It holds wherever announcements stop.
`TallyAlwaysHonest` assumes `RequestsLive` (requests run to their end), since a
withdrawal that stops before its recount leaves the tally too high.

**Claims.** `ApprovedAlwaysOwns` and `HandedOverOnceOnly` rest on `HandInv`: what
the operator's request knows at each await (`Knows`) is still so, because the
claimant's handlers never change an owner and rows are never renumbered. They
assume `OneOperator`, at most one decision in flight; with two,
`MCClaimsViolated` violates both. Decisions may stop anywhere.

**Staff.** `OneSpenderOnly` from `SpenderMarked` (whoever is past the claim marked
the invitation, which only its own release unmarks), for any tabs and desks;
`NoLinkIsEverBurnt` adds `SignedUp` and assumes `VisitsLive`, since the code has
no way back for an acceptance that is cut short.

**Trending.** `LockAlwaysGivenBack`: each step of a run either keeps its `auto` flag
or ends the run, and ending one is what gives the lock back. With two automatic
runs at once (`OneAutoRun` fails) one of them gives it back for both, and the
statement still holds: it forbids a lock nobody holds.

`TrendingInvariant` carries the rest: every row keeps its type, what a run has read
is something `buildBoard` can be given, and a run about to publish holds the board
made of it. `TrendingTyped` is its first part (any number of runs at once: nobody holds two
slots, no board is longer than some settings asked). The other theorems then are
about `BuildBoard`, for every set of creators, scores, groups and settings.

`buildBoard` is a row of `FoldLeft`s over sorted lists. `FoldWalks` shows that each
is a walk: a row of boards, each the step of the one before. `IntervalSet` carries a
property from the first board to the last; it is induction stated of a *set* of
places (by the least element the library gives), which the provers can use where
they cannot instantiate a predicate. `ArrangedIs` shows what the sorts are relied on
for: each element once. The properties of the walk are

- `Opening` (while the pins that lead are pushed: nobody else sits), `Walking` (during
  the ranking and the filling: only pins and creators who may hold a seat sit),
- `Waits` (everyone met so far sits, is held back, or is benched, under a full cap or
  before a full board; and a cap once reached stays reached, `CapStays`), ending in
  `Unwasted`, which reserved slots and late pins keep because they displace one
  creator by another (`SwapIs`),
- `Hoping` (while too few newcomers sit and an entry would give way, every hopeful met
  was seated).

`PinsAlwaysKeepTheirSeats` and `NoSlotIsEverWasted` follow for all settings.
`NewcomersAlwaysGetIn` and `RestIsAlwaysKept` assume `PinsAlwaysLead` (every hybrid
setting has `pinnedFirst`), and the second also `RunsInTurn`, as a temporal hypothesis.
TLC shows each to be needed. On the instance of `MCTrending` with `pinnedFirst` off,
`RestIsKept` fails: a resting pin takes a reserved slot and holds it as the ranking's; with
two runs it fails because the second has read the rests before the first adds to them. With
`pinnedFirst` off, one reserved slot and a pin that a rule keeps out of the ranking,
`NewcomersGetIn` fails: the late pin displaces the newcomer just seated.
`RestIsAlwaysKept` rests on `RestInv`: a run that has read the rests knows of every
one that lasts, since in between a rest only ends.

Assumed of the constants: `ConfigsAssumption` (settings are what
`trendingConfigSchema` lets through, a rest being a day at least, `trending-service.ts:1459`)
and `MeasuresAssumption` (a score is a number).

Model-checked only: the liveness properties (`PaidIsRecorded`, `QueuedIsSettled`), since
fairness is outside the prover's reach. Every other property of a passing run is
stated by a theorem.

## Not modelled

- The arithmetic of commission, withholding and splits, and the numbering of
  documents: planned below.
- `recordMetrics` and `rate`, which add rows beside a deal and change no state
  the others read.
- In Delivery the desk is reduced to the freeze by id (in two steps, as in the
  code), the withdrawal and the decision (in one each); their own interleavings
  are in Disputes. Requests do not die in `MCDelivery`.
- Who may press a button (`requireBookingAccess`, roles): a request carries its
  side where the handler uses it. Validation of forms and all wording.
- Trending: how the signals are measured and weighted (a run finds a creator
  worth one number), boosts, the quality multiplier, lanes, markets and presets.
  Applications: the score of a fit (a set of creators a brief). Staff: the
  library's sessions. A claimant's role is asked once.
- Everything listed under "Outside the models", each with its reason in
  `PROJECT.json`. Most of the remaining source is rendering (Svelte pages),
  validation, seeds, generated or vendored scripts and formulas over read-only
  data, which keep no state whose order could go wrong.

## Plan

Done, in order: BookingDomain, BookingRow, Escrow with its runs and proofs;
Payouts with its runs and proofs; Refunds, Cancellation; Disputes; Settlement;
Agreement and its proofs; Delivery; Deposit, checked as a property of Escrow and
Cancellation and proved of both; Trending; Applications, Claims and Staff with
their proofs; the proofs of Delivery, Cancellation, Disputes, Settlement and
the board of Trending.

Next:

1. *Model.* An abstract specification of what a payout promises, implemented by
   Payouts under the assumptions of `OnePressPaysOnce`. Small modules for the
   maintenance jobs' lock and run record, the rate limiter's window, channel
   ownership codes and the document numbers. Commission and split arithmetic as
   operators checked against the statement that the three parts add up to the price.
2. *Prove.* The abstract payout once it is stated, and the operators of the split.
