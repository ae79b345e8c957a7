---------------------------- MODULE TrendingBoard -----------------------------
(***************************************************************************)
(* The board a run publishes, as a function of what the run has read:      *)
(* buildBoard of lib/server/trending-service.ts, step by step and in its   *)
(* order.  The signals are abstracted to one measured score a creator; the *)
(* places a diversity cap counts to groups, named <<kind, value>>.         *)
(***************************************************************************)
EXTENDS Integers, FiniteSets, SequencesExt

CONSTANTS
  Creators,   \* profiles, by id: an id breaks a tie of two scores
  GroupsOf,   \* the groups in which a creator takes a place
  Newcomers   \* the profiles young enough for a reserved slot

ASSUME CreatorsAssumption == Creators \subseteq Nat /\ IsFiniteSet(Creators)
CapKeys == {"category", "country", "city", "tier", "platform"}

ASSUME GroupsAssumption == GroupsOf \in [Creators -> SUBSET (CapKeys \X Nat)]
ASSUME NewcomersAssumption == Newcomers \subseteq Creators

(* What gatherCandidates finds instead of a score. *)
Unlisted == -1    \* the profile is hidden: no candidate at all
Ineligible == 0   \* a rule of the settings keeps the creator out

OverrideKinds == {"none", "pin", "block"}
NoOverride == [kind |-> "none", position |-> 0]

(* Every element of S, each after those that come before it.               *)
Arranged(S, before) ==
  [k \in 1 .. Cardinality(S) |->
    CHOOSE x \in S : Cardinality({y \in S : <<y, x>> \in before}) = k - 1]

(* in: config, overrides, resting, incumbents, measured and ticked. *)
Candidates(in) == {c \in Creators : in.measured[c] # Unlisted}

Hybrid(in) == in.config.mode = "hybrid"

Pinned(in) == {c \in Candidates(in) : in.overrides[c].kind = "pin"}
Blocked(in) == {c \in Creators : in.overrides[c].kind = "block"}

(* A pin without a position comes after those that have one. *)
Place(in, c) == IF in.overrides[c].position = 0 THEN 999 ELSE in.overrides[c].position

PinOrder(in) ==
  Arranged(Pinned(in), {p \in Creators \X Creators :
    \/ Place(in, p[1]) < Place(in, p[2])
    \/ Place(in, p[1]) = Place(in, p[2]) /\ p[1] < p[2]})

(* Rest binds the ranking, not a pin. *)
PinnedIds(in) == IF Hybrid(in) THEN Pinned(in) ELSE {}

Rankable(in) ==
  {c \in Candidates(in) : /\ in.measured[c] # Ineligible
                          /\ c \notin Blocked(in)
                          /\ c \in in.resting => c \in PinnedIds(in)}

(* A creator who holds a slot is worth the bonus of the settings more. *)
Score(in, c) ==
  IF c \notin Rankable(in) THEN 0
  ELSE IF c \in in.incumbents THEN in.measured[c] + in.config.incumbentBonus
  ELSE in.measured[c]

(* Highest first; equal scores in the order of the ids. *)
Precedes(score, other, c, d) == score > other \/ (score = other /\ c < d)

Above(in, c, d) == Precedes(Score(in, c), Score(in, d), c, d)

Ranking(in) ==
  Arranged(Rankable(in), {p \in Creators \X Creators : Above(in, p[1], p[2])})

-------------------------------------------------------------------------------
(* The board in the making: the entries so far, the bench with the reason  *)
(* each creator is on it, those held back by the limit on new faces, and   *)
(* how many new faces were let in.                                         *)

NoBoard == [entries |-> << >>, bench |-> << >>, held |-> << >>, admitted |-> 0]

Seated(b) == {b.entries[i].creator : i \in DOMAIN b.entries}

Full(in, b) == Len(b.entries) >= in.config.slots

Seat(in, b, c, source, reserved) ==
  [b EXCEPT !.entries = Append(@, [creator |-> c, source |-> source, reserved |-> reserved])]

Push(in, b, c, source) ==
  IF c \in Seated(b) \/ Full(in, b) THEN b ELSE Seat(in, b, c, source, FALSE)

Bench(b, c, reason) ==
  [b EXCEPT !.bench = Append(@, [creator |-> c, reason |-> reason])]

(* As long as caps are asked, every entry has taken its places. *)
Places(b, group) == Cardinality({c \in Seated(b) : group \in GroupsOf[c]})

CapReached(in, b, c) ==
  \E group \in GroupsOf[c] :
    LET limit == in.config.caps[group[1]]
    IN limit > 0 /\ Places(b, group) >= limit

PushAll(in, order, source) == FoldLeft(LAMBDA b, c : Push(in, b, c, source), NoBoard, order)

(* The pins that lead, in the order the operators gave them. *)
PinsFirst(in) ==
  PushAll(in, IF Hybrid(in) /\ in.config.pinnedFirst THEN PinOrder(in) ELSE << >>, "pinned")

(* The limit means something only against a board that exists. *)
NewFacesFull(in, b) ==
  /\ in.config.maxNewPerRun > 0
  /\ in.incumbents # {}
  /\ b.admitted >= in.config.maxNewPerRun

RankOne(in, b, c) ==
  LET pinned == c \in PinnedIds(in)
      newFace == ~pinned /\ c \notin in.incumbents
  IN IF c \in Seated(b) THEN b
     ELSE IF ~pinned /\ CapReached(in, b, c) THEN Bench(b, c, "cap")
     ELSE IF Full(in, b) THEN Bench(b, c, "slots")
     ELSE IF newFace /\ NewFacesFull(in, b) THEN [b EXCEPT !.held = Append(@, c)]
     ELSE [Push(in, b, c, IF pinned THEN "pinned" ELSE "algorithm")
             EXCEPT !.admitted = IF newFace THEN @ + 1 ELSE @]

(* A slip: who was held back waits for a later run. *)
BugFillOne(in, b, c) == Bench(b, c, "churn_limit")

(* Slots the incumbents left empty go to those who were held back. *)
FillOne(in, b, c) ==
  IF ~Full(in, b) /\ ~CapReached(in, b, c)
    THEN Push(in, b, c, "algorithm")
    ELSE Bench(b, c, "churn_limit")

Walked(in) == FoldLeft(LAMBDA b, c : RankOne(in, b, c), PinsFirst(in), Ranking(in))

Ranked(in) ==
  LET walked == Walked(in)
  IN FoldLeft(LAMBDA b, c : FillOne(in, b, c), walked, walked.held)

-------------------------------------------------------------------------------
(* Reserved newcomer slots and late pins *)

(* The last entry of a kind leaves the board for the bench. *)
Displace(b, i) == Bench([b EXCEPT !.entries = RemoveAt(@, i)], b.entries[i].creator, "slots")

(* A slip: the last entry is displaced whatever put it there. *)
BugGivesWay(e) == ~e.reserved /\ e.creator \notin Newcomers

(* Who may be displaced for a newcomer: never a pin. *)
GivesWay(e) == e.source = "algorithm" /\ ~e.reserved /\ e.creator \notin Newcomers

(* Benched for room, not by a cap; the best first, ties in bench order. *)
Hopefuls(in, b) ==
  LET rows == {i \in DOMAIN b.bench : /\ b.bench[i].reason \in {"slots", "churn_limit"}
                                      /\ b.bench[i].creator \in Newcomers}
      score(i) == Score(in, b.bench[i].creator)
      order == Arranged(rows, {p \in rows \X rows :
                                 Precedes(score(p[1]), score(p[2]), p[1], p[2])})
  IN [k \in DOMAIN order |-> b.bench[order[k]].creator]

NewcomersShort(in, b) ==
  Cardinality(Seated(b) \cap Newcomers) < in.config.newcomerSlots

(* A slip: a hopeful takes a seat only while one is free. *)
BugReserveOne(in, b, c) ==
  IF NewcomersShort(in, b) /\ ~Full(in, b) THEN Seat(in, b, c, "algorithm", TRUE) ELSE b

ReserveOne(in, b, c) ==
  LET victim == SelectLastInSeq(b.entries, GivesWay)
  IN IF ~NewcomersShort(in, b) THEN b
     ELSE IF ~Full(in, b) THEN Seat(in, b, c, "algorithm", TRUE)
     ELSE IF victim = 0 THEN b
     ELSE Seat(in, Displace(b, victim), c, "algorithm", TRUE)

WithNewcomers(in) ==
  LET ranked == Ranked(in)
  IN FoldLeft(LAMBDA b, c : ReserveOne(in, b, c), ranked, Hopefuls(in, ranked))

PinOne(in, b, c) ==
  LET victim == SelectLastInSeq(b.entries, LAMBDA e : e.source # "pinned")
  IN IF c \in Seated(b) THEN b
     ELSE IF ~Full(in, b) THEN Seat(in, b, c, "pinned", FALSE)
     ELSE IF victim = 0 THEN b
     ELSE Seat(in, Displace(b, victim), c, "pinned", FALSE)

WithLatePins(in) ==
  FoldLeft(LAMBDA b, c : PinOne(in, b, c), WithNewcomers(in),
           IF in.config.pinnedFirst THEN << >> ELSE PinOrder(in))

(* Pins that lead keep their order, the rest is by score. *)
InOrder(in, entries) ==
  LET rows == DOMAIN entries
      leads(i) == in.config.pinnedFirst /\ entries[i].source = "pinned"
      order == Arranged(rows, {p \in rows \X rows :
                 \/ leads(p[1]) /\ (leads(p[2]) => p[1] < p[2])
                 \/ /\ ~leads(p[1]) /\ ~leads(p[2])
                    /\ Above(in, entries[p[1]].creator, entries[p[2]].creator)})
  IN [k \in DOMAIN order |-> entries[order[k]]]

-------------------------------------------------------------------------------
(* Manual mode reads no signal: whoever is ticked, and not blocked. *)
ManualEntries(in) ==
  LET ticked == {c \in Candidates(in) : c \in in.ticked /\ c \notin Blocked(in)}
      order == Arranged(ticked, {p \in ticked \X ticked :
                 Precedes(in.measured[p[1]], in.measured[p[2]], p[1], p[2])})
  IN PushAll(in, order, "manual").entries

BuildBoard(in) ==
  IF in.config.mode = "manual" THEN ManualEntries(in)
  ELSE InOrder(in, IF Hybrid(in) THEN WithLatePins(in).entries ELSE WithNewcomers(in).entries)
===============================================================================
