------------------------------ MODULE MCTrending -------------------------------
(* Trending on three creators, two of them newcomers, and two slots. *)
EXTENDS Trending

CONSTANTS r1, r2

OneRun == {r1}
TwoRuns == {r1, r2}

ThreeCreators == 1 .. 3
TwoNewcomers == {2, 3}

(* The first two share a category. *)
Categories == [c \in ThreeCreators |-> {<<"category", IF c = 3 THEN 2 ELSE 1>>}]

NoCaps == [key \in CapKeys |-> 0]
OneEach == [NoCaps EXCEPT !["category"] = 1]

Settings ==
  [mode |-> "hybrid", slots |-> 2, pinnedFirst |-> TRUE, caps |-> NoCaps,
   maxNewPerRun |-> 0, newcomerSlots |-> 2, incumbentBonus |-> 0,
   maxTenureDays |-> 1, cooldownDays |-> 1, autoRefresh |-> TRUE]

(* Every slot for a newcomer; a cap and a limit on new faces; the boxes.   *)
Saved ==
  { Settings,
    [Settings EXCEPT !.caps = OneEach, !.maxNewPerRun = 1, !.newcomerSlots = 1],
    [Settings EXCEPT !.mode = "manual", !.slots = 1, !.maxTenureDays = 0] }

(* The newcomers score least; or one scores most and one is out of reach.  *)
Found ==
  { [c \in ThreeCreators |-> 4 - c],
    [c \in ThreeCreators |-> IF c = 2 THEN Ineligible ELSE c] }

InManualMode == {<<"manual", 3>>}

-------------------------------------------------------------------------------
(* Four creators: the last two are newcomers.                              *)

FourCreators == 1 .. 4
LastTwo == {3, 4}
InOrderOfIds == {[c \in FourCreators |-> 5 - c]}

PinsAnywhere ==
  {[Settings EXCEPT !.pinnedFirst = FALSE, !.newcomerSlots = 1, !.maxTenureDays = 0]}

(* The two who fill the slots are in categories of their own.              *)
OwnCategories == [c \in FourCreators |-> {<<"category", IF c = 4 THEN 3 ELSE c>>}]

AnyBox == {<<"hybrid", 4>>}

CapOfOne == {[Settings EXCEPT !.caps = OneEach, !.maxTenureDays = 0]}

Either == PinsAnywhere \cup CapOfOne
===============================================================================
