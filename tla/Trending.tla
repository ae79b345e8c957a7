------------------------------- MODULE Trending --------------------------------
(***************************************************************************)
(* Publishing the trending board: runTrending and maybeAutoRefresh of      *)
(* lib/server/trending-service.ts, beside the operators at                 *)
(* routes/dashboard/admin/trending, who save settings, freeze the board,   *)
(* pin or block creators and end a rest.  A run reads for a while, in      *)
(* separate statements, and then publishes in one transaction.             *)
(*                                                                         *)
(* Time is counted in days.  A run takes seconds, so no day ends while one *)
(* is in flight; the interval of the automatic refresh may end any time.   *)
(***************************************************************************)
EXTENDS TrendingBoard

CONSTANTS
  Runs,          \* the runs that may be in flight together
  Configs,       \* the settings an operator may save
  Measures,      \* what a run may find the creators worth
  Boxes,         \* the profiles whose box an operator uses, with the mode
  Positions,     \* the positions an operator gives a pin; 0 is none
  MaxOverrides,  \* bound on the standing instructions
  MaxAge,        \* bound on the days counted: no setting looks further back
  MayFail        \* whether a query of a run may throw

ConfigType ==
  [mode : {"manual", "automatic", "hybrid"}, slots : Nat \ {0}, pinnedFirst : BOOLEAN,
   caps : [CapKeys -> Nat], maxNewPerRun : Nat, newcomerSlots : Nat, incumbentBonus : Nat,
   maxTenureDays : 0 .. MaxAge, cooldownDays : 1 .. MaxAge, autoRefresh : BOOLEAN]

ASSUME RunBoundsAssumption ==
  /\ 0 \in Positions /\ Positions \subseteq Nat
  /\ MaxOverrides \in Nat /\ MaxAge \in Nat /\ MayFail \in BOOLEAN

(* trendingConfigSchema bounds what is saved; a rest is a day at least. *)
ASSUME ConfigsAssumption == Configs \subseteq ConfigType
ASSUME MeasuresAssumption == Measures \subseteq [Creators -> Int]

VARIABLES
  config,           \* trending_config
  frozen,           \* trending_config.is_frozen
  due,              \* whether the refresh interval ended since last_run_at
  overrides,        \* trending_overrides: one standing instruction a creator
  entries,          \* trending_entries in rank order, with their days of tenure
  ticked,           \* the creators with is_trending set
  rest,             \* trending_cooldowns: the days of rest left
  refreshInFlight,  \* the lock of the automatic refresh, in memory
  run               \* the runs in flight

settings == <<config, frozen, overrides>>
published == <<entries, ticked, rest, due>>
trendingVars == <<settings, published, refreshInFlight, run>>

Idle == [op |-> "idle"]

At(r, op) == run[r].op = op
Goto(r, state) == run' = [run EXCEPT ![r] = state]

Holders(list) == {list[i].creator : i \in DOMAIN list}

Overrides == [kind : OverrideKinds, position : Positions]

Entries ==
  [creator : Creators, source : {"pinned", "algorithm", "manual"}, reserved : BOOLEAN,
   days : 0 .. MaxAge]

TrendingInit ==
  /\ config \in Configs
  /\ frozen = FALSE
  /\ due = TRUE
  /\ overrides = [c \in Creators |-> NoOverride]
  /\ entries = << >>
  /\ ticked = {}
  /\ rest = [c \in Creators |-> 0]
  /\ refreshInFlight = FALSE
  /\ run = [r \in Runs |-> Idle]

-------------------------------------------------------------------------------
(* The operators and the clock *)

(* ensureTrendingConfig has made the row; every save writes all of it, the *)
(* freeze of the form included, and publishes unless that says frozen.     *)
Save(r) ==
  /\ run[r] = Idle
  /\ config' \in Configs
  /\ frozen' \in BOOLEAN
  /\ IF frozen' THEN UNCHANGED run ELSE Goto(r, [op |-> "run.config", auto |-> FALSE])
  /\ UNCHANGED <<overrides, published, refreshInFlight>>

(* The value written is the opposite of one read before; a stale read only *)
(* writes what is there already.                                           *)
Freeze ==
  /\ frozen' = ~frozen
  /\ UNCHANGED <<config, overrides, published, refreshInFlight, run>>

(* One row a creator: a new instruction replaces the old.  Neither this    *)
(* nor its removal publishes.                                              *)
SetOverride(c) ==
  /\ \E o \in Overrides :
       /\ o.kind # "pin" => o = [NoOverride EXCEPT !.kind = o.kind]
       /\ overrides' = [overrides EXCEPT ![c] = o]
  /\ overrides' # overrides
  /\ Cardinality({d \in Creators : overrides'[d].kind # "none"}) <= MaxOverrides
  /\ UNCHANGED <<config, frozen, published, refreshInFlight, run>>

ClearCooldown(c) ==
  /\ rest[c] > 0
  /\ rest' = [rest EXCEPT ![c] = 0]
  /\ UNCHANGED <<settings, entries, ticked, due, refreshInFlight, run>>

(* The box on the profile form of the operators. *)
Tick(c) ==
  /\ <<config.mode, c>> \in Boxes
  /\ \/ ticked' = ticked \cup {c}
     \/ ticked' = ticked \ {c}
  /\ UNCHANGED <<settings, entries, rest, due, refreshInFlight, run>>

IntervalEnds ==
  /\ ~due
  /\ due' = TRUE
  /\ UNCHANGED <<settings, entries, ticked, rest, refreshInFlight, run>>

DayEnds ==
  /\ \A r \in Runs : run[r] = Idle
  /\ entries' = [i \in DOMAIN entries |->
       IF entries[i].days < MaxAge THEN [entries[i] EXCEPT !.days = @ + 1] ELSE entries[i]]
  /\ rest' = [c \in Creators |-> IF rest[c] > 0 THEN rest[c] - 1 ELSE 0]
  /\ due' = TRUE
  /\ UNCHANGED <<settings, ticked, refreshInFlight, run>>

-------------------------------------------------------------------------------
(* A run *)

(* The button, and runTrending of a save, start here. *)
RunByHand(r) ==
  /\ run[r] = Idle
  /\ Goto(r, [op |-> "run.config", auto |-> FALSE])
  /\ UNCHANGED <<settings, published, refreshInFlight>>

(* maybeAutoRefresh, on every visit of the homepage and by the timer: the  *)
(* lock is looked at, the settings are awaited, the lock is taken.         *)
AutoCheck(r) ==
  /\ run[r] = Idle
  /\ ~refreshInFlight
  /\ Goto(r, [op |-> "auto.config"])
  /\ UNCHANGED <<settings, published, refreshInFlight>>

AutoConfig(r) ==
  /\ At(r, "auto.config")
  /\ LET go == config.autoRefresh /\ ~frozen /\ due IN
       /\ refreshInFlight' = (refreshInFlight \/ go)
       /\ Goto(r, IF go THEN [op |-> "run.config", auto |-> TRUE] ELSE Idle)
  /\ UNCHANGED <<settings, published>>

(* The finally of the automatic run gives the lock back, however it ends. *)
Ends(r) ==
  /\ Goto(r, Idle)
  /\ refreshInFlight' = (refreshInFlight /\ ~run[r].auto)

(* A slip: a run that finds the board frozen keeps the lock. *)
BugEndsFrozen(r) ==
  /\ Goto(r, Idle)
  /\ UNCHANGED refreshInFlight

EndsFrozen(r) == Ends(r)

Reads == {"overrides", "entries", "cooldowns"}

RunConfig(r) ==
  /\ At(r, "run.config")
  /\ \/ frozen /\ EndsFrozen(r)
     \/ /\ ~frozen
        /\ Goto(r, [op |-> "run.read", auto |-> run[r].auto, config |-> config, todo |-> Reads,
                    overrides |-> [c \in Creators |-> NoOverride], previous |-> << >>,
                    resting |-> {}])
        /\ UNCHANGED refreshInFlight
  /\ UNCHANGED <<settings, published>>

(* Statements sent together, answered in any order. *)
RunRead(r, what) ==
  /\ At(r, "run.read")
  /\ what \in run[r].todo
  /\ LET left == [run[r] EXCEPT !.todo = @ \ {what}] IN
       Goto(r, CASE what = "overrides" -> [left EXCEPT !.overrides = overrides]
                 [] what = "entries"   -> [left EXCEPT !.previous = entries]
                 [] what = "cooldowns" -> [left EXCEPT !.resting = {c \in Creators : rest[c] > 0}])
  /\ UNCHANGED <<settings, published, refreshInFlight>>

(* Who held a slot for too long steps down, and rests. *)
RotateOut(state) ==
  IF state.config.maxTenureDays = 0 THEN {}
  ELSE Holders(SelectSeq(state.previous, LAMBDA e : e.days >= state.config.maxTenureDays))

(* A slip: the rest starts with the next run. *)
BugResting(state) == state.resting

Resting(state) == state.resting \cup RotateOut(state)

(* What buildBoard is given; in manual mode it reads the boxes itself. *)
Input(state, m) ==
  [config |-> state.config, overrides |-> state.overrides, resting |-> Resting(state),
   incumbents |-> Holders(state.previous), measured |-> m,
   ticked |-> IF state.config.mode = "manual" THEN ticked ELSE {}]

RunBuild(r) ==
  /\ At(r, "run.read")
  /\ run[r].todo = {}
  /\ \E m \in Measures :
       Goto(r, [op |-> "run.publish", auto |-> run[r].auto, previous |-> run[r].previous,
                rotate |-> RotateOut(run[r]), in |-> Input(run[r], m),
                board |-> BuildBoard(Input(run[r], m))])
  /\ UNCHANGED <<settings, published, refreshInFlight>>

(* Tenure counts from the first appearance on the board the run read. *)
Tenure(previous, c) ==
  LET i == SelectInSeq(previous, LAMBDA e : e.creator = c)
  IN IF i = 0 THEN 0 ELSE previous[i].days

(* The transaction: the board, the flags, the rests and last_run_at. *)
RunPublish(r) ==
  /\ At(r, "run.publish")
  /\ LET board == run[r].board IN
       /\ entries' = [i \in DOMAIN board |->
            [creator |-> board[i].creator, source |-> board[i].source,
             reserved |-> board[i].reserved,
             days |-> Tenure(run[r].previous, board[i].creator)]]
       /\ ticked' = Holders(board)
  /\ rest' = [c \in Creators |->
       IF c \in run[r].rotate THEN run[r].in.config.cooldownDays ELSE rest[c]]
  /\ due' = FALSE
  /\ Ends(r)
  /\ UNCHANGED settings

(* A query throws, or the transaction is rolled back. *)
RunFails(r) ==
  /\ MayFail
  /\ run[r].op \in {"run.config", "run.read", "run.publish"}
  /\ Ends(r)
  /\ UNCHANGED <<settings, published>>

-------------------------------------------------------------------------------
TrendingNext ==
  \/ Freeze \/ IntervalEnds \/ DayEnds
  \/ \E c \in Creators : SetOverride(c) \/ ClearCooldown(c) \/ Tick(c)
  \/ \E r \in Runs :
       \/ Save(r) \/ RunByHand(r) \/ AutoCheck(r)
       \/ AutoConfig(r) \/ RunConfig(r) \/ RunBuild(r) \/ RunPublish(r) \/ RunFails(r)
       \/ \E what \in Reads : RunRead(r, what)

TrendingSpec == TrendingInit /\ [][TrendingNext]_trendingVars

-------------------------------------------------------------------------------
(* Every variable keeps its type: the rows of the trending tables, the     *)
(* lock and the runs of trending-service.ts; no creator holds two slots    *)
(* and no board is longer than its settings ever asked.                    *)
TrendingTypeOK ==
  /\ config \in Configs /\ Configs \subseteq ConfigType
  /\ {frozen, due, refreshInFlight} \subseteq BOOLEAN
  /\ overrides \in [Creators -> Overrides]
  /\ Holders(entries) \subseteq Creators /\ ticked \subseteq Creators
  /\ \A i \in DOMAIN entries : entries[i] \in Entries
  /\ Cardinality(Holders(entries)) = Len(entries)
  /\ \E c \in Configs : Len(entries) <= c.slots
  /\ rest \in [Creators -> 0 .. MaxAge]
  /\ \A r \in Runs : run[r].op \in {"idle", "auto.config", "run.config", "run.read", "run.publish"}

(* The board a run is about to publish, for the properties of buildBoard.  *)
Planned(P(_, _)) ==
  \A r \in Runs : At(r, "run.publish") => P(run[r].in, run[r].board)

(* Pins that lead all have a slot, as long as there are slots for them: no *)
(* diversity cap, no rest, no limit on new faces and no slot kept for a    *)
(* newcomer costs a pin its place.                                         *)
PinsKeepTheirSeats ==
  Planned(LAMBDA in, board :
    Hybrid(in) /\ in.config.pinnedFirst /\ Cardinality(Pinned(in)) <= in.config.slots
      => Pinned(in) \subseteq Holders(board))

(* The slots kept for newcomers are theirs: while fewer sit on the board   *)
(* than were asked for, either the pins and the newcomers themselves hold  *)
(* every slot, or each newcomer left out was met by a full diversity cap.  *)
NewcomersGetIn ==
  Planned(LAMBDA in, board :
    \/ in.config.mode = "manual"
    \/ Cardinality(Holders(board) \cap Newcomers) >= in.config.newcomerSlots
    \/ \A i \in DOMAIN board : ~GivesWay(board[i])
    \/ \A c \in (Newcomers \cap Rankable(in)) \ Holders(board) :
         \E i \in DOMAIN Ranked(in).bench :
           Ranked(in).bench[i] = [creator |-> c, reason |-> "cap"])

(* No slot stays empty for the sake of the limit on new faces: a creator   *)
(* who may be ranked and is not on a board with room has a full cap.       *)
NoSlotIsWasted ==
  Planned(LAMBDA in, board :
    Len(board) < in.config.slots /\ in.config.mode # "manual"
      => \A c \in Rankable(in) \ Holders(board) :
           CapReached(in, [NoBoard EXCEPT !.entries = board], c))

(* Whom the ranking put on the board does not rest: the run that ends a    *)
(* tenure takes the slot away, and no later run gives it back before the   *)
(* rest is over or an operator ends it, whatever is saved in between.      *)
RestIsKept ==
  \A i \in DOMAIN entries : entries[i].source = "algorithm" => rest[entries[i].creator] = 0

(* The lock in memory is never left behind: while it is taken, a run of    *)
(* the automatic refresh is still to give it back.  A lock nobody holds    *)
(* would end the refresh until the process is restarted.                   *)
LockIsGivenBack ==
  refreshInFlight => \E r \in Runs : run[r].op \notin {"idle", "auto.config"} /\ run[r].auto

-------------------------------------------------------------------------------
(* What the code or its documentation says and the code does not do. *)

(* Pins that need not lead: that setting "still guarantees the slot".      *)
PinsAreGuaranteed ==
  Planned(LAMBDA in, board :
    Hybrid(in) /\ Cardinality(Pinned(in)) <= in.config.slots
      => Pinned(in) \subseteq Holders(board))

(* The emergency stop "hold[s] the board exactly as it is". *)
FrozenBoardHolds == [][frozen => UNCHANGED entries]_trendingVars

(* The lock "keeps concurrent requests from starting several at once". *)
OneAutoRun ==
  \A r, s \in Runs :
    run[r].op \notin {"idle", "auto.config"} /\ run[s].op \notin {"idle", "auto.config"}
      => r = s \/ ~run[r].auto \/ ~run[s].auto

(* "At most three per category has to mean three". *)
CapsMeanWhatTheySay ==
  Planned(LAMBDA in, board :
    \A c \in Holders(board) : \A group \in GroupsOf[c] :
      LET limit == in.config.caps[group[1]]
          held == {d \in Holders(board) : group \in GroupsOf[d]}
      IN limit > 0 /\ Cardinality(held) > limit => held \subseteq Pinned(in))

(* "the badge on a card and the strip on the homepage cannot disagree". *)
BadgesFollowTheBoard == run = [r \in Runs |-> Idle] => ticked = Holders(entries)
===============================================================================
