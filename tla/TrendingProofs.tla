----------------------------- MODULE TrendingProofs ----------------------------
(***************************************************************************)
(* What TLAPS proves of Trending and TrendingBoard, for any number of      *)
(* runs, creators, slots and settings: the lock of the automatic refresh   *)
(* is never left behind, every row keeps its type, and the boards a run    *)
(* publishes keep what they promise to pins, newcomers, the ranked and     *)
(* those who rest.                                                         *)
(*                                                                         *)
(* buildBoard is five folds.  A fold is followed as a walk: the board      *)
(* after each creator satisfies an invariant that says where everybody     *)
(* met so far is (Opening, Walking, Waits, Hoping), and IntervalSet        *)
(* carries it from the first place to the last.                            *)
(***************************************************************************)
EXTENDS Trending, FunctionTheorems, FiniteSetTheorems, WellFoundedInduction,
        SequenceTheorems, TLAPS

-------------------------------------------------------------------------------
(* The lock of the automatic refresh. *)

(* Every run keeps its place: a step moves one of them. *)
OneEachRun == run = [r \in Runs |-> run[r]]

LockInv == OneEachRun /\ LockIsGivenBack

(* A run under way: past the look at the lock. *)
UnderWay(r) == run[r].op \notin {"idle", "auto.config"}

(* A step that moves no run and leaves the lock alone keeps the invariant. *)
LEMMA LockUntouched ==
  ASSUME LockInv, UNCHANGED <<refreshInFlight, run>>
  PROVE  LockInv'
BY DEF LockInv, OneEachRun, LockIsGivenBack

(* One run moves on, as automatic as it was; the lock stays as it is. *)
LEMMA LockMoves ==
  ASSUME NEW r \in Runs, NEW state, LockInv, Goto(r, state), UNCHANGED refreshInFlight,
         run[r].op \in {"idle", "auto.config"} \/ state.auto = run[r].auto,
         state.op \notin {"idle", "auto.config"} \/ run[r].op \in {"idle", "auto.config"}
  PROVE  LockInv'
<1>1. OneEachRun' /\ run'[r] = state /\ \A s \in Runs \ {r} : run'[s] = run[s]
  BY DEF LockInv, OneEachRun, Goto
<1>2. LockIsGivenBack'
  <2> SUFFICES ASSUME refreshInFlight
               PROVE  \E s \in Runs : run'[s].op \notin {"idle", "auto.config"} /\ run'[s].auto
    BY DEF LockIsGivenBack
  <2>1. PICK s \in Runs : run[s].op \notin {"idle", "auto.config"} /\ run[s].auto
    BY DEF LockInv, LockIsGivenBack
  <2>2. CASE s = r
    BY <1>1, <2>1, <2>2
  <2>3. CASE s # r
    BY <1>1, <2>1, <2>3
  <2> QED BY <2>2, <2>3
<1> QED BY <1>1, <1>2 DEF LockInv

(* The end of a run gives the lock back exactly when the run was to. *)
LEMMA LockEnds ==
  ASSUME NEW r \in Runs, LockInv, Ends(r)
  PROVE  LockInv'
<1>1. OneEachRun' /\ \A s \in Runs \ {r} : run'[s] = run[s]
  BY DEF LockInv, OneEachRun, Ends, Goto
<1>2. LockIsGivenBack'
  BY <1>1 DEF LockInv, LockIsGivenBack, Ends
<1> QED BY <1>1, <1>2 DEF LockInv

(* The look at the settings: the run starts with the lock, or not at all. *)
LEMMA LockTaken ==
  ASSUME NEW r \in Runs, LockInv, AutoConfig(r)
  PROVE  LockInv'
<1> DEFINE go == config.autoRefresh /\ ~frozen /\ due
<1>1. /\ refreshInFlight' = (refreshInFlight \/ go)
      /\ Goto(r, IF go THEN [op |-> "run.config", auto |-> TRUE] ELSE Idle)
      /\ run[r].op = "auto.config"
  BY DEF AutoConfig, At
<1>2. /\ OneEachRun'
      /\ run'[r] = IF go THEN [op |-> "run.config", auto |-> TRUE] ELSE Idle
      /\ \A s \in Runs \ {r} : run'[s] = run[s]
  BY <1>1 DEF LockInv, OneEachRun, Goto
<1>3. CASE go
  <2>1. run'[r].op = "run.config" /\ run'[r].auto
    BY <1>2, <1>3
  <2> QED BY <1>2, <2>1 DEF LockInv, LockIsGivenBack
<1>4. CASE ~go
  BY <1>1, <1>2, <1>4 DEF LockInv, LockIsGivenBack
<1> QED BY <1>3, <1>4

(* Every step of a run, and of the operators who start one. *)
LEMMA LockOfARun ==
  ASSUME NEW r \in Runs, LockInv,
         \/ Save(r) \/ RunByHand(r) \/ AutoCheck(r) \/ AutoConfig(r)
         \/ RunConfig(r) \/ RunBuild(r) \/ RunPublish(r) \/ RunFails(r)
         \/ \E what \in Reads : RunRead(r, what)
  PROVE  LockInv'
<1>1. CASE Save(r)
  <2>1. CASE frozen'
    BY <1>1, <2>1, LockUntouched DEF Save, published
  <2>2. CASE ~frozen'
    <3> DEFINE state == [op |-> "run.config", auto |-> FALSE]
    <3>1. Goto(r, state) /\ UNCHANGED refreshInFlight /\ run[r].op = "idle"
      BY <1>1, <2>2 DEF Save, Idle
    <3>2. state.op = "run.config"
      OBVIOUS
    <3> QED BY <3>1, <3>2, LockMoves
  <2> QED BY <2>1, <2>2
<1>2. CASE RunByHand(r)
  <2> DEFINE state == [op |-> "run.config", auto |-> FALSE]
  <2>1. Goto(r, state) /\ UNCHANGED refreshInFlight /\ run[r].op = "idle"
    BY <1>2 DEF RunByHand, Idle
  <2> QED BY <2>1, LockMoves
<1>3. CASE AutoCheck(r)
  <2> DEFINE state == [op |-> "auto.config"]
  <2>1. Goto(r, state) /\ UNCHANGED refreshInFlight /\ run[r].op = "idle"
    BY <1>3 DEF AutoCheck, Idle
  <2> QED BY <2>1, LockMoves
<1>4. CASE AutoConfig(r)
  BY <1>4, LockTaken
<1>5. CASE RunConfig(r)
  <2>1. CASE EndsFrozen(r)
    BY <2>1, LockEnds DEF EndsFrozen
  <2>2. CASE ~EndsFrozen(r)
    <3> DEFINE state == [op |-> "run.read", auto |-> run[r].auto, config |-> config, todo |-> Reads,
                         overrides |-> [c \in Creators |-> NoOverride], previous |-> << >>,
                         resting |-> {}]
    <3>1. Goto(r, state) /\ UNCHANGED refreshInFlight
      BY <1>5, <2>2 DEF RunConfig
    <3>2. state.op = "run.read" /\ state.auto = run[r].auto
      OBVIOUS
    <3> HIDE DEF state
    <3> QED BY <3>1, <3>2, LockMoves
  <2> QED BY <2>1, <2>2
<1>6. CASE RunBuild(r)
  <2>1. PICK m \in Measures :
       Goto(r, [op |-> "run.publish", auto |-> run[r].auto, previous |-> run[r].previous,
                rotate |-> RotateOut(run[r]), in |-> Input(run[r], m),
                board |-> BuildBoard(Input(run[r], m))])
    BY <1>6 DEF RunBuild
  <2>2. UNCHANGED refreshInFlight
    BY <1>6 DEF RunBuild
  <2> DEFINE state == [op |-> "run.publish", auto |-> run[r].auto, previous |-> run[r].previous,
                       rotate |-> RotateOut(run[r]), in |-> Input(run[r], m),
                       board |-> BuildBoard(Input(run[r], m))]
  <2>3. Goto(r, state) /\ state.op = "run.publish" /\ state.auto = run[r].auto
    BY <2>1
  <2> HIDE DEF state
  <2> QED BY <2>2, <2>3, LockMoves
<1>7. CASE RunPublish(r)
  BY <1>7, LockEnds DEF RunPublish
<1>8. CASE RunFails(r)
  BY <1>8, LockEnds DEF RunFails
<1>9. CASE \E what \in Reads : RunRead(r, what)
  <2>1. PICK what \in Reads : RunRead(r, what)
    BY <1>9
  <2> DEFINE left == [run[r] EXCEPT !.todo = @ \ {what}]
             state == CASE what = "overrides" -> [left EXCEPT !.overrides = overrides]
                        [] what = "entries"   -> [left EXCEPT !.previous = entries]
                        [] what = "cooldowns" -> [left EXCEPT !.resting = {c \in Creators : rest[c] > 0}]
  <2>2. Goto(r, state) /\ UNCHANGED refreshInFlight /\ run[r].op = "run.read"
    BY <2>1 DEF RunRead, At
  <2>3. state.op = run[r].op /\ state.auto = run[r].auto
    BY DEF Reads
  <2> HIDE DEF state
  <2> QED BY <2>2, <2>3, LockMoves
<1> QED BY <1>1, <1>2, <1>3, <1>4, <1>5, <1>6, <1>7, <1>8, <1>9

(* maybeAutoRefresh: however the runs interleave, fail or find the board   *)
(* frozen, a lock that is taken belongs to a run that will give it back.   *)
THEOREM LockAlwaysGivenBack == TrendingSpec => []LockIsGivenBack
<1>1. TrendingInit => LockInv
  BY DEF TrendingInit, LockInv, OneEachRun, LockIsGivenBack
<1>2. LockInv /\ [TrendingNext]_trendingVars => LockInv'
  <2> SUFFICES ASSUME LockInv, [TrendingNext]_trendingVars
               PROVE  LockInv'
    OBVIOUS
  <2>1. CASE Freeze \/ IntervalEnds \/ DayEnds
    BY <2>1, LockUntouched DEF Freeze, IntervalEnds, DayEnds, published, settings
  <2>2. ASSUME NEW c \in Creators, SetOverride(c) \/ ClearCooldown(c) \/ Tick(c)
        PROVE  LockInv'
    BY <2>2, LockUntouched DEF SetOverride, ClearCooldown, Tick
  <2>3. ASSUME NEW r \in Runs,
               \/ Save(r) \/ RunByHand(r) \/ AutoCheck(r) \/ AutoConfig(r)
               \/ RunConfig(r) \/ RunBuild(r) \/ RunPublish(r) \/ RunFails(r)
               \/ \E what \in Reads : RunRead(r, what)
        PROVE  LockInv'
    BY <2>3, LockOfARun
  <2>4. CASE UNCHANGED trendingVars
    BY <2>4, LockUntouched DEF trendingVars
  <2> QED BY <2>1, <2>2, <2>3, <2>4 DEF TrendingNext
<1>3. LockInv => LockIsGivenBack
  BY DEF LockInv
<1> QED BY <1>1, <1>2, <1>3, PTL DEF TrendingSpec

-------------------------------------------------------------------------------
(* Folds and sorts.                                                          *)
(* FoldLeft is a fold over the set of places of a sequence, and the library  *)
(* leaves its values to a CHOOSE: what follows shows that they exist and are *)
(* those of a walk from the first place to the last.                         *)

(* Induction, as a fact about sets of numbers: the theorems of the library *)
(* take a predicate, which the provers cannot instantiate.                 *)
LEMMA NatSet ==
  ASSUME NEW T, 0 \in T, \A n \in Nat : n \in T => n + 1 \in T
  PROVE  Nat \subseteq T
<1> DEFINE U == Nat \ T
           R == {p \in Nat \X Nat : p[1] < p[2]}
<1>1. IsWellFoundedOn(R, Nat)
  BY NatLessThanWellFounded, Zenon DEF OpToRel
<1> SUFFICES ASSUME U # {} PROVE FALSE
  OBVIOUS
<1>2. PICK x \in U : \A y \in U : ~(<<y, x>> \in R)
  <2> HIDE DEF R
  <2> QED BY <1>1, WFMin
<1>3. x # 0 /\ x - 1 \in Nat
  OBVIOUS
<1>4. x - 1 \notin U
  <2>1. <<x - 1, x>> \in R
    BY <1>3
  <2> HIDE DEF U, R
  <2> QED BY <2>1, <1>2
<1> QED BY <1>3, <1>4

(* The same up to a bound: the form in which every walk below is followed. *)
LEMMA IntervalSet ==
  ASSUME NEW n \in Nat, NEW T, 0 \in T, \A i \in 0 .. n - 1 : i \in T => i + 1 \in T
  PROVE  0 .. n \subseteq T
<1> DEFINE U == T \cup {i \in Nat : i > n}
<1>1. 0 \in U /\ \A i \in Nat : i \in U => i + 1 \in U
  OBVIOUS
<1>2. Nat \subseteq U
  <2> HIDE DEF U
  <2> QED BY <1>1, NatSet
<1> QED BY <1>2

(* Max of FiniteSetsExt returns a greatest element. *)
LEMMA MaxIs ==
  ASSUME NEW n \in Nat, NEW S \in SUBSET (1 .. n), S # {}
  PROVE  Max(S) \in S /\ \A x \in S : x <= Max(S)
<1> SUFFICES \E x \in S : \A y \in S : x >= y
  BY DEF Max
<1> DEFINE U == {k \in Nat : n - k \in S}
           R == {p \in Nat \X Nat : p[1] < p[2]}
<1>1. IsWellFoundedOn(R, Nat)
  BY NatLessThanWellFounded, Zenon DEF OpToRel
<1>2. U # {} /\ U \subseteq Nat
  <2>1. PICK s \in S : TRUE
    OBVIOUS
  <2>2. n - s \in Nat /\ n - (n - s) = s
    OBVIOUS
  <2> QED BY <2>2
<1>3. PICK k \in U : \A y \in U : ~(<<y, k>> \in R)
  <2> HIDE DEF R, U
  <2> QED BY <1>1, <1>2, WFMin
<1>4. ASSUME NEW y \in S, y > n - k
      PROVE  FALSE
  <2>1. n - y \in Nat /\ n - (n - y) = y /\ n - y < k
    BY <1>4
  <2>2. n - y \in U
    BY <2>1
  <2> QED BY <2>1, <2>2, <1>3
<1> QED BY <1>3, <1>4

(* h folds the step G over the first n places, from the last to the first; *)
(* w is the same fold as a walk, from the first place to the last.         *)
IsFold(h, A, n, base, G) ==
  /\ h \in [SUBSET (1 .. n) -> A]
  /\ \A t \in SUBSET (1 .. n) :
       h[t] = IF t = {} THEN base ELSE G[<<h[t \ {Max(t)}], Max(t)>>]

FoldsOn(k, A, n, base, G) ==
  /\ k[{}] = base
  /\ \A t \in SUBSET (1 .. n) : t # {} /\ k[t \ {Max(t)}] \in A
       => k[t] = G[<<k[t \ {Max(t)}], Max(t)>>]

IsWalk(w, A, n, base, last, G) ==
  /\ w \in [0 .. n -> A] /\ w[0] = base /\ w[n] = last
  /\ \A i \in 1 .. n : w[i] = G[<<w[i - 1], i>>]

(* Every fold has its values, whatever its step: by induction on the number *)
(* of places.                                                               *)
LEMMA FoldExists ==
  ASSUME NEW A, NEW n \in Nat, NEW base \in A, NEW G \in [A \X (1 .. n) -> A]
  PROVE  \E h : IsFold(h, A, n, base, G)
<1> USE DEF IsFold
<1> DEFINE Folds(m, h) == IsFold(h, A, m, base, G)
           T == {m \in 0 .. n : \E h : Folds(m, h)}
<1>1. 0 \in T
  <2> DEFINE k == [t \in SUBSET (1 .. 0) |-> base]
  <2>1. 1 .. 0 = {} /\ 0 \in 0 .. n
    OBVIOUS
  <2>2. Folds(0, k)
    BY <2>1
  <2> HIDE DEF k, Folds
  <2> QED BY <2>1, <2>2
<1>2. ASSUME NEW m \in 0 .. n - 1, m \in T
      PROVE  m + 1 \in T
  <2>1. PICK h : Folds(m, h)
    BY <1>2
  <2> DEFINE S == SUBSET (1 .. m + 1)
             k == [t \in S |-> IF m + 1 \in t THEN G[<<h[t \ {m + 1}], m + 1>>] ELSE h[t]]
  <2>2. \A t \in S : /\ m + 1 \notin t => t \in SUBSET (1 .. m)
                     /\ t \ {m + 1} \in SUBSET (1 .. m)
    OBVIOUS
  <2>3. \A t \in SUBSET (1 .. m) : t \in S /\ m + 1 \notin t /\ h[t] \in A
    BY <2>1
  <2>4. k \in [S -> A]
    BY <2>2, <2>3
  <2>5. ASSUME NEW t \in S
        PROVE  k[t] = IF t = {} THEN base ELSE G[<<k[t \ {Max(t)}], Max(t)>>]
    <3>1. CASE m + 1 \in t
      <4>1. m + 1 \in Nat /\ t \in SUBSET (1 .. m + 1) /\ t # {}
        BY <3>1
      <4>2. Max(t) = m + 1
        <5>1. Max(t) \in t /\ \A x \in t : x <= Max(t)
          BY <4>1, MaxIs
        <5>2. Max(t) \in 1 .. m + 1 /\ m + 1 <= Max(t)
          BY <5>1, <4>1, <3>1
        <5> QED BY <5>2
      <4>3. k[t \ {m + 1}] = h[t \ {m + 1}]
        BY <2>2, <2>3
      <4> QED BY <4>1, <4>2, <4>3, <3>1
    <3>2. CASE m + 1 \notin t
      <4>1. t \in SUBSET (1 .. m) /\ k[t] = h[t]
        BY <3>2, <2>2
      <4>2. CASE t = {}
        BY <4>1, <4>2, <2>1
      <4>3. CASE t # {}
        <5>1. t \ {Max(t)} \in SUBSET (1 .. m)
          BY <4>1
        <5>2. k[t \ {Max(t)}] = h[t \ {Max(t)}]
          BY <5>1, <2>3
        <5>3. h[t] = G[<<h[t \ {Max(t)}], Max(t)>>]
          BY <4>1, <4>3, <2>1
        <5> QED BY <4>1, <4>3, <5>2, <5>3
      <4> QED BY <4>2, <4>3
    <3> QED BY <3>1, <3>2
  <2> HIDE DEF k
  <2>6. Folds(m + 1, k)
    BY <2>4, <2>5
  <2>7. m + 1 \in 0 .. n
    OBVIOUS
  <2> HIDE DEF Folds
  <2> QED BY <2>6, <2>7
<1>3. n \in T
  <2> HIDE DEF T
  <2>1. 0 .. n \subseteq T
    BY <1>1, <1>2, IntervalSet
  <2> QED BY <2>1
<1>4. PICK h : Folds(n, h)
  BY <1>3
<1> QED BY <1>4

(* What a fold returns is the last of a row of values, each the step of the *)
(* one before.                                                              *)
LEMMA FoldWalks ==
  ASSUME NEW A, NEW n \in Nat, NEW base \in A, NEW G \in [A \X (1 .. n) -> A], NEW k,
         FoldsOn(k, A, n, base, G)
  PROVE  \E w : IsWalk(w, A, n, base, k[1 .. n], G)
<1> USE DEF FoldsOn
<1> DEFINE w == [i \in 0 .. n |-> k[1 .. i]]
<1>1. w[n] = k[1 .. n]
  OBVIOUS
<1>2. w[0] = base
  <2>1. 1 .. 0 = {} /\ 0 \in 0 .. n
    OBVIOUS
  <2> QED BY <2>1
<1>3. ASSUME NEW i \in 1 .. n, w[i - 1] \in A
      PROVE  w[i] = G[<<w[i - 1], i>>] /\ w[i] \in A
  <2>1. i \in Nat /\ i - 1 \in 0 .. n /\ i \in 0 .. n /\ i \in 1 .. i
    OBVIOUS
  <2>2. Max(1 .. i) = i
    <3>1. 1 .. i \in SUBSET (1 .. i) /\ 1 .. i # {}
      BY <2>1
    <3>2. Max(1 .. i) \in 1 .. i /\ \A x \in 1 .. i : x <= Max(1 .. i)
      BY <2>1, <3>1, MaxIs
    <3> QED BY <3>2, <2>1
  <2>3. (1 .. i) \ {i} = 1 .. i - 1
    BY <2>1
  <2>4. k[(1 .. i) \ {Max(1 .. i)}] = w[i - 1]
    BY <2>1, <2>2, <2>3
  <2>5. k[1 .. i] = G[<<k[(1 .. i) \ {Max(1 .. i)}], Max(1 .. i)>>]
    <3>1. 1 .. i \in SUBSET (1 .. n)
      OBVIOUS
    <3>2. 1 .. i # {}
      BY <2>1
    <3> QED BY <3>1, <3>2, <2>4, <1>3
  <2> QED BY <2>1, <2>2, <2>4, <2>5, <1>3
<1>4. 0 .. n \subseteq {i \in 0 .. n : w[i] \in A}
  <2> DEFINE T == {i \in 0 .. n : w[i] \in A}
  <2>1. 0 \in T
    BY <1>2
  <2>2. ASSUME NEW i \in 0 .. n - 1, i \in T
        PROVE  i + 1 \in T
    <3>1. i + 1 \in 1 .. n /\ (i + 1) - 1 = i /\ w[i] \in A /\ i + 1 \in 0 .. n
      BY <2>2
    <3>2. w[i + 1] \in A
      <4> HIDE DEF w
      <4> QED BY <3>1, <1>3
    <3> QED BY <3>1, <3>2
  <2>3. 0 .. n \subseteq T
    <3> HIDE DEF T
    <3> QED BY <2>1, <2>2, IntervalSet
  <2> QED BY <2>3
<1>5. w \in [0 .. n -> A]
  BY <1>4
<1>6. \A i \in 1 .. n : w[i] = G[<<w[i - 1], i>>]
  <2> SUFFICES ASSUME NEW i \in 1 .. n PROVE w[i] = G[<<w[i - 1], i>>]
    OBVIOUS
  <2>1. w[i - 1] \in A
    <3>1. i - 1 \in 0 .. n
      OBVIOUS
    <3> HIDE DEF w
    <3> QED BY <3>1, <1>4
  <2> HIDE DEF w
  <2> QED BY <2>1, <1>3
<1> HIDE DEF w
<1> QED BY <1>1, <1>2, <1>5, <1>6 DEF IsWalk

(* A relation that orders S strictly and totally. *)
Orders(R, S) ==
  /\ \A x \in S : <<x, x>> \notin R
  /\ \A x, y \in S : x = y \/ <<x, y>> \in R \/ <<y, x>> \in R
  /\ \A x, y, z \in S : <<x, y>> \in R /\ <<y, z>> \in R => <<x, z>> \in R

(* Arranged lists every element of a finite set once, whatever strict total *)
(* order the sorts of lib/domain/trending.ts are given.                     *)
LEMMA ArrangedIs ==
  ASSUME NEW S, IsFiniteSet(S), NEW R, Orders(R, S)
  PROVE  /\ Cardinality(S) \in Nat
         /\ Arranged(S, R) \in [1 .. Cardinality(S) -> S]
         /\ Arranged(S, R) \in Seq(S)
         /\ Len(Arranged(S, R)) = Cardinality(S)
         /\ \A x \in S : \E k \in 1 .. Cardinality(S) : Arranged(S, R)[k] = x
         /\ \A j, k \in 1 .. Cardinality(S) :
              Arranged(S, R)[j] = Arranged(S, R)[k] => j = k
<1> DEFINE n == Cardinality(S)
           below(x) == {y \in S : <<y, x>> \in R}
           rank == [x \in S |-> Cardinality(below(x)) + 1]
<1>1. n \in Nat
  BY FS_CardinalityType
<1>2. \A x \in S : IsFiniteSet(below(x)) /\ Cardinality(below(x)) \in Nat
  <2> SUFFICES ASSUME NEW x \in S PROVE IsFiniteSet(below(x)) /\ Cardinality(below(x)) \in Nat
    OBVIOUS
  <2>1. below(x) \in SUBSET S
    OBVIOUS
  <2>2. IsFiniteSet(below(x))
    BY <2>1, FS_Subset
  <2> QED BY <2>2, FS_CardinalityType
<1>3. ASSUME NEW x \in S, NEW y \in S, <<x, y>> \in R
      PROVE  Cardinality(below(x)) < Cardinality(below(y))
  <2>1. below(x) \cup {x} \in SUBSET below(y) /\ x \notin below(x)
    BY <1>3 DEF Orders
  <2>2. Cardinality(below(x) \cup {x}) = Cardinality(below(x)) + 1
    <3> HIDE DEF below
    <3> QED BY <2>1, <1>2, FS_AddElement
  <2>3. Cardinality(below(x) \cup {x}) <= Cardinality(below(y))
    <3> HIDE DEF below
    <3> QED BY <2>1, <1>2, FS_Subset
  <2> HIDE DEF below
  <2> QED BY <2>2, <2>3, <1>2
<1>4. \A x \in S : rank[x] \in 1 .. n
  <2> SUFFICES ASSUME NEW x \in S PROVE rank[x] \in 1 .. n
    OBVIOUS
  <2>1. below(x) \in SUBSET (S \ {x})
    BY DEF Orders
  <2>2. IsFiniteSet(S \ {x}) /\ Cardinality(S \ {x}) = n - 1
    BY FS_RemoveElement
  <2>3. Cardinality(below(x)) <= n - 1
    <3> HIDE DEF below
    <3> QED BY <2>1, <2>2, FS_Subset
  <2> HIDE DEF below
  <2> QED BY <2>3, <1>1, <1>2
<1>5. \A x, y \in S : rank[x] = rank[y] => x = y
  <2> SUFFICES ASSUME NEW x \in S, NEW y \in S, x # y PROVE rank[x] # rank[y]
    OBVIOUS
  <2>1. <<x, y>> \in R \/ <<y, x>> \in R
    BY DEF Orders
  <2> HIDE DEF below
  <2> QED BY <2>1, <1>2, <1>3
<1>6. rank \in Injection(S, 1 .. n)
  <2>1. rank \in [S -> 1 .. n]
    BY <1>4
  <2> HIDE DEF rank
  <2> QED BY <2>1, <1>5, Fun_IsInj
<1>7. rank \in Surjection(S, 1 .. n)
  <2>1. IsFiniteSet(1 .. n) /\ Cardinality(1 .. n) = n
    BY <1>1, FS_Interval
  <2> HIDE DEF rank
  <2> QED BY <1>6, <2>1, FS_Injection
<1>8. \A k \in 1 .. n : \E x \in S : rank[x] = k
  <2> HIDE DEF rank
  <2> QED BY <1>7, Fun_SurjectionProperties
<1> DEFINE a == Arranged(S, R)
<1>9. \A k \in 1 .. n : a[k] \in S /\ rank[a[k]] = k
  <2> SUFFICES ASSUME NEW k \in 1 .. n PROVE a[k] \in S /\ rank[a[k]] = k
    OBVIOUS
  <2>1. PICK x \in S : rank[x] = k
    BY <1>8
  <2>2. Cardinality(below(x)) = k - 1
    <3> HIDE DEF below
    <3> QED BY <2>1, <1>1, <1>2
  <2>3. a[k] = CHOOSE y \in S : Cardinality(below(y)) = k - 1
    BY DEF Arranged
  <2>4. a[k] \in S /\ Cardinality(below(a[k])) = k - 1
    <3> HIDE DEF below, a
    <3> QED BY <2>2, <2>3
  <2> HIDE DEF below, a
  <2> QED BY <2>4, <1>1
<1>10. a \in [1 .. n -> S]
  BY <1>9 DEF Arranged
<1>11. a \in Seq(S) /\ Len(a) = n
  <2> HIDE DEF a
  <2> QED BY <1>1, <1>10
<1> HIDE DEF a, rank
<1>12. \A x \in S : \E k \in 1 .. n : a[k] = x
  BY <1>4, <1>5, <1>9
<1>13. \A j, k \in 1 .. n : a[j] = a[k] => j = k
  BY <1>9
<1> QED BY <1>1, <1>10, <1>11, <1>12, <1>13 DEF a

-------------------------------------------------------------------------------
(* The parts of a board. *)

BoardEntry == [creator : Creators, source : {"pinned", "algorithm", "manual"}, reserved : BOOLEAN]
BenchRow == [creator : Creators, reason : {"cap", "slots", "churn_limit"}]

Boards ==
  [entries : Seq(BoardEntry), bench : Seq(BenchRow), held : Seq(Creators), admitted : Nat]

GoodInput(in) ==
  /\ in.config \in ConfigType
  /\ in.overrides \in [Creators -> Overrides]
  /\ in.measured \in [Creators -> Int]

(* Rows that differ only in a place differ in the creator. *)
Distinct(rows) ==
  \A i, j \in DOMAIN rows : rows[i].creator = rows[j].creator => i = j

Members(rows) == {rows[i] : i \in DOMAIN rows}

Entry(c, source, reserved) == [creator |-> c, source |-> source, reserved |-> reserved]
Row(c, reason) == [creator |-> c, reason |-> reason]

(* The creators of the entries, read off the entries. *)
LEMMA SeatedAre ==
  ASSUME NEW b \in Boards
  PROVE  /\ Seated(b) = {e.creator : e \in Members(b.entries)}
         /\ Seated(b) \subseteq Creators /\ IsFiniteSet(Seated(b))
         /\ DOMAIN b.entries = 1 .. Len(b.entries) /\ Len(b.entries) \in Nat
         /\ Members(b.entries) \subseteq BoardEntry
<1>1. b.entries \in Seq(BoardEntry)
  BY DEF Boards
<1>2. DOMAIN b.entries = 1 .. Len(b.entries) /\ Len(b.entries) \in Nat
  BY <1>1
<1>3. \A i \in DOMAIN b.entries : b.entries[i] \in BoardEntry
  BY <1>1
<1>4. Seated(b) \subseteq Creators
  BY <1>3 DEF Seated, BoardEntry
<1>5. IsFiniteSet(Seated(b))
  BY <1>4, CreatorsAssumption, FS_Subset
<1> QED BY <1>2, <1>3, <1>4, <1>5 DEF Seated, Members

(* d is b with one more entry. *)
Gains(b, d, e) ==
  /\ d \in Boards /\ d.bench = b.bench /\ d.held = b.held
  /\ Len(d.entries) = Len(b.entries) + 1
  /\ \A r : r \in Members(d.entries) <=> r \in Members(b.entries) \/ r = e
  /\ Seated(d) = Seated(b) \cup {e.creator}
  /\ Distinct(b.entries) /\ e.creator \notin Seated(b) => Distinct(d.entries)

(* entries.push of buildBoard: one entry more, and nothing else. *)
LEMMA SeatIs ==
  ASSUME NEW in, NEW b \in Boards, NEW c \in Creators,
         NEW source \in {"pinned", "algorithm", "manual"}, NEW reserved \in BOOLEAN,
         NEW d, d = Seat(in, b, c, source, reserved)
  PROVE  Gains(b, d, Entry(c, source, reserved))
<1> DEFINE e == Entry(c, source, reserved)
<1>1. /\ b.entries \in Seq(BoardEntry) /\ e \in BoardEntry
      /\ d.entries = Append(b.entries, e)
      /\ d.bench = b.bench /\ d.held = b.held /\ d.admitted = b.admitted
  BY DEF Boards, BoardEntry, Seat, Entry
<1>2. d \in Boards
  <2>1. d.entries \in Seq(BoardEntry)
    BY <1>1
  <2> QED BY <1>1, <2>1 DEF Boards, Seat
<1> HIDE DEF e
<1>3. /\ Len(b.entries) \in Nat
      /\ Len(d.entries) = Len(b.entries) + 1
      /\ DOMAIN b.entries = 1 .. Len(b.entries)
      /\ DOMAIN d.entries = 1 .. Len(b.entries) + 1
      /\ \A i \in 1 .. Len(b.entries) : d.entries[i] = b.entries[i]
      /\ d.entries[Len(b.entries) + 1] = e
  BY <1>1
<1>4. \A r : r \in Members(d.entries) <=> r \in Members(b.entries) \/ r = e
  BY <1>3 DEF Members
<1>5. Seated(d) = Seated(b) \cup {c}
  <2>1. e.creator = c
    BY DEF e, Entry
  <2> QED BY <1>2, <1>4, <2>1, SeatedAre
<1>6. ASSUME Distinct(b.entries), c \notin Seated(b)
      PROVE  Distinct(d.entries)
  <2>1. e.creator = c /\ \A i \in 1 .. Len(b.entries) : b.entries[i].creator # c
    BY <1>6, <1>3 DEF e, Seated, Entry
  <2> QED BY <1>3, <1>6, <2>1 DEF Distinct
<1>7. e.creator = c
  BY DEF e, Entry
<1>8. Gains(b, d, e)
  BY <1>1, <1>2, <1>3, <1>4, <1>5, <1>6, <1>7 DEF Gains
<1> QED BY <1>8 DEF e

(* d is b with one more row on the bench. *)
Benches(b, d, r) ==
  /\ d \in Boards /\ d.entries = b.entries /\ d.held = b.held
  /\ Seated(d) = Seated(b)
  /\ \A q : q \in Members(d.bench) <=> q \in Members(b.bench) \/ q = r
  /\ Distinct(b.bench) /\ (\A q \in Members(b.bench) : q.creator # r.creator)
       => Distinct(d.bench)

(* A row on the bench: one more, and the board as it was. *)
LEMMA BenchIs ==
  ASSUME NEW b \in Boards, NEW c \in Creators, NEW reason \in {"cap", "slots", "churn_limit"},
         NEW d, d = Bench(b, c, reason)
  PROVE  Benches(b, d, Row(c, reason))
<1> DEFINE e == Row(c, reason)
<1>1. /\ b.bench \in Seq(BenchRow) /\ e \in BenchRow
      /\ d.bench = Append(b.bench, e)
      /\ d.entries = b.entries /\ d.held = b.held /\ d.admitted = b.admitted
  BY DEF Boards, BenchRow, Bench, Row
<1>2. d \in Boards
  <2>1. d.bench \in Seq(BenchRow)
    BY <1>1
  <2> QED BY <1>1, <2>1 DEF Boards, Bench
<1> HIDE DEF e
<1>3. /\ Len(b.bench) \in Nat
      /\ Len(d.bench) = Len(b.bench) + 1
      /\ DOMAIN b.bench = 1 .. Len(b.bench)
      /\ DOMAIN d.bench = 1 .. Len(b.bench) + 1
      /\ \A i \in 1 .. Len(b.bench) : d.bench[i] = b.bench[i]
      /\ d.bench[Len(b.bench) + 1] = e
  BY <1>1
<1>4. \A r : r \in Members(d.bench) <=> r \in Members(b.bench) \/ r = e
  BY <1>3 DEF Members
<1>5. Seated(d) = Seated(b)
  BY <1>1 DEF Seated
<1>6. ASSUME Distinct(b.bench), \A r \in Members(b.bench) : r.creator # c
      PROVE  Distinct(d.bench)
  <2>1. e.creator = c
    BY DEF e, Row
  <2>2. \A i \in 1 .. Len(b.bench) : b.bench[i].creator # c
    BY <1>6, <1>3 DEF Members
  <2>3. Distinct(b.bench)
    BY <1>6
  <2> QED BY <1>3, <2>1, <2>2, <2>3 DEF Distinct
<1>7. e.creator = c
  BY DEF e, Row
<1>8. Benches(b, d, e)
  BY <1>1, <1>2, <1>4, <1>5, <1>6, <1>7 DEF Benches
<1> QED BY <1>8 DEF e

(* entries.splice(at, 1): the entries behind move one place up. *)
LEMMA RemoveAtIs ==
  ASSUME NEW E, NEW s \in Seq(E), NEW i \in 1 .. Len(s), NEW r, r = RemoveAt(s, i)
  PROVE  /\ r \in Seq(E) /\ Len(r) = Len(s) - 1
         /\ \A k \in 1 .. Len(s) - 1 : r[k] = IF k < i THEN s[k] ELSE s[k + 1]
<1> DEFINE front == SubSeq(s, 1, i - 1)
           back == SubSeq(s, i + 1, Len(s))
<1>1. Len(s) \in Nat /\ i \in Nat
  OBVIOUS
<1>2. front \in Seq(E) /\ Len(front) = i - 1 /\ \A k \in 1 .. i - 1 : front[k] = s[k]
  BY <1>1
<1>3. /\ back \in Seq(E) /\ Len(back) = Len(s) - i
      /\ \A k \in 1 .. Len(s) - i : back[k] = s[k + i]
  BY <1>1
<1>4. r = front \o back
  BY DEF RemoveAt
<1> HIDE DEF front, back
<1>5. r \in Seq(E) /\ Len(r) = Len(s) - 1
  <2>1. front \o back \in Seq(E)
    BY <1>2, <1>3
  <2>2. Len(front \o back) = Len(front) + Len(back)
    BY <1>2, <1>3, ConcatProperties
  <2>3. (i - 1) + (Len(s) - i) = Len(s) - 1
    BY <1>1
  <2> QED BY <2>1, <2>2, <2>3, <1>2, <1>3, <1>4
<1>6. ASSUME NEW k \in 1 .. Len(s) - 1
      PROVE  r[k] = IF k < i THEN s[k] ELSE s[k + 1]
  <2>1. CASE k < i
    BY <1>1, <1>2, <1>3, <1>4, <2>1
  <2>2. CASE ~(k < i)
    <3>1. k - (i - 1) \in 1 .. Len(s) - i
      BY <2>2, <1>1
    <3>2. r[k] = back[k - (i - 1)]
      BY <1>1, <1>2, <1>3, <1>4, <2>2
    <3> QED BY <3>1, <3>2, <1>3, <1>1, <2>2
  <2> QED BY <2>1, <2>2
<1> QED BY <1>5, <1>6

(* displace of buildBoard: one entry leaves and is benched, and nobody else. *)
LEMMA DisplaceIs ==
  ASSUME NEW b \in Boards, NEW i \in DOMAIN b.entries, NEW d, d = Displace(b, i)
  PROVE  /\ d \in Boards /\ d.held = b.held
         /\ Len(d.entries) = Len(b.entries) - 1
         /\ Members(d.entries) \cup {b.entries[i]} = Members(b.entries)
         /\ b.entries[i].creator \in Creators
         /\ \A r : r \in Members(d.bench) <=> r \in Members(b.bench) \/ r = Row(b.entries[i].creator, "slots")
         /\ Distinct(b.entries) => Distinct(d.entries)
<1> DEFINE a == [b EXCEPT !.entries = RemoveAt(@, i)]
           c == b.entries[i].creator
<1>1. /\ b.entries \in Seq(BoardEntry) /\ DOMAIN b.entries = 1 .. Len(b.entries)
      /\ Len(b.entries) \in Nat /\ i \in 1 .. Len(b.entries)
  BY SeatedAre DEF Boards
<1>2. c \in Creators
  <2>1. b.entries[i] \in BoardEntry
    BY <1>1
  <2> QED BY <2>1 DEF BoardEntry
<1>3. /\ a.entries = RemoveAt(b.entries, i)
      /\ a.bench = b.bench /\ a.held = b.held /\ a.admitted = b.admitted
  BY DEF Boards
<1>4. /\ a.entries \in Seq(BoardEntry) /\ Len(a.entries) = Len(b.entries) - 1
      /\ \A k \in 1 .. Len(b.entries) - 1 :
           a.entries[k] = IF k < i THEN b.entries[k] ELSE b.entries[k + 1]
  BY <1>1, <1>3, RemoveAtIs
<1>5. a \in Boards
  BY <1>3, <1>4 DEF Boards
<1>6. d = Bench(a, c, "slots")
  BY DEF Displace
<1> HIDE DEF a, c
<1>7. /\ d \in Boards /\ d.entries = a.entries /\ d.held = b.held
      /\ \A r : r \in Members(d.bench) <=> r \in Members(b.bench) \/ r = Row(c, "slots")
  <2>1. /\ d \in Boards /\ d.entries = a.entries /\ d.held = a.held
        /\ \A r : r \in Members(d.bench) <=> r \in Members(a.bench) \/ r = Row(c, "slots")
    <3>1. PICK aa, cc : aa = a /\ cc = c
      OBVIOUS
    <3>2. aa \in Boards /\ cc \in Creators /\ d = Bench(aa, cc, "slots")
      BY <3>1, <1>2, <1>5, <1>6
    <3>3. Benches(aa, d, Row(cc, "slots"))
      BY <3>2, BenchIs
    <3> QED BY <3>1, <3>3 DEF Benches
  <2> QED BY <2>1, <1>3
<1>8. Members(a.entries) \cup {b.entries[i]} = Members(b.entries)
  <2>1. DOMAIN a.entries = 1 .. Len(b.entries) - 1
    BY <1>4
  <2>2. \A k \in 1 .. Len(b.entries) - 1 :
          \E m \in 1 .. Len(b.entries) : a.entries[k] = b.entries[m]
    <3> SUFFICES ASSUME NEW k \in 1 .. Len(b.entries) - 1
                 PROVE  \E m \in 1 .. Len(b.entries) : a.entries[k] = b.entries[m]
      OBVIOUS
    <3>1. k \in 1 .. Len(b.entries) /\ k + 1 \in 1 .. Len(b.entries)
      BY <1>1
    <3> QED BY <3>1, <1>4
  <2>3. ASSUME NEW m \in 1 .. Len(b.entries), m # i
        PROVE  \E k \in 1 .. Len(b.entries) - 1 : a.entries[k] = b.entries[m]
    <3>1. CASE m < i
      BY <3>1, <1>1, <1>4
    <3>2. CASE m > i
      <4>1. m - 1 \in 1 .. Len(b.entries) - 1 /\ ~(m - 1 < i) /\ (m - 1) + 1 = m
        BY <3>2, <1>1
      <4> QED BY <4>1, <1>4
    <3> QED BY <2>3, <3>1, <3>2, <1>1
  <2>4. Members(a.entries) \cup {b.entries[i]} \subseteq Members(b.entries)
    BY <1>1, <2>1, <2>2 DEF Members
  <2>5. Members(b.entries) \subseteq Members(a.entries) \cup {b.entries[i]}
    BY <1>1, <2>1, <2>3 DEF Members
  <2> QED BY <2>4, <2>5
<1>9. ASSUME Distinct(b.entries)
      PROVE  Distinct(a.entries)
  <2>1. DOMAIN a.entries = 1 .. Len(b.entries) - 1
    BY <1>4
  <2> SUFFICES ASSUME NEW j \in 1 .. Len(b.entries) - 1, NEW k \in 1 .. Len(b.entries) - 1,
                      a.entries[j].creator = a.entries[k].creator
               PROVE  j = k
    BY <2>1 DEF Distinct
  <2> DEFINE at(m) == IF m < i THEN m ELSE m + 1
  <2>2. at(j) \in DOMAIN b.entries /\ at(k) \in DOMAIN b.entries
    BY <1>1
  <2>3. a.entries[j] = b.entries[at(j)] /\ a.entries[k] = b.entries[at(k)]
    BY <1>4
  <2>4. at(j) = at(k)
    <3> HIDE DEF at
    <3> QED BY <1>9, <2>2, <2>3 DEF Distinct
  <2> QED BY <2>4, <1>1
<1> QED BY <1>2, <1>4, <1>7, <1>8, <1>9 DEF c

(* The step that keeps a slot for a newcomer, by what it does. *)
Reserves(in, b, c, d) ==
  \/ /\ d = b
     /\ ~NewcomersShort(in, b)
  \/ /\ d = b
     /\ Full(in, b) /\ \A e \in Members(b.entries) : ~GivesWay(e)
  \/ /\ NewcomersShort(in, b) /\ ~Full(in, b)
     /\ d = Seat(in, b, c, "algorithm", TRUE)
  \/ /\ NewcomersShort(in, b) /\ Full(in, b)
     /\ \E i \in DOMAIN b.entries :
          /\ GivesWay(b.entries[i])
          /\ d = Seat(in, Displace(b, i), c, "algorithm", TRUE)

(* The step for a newcomer is one of four. *)
LEMMA ReserveIs ==
  ASSUME NEW in, NEW b \in Boards, NEW c, NEW d, d = ReserveOne(in, b, c)
  PROVE  Reserves(in, b, c, d)
<1> DEFINE I == {i \in 1 .. Len(b.entries) : GivesWay(b.entries[i])}
           victim == IF I # {} THEN Max(I) ELSE 0
<1>1. d = IF ~NewcomersShort(in, b) THEN b
          ELSE IF ~Full(in, b) THEN Seat(in, b, c, "algorithm", TRUE)
          ELSE IF victim = 0 THEN b
          ELSE Seat(in, Displace(b, victim), c, "algorithm", TRUE)
  BY DEF ReserveOne, SelectLastInSeq
<1>2. DOMAIN b.entries = 1 .. Len(b.entries) /\ Len(b.entries) \in Nat
  BY SeatedAre
<1>3. I # {} => victim \in I
  BY <1>2, MaxIs
<1>4. I = {} => \A e \in Members(b.entries) : ~GivesWay(e)
  BY <1>2 DEF Members
<1>5. I # {} => victim \in DOMAIN b.entries /\ GivesWay(b.entries[victim]) /\ victim # 0
  BY <1>2, <1>3
<1>6. I = {} => victim = 0
  OBVIOUS
<1> HIDE DEF I, victim
<1> QED BY <1>1, <1>4, <1>5, <1>6 DEF Reserves

(* The step that seats a pin, by what it does. *)
Pins(in, b, c, d) ==
  \/ d = b
  \/ /\ c \notin Seated(b) /\ ~Full(in, b)
     /\ d = Seat(in, b, c, "pinned", FALSE)
  \/ /\ c \notin Seated(b) /\ Full(in, b)
     /\ \E i \in DOMAIN b.entries :
          /\ b.entries[i].source # "pinned"
          /\ d = Seat(in, Displace(b, i), c, "pinned", FALSE)

(* The step for a late pin is one of three. *)
LEMMA PinIs ==
  ASSUME NEW in, NEW b \in Boards, NEW c, NEW d, d = PinOne(in, b, c)
  PROVE  Pins(in, b, c, d)
<1> DEFINE I == {i \in 1 .. Len(b.entries) : b.entries[i].source # "pinned"}
           victim == IF I # {} THEN Max(I) ELSE 0
<1>1. d = IF c \in Seated(b) THEN b
          ELSE IF ~Full(in, b) THEN Seat(in, b, c, "pinned", FALSE)
          ELSE IF victim = 0 THEN b
          ELSE Seat(in, Displace(b, victim), c, "pinned", FALSE)
  BY DEF PinOne, SelectLastInSeq
<1>2. DOMAIN b.entries = 1 .. Len(b.entries) /\ Len(b.entries) \in Nat
  BY SeatedAre
<1>3. I # {} => victim \in I
  BY <1>2, MaxIs
<1>5. I # {} => victim \in DOMAIN b.entries /\ b.entries[victim].source # "pinned" /\ victim # 0
  BY <1>2, <1>3
<1>6. I = {} => victim = 0
  OBVIOUS
<1> HIDE DEF I, victim
<1> QED BY <1>1, <1>5, <1>6 DEF Pins

(* push of buildBoard: refused, or a seat. *)
LEMMA PushIs ==
  ASSUME NEW in, NEW b \in Boards, NEW c \in Creators,
         NEW source \in {"pinned", "algorithm", "manual"}, NEW d, d = Push(in, b, c, source)
  PROVE  \/ d = b /\ (c \in Seated(b) \/ Full(in, b))
         \/ c \notin Seated(b) /\ ~Full(in, b) /\ d = Seat(in, b, c, source, FALSE)
BY DEF Push

(* The steps of the walks stay among the boards: a seat taken. *)
LEMMA SeatTyped ==
  ASSUME NEW in, NEW b \in Boards, NEW c \in Creators,
         NEW source \in {"pinned", "algorithm", "manual"}, NEW reserved \in BOOLEAN
  PROVE  Seat(in, b, c, source, reserved) \in Boards
BY SeatIs DEF Gains

(* A seat given up. *)
LEMMA DisplaceTyped ==
  ASSUME NEW b \in Boards, NEW i \in DOMAIN b.entries
  PROVE  Displace(b, i) \in Boards
BY DisplaceIs

(* A creator pushed. *)
LEMMA PushTyped ==
  ASSUME NEW in, NEW b \in Boards, NEW c \in Creators,
         NEW source \in {"pinned", "algorithm", "manual"}
  PROVE  Push(in, b, c, source) \in Boards
BY SeatTyped DEF Push

Ranks(in, b, c, d) ==
  /\ d \in Boards
  /\ \/ c \in Seated(b) /\ d = b
     \/ /\ c \notin Seated(b) /\ c \notin PinnedIds(in) /\ CapReached(in, b, c)
        /\ d = Bench(b, c, "cap")
     \/ c \notin Seated(b) /\ Full(in, b) /\ d = Bench(b, c, "slots")
     \/ /\ c \notin Seated(b) /\ c \notin PinnedIds(in) /\ ~Full(in, b)
        /\ d.entries = b.entries /\ d.bench = b.bench /\ d.held = Append(b.held, c)
     \/ /\ c \notin Seated(b) /\ ~Full(in, b)
        /\ \E a \in Boards, source \in {"pinned", "algorithm"} :
             /\ source = "pinned" <=> c \in PinnedIds(in)
             /\ a = Seat(in, b, c, source, FALSE)
             /\ d.entries = a.entries /\ d.bench = a.bench /\ d.held = a.held

(* The step of the ranking is one of five. *)
LEMMA RankIs ==
  ASSUME NEW in, NEW b \in Boards, NEW c \in Creators, NEW d, d = RankOne(in, b, c)
  PROVE  Ranks(in, b, c, d)
<1> DEFINE pinned == c \in PinnedIds(in)
           newFace == ~pinned /\ c \notin in.incumbents
           source == IF pinned THEN "pinned" ELSE "algorithm"
           a == Push(in, b, c, source)
<1>1. d = IF c \in Seated(b) THEN b
          ELSE IF ~pinned /\ CapReached(in, b, c) THEN Bench(b, c, "cap")
          ELSE IF Full(in, b) THEN Bench(b, c, "slots")
          ELSE IF newFace /\ NewFacesFull(in, b) THEN [b EXCEPT !.held = Append(@, c)]
          ELSE [a EXCEPT !.admitted = IF newFace THEN @ + 1 ELSE @]
  BY DEF RankOne
<1>2. a \in Boards
  <2>1. source \in {"pinned", "algorithm", "manual"}
    OBVIOUS
  <2> HIDE DEF source
  <2> QED BY <2>1, PushTyped
<1>3. CASE c \in Seated(b)
  BY <1>1, <1>3 DEF Ranks
<1>4. CASE c \notin Seated(b) /\ ~pinned /\ CapReached(in, b, c)
  <2>1. d = Bench(b, c, "cap")
    BY <1>1, <1>4
  <2>2. d \in Boards
    BY <2>1, BenchIs DEF Benches
  <2> QED BY <2>1, <2>2, <1>4 DEF Ranks
<1>5. CASE c \notin Seated(b) /\ ~(~pinned /\ CapReached(in, b, c)) /\ Full(in, b)
  <2>1. d = Bench(b, c, "slots")
    BY <1>1, <1>5
  <2>2. d \in Boards
    BY <2>1, BenchIs DEF Benches
  <2> QED BY <2>1, <2>2, <1>5 DEF Ranks
<1>6. CASE /\ c \notin Seated(b) /\ ~(~pinned /\ CapReached(in, b, c)) /\ ~Full(in, b)
           /\ newFace /\ NewFacesFull(in, b)
  <2>1. d = [b EXCEPT !.held = Append(@, c)]
    BY <1>1, <1>6
  <2>2. Append(b.held, c) \in Seq(Creators)
    BY DEF Boards
  <2>3. d \in Boards /\ d.entries = b.entries /\ d.bench = b.bench /\ d.held = Append(b.held, c)
    BY <2>1, <2>2 DEF Boards
  <2> QED BY <2>3, <1>6 DEF Ranks
<1>7. CASE /\ c \notin Seated(b) /\ ~(~pinned /\ CapReached(in, b, c)) /\ ~Full(in, b)
           /\ ~(newFace /\ NewFacesFull(in, b))
  <2>1. d = [a EXCEPT !.admitted = IF newFace THEN @ + 1 ELSE @]
    BY <1>1, <1>7
  <2>2. d \in Boards /\ d.entries = a.entries /\ d.bench = a.bench /\ d.held = a.held
    <3>1. PICK n : n = IF newFace THEN a.admitted + 1 ELSE a.admitted
      OBVIOUS
    <3>2. n \in Nat /\ d = [a EXCEPT !.admitted = n]
      <4> HIDE DEF a, newFace
      <4>1. a.admitted \in Nat
        BY <1>2 DEF Boards
      <4> QED BY <4>1, <3>1, <2>1
    <3> HIDE DEF a
    <3> QED BY <3>2, <1>2 DEF Boards
  <2>3. a = Seat(in, b, c, source, FALSE)
    BY <1>7 DEF Push
  <2>4. source \in {"pinned", "algorithm"} /\ (source = "pinned" <=> c \in PinnedIds(in))
    OBVIOUS
  <2> HIDE DEF a, source
  <2> QED BY <2>2, <2>3, <2>4, <1>2, <1>7 DEF Ranks
<1> HIDE DEF pinned, newFace
<1> QED BY <1>3, <1>4, <1>5, <1>6, <1>7 DEF Ranks

Fills(in, b, c, d) ==
  /\ d \in Boards
  /\ \/ c \in Seated(b) /\ d = b
     \/ c \notin Seated(b) /\ ~Full(in, b) /\ d = Seat(in, b, c, "algorithm", FALSE)
     \/ (Full(in, b) \/ CapReached(in, b, c)) /\ d = Bench(b, c, "churn_limit")

(* The step for those held back is one of three. *)
LEMMA FillIs ==
  ASSUME NEW in, NEW b \in Boards, NEW c \in Creators, NEW d, d = FillOne(in, b, c)
  PROVE  Fills(in, b, c, d)
<1>1. CASE ~Full(in, b) /\ ~CapReached(in, b, c)
  <2>1. d = Push(in, b, c, "algorithm")
    BY <1>1 DEF FillOne
  <2>2. d \in Boards
    BY <2>1, PushTyped
  <2> QED BY <1>1, <2>1, <2>2, PushIs DEF Fills
<1>2. CASE ~(~Full(in, b) /\ ~CapReached(in, b, c))
  <2>1. d = Bench(b, c, "churn_limit")
    BY <1>2 DEF FillOne
  <2>2. d \in Boards
    BY <2>1, BenchIs DEF Benches
  <2> QED BY <1>2, <2>1, <2>2 DEF Fills
<1> QED BY <1>1, <1>2 DEF Fills

(* The step for a newcomer stays among the boards. *)
LEMMA ReserveTyped ==
  ASSUME NEW in, NEW b \in Boards, NEW c \in Creators, NEW d, d = ReserveOne(in, b, c)
  PROVE  d \in Boards
<1>1. Seat(in, b, c, "algorithm", TRUE) \in Boards
  BY SeatTyped
<1>2. \A i \in DOMAIN b.entries : Seat(in, Displace(b, i), c, "algorithm", TRUE) \in Boards
  BY SeatTyped, DisplaceTyped
<1>3. Reserves(in, b, c, d)
  BY ReserveIs
<1> QED BY <1>1, <1>2, <1>3 DEF Reserves

(* The step for a late pin stays among the boards. *)
LEMMA PinTyped ==
  ASSUME NEW in, NEW b \in Boards, NEW c \in Creators, NEW d, d = PinOne(in, b, c)
  PROVE  d \in Boards
<1>1. Seat(in, b, c, "pinned", FALSE) \in Boards
  BY SeatTyped
<1>2. \A i \in DOMAIN b.entries : Seat(in, Displace(b, i), c, "pinned", FALSE) \in Boards
  BY SeatTyped, DisplaceTyped
<1>3. Pins(in, b, c, d)
  BY PinIs
<1> QED BY <1>1, <1>2, <1>3 DEF Pins

-------------------------------------------------------------------------------
(* The folds of buildBoard are walks.                                      *)
(* w[i] is the board after the first i creators.                           *)

Walk(w, base, last, n) == w \in [0 .. n -> Boards] /\ w[0] = base /\ w[n] = last

(* The pins that lead, or the boxes of manual mode, are pushed one by one. *)
LEMMA PushAllWalks ==
  ASSUME NEW in, NEW seq \in Seq(Creators), NEW base \in Boards, base = NoBoard,
         NEW source \in {"pinned", "algorithm", "manual"}
  PROVE  \E w : /\ Walk(w, base, PushAll(in, seq, source), Len(seq))
                /\ \A i \in 1 .. Len(seq) : w[i] = Push(in, w[i - 1], seq[i], source)
<1> DEFINE P(h) == h = [t \in SUBSET DOMAIN seq |-> IF t = {} THEN base
                          ELSE Push(in, h[t \ {Max(t)}], seq[Max(t)], source)]
<1>1. PICK n : /\ n \in Nat /\ n = Len(seq) /\ DOMAIN seq = 1 .. n
               /\ \A i \in 1 .. n : seq[i] \in Creators
  OBVIOUS
<1>2. PICK G : G = [p \in Boards \X (1 .. n) |-> Push(in, p[1], seq[p[2]], source)]
  OBVIOUS
<1>3. G \in [Boards \X (1 .. n) -> Boards]
  <2>1. \A b \in Boards, i \in 1 .. n : Push(in, b, seq[i], source) \in Boards
    BY <1>1, PushTyped
  <2> QED BY <1>2, <2>1
<1>4. \E h : P(h)
  <2>1. PICK h : IsFold(h, Boards, n, base, G)
    BY <1>1, <1>3, FoldExists
  <2>2. ASSUME NEW t \in SUBSET (1 .. n), t # {}
        PROVE  h[t] = Push(in, h[t \ {Max(t)}], seq[Max(t)], source)
    <3>1. Max(t) \in 1 .. n
      BY <1>1, <2>2, MaxIs
    <3>2. h[t \ {Max(t)}] \in Boards
      BY <2>1 DEF IsFold
    <3> QED BY <1>2, <2>1, <2>2, <3>1, <3>2 DEF IsFold
  <2>3. P(h)
    BY <1>1, <2>1, <2>2 DEF IsFold
  <2> QED BY <2>3
<1>5. PICK k : k = CHOOSE h : P(h)
  OBVIOUS
<1>6. PushAll(in, seq, source) = k[1 .. n]
  BY <1>1, <1>5, Zenon DEF PushAll, FoldLeft, MapThenFoldSet
<1>7. P(k)
  <2> HIDE DEF P
  <2> QED BY <1>4, <1>5
<1>8. FoldsOn(k, Boards, n, base, G)
  <2>1. k[{}] = base
    BY <1>1, <1>7
  <2> SUFFICES ASSUME NEW t \in SUBSET (1 .. n), t # {}, k[t \ {Max(t)}] \in Boards
               PROVE  k[t] = G[<<k[t \ {Max(t)}], Max(t)>>]
    BY <2>1 DEF FoldsOn
  <2>2. Max(t) \in 1 .. n
    BY <1>1, MaxIs
  <2>3. k[t] = Push(in, k[t \ {Max(t)}], seq[Max(t)], source)
    BY <1>1, <1>7
  <2> QED BY <1>2, <2>2, <2>3
<1>9. PICK w : IsWalk(w, Boards, n, base, k[1 .. n], G)
  BY <1>1, <1>3, <1>8, FoldWalks
<1>10. ASSUME NEW i \in 1 .. n
       PROVE  w[i] = Push(in, w[i - 1], seq[i], source)
  <2>1. w[i - 1] \in Boards
    BY <1>1, <1>9 DEF IsWalk
  <2> QED BY <1>2, <1>9, <2>1 DEF IsWalk
<1> QED BY <1>1, <1>6, <1>9, <1>10 DEF Walk, IsWalk

(* The ranking is walked creator by creator. *)
LEMMA WalkedWalks ==
  ASSUME NEW in, NEW seq \in Seq(Creators), seq = Ranking(in),
         NEW base \in Boards, base = PinsFirst(in)
  PROVE  \E w : /\ Walk(w, base, Walked(in), Len(seq))
                /\ \A i \in 1 .. Len(seq) : w[i] = RankOne(in, w[i - 1], seq[i])
<1> DEFINE P(h) == h = [t \in SUBSET DOMAIN seq |-> IF t = {} THEN base
                          ELSE RankOne(in, h[t \ {Max(t)}], seq[Max(t)])]
<1>1. PICK n : /\ n \in Nat /\ n = Len(seq) /\ DOMAIN seq = 1 .. n
               /\ \A i \in 1 .. n : seq[i] \in Creators
  OBVIOUS
<1>2. PICK G : G = [p \in Boards \X (1 .. n) |-> RankOne(in, p[1], seq[p[2]])]
  OBVIOUS
<1>3. G \in [Boards \X (1 .. n) -> Boards]
  <2>1. \A b \in Boards, i \in 1 .. n : RankOne(in, b, seq[i]) \in Boards
    BY <1>1, RankIs DEF Ranks
  <2> QED BY <1>2, <2>1
<1>4. \E h : P(h)
  <2>1. PICK h : IsFold(h, Boards, n, base, G)
    BY <1>1, <1>3, FoldExists
  <2>2. ASSUME NEW t \in SUBSET (1 .. n), t # {}
        PROVE  h[t] = RankOne(in, h[t \ {Max(t)}], seq[Max(t)])
    <3>1. Max(t) \in 1 .. n
      BY <1>1, <2>2, MaxIs
    <3>2. h[t \ {Max(t)}] \in Boards
      BY <2>1 DEF IsFold
    <3> QED BY <1>2, <2>1, <2>2, <3>1, <3>2 DEF IsFold
  <2>3. P(h)
    BY <1>1, <2>1, <2>2 DEF IsFold
  <2> QED BY <2>3
<1>5. PICK k : k = CHOOSE h : P(h)
  OBVIOUS
<1>6. Walked(in) = k[1 .. n]
  BY <1>1, <1>5, Zenon DEF Walked, FoldLeft, MapThenFoldSet
<1>7. P(k)
  <2> HIDE DEF P
  <2> QED BY <1>4, <1>5
<1>8. FoldsOn(k, Boards, n, base, G)
  <2>1. k[{}] = base
    BY <1>1, <1>7
  <2> SUFFICES ASSUME NEW t \in SUBSET (1 .. n), t # {}, k[t \ {Max(t)}] \in Boards
               PROVE  k[t] = G[<<k[t \ {Max(t)}], Max(t)>>]
    BY <2>1 DEF FoldsOn
  <2>2. Max(t) \in 1 .. n
    BY <1>1, MaxIs
  <2>3. k[t] = RankOne(in, k[t \ {Max(t)}], seq[Max(t)])
    BY <1>1, <1>7
  <2> QED BY <1>2, <2>2, <2>3
<1>9. PICK w : IsWalk(w, Boards, n, base, k[1 .. n], G)
  BY <1>1, <1>3, <1>8, FoldWalks
<1>10. ASSUME NEW i \in 1 .. n
       PROVE  w[i] = RankOne(in, w[i - 1], seq[i])
  <2>1. w[i - 1] \in Boards
    BY <1>1, <1>9 DEF IsWalk
  <2> QED BY <1>2, <1>9, <2>1 DEF IsWalk
<1> QED BY <1>1, <1>6, <1>9, <1>10 DEF Walk, IsWalk

(* Those held back are met one by one. *)
LEMMA RankedWalks ==
  ASSUME NEW in, NEW seq \in Seq(Creators), seq = Walked(in).held,
         NEW base \in Boards, base = Walked(in)
  PROVE  \E w : /\ Walk(w, base, Ranked(in), Len(seq))
                /\ \A i \in 1 .. Len(seq) : w[i] = FillOne(in, w[i - 1], seq[i])
<1> DEFINE P(h) == h = [t \in SUBSET DOMAIN seq |-> IF t = {} THEN base
                          ELSE FillOne(in, h[t \ {Max(t)}], seq[Max(t)])]
<1>1. PICK n : /\ n \in Nat /\ n = Len(seq) /\ DOMAIN seq = 1 .. n
               /\ \A i \in 1 .. n : seq[i] \in Creators
  OBVIOUS
<1>2. PICK G : G = [p \in Boards \X (1 .. n) |-> FillOne(in, p[1], seq[p[2]])]
  OBVIOUS
<1>3. G \in [Boards \X (1 .. n) -> Boards]
  <2>1. \A b \in Boards, i \in 1 .. n : FillOne(in, b, seq[i]) \in Boards
    BY <1>1, FillIs DEF Fills
  <2> QED BY <1>2, <2>1
<1>4. \E h : P(h)
  <2>1. PICK h : IsFold(h, Boards, n, base, G)
    BY <1>1, <1>3, FoldExists
  <2>2. ASSUME NEW t \in SUBSET (1 .. n), t # {}
        PROVE  h[t] = FillOne(in, h[t \ {Max(t)}], seq[Max(t)])
    <3>1. Max(t) \in 1 .. n
      BY <1>1, <2>2, MaxIs
    <3>2. h[t \ {Max(t)}] \in Boards
      BY <2>1 DEF IsFold
    <3> QED BY <1>2, <2>1, <2>2, <3>1, <3>2 DEF IsFold
  <2>3. P(h)
    BY <1>1, <2>1, <2>2 DEF IsFold
  <2> QED BY <2>3
<1>5. PICK k : k = CHOOSE h : P(h)
  OBVIOUS
<1>6. Ranked(in) = k[1 .. n]
  BY <1>1, <1>5, Zenon DEF Ranked, FoldLeft, MapThenFoldSet
<1>7. P(k)
  <2> HIDE DEF P
  <2> QED BY <1>4, <1>5
<1>8. FoldsOn(k, Boards, n, base, G)
  <2>1. k[{}] = base
    BY <1>1, <1>7
  <2> SUFFICES ASSUME NEW t \in SUBSET (1 .. n), t # {}, k[t \ {Max(t)}] \in Boards
               PROVE  k[t] = G[<<k[t \ {Max(t)}], Max(t)>>]
    BY <2>1 DEF FoldsOn
  <2>2. Max(t) \in 1 .. n
    BY <1>1, MaxIs
  <2>3. k[t] = FillOne(in, k[t \ {Max(t)}], seq[Max(t)])
    BY <1>1, <1>7
  <2> QED BY <1>2, <2>2, <2>3
<1>9. PICK w : IsWalk(w, Boards, n, base, k[1 .. n], G)
  BY <1>1, <1>3, <1>8, FoldWalks
<1>10. ASSUME NEW i \in 1 .. n
       PROVE  w[i] = FillOne(in, w[i - 1], seq[i])
  <2>1. w[i - 1] \in Boards
    BY <1>1, <1>9 DEF IsWalk
  <2> QED BY <1>2, <1>9, <2>1 DEF IsWalk
<1> QED BY <1>1, <1>6, <1>9, <1>10 DEF Walk, IsWalk

(* The hopefuls are met one by one. *)
LEMMA NewcomersWalk ==
  ASSUME NEW in, NEW seq \in Seq(Creators), seq = Hopefuls(in, Ranked(in)),
         NEW base \in Boards, base = Ranked(in)
  PROVE  \E w : /\ Walk(w, base, WithNewcomers(in), Len(seq))
                /\ \A i \in 1 .. Len(seq) : w[i] = ReserveOne(in, w[i - 1], seq[i])
<1> DEFINE P(h) == h = [t \in SUBSET DOMAIN seq |-> IF t = {} THEN base
                          ELSE ReserveOne(in, h[t \ {Max(t)}], seq[Max(t)])]
<1>1. PICK n : /\ n \in Nat /\ n = Len(seq) /\ DOMAIN seq = 1 .. n
               /\ \A i \in 1 .. n : seq[i] \in Creators
  OBVIOUS
<1>2. PICK G : G = [p \in Boards \X (1 .. n) |-> ReserveOne(in, p[1], seq[p[2]])]
  OBVIOUS
<1>3. G \in [Boards \X (1 .. n) -> Boards]
  <2>1. \A b \in Boards, i \in 1 .. n : ReserveOne(in, b, seq[i]) \in Boards
    BY <1>1, ReserveTyped
  <2> QED BY <1>2, <2>1
<1>4. \E h : P(h)
  <2>1. PICK h : IsFold(h, Boards, n, base, G)
    BY <1>1, <1>3, FoldExists
  <2>2. ASSUME NEW t \in SUBSET (1 .. n), t # {}
        PROVE  h[t] = ReserveOne(in, h[t \ {Max(t)}], seq[Max(t)])
    <3>1. Max(t) \in 1 .. n
      BY <1>1, <2>2, MaxIs
    <3>2. h[t \ {Max(t)}] \in Boards
      BY <2>1 DEF IsFold
    <3> QED BY <1>2, <2>1, <2>2, <3>1, <3>2 DEF IsFold
  <2>3. P(h)
    BY <1>1, <2>1, <2>2 DEF IsFold
  <2> QED BY <2>3
<1>5. PICK k : k = CHOOSE h : P(h)
  OBVIOUS
<1>6. WithNewcomers(in) = k[1 .. n]
  BY <1>1, <1>5, Zenon DEF WithNewcomers, FoldLeft, MapThenFoldSet
<1>7. P(k)
  <2> HIDE DEF P
  <2> QED BY <1>4, <1>5
<1>8. FoldsOn(k, Boards, n, base, G)
  <2>1. k[{}] = base
    BY <1>1, <1>7
  <2> SUFFICES ASSUME NEW t \in SUBSET (1 .. n), t # {}, k[t \ {Max(t)}] \in Boards
               PROVE  k[t] = G[<<k[t \ {Max(t)}], Max(t)>>]
    BY <2>1 DEF FoldsOn
  <2>2. Max(t) \in 1 .. n
    BY <1>1, MaxIs
  <2>3. k[t] = ReserveOne(in, k[t \ {Max(t)}], seq[Max(t)])
    BY <1>1, <1>7
  <2> QED BY <1>2, <2>2, <2>3
<1>9. PICK w : IsWalk(w, Boards, n, base, k[1 .. n], G)
  BY <1>1, <1>3, <1>8, FoldWalks
<1>10. ASSUME NEW i \in 1 .. n
       PROVE  w[i] = ReserveOne(in, w[i - 1], seq[i])
  <2>1. w[i - 1] \in Boards
    BY <1>1, <1>9 DEF IsWalk
  <2> QED BY <1>2, <1>9, <2>1 DEF IsWalk
<1> QED BY <1>1, <1>6, <1>9, <1>10 DEF Walk, IsWalk

LateOrder(in) == IF in.config.pinnedFirst THEN << >> ELSE PinOrder(in)

(* The late pins are met one by one. *)
LEMMA LatePinsWalk ==
  ASSUME NEW in, NEW seq \in Seq(Creators), seq = LateOrder(in),
         NEW base \in Boards, base = WithNewcomers(in)
  PROVE  \E w : /\ Walk(w, base, WithLatePins(in), Len(seq))
                /\ \A i \in 1 .. Len(seq) : w[i] = PinOne(in, w[i - 1], seq[i])
<1> DEFINE P(h) == h = [t \in SUBSET DOMAIN seq |-> IF t = {} THEN base
                          ELSE PinOne(in, h[t \ {Max(t)}], seq[Max(t)])]
<1>1. PICK n : /\ n \in Nat /\ n = Len(seq) /\ DOMAIN seq = 1 .. n
               /\ \A i \in 1 .. n : seq[i] \in Creators
  OBVIOUS
<1>2. PICK G : G = [p \in Boards \X (1 .. n) |-> PinOne(in, p[1], seq[p[2]])]
  OBVIOUS
<1>3. G \in [Boards \X (1 .. n) -> Boards]
  <2>1. \A b \in Boards, i \in 1 .. n : PinOne(in, b, seq[i]) \in Boards
    BY <1>1, PinTyped
  <2> QED BY <1>2, <2>1
<1>4. \E h : P(h)
  <2>1. PICK h : IsFold(h, Boards, n, base, G)
    BY <1>1, <1>3, FoldExists
  <2>2. ASSUME NEW t \in SUBSET (1 .. n), t # {}
        PROVE  h[t] = PinOne(in, h[t \ {Max(t)}], seq[Max(t)])
    <3>1. Max(t) \in 1 .. n
      BY <1>1, <2>2, MaxIs
    <3>2. h[t \ {Max(t)}] \in Boards
      BY <2>1 DEF IsFold
    <3> QED BY <1>2, <2>1, <2>2, <3>1, <3>2 DEF IsFold
  <2>3. P(h)
    BY <1>1, <2>1, <2>2 DEF IsFold
  <2> QED BY <2>3
<1>5. PICK k : k = CHOOSE h : P(h)
  OBVIOUS
<1>6. WithLatePins(in) = k[1 .. n]
  BY <1>1, <1>5, Zenon DEF WithLatePins, LateOrder, FoldLeft, MapThenFoldSet
<1>7. P(k)
  <2> HIDE DEF P
  <2> QED BY <1>4, <1>5
<1>8. FoldsOn(k, Boards, n, base, G)
  <2>1. k[{}] = base
    BY <1>1, <1>7
  <2> SUFFICES ASSUME NEW t \in SUBSET (1 .. n), t # {}, k[t \ {Max(t)}] \in Boards
               PROVE  k[t] = G[<<k[t \ {Max(t)}], Max(t)>>]
    BY <2>1 DEF FoldsOn
  <2>2. Max(t) \in 1 .. n
    BY <1>1, MaxIs
  <2>3. k[t] = PinOne(in, k[t \ {Max(t)}], seq[Max(t)])
    BY <1>1, <1>7
  <2> QED BY <1>2, <2>2, <2>3
<1>9. PICK w : IsWalk(w, Boards, n, base, k[1 .. n], G)
  BY <1>1, <1>3, <1>8, FoldWalks
<1>10. ASSUME NEW i \in 1 .. n
       PROVE  w[i] = PinOne(in, w[i - 1], seq[i])
  <2>1. w[i - 1] \in Boards
    BY <1>1, <1>9 DEF IsWalk
  <2> QED BY <1>2, <1>9, <2>1 DEF IsWalk
<1> QED BY <1>1, <1>6, <1>9, <1>10 DEF Walk, IsWalk

-------------------------------------------------------------------------------
(* The sorts of buildBoard. *)

Lists(s, S) ==
  /\ s \in Seq(S) /\ DOMAIN s = 1 .. Len(s) /\ Len(s) \in Nat
  /\ \A x \in S : \E k \in DOMAIN s : s[k] = x
  /\ \A j, k \in DOMAIN s : s[j] = s[k] => j = k

(* A sort lists what it is given, each once. *)
LEMMA ArrangedLists ==
  ASSUME NEW S, IsFiniteSet(S), NEW R, Orders(R, S)
  PROVE  Lists(Arranged(S, R), S)
<1>1. PICK a, n : a = Arranged(S, R) /\ n = Cardinality(S)
  OBVIOUS
<1>2. /\ n \in Nat /\ a \in Seq(S) /\ Len(a) = n
      /\ \A x \in S : \E k \in 1 .. n : a[k] = x
      /\ \A j, k \in 1 .. n : a[j] = a[k] => j = k
  BY <1>1, ArrangedIs
<1>3. DOMAIN a = 1 .. n
  BY <1>2
<1> QED BY <1>1, <1>2, <1>3 DEF Lists

(* The pins in the order of their positions. *)
LEMMA PinOrderLists ==
  ASSUME NEW in, GoodInput(in)
  PROVE  /\ Pinned(in) \subseteq Creators
         /\ Lists(PinOrder(in), Pinned(in))
<1>1. Pinned(in) \subseteq Creators
  BY DEF Pinned, Candidates
<1>2. IsFiniteSet(Pinned(in))
  BY <1>1, CreatorsAssumption, FS_Subset
<1>3. \A c \in Creators : Place(in, c) \in Int /\ c \in Int
  <2>1. \A c \in Creators : in.overrides[c].position \in Int
    <3>1. \A c \in Creators : in.overrides[c] \in Overrides
      BY DEF GoodInput
    <3>2. \A o \in Overrides : o.position \in Int
      <4>1. \A p \in Positions : p \in Int
        BY RunBoundsAssumption
      <4>2. \A o \in Overrides : o.position \in Positions
        BY DEF Overrides
      <4> QED BY <4>1, <4>2
    <3> QED BY <3>1, <3>2
  <2> QED BY <2>1, CreatorsAssumption DEF Place
<1>4. PICK R : R = {p \in Creators \X Creators :
                      \/ Place(in, p[1]) < Place(in, p[2])
                      \/ Place(in, p[1]) = Place(in, p[2]) /\ p[1] < p[2]}
  OBVIOUS
<1>5. \A c, d \in Creators :
        <<c, d>> \in R <=> \/ Place(in, c) < Place(in, d)
                           \/ Place(in, c) = Place(in, d) /\ c < d
  BY <1>4
<1>6. Orders(R, Pinned(in))
  BY <1>1, <1>3, <1>5 DEF Orders
<1>7. PinOrder(in) = Arranged(Pinned(in), R)
  BY <1>4 DEF PinOrder
<1> QED BY <1>1, <1>2, <1>6, <1>7, ArrangedLists

(* A score is a number. *)
LEMMA ScoreType ==
  ASSUME NEW in, GoodInput(in), NEW c \in Creators
  PROVE  Score(in, c) \in Int
<1>1. in.measured[c] \in Int /\ in.config.incumbentBonus \in Int
  BY DEF GoodInput, ConfigType
<1> QED BY <1>1 DEF Score

(* The ranking: every creator who may be ranked, each once. *)
LEMMA RankingLists ==
  ASSUME NEW in, GoodInput(in)
  PROVE  /\ Rankable(in) \subseteq Creators
         /\ Lists(Ranking(in), Rankable(in))
<1>1. Rankable(in) \subseteq Creators
  BY DEF Rankable, Candidates
<1>2. IsFiniteSet(Rankable(in))
  BY <1>1, CreatorsAssumption, FS_Subset
<1>3. \A c \in Creators : Score(in, c) \in Int /\ c \in Int
  BY ScoreType, CreatorsAssumption
<1>4. PICK R : R = {p \in Creators \X Creators : Above(in, p[1], p[2])}
  OBVIOUS
<1>5. \A c, d \in Creators :
        <<c, d>> \in R <=> \/ Score(in, c) > Score(in, d)
                           \/ Score(in, c) = Score(in, d) /\ c < d
  BY <1>4 DEF Above, Precedes
<1>6. Orders(R, Rankable(in))
  BY <1>1, <1>3, <1>5 DEF Orders
<1>7. Ranking(in) = Arranged(Rankable(in), R)
  BY <1>4 DEF Ranking
<1> QED BY <1>1, <1>2, <1>6, <1>7, ArrangedLists

HopefulRows(b) ==
  {i \in DOMAIN b.bench : /\ b.bench[i].reason \in {"slots", "churn_limit"}
                          /\ b.bench[i].creator \in Newcomers}

(* The hopefuls: the newcomers benched for room, each once. *)
LEMMA HopefulsList ==
  ASSUME NEW in, GoodInput(in), NEW b \in Boards, Distinct(b.bench)
  PROVE  /\ Hopefuls(in, b) \in Seq(Creators)
         /\ \A i \in HopefulRows(b) : \E k \in DOMAIN Hopefuls(in, b) :
              Hopefuls(in, b)[k] = b.bench[i].creator
         /\ \A k \in DOMAIN Hopefuls(in, b) : \E i \in HopefulRows(b) :
              Hopefuls(in, b)[k] = b.bench[i].creator
         /\ \A j, k \in DOMAIN Hopefuls(in, b) :
              Hopefuls(in, b)[j] = Hopefuls(in, b)[k] => j = k
<1>1. PICK rows : rows = HopefulRows(b)
  OBVIOUS
<1>2. /\ b.bench \in Seq(BenchRow) /\ DOMAIN b.bench = 1 .. Len(b.bench) /\ Len(b.bench) \in Nat
      /\ rows \subseteq 1 .. Len(b.bench)
  BY <1>1 DEF Boards, HopefulRows
<1>3. IsFiniteSet(rows)
  <2>1. IsFiniteSet(1 .. Len(b.bench))
    BY <1>2, FS_Interval
  <2> QED BY <1>2, <2>1, FS_Subset
<1>4. \A i \in rows : b.bench[i].creator \in Creators
  <2>1. \A i \in rows : b.bench[i] \in BenchRow
    BY <1>2
  <2> QED BY <2>1 DEF BenchRow
<1>5. \A i \in rows : Score(in, b.bench[i].creator) \in Int
  BY <1>4, ScoreType
<1>6. PICK R : R = {p \in rows \X rows :
        Precedes(Score(in, b.bench[p[1]].creator), Score(in, b.bench[p[2]].creator), p[1], p[2])}
  OBVIOUS
<1>7. \A i, j \in rows :
        <<i, j>> \in R <=> \/ Score(in, b.bench[i].creator) > Score(in, b.bench[j].creator)
                           \/ Score(in, b.bench[i].creator) = Score(in, b.bench[j].creator) /\ i < j
  BY <1>6 DEF Precedes
<1>8. Orders(R, rows)
  <2>1. PICK f : f = [i \in rows |-> Score(in, b.bench[i].creator)]
    OBVIOUS
  <2>2. \A i \in rows : f[i] \in Int /\ i \in Int
    BY <1>2, <1>5, <2>1
  <2>3. \A i, j \in rows : <<i, j>> \in R <=> f[i] > f[j] \/ (f[i] = f[j] /\ i < j)
    BY <1>7, <2>1
  <2> QED BY <2>2, <2>3 DEF Orders
<1>9. PICK order : order = Arranged(rows, R)
  OBVIOUS
<1>10. Lists(order, rows)
  BY <1>3, <1>8, <1>9, ArrangedLists
<1>11. Hopefuls(in, b) = [k \in DOMAIN order |-> b.bench[order[k]].creator]
  BY <1>1, <1>6, <1>9 DEF Hopefuls, HopefulRows
<1>12. /\ DOMAIN Hopefuls(in, b) = DOMAIN order
       /\ DOMAIN order = 1 .. Len(order) /\ Len(order) \in Nat
       /\ \A k \in DOMAIN order : /\ order[k] \in rows
                                  /\ Hopefuls(in, b)[k] = b.bench[order[k]].creator
  BY <1>10, <1>11 DEF Lists
<1>13. Hopefuls(in, b) \in Seq(Creators)
  BY <1>4, <1>11, <1>12
<1>14. \A i \in rows : \E k \in DOMAIN order : order[k] = i
  BY <1>10 DEF Lists
<1>15. ASSUME NEW j \in DOMAIN order, NEW k \in DOMAIN order,
              Hopefuls(in, b)[j] = Hopefuls(in, b)[k]
       PROVE  j = k
  <2>1. order[j] = order[k]
    <3>1. /\ order[j] \in DOMAIN b.bench /\ order[k] \in DOMAIN b.bench
          /\ b.bench[order[j]].creator = b.bench[order[k]].creator
      BY <1>2, <1>12, <1>15
    <3> QED BY <3>1 DEF Distinct
  <2> QED BY <2>1, <1>10 DEF Lists
<1> QED BY <1>1, <1>12, <1>13, <1>14, <1>15

(* The last sort of buildBoard moves entries and neither adds nor loses one. *)
LEMMA InOrderIs ==
  ASSUME NEW in, GoodInput(in), NEW list \in Seq(BoardEntry), Distinct(list),
         NEW d, d = InOrder(in, list)
  PROVE  /\ d \in Seq(BoardEntry) /\ Len(d) = Len(list)
         /\ \A e : e \in Members(d) <=> e \in Members(list)
         /\ Distinct(d)
<1>1. PICK rows : rows = DOMAIN list
  OBVIOUS
<1>2. rows = 1 .. Len(list) /\ Len(list) \in Nat /\ \A i \in rows : list[i] \in BoardEntry
  BY <1>1
<1>3. IsFiniteSet(rows) /\ Cardinality(rows) = Len(list)
  <2>1. \A n \in Nat : IsFiniteSet(1 .. n) /\ Cardinality(1 .. n) = n
    BY FS_Interval
  <2> QED BY <1>2, <2>1
<1>4. PICK leads : leads = {i \in rows : in.config.pinnedFirst /\ list[i].source = "pinned"}
  OBVIOUS
<1>5. PICK f, g : /\ f = [i \in rows |-> Score(in, list[i].creator)]
                  /\ g = [i \in rows |-> list[i].creator]
  OBVIOUS
<1>6. \A i \in rows : f[i] \in Int /\ g[i] \in Int /\ g[i] = list[i].creator /\ i \in Int
  <2>1. \A i \in rows : list[i].creator \in Creators
    BY <1>2 DEF BoardEntry
  <2>2. \A c \in Creators : Score(in, c) \in Int /\ c \in Int
    BY ScoreType, CreatorsAssumption
  <2> QED BY <2>1, <2>2, <1>2, <1>5
<1>7. \A i, j \in rows : g[i] = g[j] => i = j
  BY <1>1, <1>6 DEF Distinct
<1>8. PICK R : R = {p \in rows \X rows :
                 \/ /\ in.config.pinnedFirst /\ list[p[1]].source = "pinned"
                    /\ (in.config.pinnedFirst /\ list[p[2]].source = "pinned") => p[1] < p[2]
                 \/ /\ ~(in.config.pinnedFirst /\ list[p[1]].source = "pinned")
                    /\ ~(in.config.pinnedFirst /\ list[p[2]].source = "pinned")
                    /\ Above(in, list[p[1]].creator, list[p[2]].creator)}
  OBVIOUS
<1>9. \A i, j \in rows :
        <<i, j>> \in R <=>
          \/ i \in leads /\ (j \in leads => i < j)
          \/ i \notin leads /\ j \notin leads /\ (f[i] > f[j] \/ (f[i] = f[j] /\ g[i] < g[j]))
  BY <1>4, <1>5, <1>8 DEF Above, Precedes
<1>10. Orders(R, rows)
  BY <1>6, <1>7, <1>9 DEF Orders
<1>11. PICK order : order = Arranged(rows, R)
  OBVIOUS
<1>12. Lists(order, rows) /\ Len(order) = Len(list)
  <2>1. Lists(order, rows)
    BY <1>3, <1>10, <1>11, ArrangedLists
  <2>2. Len(Arranged(rows, R)) = Cardinality(rows)
    BY <1>3, <1>10, ArrangedIs
  <2> QED BY <1>3, <1>11, <2>1, <2>2
<1>13. d = [k \in DOMAIN order |-> list[order[k]]]
  BY <1>1, <1>8, <1>11 DEF InOrder
<1>14. /\ DOMAIN d = DOMAIN order /\ DOMAIN order = 1 .. Len(order) /\ Len(order) \in Nat
       /\ \A k \in DOMAIN order : order[k] \in rows /\ d[k] = list[order[k]]
  BY <1>12, <1>13 DEF Lists
<1>15. d \in Seq(BoardEntry) /\ Len(d) = Len(list)
  BY <1>2, <1>12, <1>13, <1>14
<1>16. \A i \in rows : \E k \in DOMAIN order : order[k] = i
  BY <1>12 DEF Lists
<1>17. \A e : e \in Members(d) <=> e \in Members(list)
  BY <1>1, <1>14, <1>16 DEF Members
<1>18. ASSUME NEW j \in DOMAIN d, NEW k \in DOMAIN d, d[j].creator = d[k].creator
       PROVE  j = k
  <2>1. order[j] = order[k]
    BY <1>6, <1>7, <1>14, <1>18
  <2> QED BY <2>1, <1>12, <1>14 DEF Lists
<1> QED BY <1>15, <1>17, <1>18 DEF Distinct

-------------------------------------------------------------------------------
(* The board as it is built: what holds after every step. *)

(* Pins lead wherever they count. *)
Settled(in) == Hybrid(in) => in.config.pinnedFirst

Lead(in) == Hybrid(in) /\ in.config.pinnedFirst

AllPins(in, b) == Full(in, b) /\ \A e \in Members(b.entries) : e.source = "pinned"

PinsLead(in, b) ==
  Lead(in) => \/ AllPins(in, b)
              \/ \A c \in PinnedIds(in) : Entry(c, "pinned", FALSE) \in Members(b.entries)

MayHold(in, e) ==
  \/ e.source = "pinned" /\ e.creator \in PinnedIds(in)
  \/ /\ e.source = "algorithm" /\ e.creator \in Rankable(in)
     /\ Settled(in) => e.creator \notin PinnedIds(in)

(* Who sits on the board in the making. *)
Seats(in, b) ==
  /\ Distinct(b.entries)
  /\ Len(b.entries) <= in.config.slots
  /\ \A e \in Members(b.entries) : MayHold(in, e)
  /\ PinsLead(in, b)

(* A seat taken by someone who may hold it keeps all this. *)
LEMMA SeatKeeps ==
  ASSUME NEW in, GoodInput(in), NEW b \in Boards, Seats(in, b), NEW c \in Creators,
         c \notin Seated(b), ~Full(in, b),
         NEW source \in {"pinned", "algorithm"}, NEW reserved \in BOOLEAN,
         MayHold(in, Entry(c, source, reserved)),
         NEW d, d = Seat(in, b, c, source, reserved)
  PROVE  Seats(in, d)
<1>0. source \in {"pinned", "algorithm", "manual"}
  OBVIOUS
<1>1. Gains(b, d, Entry(c, source, reserved))
  BY <1>0, SeatIs
<1>2. Entry(c, source, reserved).creator = c
  BY DEF Entry
<1>3. /\ Len(d.entries) = Len(b.entries) + 1
      /\ \A r : r \in Members(d.entries) <=> r \in Members(b.entries) \/ r = Entry(c, source, reserved)
      /\ Distinct(d.entries)
  BY <1>1, <1>2 DEF Gains, Seats
<1>4. in.config.slots \in Nat /\ Len(b.entries) \in Nat
  BY SeatedAre DEF GoodInput, ConfigType
<1>5. Len(d.entries) <= in.config.slots
  BY <1>3, <1>4 DEF Full
<1>6. \A e \in Members(d.entries) : MayHold(in, e)
  BY <1>3 DEF Seats
<1>7. PinsLead(in, d)
  BY <1>3 DEF Seats, PinsLead, AllPins
<1> QED BY <1>3, <1>5, <1>6, <1>7 DEF Seats

(* So does an entry of the ranking that leaves. *)
LEMMA DisplaceKeeps ==
  ASSUME NEW in, GoodInput(in), NEW b \in Boards, Seats(in, b),
         NEW i \in DOMAIN b.entries, b.entries[i].source = "algorithm",
         NEW d, d = Displace(b, i)
  PROVE  Seats(in, d) /\ ~Full(in, d)
<1>1. /\ d \in Boards
      /\ Len(d.entries) = Len(b.entries) - 1
      /\ Members(d.entries) \cup {b.entries[i]} = Members(b.entries)
      /\ Distinct(b.entries) => Distinct(d.entries)
  BY DisplaceIs
<1>2. in.config.slots \in Nat /\ Len(b.entries) \in Nat
  BY SeatedAre DEF GoodInput, ConfigType
<1>3. Len(d.entries) <= in.config.slots /\ ~Full(in, d)
  BY <1>1, <1>2 DEF Full, Seats
<1>4. \A e \in Members(d.entries) : MayHold(in, e)
  BY <1>1 DEF Seats
<1>5. PinsLead(in, d)
  <2>1. SUFFICES ASSUME Lead(in)
                 PROVE  \A c \in PinnedIds(in) : Entry(c, "pinned", FALSE) \in Members(d.entries)
    BY DEF PinsLead
  <2>2. ~AllPins(in, b)
    BY DEF AllPins, Members
  <2>3. \A c \in PinnedIds(in) : Entry(c, "pinned", FALSE) \in Members(b.entries)
    BY <2>1, <2>2 DEF Seats, PinsLead
  <2>4. \A c \in PinnedIds(in) : Entry(c, "pinned", FALSE) # b.entries[i]
    BY DEF Entry
  <2> QED BY <1>1, <2>3, <2>4
<1> QED BY <1>1, <1>3, <1>4, <1>5 DEF Seats

(* A cap that is reached stays reached while nobody leaves the board. *)
LEMMA CapStays ==
  ASSUME NEW in, GoodInput(in), NEW b \in Boards, NEW d \in Boards, NEW c \in Creators,
         Seated(b) \subseteq Seated(d), CapReached(in, b, c)
  PROVE  CapReached(in, d, c)
<1>1. PICK group \in GroupsOf[c] :
        in.config.caps[group[1]] > 0 /\ Places(b, group) >= in.config.caps[group[1]]
  BY DEF CapReached
<1>2. group[1] \in CapKeys
  BY GroupsAssumption
<1>3. in.config.caps[group[1]] \in Nat
  BY <1>2 DEF GoodInput, ConfigType
<1>4. Places(b, group) \in Nat /\ Places(d, group) \in Nat /\ Places(b, group) <= Places(d, group)
  <2> DEFINE P == {x \in Seated(b) : group \in GroupsOf[x]}
             Q == {x \in Seated(d) : group \in GroupsOf[x]}
  <2>1. IsFiniteSet(Seated(d)) /\ Q \in SUBSET Seated(d) /\ P \in SUBSET Q
    BY SeatedAre
  <2>2. IsFiniteSet(Q) /\ IsFiniteSet(P)
    BY <2>1, FS_Subset
  <2>3. Cardinality(P) \in Nat /\ Cardinality(Q) \in Nat /\ Cardinality(P) <= Cardinality(Q)
    BY <2>1, <2>2, FS_CardinalityType, FS_Subset
  <2> QED BY <2>3 DEF Places
<1>5. Places(d, group) >= in.config.caps[group[1]]
  BY <1>1, <1>3, <1>4
<1> QED BY <1>1, <1>5 DEF CapReached

(* The board while the pins that lead take their seats, the first D of them. *)
Opening(in, b, D) ==
  /\ b.bench = << >> /\ b.held = << >>
  /\ Distinct(b.entries)
  /\ Len(b.entries) <= in.config.slots
  /\ \A e \in Members(b.entries) : e.creator \in PinnedIds(in) /\ e = Entry(e.creator, "pinned", FALSE)
  /\ Full(in, b) \/ D \subseteq Seated(b)

(* One pin more. *)
LEMMA PushOpens ==
  ASSUME NEW in, GoodInput(in), NEW b \in Boards, NEW D, Opening(in, b, D),
         NEW c \in Creators, c \in PinnedIds(in), NEW d, d = Push(in, b, c, "pinned")
  PROVE  Opening(in, d, D \cup {c})
<1>1. CASE d = b /\ (c \in Seated(b) \/ Full(in, b))
  BY <1>1 DEF Opening
<1>2. CASE c \notin Seated(b) /\ ~Full(in, b) /\ d = Seat(in, b, c, "pinned", FALSE)
  <2>1. Gains(b, d, Entry(c, "pinned", FALSE))
    BY <1>2, SeatIs
  <2>2. Entry(c, "pinned", FALSE).creator = c
    BY DEF Entry
  <2>3. in.config.slots \in Nat /\ Len(b.entries) \in Nat
    BY SeatedAre DEF GoodInput, ConfigType
  <2>4. d.bench = << >> /\ d.held = << >> /\ Distinct(d.entries)
    BY <1>2, <2>1, <2>2 DEF Gains, Opening
  <2>6. Len(d.entries) <= in.config.slots
    BY <1>2, <2>1, <2>3 DEF Gains, Full
  <2>7. D \cup {c} \subseteq Seated(d)
    BY <1>2, <2>1, <2>2 DEF Gains, Opening
  <2>5. \A e \in Members(d.entries) : e.creator \in PinnedIds(in) /\ e = Entry(e.creator, "pinned", FALSE)
    BY <2>1, <2>2 DEF Gains, Opening
  <2> QED BY <2>4, <2>5, <2>6, <2>7 DEF Opening
<1> QED BY <1>1, <1>2 DEF Push

(* The empty board, before the first. *)
LEMMA NoBoardIs ==
  ASSUME NEW in, GoodInput(in)
  PROVE  NoBoard \in Boards /\ Opening(in, NoBoard, {})
<1>1. NoBoard \in Boards
  BY DEF NoBoard, Boards
<1>2. in.config.slots \in Nat
  BY DEF GoodInput, ConfigType
<1>3. Members(NoBoard.entries) = {} /\ Distinct(NoBoard.entries)
  BY DEF NoBoard, Members, Distinct
<1>4. Len(NoBoard.entries) = 0 /\ NoBoard.bench = << >> /\ NoBoard.held = << >>
  BY DEF NoBoard
<1> QED BY <1>1, <1>2, <1>3, <1>4 DEF Opening

(* The board when the pins that lead are seated, or when none lead. *)
LEMMA PinsFirstIs ==
  ASSUME NEW in, GoodInput(in), NEW b, b = PinsFirst(in)
  PROVE  /\ b \in Boards /\ b.bench = << >> /\ b.held = << >>
         /\ Seats(in, b)
<1>1. PICK seq : seq = IF Hybrid(in) /\ in.config.pinnedFirst THEN PinOrder(in) ELSE << >>
  OBVIOUS
<1>2. /\ seq \in Seq(Creators) /\ DOMAIN seq = 1 .. Len(seq) /\ Len(seq) \in Nat
      /\ Lead(in) => \A x \in PinnedIds(in) : \E k \in DOMAIN seq : seq[k] = x
      /\ \A k \in DOMAIN seq : seq[k] \in PinnedIds(in) /\ seq[k] \in Creators
  <2>1. CASE Lead(in)
    <3>1. PinnedIds(in) = Pinned(in) /\ seq = PinOrder(in)
      BY <1>1, <2>1 DEF Lead, PinnedIds
    <3>2. Lists(seq, PinnedIds(in)) /\ PinnedIds(in) \subseteq Creators
      BY <3>1, PinOrderLists
    <3>3. seq \in Seq(PinnedIds(in))
      BY <3>2 DEF Lists
    <3> QED BY <3>2, <3>3 DEF Lists
  <2>2. CASE ~Lead(in)
    <3>1. seq = << >>
      BY <1>1, <2>2 DEF Lead
    <3> QED BY <3>1, <2>2
  <2> QED BY <2>1, <2>2
<1>3. PICK n \in Nat : n = Len(seq)
  BY <1>2
<1>4. PICK base : base = NoBoard
  OBVIOUS
<1>5. base \in Boards /\ Opening(in, base, {})
  BY <1>4, NoBoardIs
<1>6. b = PushAll(in, seq, "pinned")
  BY <1>1 DEF PinsFirst
<1>7. PICK w : /\ Walk(w, base, b, n)
               /\ \A i \in 1 .. n : w[i] = Push(in, w[i - 1], seq[i], "pinned")
  BY <1>2, <1>3, <1>4, <1>5, <1>6, PushAllWalks
<1>8. w \in [0 .. n -> Boards] /\ w[0] = base /\ w[n] = b
  BY <1>7 DEF Walk
<1> DEFINE done(i) == {seq[j] : j \in 1 .. i}
           T == {i \in 0 .. n : Opening(in, w[i], done(i))}
<1>9. 0 \in T
  <2>1. done(0) = {}
    OBVIOUS
  <2> QED BY <1>5, <1>8, <2>1
<1>10. ASSUME NEW i \in 0 .. n - 1, i \in T
       PROVE  i + 1 \in T
  <2>1. i + 1 \in 1 .. n /\ i \in 0 .. n /\ (i + 1) - 1 = i
    OBVIOUS
  <2>2. PICK x, y, c, D : x = w[i] /\ y = w[i + 1] /\ c = seq[i + 1] /\ D = done(i)
    OBVIOUS
  <2>3. x \in Boards /\ y = Push(in, x, c, "pinned") /\ c \in Creators /\ c \in PinnedIds(in)
    BY <1>2, <1>3, <1>7, <1>8, <2>1, <2>2
  <2>4. Opening(in, x, D)
    BY <1>10, <2>2
  <2>5. Opening(in, y, D \cup {c})
    BY <2>3, <2>4, PushOpens
  <2>6. done(i + 1) = D \cup {c}
    BY <2>2
  <2>7. Opening(in, w[i + 1], done(i + 1))
    BY <2>2, <2>5, <2>6
  <2> QED BY <2>1, <2>7
<1>11. n \in T
  <2> HIDE DEF T
  <2> QED BY <1>9, <1>10, IntervalSet
<1>12. b \in Boards /\ Opening(in, b, done(n))
  BY <1>8, <1>11
<1>13. Lead(in) => Full(in, b) \/ PinnedIds(in) \subseteq Seated(b)
  BY <1>2, <1>3, <1>12 DEF Opening
<1>14. \A e \in Members(b.entries) : e.creator \in PinnedIds(in) /\ e.source = "pinned"
  BY <1>12 DEF Opening, Entry
<1>15. PinsLead(in, b)
  <2>1. CASE Full(in, b)
    BY <1>14, <2>1 DEF PinsLead, AllPins
  <2>2. CASE Lead(in) /\ PinnedIds(in) \subseteq Seated(b)
    <3>1. \A c \in Seated(b) : \E e \in Members(b.entries) : e.creator = c
      BY <1>12, SeatedAre
    <3>2. \A c \in PinnedIds(in) : Entry(c, "pinned", FALSE) \in Members(b.entries)
      BY <1>12, <2>2, <3>1 DEF Opening
    <3> QED BY <3>2 DEF PinsLead
  <2> QED BY <1>13, <2>1, <2>2 DEF PinsLead
<1> QED BY <1>12, <1>14, <1>15 DEF Opening, Seats, MayHold

(* Of those the walk has met, D, who is not seated waits: held back, L, or *)
(* on the bench, where a full board or a full cap sent him.                *)
Waits(in, b, D, L) ==
  /\ Distinct(b.bench)
  /\ \A r \in Members(b.bench) :
       /\ r.creator \in D /\ r.creator \notin Seated(b) /\ r.creator \notin L
       /\ Full(in, b) \/ CapReached(in, b, r.creator)
  /\ \A c \in L : c \in D /\ c \notin Seated(b) /\ c \notin PinnedIds(in)
  /\ \A c \in D : c \in Seated(b) \/ c \in L \/ \E r \in Members(b.bench) : r.creator = c

(* Only the entries and the bench are looked at. *)
LEMMA SameBoard ==
  ASSUME NEW in, NEW b \in Boards, NEW d \in Boards, d.entries = b.entries, d.bench = b.bench,
         NEW D, NEW L
  PROVE  /\ Seated(d) = Seated(b)
         /\ Full(in, d) <=> Full(in, b)
         /\ \A c : CapReached(in, d, c) <=> CapReached(in, b, c)
         /\ Seats(in, b) => Seats(in, d)
         /\ Waits(in, b, D, L) => Waits(in, d, D, L)
<1>1. Seated(d) = Seated(b) /\ (Full(in, d) <=> Full(in, b))
  BY DEF Seated, Full
<1>2. \A c : CapReached(in, d, c) <=> CapReached(in, b, c)
  BY <1>1 DEF CapReached, Places
<1>3. Seats(in, b) => Seats(in, d)
  BY <1>1 DEF Seats, PinsLead, AllPins
<1>4. Waits(in, b, D, L) => Waits(in, d, D, L)
  BY <1>1, <1>2 DEF Waits
<1> QED BY <1>1, <1>2, <1>3, <1>4

(* The next creator is benched, by a full board or a full cap. *)
LEMMA WaitsBenched ==
  ASSUME NEW in, NEW b \in Boards, NEW D, NEW L, Waits(in, b, D, L), Seats(in, b),
         NEW c \in Creators, c \notin D \/ c \in L, c \notin Seated(b),
         Full(in, b) \/ CapReached(in, b, c),
         NEW reason \in {"cap", "slots", "churn_limit"}, NEW d, d = Bench(b, c, reason)
  PROVE  d \in Boards /\ Waits(in, d, D \cup {c}, L \ {c}) /\ Seats(in, d)
<1>1. Benches(b, d, Row(c, reason))
  BY BenchIs
<1>2. Row(c, reason).creator = c
  BY DEF Row
<1>3. d \in Boards /\ d.entries = b.entries /\ Seated(d) = Seated(b)
  BY <1>1 DEF Benches
<1>4. (Full(in, d) <=> Full(in, b)) /\ \A x : CapReached(in, d, x) <=> CapReached(in, b, x)
  BY <1>3 DEF Full, CapReached, Places
<1>5. Seats(in, d)
  BY <1>3, <1>4 DEF Seats, PinsLead, AllPins
<1>6. \A r \in Members(b.bench) : r.creator # c
  BY DEF Waits
<1>7. Distinct(d.bench)
  BY <1>1, <1>2, <1>6 DEF Benches, Waits
<1>8. \A r \in Members(d.bench) :
        /\ r.creator \in D \cup {c} /\ r.creator \notin Seated(d) /\ r.creator \notin L \ {c}
        /\ Full(in, d) \/ CapReached(in, d, r.creator)
  <2> SUFFICES ASSUME NEW r \in Members(d.bench)
               PROVE  /\ r.creator \in D \cup {c} /\ r.creator \notin Seated(d)
                      /\ r.creator \notin L \ {c}
                      /\ Full(in, d) \/ CapReached(in, d, r.creator)
    OBVIOUS
  <2>1. CASE r \in Members(b.bench)
    BY <2>1, <1>3, <1>4 DEF Waits
  <2>2. CASE r.creator = c
    BY <2>2, <1>3, <1>4
  <2> QED BY <1>1, <1>2, <2>1, <2>2 DEF Benches
<1>9. \A x \in L \ {c} : x \in D \cup {c} /\ x \notin Seated(d) /\ x \notin PinnedIds(in)
  BY <1>3 DEF Waits
<1>10. \A x \in D \cup {c} : x \in Seated(d) \/ x \in L \ {c} \/ \E r \in Members(d.bench) : r.creator = x
  BY <1>1, <1>2, <1>3 DEF Waits, Benches
<1> QED BY <1>3, <1>5, <1>7, <1>8, <1>9, <1>10 DEF Waits

(* The next creator is seated: a cap that benched another is no less full. *)
LEMMA WaitsSeated ==
  ASSUME NEW in, GoodInput(in), NEW b \in Boards, NEW D \in SUBSET Creators, NEW L,
         Waits(in, b, D, L), NEW c, c \notin D \/ c \in L, ~Full(in, b),
         NEW e, e.creator = c, NEW d, Gains(b, d, e)
  PROVE  Waits(in, d, D \cup {c}, L \ {c})
<1>1. d \in Boards /\ d.bench = b.bench /\ Seated(d) = Seated(b) \cup {c}
  BY DEF Gains
<1>2. \A r \in Members(b.bench) : r.creator \in Creators /\ CapReached(in, b, r.creator) /\ r.creator # c
  BY DEF Waits
<1>3. \A r \in Members(b.bench) : CapReached(in, d, r.creator)
  BY <1>1, <1>2, CapStays
<1>4. \A r \in Members(d.bench) :
        /\ r.creator \in D \cup {c} /\ r.creator \notin Seated(d) /\ r.creator \notin L \ {c}
        /\ Full(in, d) \/ CapReached(in, d, r.creator)
  BY <1>1, <1>2, <1>3 DEF Waits
<1>5. \A x \in L \ {c} : x \in D \cup {c} /\ x \notin Seated(d) /\ x \notin PinnedIds(in)
  BY <1>1 DEF Waits
<1>6. \A x \in D \cup {c} : x \in Seated(d) \/ x \in L \ {c} \/ \E r \in Members(d.bench) : r.creator = x
  BY <1>1 DEF Waits
<1> QED BY <1>1, <1>4, <1>5, <1>6 DEF Waits

Once(s) == \A i, j \in DOMAIN s : s[i] = s[j] => i = j

(* heldBack.push: one more is held back. *)
LEMMA HeldAppends ==
  ASSUME NEW S, NEW s \in Seq(S), NEW c \in S, NEW t, t = Append(s, c)
  PROVE  /\ Members(t) = Members(s) \cup {c}
         /\ Once(s) /\ c \notin Members(s) => Once(t)
<1>1. /\ Len(s) \in Nat /\ Len(t) = Len(s) + 1
      /\ DOMAIN s = 1 .. Len(s) /\ DOMAIN t = 1 .. Len(s) + 1
      /\ \A i \in 1 .. Len(s) : t[i] = s[i]
      /\ t[Len(s) + 1] = c
  OBVIOUS
<1>2. \A r : r \in Members(t) <=> r \in Members(s) \/ r = c
  BY <1>1 DEF Members
<1>3. ASSUME Once(s), c \notin Members(s)
      PROVE  Once(t)
  <2>1. \A i \in 1 .. Len(s) : s[i] # c
    BY <1>1, <1>3 DEF Members
  <2> QED BY <1>1, <1>3, <2>1 DEF Once
<1> QED BY <1>2, <1>3

(* The walk has met D of the ranking. *)
Walking(in, b, D) ==
  /\ b \in Boards
  /\ Seats(in, b)
  /\ Once(b.held)
  /\ Waits(in, b, D, Members(b.held))

(* The step of the ranking. *)
LEMMA RankKeeps ==
  ASSUME NEW in, GoodInput(in), NEW b, NEW D \in SUBSET Rankable(in), Walking(in, b, D),
         NEW c \in Rankable(in), c \notin D, NEW d, d = RankOne(in, b, c)
  PROVE  Walking(in, d, D \cup {c})
<1>1. c \in Creators /\ b \in Boards /\ D \in SUBSET Creators
  BY RankingLists DEF Walking
<1>2. Ranks(in, b, c, d)
  BY <1>1, RankIs
<1>3. PICK L : L = Members(b.held)
  OBVIOUS
<1>4. Waits(in, b, D, L) /\ Seats(in, b) /\ Once(b.held)
  BY <1>3 DEF Walking
<1>5. c \notin L /\ L \ {c} = L
  BY <1>4 DEF Waits
<1>6. CASE c \in Seated(b) /\ d = b
  <2>1. Waits(in, b, D \cup {c}, L)
    BY <1>4, <1>6, <1>5 DEF Waits
  <2> QED BY <1>1, <1>3, <1>4, <1>6, <2>1 DEF Walking
<1>7. ASSUME NEW reason \in {"cap", "slots", "churn_limit"}, d = Bench(b, c, reason),
             c \notin Seated(b), Full(in, b) \/ CapReached(in, b, c)
      PROVE  Walking(in, d, D \cup {c})
  <2>1. d \in Boards /\ Waits(in, d, D \cup {c}, L) /\ Seats(in, d)
    <3>1. d \in Boards /\ Waits(in, d, D \cup {c}, L \ {c}) /\ Seats(in, d)
      BY <1>1, <1>4, <1>7, WaitsBenched
    <3> QED BY <3>1, <1>5
  <2>2. d.held = b.held
    <3>1. Benches(b, d, Row(c, reason))
      BY <1>1, <1>7, BenchIs
    <3> QED BY <3>1 DEF Benches
  <2> QED BY <1>3, <1>4, <2>1, <2>2 DEF Walking
<1>8. CASE /\ c \notin Seated(b) /\ c \notin PinnedIds(in)
           /\ d.entries = b.entries /\ d.bench = b.bench /\ d.held = Append(b.held, c)
  <2>1. d \in Boards /\ b.held \in Seq(Creators)
    BY <1>1, <1>2 DEF Ranks, Boards
  <2>2. Members(d.held) = L \cup {c} /\ Once(d.held)
    <3>1. PICK s, t : s = b.held /\ t = d.held
      OBVIOUS
    <3>2. s \in Seq(Creators) /\ t = Append(s, c)
      BY <3>1, <2>1, <1>8
    <3>3. Members(t) = Members(s) \cup {c} /\ (Once(s) /\ c \notin Members(s) => Once(t))
      BY <1>1, <3>2, HeldAppends
    <3> QED BY <3>1, <3>3, <1>3, <1>4, <1>5
  <2>3. Waits(in, d, D, L) /\ Seats(in, d) /\ Seated(d) = Seated(b)
    BY <1>1, <1>4, <1>8, <2>1, SameBoard
  <2>4. \A r \in Members(d.bench) : r.creator # c
    BY <2>3 DEF Waits
  <2>5. Waits(in, d, D \cup {c}, L \cup {c})
    BY <1>8, <2>3, <2>4 DEF Waits
  <2> QED BY <2>1, <2>2, <2>3, <2>5 DEF Walking
<1>9. ASSUME c \notin Seated(b), ~Full(in, b), NEW a \in Boards, NEW source \in {"pinned", "algorithm"},
             source = "pinned" <=> c \in PinnedIds(in),
             a = Seat(in, b, c, source, FALSE),
             d.entries = a.entries, d.bench = a.bench, d.held = a.held
      PROVE  Walking(in, d, D \cup {c})
  <2>1. PICK e : e = Entry(c, source, FALSE)
    OBVIOUS
  <2>2. e.creator = c /\ e.source = source /\ MayHold(in, e)
    BY <2>1, <1>9 DEF Entry, MayHold
  <2>3. Seats(in, a)
    BY <1>1, <1>4, <1>9, <2>1, <2>2, SeatKeeps
  <2>4. Gains(b, a, e)
    <3>1. source \in {"pinned", "algorithm", "manual"}
      OBVIOUS
    <3> QED BY <1>1, <1>9, <2>1, <3>1, SeatIs
  <2>5. Waits(in, a, D \cup {c}, L)
    <3>1. Waits(in, a, D \cup {c}, L \ {c})
      BY <1>1, <1>4, <1>9, <2>2, <2>4, WaitsSeated
    <3> QED BY <3>1, <1>5
  <2>6. d \in Boards
    BY <1>2 DEF Ranks
  <2>7. Waits(in, d, D \cup {c}, L) /\ Seats(in, d)
    BY <1>9, <2>3, <2>5, <2>6, SameBoard
  <2>8. d.held = b.held
    BY <1>9, <2>4 DEF Gains
  <2> QED BY <1>3, <1>4, <2>6, <2>7, <2>8 DEF Walking
<1> QED BY <1>2, <1>6, <1>7, <1>8, <1>9 DEF Ranks

(* The step for those held back by the limit on new faces. *)
LEMMA FillKeeps ==
  ASSUME NEW in, GoodInput(in), NEW b \in Boards, NEW L,
         Seats(in, b), Waits(in, b, Rankable(in), L),
         NEW c \in L, NEW d, d = FillOne(in, b, c)
  PROVE  d \in Boards /\ Seats(in, d) /\ Waits(in, d, Rankable(in), L \ {c})
<1>1. /\ Rankable(in) \in SUBSET Creators /\ c \in Creators /\ c \in Rankable(in)
      /\ c \notin Seated(b) /\ c \notin PinnedIds(in)
      /\ Rankable(in) \cup {c} = Rankable(in)
  BY RankingLists DEF Waits
<1>2. Fills(in, b, c, d)
  BY <1>1, FillIs
<1>3. CASE ~Full(in, b) /\ d = Seat(in, b, c, "algorithm", FALSE)
  <2>1. PICK e : e = Entry(c, "algorithm", FALSE)
    OBVIOUS
  <2>2. e.creator = c /\ MayHold(in, e)
    BY <2>1, <1>1 DEF Entry, MayHold
  <2>3. Seats(in, d)
    BY <1>1, <1>3, <2>1, <2>2, SeatKeeps
  <2>4. Gains(b, d, e)
    BY <1>1, <1>3, <2>1, SeatIs
  <2>5. Waits(in, d, Rankable(in), L \ {c})
    <3>1. Waits(in, d, Rankable(in) \cup {c}, L \ {c})
      BY <1>1, <1>3, <2>2, <2>4, WaitsSeated
    <3> QED BY <3>1, <1>1
  <2> QED BY <1>2, <2>3, <2>5 DEF Fills
<1>4. CASE (Full(in, b) \/ CapReached(in, b, c)) /\ d = Bench(b, c, "churn_limit")
  <2>1. d \in Boards /\ Waits(in, d, Rankable(in) \cup {c}, L \ {c}) /\ Seats(in, d)
    BY <1>1, <1>4, WaitsBenched
  <2> QED BY <2>1, <1>1
<1> QED BY <1>1, <1>2, <1>3, <1>4 DEF Fills

(* The board when the whole ranking is walked. *)
LEMMA WalkedIs ==
  ASSUME NEW in, GoodInput(in)
  PROVE  Walking(in, Walked(in), Rankable(in))
<1>1. PICK seq, base, last : seq = Ranking(in) /\ base = PinsFirst(in) /\ last = Walked(in)
  OBVIOUS
<1>2. /\ Lists(seq, Rankable(in)) /\ Rankable(in) \subseteq Creators
      /\ seq \in Seq(Creators)
  <2>1. Lists(seq, Rankable(in)) /\ Rankable(in) \subseteq Creators
    BY <1>1, RankingLists
  <2>2. seq \in Seq(Rankable(in))
    BY <2>1 DEF Lists
  <2> QED BY <2>1, <2>2
<1>3. PICK n \in Nat : n = Len(seq) /\ DOMAIN seq = 1 .. n
  BY <1>2 DEF Lists
<1>4. /\ \A x \in Rankable(in) : \E k \in 1 .. n : seq[k] = x
      /\ \A j, k \in 1 .. n : seq[j] = seq[k] => j = k
      /\ \A k \in 1 .. n : seq[k] \in Rankable(in)
  BY <1>2, <1>3 DEF Lists
<1>5. base \in Boards /\ base.bench = << >> /\ base.held = << >> /\ Seats(in, base)
  BY <1>1, PinsFirstIs
<1>6. PICK w : /\ Walk(w, base, last, n)
               /\ \A i \in 1 .. n : w[i] = RankOne(in, w[i - 1], seq[i])
  BY <1>1, <1>2, <1>3, <1>5, WalkedWalks
<1>7. w \in [0 .. n -> Boards] /\ w[0] = base /\ w[n] = last
  BY <1>6 DEF Walk
<1> DEFINE done(i) == {seq[j] : j \in 1 .. i}
           T == {i \in 0 .. n : Walking(in, w[i], done(i))}
<1>8. 0 \in T
  <2>1. done(0) = {}
    OBVIOUS
  <2>2. Members(base.held) = {} /\ Members(base.bench) = {} /\ Once(base.held) /\ Distinct(base.bench)
    BY <1>5 DEF Members, Once, Distinct
  <2>3. Waits(in, base, {}, {})
    BY <2>2 DEF Waits
  <2>4. Walking(in, base, {})
    BY <1>5, <2>2, <2>3 DEF Walking
  <2> QED BY <1>7, <2>1, <2>4
<1>9. ASSUME NEW i \in 0 .. n - 1, i \in T
      PROVE  i + 1 \in T
  <2>1. i + 1 \in 1 .. n /\ i \in 0 .. n /\ (i + 1) - 1 = i
    OBVIOUS
  <2>2. PICK x, y, c, D : x = w[i] /\ y = w[i + 1] /\ c = seq[i + 1] /\ D = done(i)
    OBVIOUS
  <2>3. y = RankOne(in, x, c) /\ c \in Rankable(in)
    BY <1>4, <1>6, <2>1, <2>2
  <2>4. Walking(in, x, D)
    BY <1>9, <2>2
  <2>5. D \in SUBSET Rankable(in) /\ c \notin D
    BY <1>4, <2>1, <2>2
  <2>6. Walking(in, y, D \cup {c})
    BY <2>3, <2>4, <2>5, RankKeeps
  <2>7. done(i + 1) = D \cup {c}
    BY <2>2
  <2>8. Walking(in, w[i + 1], done(i + 1))
    BY <2>2, <2>6, <2>7
  <2> QED BY <2>1, <2>8
<1>10. n \in T
  <2> HIDE DEF T
  <2> QED BY <1>8, <1>9, IntervalSet
<1>11. done(n) = Rankable(in)
  BY <1>4
<1>12. Walking(in, last, Rankable(in))
  BY <1>7, <1>10, <1>11
<1> QED BY <1>1, <1>12

(* The board when nobody is held back any more. *)
LEMMA RankedIs ==
  ASSUME NEW in, GoodInput(in), NEW b, b = Ranked(in)
  PROVE  b \in Boards /\ Seats(in, b) /\ Waits(in, b, Rankable(in), {})
<1>1. PICK base, seq : base = Walked(in) /\ seq = base.held
  OBVIOUS
<1>2. /\ base \in Boards /\ Seats(in, base) /\ Once(seq)
      /\ Waits(in, base, Rankable(in), Members(seq))
  <2>1. Walking(in, base, Rankable(in))
    BY <1>1, WalkedIs
  <2> QED BY <2>1, <1>1 DEF Walking
<1>3. seq \in Seq(Creators)
  BY <1>1, <1>2 DEF Boards
<1>4. PICK n \in Nat : n = Len(seq) /\ DOMAIN seq = 1 .. n
  BY <1>3
<1>5. \A j, k \in 1 .. n : seq[j] = seq[k] => j = k
  BY <1>2, <1>4 DEF Once
<1>6. PICK w : /\ Walk(w, base, b, n)
               /\ \A i \in 1 .. n : w[i] = FillOne(in, w[i - 1], seq[i])
  BY <1>1, <1>2, <1>3, <1>4, RankedWalks
<1>7. w \in [0 .. n -> Boards] /\ w[0] = base /\ w[n] = b
  BY <1>6 DEF Walk
<1> DEFINE left(i) == {seq[j] : j \in i + 1 .. n}
           T == {i \in 0 .. n : Seats(in, w[i]) /\ Waits(in, w[i], Rankable(in), left(i))}
<1>8. 0 \in T
  <2>1. left(0) = Members(seq)
    BY <1>4 DEF Members
  <2>2. Seats(in, w[0]) /\ Waits(in, w[0], Rankable(in), Members(seq))
    BY <1>2, <1>7
  <2> HIDE DEF left
  <2>3. Seats(in, w[0]) /\ Waits(in, w[0], Rankable(in), left(0))
    BY <2>1, <2>2
  <2> QED BY <2>3
<1>9. ASSUME NEW i \in 0 .. n - 1, i \in T
      PROVE  i + 1 \in T
  <2>1. i + 1 \in 1 .. n /\ i \in 0 .. n /\ (i + 1) - 1 = i
    OBVIOUS
  <2>2. PICK x, y, c, L : x = w[i] /\ y = w[i + 1] /\ c = seq[i + 1] /\ L = left(i)
    OBVIOUS
  <2>3. y = FillOne(in, x, c) /\ x \in Boards /\ c \in L
    BY <1>6, <1>7, <2>1, <2>2
  <2>4. Seats(in, x) /\ Waits(in, x, Rankable(in), L)
    BY <1>9, <2>2
  <2>5. Seats(in, y) /\ Waits(in, y, Rankable(in), L \ {c})
    BY <2>3, <2>4, FillKeeps
  <2>6. left(i + 1) = L \ {c}
    BY <1>5, <2>1, <2>2
  <2>7. Seats(in, w[i + 1]) /\ Waits(in, w[i + 1], Rankable(in), left(i + 1))
    BY <2>2, <2>5, <2>6
  <2> QED BY <2>1, <2>7
<1>10. n \in T
  <2> HIDE DEF T
  <2> QED BY <1>8, <1>9, IntervalSet
<1>11. left(n) = {}
  OBVIOUS
<1>12. Seats(in, b) /\ Waits(in, b, Rankable(in), {})
  BY <1>7, <1>10, <1>11
<1>13. b \in Boards
  BY <1>7
<1> QED BY <1>12, <1>13

(* An entry is what it was made of. *)
LEMMA EntryIs ==
  ASSUME NEW c, NEW source, NEW reserved
  PROVE  \E e : e = Entry(c, source, reserved) /\ e.creator = c /\ e.source = source /\ e.reserved = reserved
<1>1. PICK e : e = Entry(c, source, reserved)
  OBVIOUS
<1>2. e.creator = c /\ e.source = source /\ e.reserved = reserved
  BY <1>1 DEF Entry
<1> QED BY <1>1, <1>2

(* Nobody who may be ranked is missing from a board with room, but for a cap. *)
Unwasted(in, b) ==
  Full(in, b) \/ \A c \in Rankable(in) : c \in Seated(b) \/ CapReached(in, b, c)

(* A seat taken on a board with room: who is missing is met by a cap still. *)
LEMMA UnwastedSeat ==
  ASSUME NEW in, GoodInput(in), NEW b \in Boards, Unwasted(in, b), ~Full(in, b),
         NEW e, NEW d, Gains(b, d, e)
  PROVE  Unwasted(in, d)
<1>1. d \in Boards /\ Seated(b) \subseteq Seated(d)
  BY DEF Gains
<1>2. \A c \in Rankable(in) : c \in Creators /\ (c \in Seated(b) \/ CapReached(in, b, c))
  BY RankingLists DEF Unwasted
<1>3. \A c \in Rankable(in) : c \in Seated(d) \/ CapReached(in, d, c)
  BY <1>1, <1>2, CapStays
<1> QED BY <1>3 DEF Unwasted

(* One leaves the board for another. *)
Swaps(in, b, d, c, i) ==
  /\ d \in Boards /\ Full(in, d) /\ Distinct(d.entries) /\ Len(d.entries) = Len(b.entries)
  /\ c \in Seated(d) /\ Seated(d) \subseteq Seated(b) \cup {c}
  /\ \A x \in Seated(b) : x = b.entries[i].creator \/ x \in Seated(d)

(* displace and push: as long a board, with one creator for another. *)
LEMMA SwapIs ==
  ASSUME NEW in, GoodInput(in), NEW b \in Boards, Full(in, b), Distinct(b.entries),
         NEW i \in DOMAIN b.entries, NEW a, a = Displace(b, i),
         NEW c \in Creators, c \notin Seated(b),
         NEW source \in {"pinned", "algorithm", "manual"}, NEW reserved \in BOOLEAN,
         NEW d, d = Seat(in, a, c, source, reserved)
  PROVE  c \notin Seated(a) /\ a \in Boards /\ Swaps(in, b, d, c, i)
<1>1. PICK e : e = Entry(c, source, reserved) /\ e.creator = c
  BY EntryIs
<1>2. /\ a \in Boards
      /\ Len(a.entries) = Len(b.entries) - 1
      /\ Members(a.entries) \cup {b.entries[i]} = Members(b.entries)
      /\ Distinct(a.entries)
  BY DisplaceIs
<1>3. Gains(a, d, e)
  BY <1>1, <1>2, SeatIs
<1>4. /\ Seated(a) = {x.creator : x \in Members(a.entries)}
      /\ Seated(b) = {x.creator : x \in Members(b.entries)}
  BY <1>2, SeatedAre
<1>5. Seated(a) \subseteq Seated(b) /\ \A x \in Seated(b) : x = b.entries[i].creator \/ x \in Seated(a)
  BY <1>2, <1>4
<1>6. Full(in, d) /\ Len(d.entries) = Len(b.entries)
  <2>1. in.config.slots \in Nat /\ Len(b.entries) \in Nat
    BY SeatedAre DEF GoodInput, ConfigType
  <2>2. Len(d.entries) = Len(b.entries)
    BY <1>2, <1>3, <2>1 DEF Gains
  <2> QED BY <2>2 DEF Full
<1>7. d \in Boards /\ Distinct(d.entries) /\ Seated(d) = Seated(a) \cup {c}
  BY <1>1, <1>2, <1>3, <1>5 DEF Gains
<1> QED BY <1>2, <1>5, <1>6, <1>7 DEF Swaps

(* The slots for newcomers, with L of the hopefuls still to come and K kept *)
(* out by a cap.                                                            *)
Hoping(in, b, L, K) ==
  /\ Seats(in, b)
  /\ Unwasted(in, b)
  /\ \A c \in L : c \in Newcomers /\ c \in Rankable(in) /\ c \notin Seated(b)
  /\ \/ ~NewcomersShort(in, b)
     \/ \A e \in Members(b.entries) : ~GivesWay(e)
     \/ \A c \in Newcomers \cap Rankable(in) : c \in Seated(b) \/ c \in L \/ c \in K

(* A hopeful may hold a seat of the ranking: were it a pin that leads, pins *)
(* would hold every slot.                                                   *)
LEMMA HopefulMayHold ==
  ASSUME NEW in, NEW b \in Boards, Seats(in, b), NEW c \in Rankable(in), c \notin Seated(b),
         ~AllPins(in, b), NEW e, e = Entry(c, "algorithm", TRUE)
  PROVE  MayHold(in, e)
<1>1. e.creator = c /\ e.source = "algorithm"
  BY DEF Entry
<1>2. ASSUME Settled(in), c \in PinnedIds(in)
      PROVE  FALSE
  <2>1. Lead(in)
    BY <1>2 DEF Settled, Lead, PinnedIds
  <2>2. Entry(c, "pinned", FALSE) \in Members(b.entries)
    BY <1>2, <2>1 DEF Seats, PinsLead
  <2>3. Entry(c, "pinned", FALSE).creator = c
    BY DEF Entry
  <2> QED BY <2>2, <2>3, SeatedAre
<1> QED BY <1>1, <1>2 DEF MayHold

(* The step for a newcomer. *)
LEMMA ReserveKeeps ==
  ASSUME NEW in, GoodInput(in), NEW b \in Boards, NEW L, NEW K, Hoping(in, b, L, K),
         NEW c \in L, NEW d, d = ReserveOne(in, b, c)
  PROVE  Hoping(in, d, L \ {c}, K)
<1>1. /\ c \in Creators /\ c \in Newcomers /\ c \in Rankable(in) /\ c \notin Seated(b)
      /\ Seats(in, b) /\ Distinct(b.entries)
  BY RankingLists DEF Hoping, Seats
<1>2. Reserves(in, b, c, d)
  BY ReserveIs
<1>3. PICK e : e = Entry(c, "algorithm", TRUE) /\ e.creator = c /\ e.reserved = TRUE
  <2>1. PICK x : x = Entry(c, "algorithm", TRUE)
    OBVIOUS
  <2>2. x.creator = c /\ x.reserved = TRUE
    BY <2>1 DEF Entry
  <2> QED BY <2>1, <2>2
<1>4. CASE d = b /\ ~NewcomersShort(in, b)
  BY <1>4 DEF Hoping
<1>5. CASE d = b /\ Full(in, b) /\ \A x \in Members(b.entries) : ~GivesWay(x)
  BY <1>5 DEF Hoping
<1>6. CASE NewcomersShort(in, b) /\ ~Full(in, b) /\ d = Seat(in, b, c, "algorithm", TRUE)
  <2>1. Gains(b, d, e)
    BY <1>1, <1>3, <1>6, SeatIs
  <2>2. MayHold(in, e)
    BY <1>1, <1>3, <1>6, HopefulMayHold DEF AllPins
  <2>3. Seats(in, d)
    BY <1>1, <1>3, <1>6, <2>2, SeatKeeps
  <2>4. Unwasted(in, d)
    BY <1>6, <2>1, UnwastedSeat DEF Hoping
  <2>5. Seated(d) = Seated(b) \cup {c} /\ \A r : r \in Members(d.entries) <=> r \in Members(b.entries) \/ r = e
    BY <1>3, <2>1 DEF Gains
  <2>6. \A x \in L \ {c} : x \in Newcomers /\ x \in Rankable(in) /\ x \notin Seated(d)
    BY <2>5 DEF Hoping
  <2>7. CASE \A x \in Members(b.entries) : ~GivesWay(x)
    <3>1. \A x \in Members(d.entries) : ~GivesWay(x)
      BY <1>3, <2>5, <2>7 DEF GivesWay
    <3> QED BY <2>3, <2>4, <2>6, <3>1 DEF Hoping
  <2>8. CASE \A x \in Newcomers \cap Rankable(in) : x \in Seated(b) \/ x \in L \/ x \in K
    <3>1. \A x \in Newcomers \cap Rankable(in) : x \in Seated(d) \/ x \in L \ {c} \/ x \in K
      BY <2>5, <2>8
    <3> QED BY <2>3, <2>4, <2>6, <3>1 DEF Hoping
  <2> QED BY <1>6, <2>7, <2>8 DEF Hoping
<1>7. ASSUME NewcomersShort(in, b), Full(in, b), NEW i \in DOMAIN b.entries,
             GivesWay(b.entries[i]), d = Seat(in, Displace(b, i), c, "algorithm", TRUE)
      PROVE  Hoping(in, d, L \ {c}, K)
  <2>1. PICK a : a = Displace(b, i)
    OBVIOUS
  <2>2. b.entries[i].source = "algorithm" /\ b.entries[i].creator \notin Newcomers
    BY <1>7 DEF GivesWay
  <2>3. b.entries[i] \in Members(b.entries)
    BY DEF Members
  <2>4. c \notin Seated(a) /\ a \in Boards /\ Swaps(in, b, d, c, i)
    BY <1>1, <1>7, <2>1, SwapIs
  <2>5. Seats(in, a) /\ ~Full(in, a)
    BY <1>1, <2>1, <2>2, DisplaceKeeps
  <2>6. MayHold(in, e)
    BY <1>1, <1>3, <2>2, <2>3, HopefulMayHold DEF AllPins
  <2>7. Seats(in, d)
    BY <1>1, <1>3, <1>7, <2>1, <2>4, <2>5, <2>6, SeatKeeps
  <2>8. Unwasted(in, d)
    BY <2>4 DEF Swaps, Unwasted
  <2>9. \A x \in L \ {c} : x \in Newcomers /\ x \in Rankable(in) /\ x \notin Seated(d)
    BY <2>4 DEF Swaps, Hoping
  <2>10. \A x \in Newcomers \cap Rankable(in) : x \in Seated(b) \/ x \in L \/ x \in K
    BY <1>7, <2>3 DEF Hoping
  <2>11. \A x \in Newcomers \cap Rankable(in) : x \in Seated(d) \/ x \in L \ {c} \/ x \in K
    BY <2>2, <2>4, <2>10 DEF Swaps
  <2> QED BY <2>7, <2>8, <2>9, <2>11 DEF Hoping
<1> QED BY <1>2, <1>4, <1>5, <1>6, <1>7 DEF Reserves

(* The step for a late pin: whom it displaces leaves no room behind. *)
LEMMA PinKeeps ==
  ASSUME NEW in, GoodInput(in), NEW b \in Boards, Distinct(b.entries), Len(b.entries) <= in.config.slots, Unwasted(in, b),
         NEW c \in Creators, NEW d, d = PinOne(in, b, c)
  PROVE  Distinct(d.entries) /\ Len(d.entries) <= in.config.slots /\ Unwasted(in, d)
<1>1. Pins(in, b, c, d)
  BY PinIs
<1>2. CASE c \notin Seated(b) /\ ~Full(in, b) /\ d = Seat(in, b, c, "pinned", FALSE)
  <2>1. PICK e : e = Entry(c, "pinned", FALSE) /\ e.creator = c
    <3>1. PICK x : x = Entry(c, "pinned", FALSE)
      OBVIOUS
    <3>2. x.creator = c
      BY <3>1 DEF Entry
    <3> QED BY <3>1, <3>2
  <2>2. Gains(b, d, e)
    BY <1>2, <2>1, SeatIs
  <2>3. Unwasted(in, d)
    BY <1>2, <2>2, UnwastedSeat
  <2>4. Len(d.entries) <= in.config.slots
    <3>1. in.config.slots \in Nat /\ Len(b.entries) \in Nat
      BY SeatedAre DEF GoodInput, ConfigType
    <3>2. Len(d.entries) = Len(b.entries) + 1 /\ ~(Len(b.entries) >= in.config.slots)
      BY <1>2, <2>2 DEF Gains, Full
    <3> QED BY <3>1, <3>2
  <2> QED BY <1>2, <2>1, <2>2, <2>3, <2>4 DEF Gains
<1>3. ASSUME c \notin Seated(b), Full(in, b), NEW i \in DOMAIN b.entries,
             d = Seat(in, Displace(b, i), c, "pinned", FALSE)
      PROVE  Distinct(d.entries) /\ Len(d.entries) <= in.config.slots /\ Unwasted(in, d)
  <2>1. PICK a : a = Displace(b, i)
    OBVIOUS
  <2>2. Swaps(in, b, d, c, i)
    BY <1>3, <2>1, SwapIs
  <2> QED BY <2>2 DEF Swaps, Unwasted
<1> QED BY <1>1, <1>2, <1>3 DEF Pins

(* Who was met by a full cap when the ranking was walked. *)
Capped(in) ==
  {c \in Creators : \E i \in DOMAIN Ranked(in).bench : Ranked(in).bench[i] = Row(c, "cap")}

(* Every newcomer left out is a hopeful, or was met by a cap. *)
LEMMA HopefulsIs ==
  ASSUME NEW in, GoodInput(in), NEW b, b = Ranked(in), NEW seq, seq = Hopefuls(in, b),
         NEW L, L = Members(seq)
  PROVE  /\ seq \in Seq(Creators) /\ Once(seq)
         /\ Hoping(in, b, L, Capped(in))
<1>1. b \in Boards /\ Seats(in, b) /\ Waits(in, b, Rankable(in), {})
  BY RankedIs
<1>2. Distinct(b.bench)
  BY <1>1 DEF Waits
<1>3. /\ seq \in Seq(Creators) /\ Once(seq)
      /\ \A i \in HopefulRows(b) : b.bench[i].creator \in L
      /\ \A c \in L : \E i \in HopefulRows(b) : c = b.bench[i].creator
  <2>1. seq \in Seq(Creators)
    BY <1>1, <1>2, HopefulsList
  <2>2. \A i \in HopefulRows(b) : \E k \in DOMAIN seq : seq[k] = b.bench[i].creator
    BY <1>1, <1>2, HopefulsList
  <2>3. \A k \in DOMAIN seq : \E i \in HopefulRows(b) : seq[k] = b.bench[i].creator
    BY <1>1, <1>2, HopefulsList
  <2>4. \A j, k \in DOMAIN seq : seq[j] = seq[k] => j = k
    BY <1>1, <1>2, HopefulsList
  <2> QED BY <2>1, <2>2, <2>3, <2>4 DEF Once, Members
<1>4. /\ b.bench \in Seq(BenchRow) /\ DOMAIN b.bench = 1 .. Len(b.bench)
      /\ \A i \in DOMAIN b.bench : b.bench[i] \in BenchRow /\ b.bench[i] \in Members(b.bench)
  BY <1>1 DEF Boards, Members
<1>5. \A c \in L : c \in Newcomers /\ c \in Rankable(in) /\ c \notin Seated(b)
  BY <1>1, <1>3, <1>4 DEF HopefulRows, Waits
<1>6. Unwasted(in, b)
  BY <1>1 DEF Waits, Unwasted
<1>7. \A c \in Newcomers \cap Rankable(in) : c \in Seated(b) \/ c \in L \/ c \in Capped(in)
  <2> SUFFICES ASSUME NEW c \in Newcomers, c \in Rankable(in), c \notin Seated(b)
               PROVE  c \in L \/ c \in Capped(in)
    OBVIOUS
  <2>1. PICK i \in DOMAIN b.bench : b.bench[i].creator = c
    BY <1>1 DEF Waits, Members
  <2>2. PICK r \in BenchRow : r = b.bench[i]
    BY <1>4
  <2>3. r.creator = c /\ c \in Creators /\ r.reason \in {"cap", "slots", "churn_limit"}
    BY <2>1, <2>2 DEF BenchRow
  <2>4. CASE r.reason = "cap"
    <3>1. r = Row(c, "cap")
      BY <2>3, <2>4 DEF BenchRow, Row
    <3> QED BY <2>2, <2>3, <3>1 DEF Capped
  <2>5. CASE r.reason # "cap"
    <3>1. i \in HopefulRows(b)
      BY <2>2, <2>3, <2>5 DEF HopefulRows
    <3> QED BY <1>3, <2>1, <3>1
  <2> QED BY <2>4, <2>5
<1> QED BY <1>1, <1>3, <1>5, <1>6, <1>7 DEF Hoping

(* The board when the reserved slots are filled. *)
LEMMA NewcomersIs ==
  ASSUME NEW in, GoodInput(in), NEW b, b = WithNewcomers(in)
  PROVE  b \in Boards /\ Hoping(in, b, {}, Capped(in))
<1>1. PICK base, seq, K, all : base = Ranked(in) /\ seq = Hopefuls(in, base) /\ K = Capped(in)
                               /\ all = Members(seq)
  OBVIOUS
<1>2. base \in Boards
  BY <1>1, RankedIs
<1>3. seq \in Seq(Creators) /\ Once(seq) /\ Hoping(in, base, all, K)
  BY <1>1, HopefulsIs
<1>4. PICK n \in Nat : n = Len(seq) /\ DOMAIN seq = 1 .. n
  BY <1>3
<1>5. \A j, k \in 1 .. n : seq[j] = seq[k] => j = k
  BY <1>3, <1>4 DEF Once
<1>6. PICK w : /\ Walk(w, base, b, n)
               /\ \A i \in 1 .. n : w[i] = ReserveOne(in, w[i - 1], seq[i])
  BY <1>1, <1>2, <1>3, <1>4, NewcomersWalk
<1>7. w \in [0 .. n -> Boards] /\ w[0] = base /\ w[n] = b
  BY <1>6 DEF Walk
<1> DEFINE left(i) == {seq[j] : j \in i + 1 .. n}
           T == {i \in 0 .. n : Hoping(in, w[i], left(i), K)}
<1>8. 0 \in T
  <2>1. left(0) = all
    BY <1>1, <1>4 DEF Members
  <2>2. Hoping(in, w[0], all, K)
    BY <1>3, <1>7
  <2> HIDE DEF left
  <2>3. Hoping(in, w[0], left(0), K)
    BY <2>1, <2>2
  <2> QED BY <2>3
<1>9. ASSUME NEW i \in 0 .. n - 1, i \in T
      PROVE  i + 1 \in T
  <2>1. i + 1 \in 1 .. n /\ i \in 0 .. n /\ (i + 1) - 1 = i
    OBVIOUS
  <2>2. PICK x, y, c, L : x = w[i] /\ y = w[i + 1] /\ c = seq[i + 1] /\ L = left(i)
    OBVIOUS
  <2>3. y = ReserveOne(in, x, c) /\ x \in Boards /\ c \in L
    BY <1>6, <1>7, <2>1, <2>2
  <2>4. Hoping(in, x, L, K)
    BY <1>9, <2>2
  <2>5. Hoping(in, y, L \ {c}, K)
    BY <2>3, <2>4, ReserveKeeps
  <2>6. left(i + 1) = L \ {c}
    BY <1>5, <2>1, <2>2
  <2>7. Hoping(in, w[i + 1], left(i + 1), K)
    BY <2>2, <2>5, <2>6
  <2> QED BY <2>1, <2>7
<1>10. n \in T
  <2> HIDE DEF T
  <2> QED BY <1>8, <1>9, IntervalSet
<1>11. left(n) = {}
  OBVIOUS
<1>12. Hoping(in, b, {}, K)
  BY <1>7, <1>10, <1>11
<1> QED BY <1>1, <1>7, <1>12

(* The board when the late pins are seated; there are none when pins lead. *)
LEMMA LatePinsIs ==
  ASSUME NEW in, GoodInput(in), NEW b, b = WithLatePins(in)
  PROVE  /\ b \in Boards /\ Distinct(b.entries) /\ Len(b.entries) <= in.config.slots /\ Unwasted(in, b)
         /\ in.config.pinnedFirst => b = WithNewcomers(in)
<1>1. PICK base, seq : base = WithNewcomers(in) /\ seq = LateOrder(in)
  OBVIOUS
<1>2. base \in Boards /\ Distinct(base.entries) /\ Len(base.entries) <= in.config.slots /\ Unwasted(in, base)
  <2>1. base \in Boards /\ Hoping(in, base, {}, Capped(in))
    BY <1>1, NewcomersIs
  <2> QED BY <2>1 DEF Hoping, Seats
<1>3. seq \in Seq(Creators)
  <2>1. CASE in.config.pinnedFirst
    BY <1>1, <2>1 DEF LateOrder
  <2>2. CASE ~in.config.pinnedFirst
    <3>1. seq = PinOrder(in) /\ Lists(seq, Pinned(in)) /\ Pinned(in) \subseteq Creators
      BY <1>1, <2>2, PinOrderLists DEF LateOrder
    <3>2. seq \in Seq(Pinned(in))
      BY <3>1 DEF Lists
    <3> QED BY <3>1, <3>2
  <2> QED BY <2>1, <2>2
<1>4. PICK n \in Nat : n = Len(seq) /\ DOMAIN seq = 1 .. n
  BY <1>3
<1>5. PICK w : /\ Walk(w, base, b, n)
               /\ \A i \in 1 .. n : w[i] = PinOne(in, w[i - 1], seq[i])
  BY <1>1, <1>2, <1>3, <1>4, LatePinsWalk
<1>6. w \in [0 .. n -> Boards] /\ w[0] = base /\ w[n] = b
  BY <1>5 DEF Walk
<1> DEFINE T == {i \in 0 .. n : Distinct(w[i].entries) /\ Len(w[i].entries) <= in.config.slots /\ Unwasted(in, w[i])}
<1>7. 0 \in T
  BY <1>2, <1>6
<1>8. ASSUME NEW i \in 0 .. n - 1, i \in T
      PROVE  i + 1 \in T
  <2>1. i + 1 \in 1 .. n /\ i \in 0 .. n /\ (i + 1) - 1 = i
    OBVIOUS
  <2>2. PICK x, y, c : x = w[i] /\ y = w[i + 1] /\ c = seq[i + 1]
    OBVIOUS
  <2>3. y = PinOne(in, x, c) /\ x \in Boards /\ c \in Creators
    BY <1>3, <1>4, <1>5, <1>6, <2>1, <2>2
  <2>4. Distinct(x.entries) /\ Len(x.entries) <= in.config.slots /\ Unwasted(in, x)
    BY <1>8, <2>2
  <2>5. Distinct(y.entries) /\ Len(y.entries) <= in.config.slots /\ Unwasted(in, y)
    BY <2>3, <2>4, PinKeeps
  <2> QED BY <2>1, <2>2, <2>5
<1>9. n \in T
  <2> HIDE DEF T
  <2> QED BY <1>7, <1>8, IntervalSet
<1>10. in.config.pinnedFirst => b = base
  <2>1. in.config.pinnedFirst => n = 0
    BY <1>1, <1>4 DEF LateOrder
  <2> QED BY <1>6, <2>1
<1> QED BY <1>1, <1>6, <1>9, <1>10

-------------------------------------------------------------------------------
(* The board a run publishes. *)

(* The board is what the steps made of it, put in order. *)
Made(in, board, b) ==
  /\ b \in Boards /\ board \in Seq(BoardEntry)
  /\ Len(board) = Len(b.entries) /\ Len(board) <= in.config.slots
  /\ \A e : e \in Members(board) <=> e \in Members(b.entries)
  /\ Distinct(b.entries) /\ Distinct(board)
  /\ Unwasted(in, b)
  /\ Settled(in) => Hoping(in, b, {}, Capped(in))

(* buildBoard outside manual mode. *)
LEMMA BoardIs ==
  ASSUME NEW in, GoodInput(in), in.config.mode # "manual", NEW board, board = BuildBoard(in)
  PROVE  \E b : Made(in, board, b)
<1>1. PICK b : b = IF Hybrid(in) THEN WithLatePins(in) ELSE WithNewcomers(in)
  OBVIOUS
<1>2. b \in Boards /\ Distinct(b.entries) /\ Len(b.entries) <= in.config.slots /\ Unwasted(in, b)
  <2>1. CASE Hybrid(in)
    BY <1>1, <2>1, LatePinsIs
  <2>2. CASE ~Hybrid(in)
    <3>1. b = WithNewcomers(in)
      BY <1>1, <2>2
    <3>2. b \in Boards /\ Hoping(in, b, {}, Capped(in))
      BY <3>1, NewcomersIs
    <3> QED BY <3>2 DEF Hoping, Seats
  <2> QED BY <2>1, <2>2
<1>3. Settled(in) => Hoping(in, b, {}, Capped(in))
  <2> SUFFICES ASSUME Settled(in)
               PROVE  Hoping(in, b, {}, Capped(in))
    OBVIOUS
  <2>1. b = WithNewcomers(in)
    BY <1>1, LatePinsIs DEF Settled
  <2> QED BY <2>1, NewcomersIs
<1>4. PICK list : list = b.entries /\ list \in Seq(BoardEntry) /\ Distinct(list)
  BY <1>2 DEF Boards
<1>5. board = InOrder(in, list)
  BY <1>1, <1>4 DEF BuildBoard
<1>6. /\ board \in Seq(BoardEntry) /\ Len(board) = Len(list)
      /\ \A e : e \in Members(board) <=> e \in Members(list)
      /\ Distinct(board)
  BY <1>4, <1>5, InOrderIs
<1> QED BY <1>2, <1>3, <1>4, <1>6 DEF Made

(* The sort leaves the creators who hold a slot. *)
LEMMA HoldersAre ==
  ASSUME NEW in, NEW board, NEW b, Made(in, board, b)
  PROVE  Holders(board) = Seated(b)
<1>1. Holders(board) = {e.creator : e \in Members(board)}
  BY DEF Holders, Members
<1>2. Seated(b) = {e.creator : e \in Members(b.entries)}
  BY SeatedAre DEF Made
<1>3. Members(board) = Members(b.entries)
  BY DEF Made
<1> QED BY <1>1, <1>2, <1>3

(* Pins that lead, no more of them than slots, are all on the board: it is   *)
(* either theirs or full of pins, and as many distinct pins are all of them. *)
LEMMA BoardKeepsPins ==
  ASSUME NEW in, GoodInput(in), Lead(in), Cardinality(Pinned(in)) <= in.config.slots
  PROVE  Pinned(in) \subseteq Holders(BuildBoard(in))
<1>1. PICK board : board = BuildBoard(in)
  OBVIOUS
<1>2. in.config.mode # "manual" /\ Settled(in) /\ PinnedIds(in) = Pinned(in)
  BY DEF Lead, Hybrid, Settled, PinnedIds
<1>3. PICK b : Made(in, board, b)
  BY <1>1, <1>2, BoardIs
<1>4. b \in Boards /\ Seats(in, b)
  BY <1>2, <1>3 DEF Made, Hoping
<1>5. Holders(board) = Seated(b)
  BY <1>3, HoldersAre
<1>6. CASE AllPins(in, b)
  <2>1. PICK n \in Nat : n = Len(b.entries) /\ DOMAIN b.entries = 1 .. n
    BY <1>4, SeatedAre
  <2>2. PICK S : S = 1 .. n
    OBVIOUS
  <2>3. PICK P : P = Pinned(in)
    OBVIOUS
  <2>4. IsFiniteSet(P) /\ IsFiniteSet(S) /\ Cardinality(S) = n /\ Cardinality(P) \in Nat
    <3>1. IsFiniteSet(P)
      BY <2>3, PinOrderLists, CreatorsAssumption, FS_Subset
    <3>2. IsFiniteSet(S) /\ Cardinality(S) = n
      BY <2>1, <2>2, FS_Interval
    <3> QED BY <3>1, <3>2, FS_CardinalityType
  <2>5. PICK f : f = [i \in S |-> b.entries[i].creator]
    OBVIOUS
  <2>6. \A i \in S : b.entries[i].creator \in P
    BY <1>2, <1>4, <1>6, <2>1, <2>2, <2>3 DEF AllPins, Seats, MayHold, Members
  <2>7. \A i, j \in S : b.entries[i].creator = b.entries[j].creator => i = j
    BY <1>4, <2>1, <2>2 DEF Seats, Distinct
  <2>8. f \in Injection(S, P)
    BY <2>5, <2>6, <2>7 DEF Injection, IsInjective
  <2>9. Cardinality(S) <= Cardinality(P) /\ (Cardinality(S) = Cardinality(P) <=> f \in Surjection(S, P))
    BY <2>4, <2>8, FS_Injection
  <2>10. n >= Cardinality(P)
    <3>1. in.config.slots \in Nat
      BY DEF GoodInput, ConfigType
    <3> QED BY <1>6, <2>1, <2>3, <2>4, <3>1 DEF AllPins, Full
  <2>11. f \in Surjection(S, P)
    BY <2>1, <2>4, <2>9, <2>10
  <2>12. \A c \in P : \E i \in S : b.entries[i].creator = c
    BY <2>5, <2>11 DEF Surjection
  <2> QED BY <1>1, <1>5, <2>1, <2>2, <2>3, <2>12 DEF Seated
<1>7. CASE \A c \in PinnedIds(in) : Entry(c, "pinned", FALSE) \in Members(b.entries)
  <2>1. \A c \in PinnedIds(in) : Entry(c, "pinned", FALSE).creator = c
    BY DEF Entry
  <2>2. \A e \in Members(b.entries) : e.creator \in Seated(b)
    BY <1>4, SeatedAre
  <2> QED BY <1>1, <1>2, <1>5, <1>7, <2>1, <2>2
<1> QED BY <1>4, <1>6, <1>7 DEF Seats, PinsLead

(* Who is missing from a board with room has a full cap. *)
LEMMA BoardIsNotWasted ==
  ASSUME NEW in, GoodInput(in), in.config.mode # "manual",
         NEW board, board = BuildBoard(in), Len(board) < in.config.slots,
         NEW c \in Rankable(in), c \notin Holders(board)
  PROVE  CapReached(in, [NoBoard EXCEPT !.entries = board], c)
<1>1. PICK b : Made(in, board, b)
  BY BoardIs
<1>2. Holders(board) = Seated(b)
  BY <1>1, HoldersAre
<1>3. ~Full(in, b)
  <2>1. in.config.slots \in Nat /\ Len(b.entries) \in Nat /\ Len(board) = Len(b.entries)
    BY <1>1, SeatedAre DEF GoodInput, ConfigType, Made
  <2> QED BY <2>1 DEF Full
<1>4. CapReached(in, b, c)
  BY <1>1, <1>2, <1>3 DEF Made, Unwasted
<1>5. PICK d : d = [NoBoard EXCEPT !.entries = board]
  OBVIOUS
<1>6. d.entries = board
  BY <1>5 DEF NoBoard
<1>7. Seated(d) = Seated(b)
  BY <1>2, <1>6 DEF Seated, Holders
<1>8. CapReached(in, d, c)
  BY <1>4, <1>7 DEF CapReached, Places
<1> QED BY <1>5, <1>8

(* With an entry left that gives way, a newcomer left out was met by a cap. *)
LEMMA BoardLetsNewcomersIn ==
  ASSUME NEW in, GoodInput(in), in.config.mode # "manual", Settled(in),
         NEW board, board = BuildBoard(in),
         Cardinality(Holders(board) \cap Newcomers) < in.config.newcomerSlots,
         NEW i \in DOMAIN board, GivesWay(board[i]),
         NEW c \in Newcomers, c \in Rankable(in), c \notin Holders(board)
  PROVE  \E k \in DOMAIN Ranked(in).bench : Ranked(in).bench[k] = Row(c, "cap")
<1>1. PICK b : Made(in, board, b)
  BY BoardIs
<1>2. Holders(board) = Seated(b)
  BY <1>1, HoldersAre
<1>3. NewcomersShort(in, b)
  BY <1>2 DEF NewcomersShort
<1>4. board[i] \in Members(b.entries)
  BY <1>1 DEF Made, Members
<1>5. c \in Capped(in)
  BY <1>1, <1>2, <1>3, <1>4 DEF Made, Hoping
<1> QED BY <1>5 DEF Capped

(* Whom the ranking seats neither rests nor is pinned. *)
LEMMA BoardLetsRest ==
  ASSUME NEW in, GoodInput(in), in.config.mode # "manual", Settled(in),
         NEW board, board = BuildBoard(in), NEW i \in DOMAIN board, board[i].source = "algorithm"
  PROVE  board[i].creator \in Creators \ in.resting
<1>1. PICK b : Made(in, board, b)
  BY BoardIs
<1>2. board[i] \in Members(b.entries)
  BY <1>1 DEF Made, Members
<1>3. MayHold(in, board[i])
  BY <1>1, <1>2 DEF Made, Hoping, Seats
<1>4. board[i].creator \in Rankable(in) /\ board[i].creator \notin PinnedIds(in)
  BY <1>3 DEF MayHold
<1> QED BY <1>4, RankingLists DEF Rankable

(* The board of the boxes while the first of those ticked are pushed. *)
ByHand(in, b) ==
  /\ Distinct(b.entries)
  /\ Len(b.entries) <= in.config.slots
  /\ \A e \in Members(b.entries) : e.source = "manual"

(* One box more. *)
LEMMA PushByHand ==
  ASSUME NEW in, GoodInput(in), NEW b \in Boards, ByHand(in, b),
         NEW c \in Creators, NEW d, d = Push(in, b, c, "manual")
  PROVE  ByHand(in, d)
<1>1. CASE d = b
  BY <1>1
<1>2. CASE c \notin Seated(b) /\ ~Full(in, b) /\ d = Seat(in, b, c, "manual", FALSE)
  <2>1. Gains(b, d, Entry(c, "manual", FALSE))
    BY <1>2, SeatIs
  <2>2. Entry(c, "manual", FALSE).creator = c /\ Entry(c, "manual", FALSE).source = "manual"
    BY DEF Entry
  <2>3. in.config.slots \in Nat /\ Len(b.entries) \in Nat
    BY SeatedAre DEF GoodInput, ConfigType
  <2>4. Len(d.entries) = Len(b.entries) + 1 /\ ~(Len(b.entries) >= in.config.slots)
    BY <1>2, <2>1 DEF Gains, Full
  <2>5. Distinct(d.entries)
    BY <1>2, <2>1, <2>2 DEF Gains, ByHand
  <2>6. \A e \in Members(d.entries) : e.source = "manual"
    BY <2>1, <2>2 DEF Gains, ByHand
  <2> QED BY <2>3, <2>4, <2>5, <2>6 DEF ByHand
<1> QED BY <1>1, <1>2 DEF Push

(* buildBoard in manual mode. *)
LEMMA ManualIs ==
  ASSUME NEW in, GoodInput(in), NEW list, list = ManualEntries(in)
  PROVE  /\ list \in Seq(BoardEntry) /\ Distinct(list) /\ Len(list) <= in.config.slots
         /\ \A e \in Members(list) : e.source = "manual"
<1>1. PICK S : S = {c \in Candidates(in) : c \in in.ticked /\ c \notin Blocked(in)}
  OBVIOUS
<1>2. S \subseteq Creators /\ IsFiniteSet(S)
  <2>1. S \in SUBSET Creators
    BY <1>1 DEF Candidates
  <2> QED BY <2>1, CreatorsAssumption, FS_Subset
<1>3. \A c \in S : in.measured[c] \in Int /\ c \in Nat
  BY <1>2, CreatorsAssumption DEF GoodInput
<1>4. PICK R : R = {p \in S \X S : Precedes(in.measured[p[1]], in.measured[p[2]], p[1], p[2])}
  OBVIOUS
<1>5. \A c, d \in S :
        <<c, d>> \in R <=> \/ in.measured[c] > in.measured[d]
                           \/ in.measured[c] = in.measured[d] /\ c < d
  BY <1>4 DEF Precedes
<1>6. Orders(R, S)
  BY <1>3, <1>5 DEF Orders
<1>7. PICK seq : seq = Arranged(S, R)
  OBVIOUS
<1>8. seq \in Seq(Creators)
  <2>1. seq \in Seq(S)
    BY <1>2, <1>6, <1>7, ArrangedIs
  <2> QED BY <1>2, <2>1
<1>9. PICK n \in Nat : n = Len(seq) /\ DOMAIN seq = 1 .. n
  BY <1>8
<1>10. PICK base, last : base = NoBoard /\ last = PushAll(in, seq, "manual")
  OBVIOUS
<1>11. list = last.entries
  BY <1>1, <1>4, <1>7, <1>10 DEF ManualEntries
<1>12. base \in Boards /\ ByHand(in, base)
  <2>1. base \in Boards /\ Opening(in, base, {})
    BY <1>10, NoBoardIs
  <2>2. Members(base.entries) = {}
    BY <1>10 DEF NoBoard, Members
  <2> QED BY <2>1, <2>2 DEF Opening, ByHand
<1>13. PICK w : /\ Walk(w, base, last, n)
                /\ \A i \in 1 .. n : w[i] = Push(in, w[i - 1], seq[i], "manual")
  BY <1>8, <1>9, <1>10, <1>12, PushAllWalks
<1>14. w \in [0 .. n -> Boards] /\ w[0] = base /\ w[n] = last
  BY <1>13 DEF Walk
<1> DEFINE T == {i \in 0 .. n : ByHand(in, w[i])}
<1>15. 0 \in T
  BY <1>12, <1>14
<1>16. ASSUME NEW i \in 0 .. n - 1, i \in T
       PROVE  i + 1 \in T
  <2>1. i + 1 \in 1 .. n /\ i \in 0 .. n /\ (i + 1) - 1 = i
    OBVIOUS
  <2>2. PICK x, y, c : x = w[i] /\ y = w[i + 1] /\ c = seq[i + 1]
    OBVIOUS
  <2>3. y = Push(in, x, c, "manual") /\ x \in Boards /\ c \in Creators
    BY <1>8, <1>9, <1>13, <1>14, <2>1, <2>2
  <2>4. ByHand(in, y)
    BY <1>16, <2>2, <2>3, PushByHand
  <2> QED BY <2>1, <2>2, <2>4
<1>17. n \in T
  <2> HIDE DEF T
  <2> QED BY <1>15, <1>16, IntervalSet
<1>18. last \in Boards /\ ByHand(in, last)
  BY <1>14, <1>17
<1> QED BY <1>11, <1>18 DEF ByHand, Boards

(* What every board is, whatever made it. *)
LEMMA BoardTyped ==
  ASSUME NEW in, GoodInput(in), NEW board, board = BuildBoard(in)
  PROVE  board \in Seq(BoardEntry) /\ Distinct(board) /\ Len(board) <= in.config.slots
<1>1. CASE in.config.mode = "manual"
  BY <1>1, ManualIs DEF BuildBoard
<1>2. CASE in.config.mode # "manual"
  BY <1>2, BoardIs DEF Made
<1> QED BY <1>1, <1>2

(* No entry of a manual board is of the ranking. *)
LEMMA BoardByHand ==
  ASSUME NEW in, GoodInput(in), in.config.mode = "manual", NEW board, board = BuildBoard(in),
         NEW i \in DOMAIN board
  PROVE  board[i].source = "manual"
<1>1. board = ManualEntries(in)
  BY DEF BuildBoard
<1>2. \A e \in Members(board) : e.source = "manual"
  BY <1>1, ManualIs
<1> QED BY <1>2 DEF Members

-------------------------------------------------------------------------------
(* The runs, beside the operators and the clock. *)

Reading ==
  [op : {"run.read"}, auto : BOOLEAN, config : Configs, todo : SUBSET Reads,
   overrides : [Creators -> Overrides], previous : Seq(Entries), resting : SUBSET Creators]

(* What a run carries is what it read, and the board it made of that. *)
Prepared(state) ==
  /\ state.op \in {"idle", "auto.config", "run.config", "run.read", "run.publish"}
  /\ state.op = "run.config" => state.auto \in BOOLEAN
  /\ state.op = "run.read" => state \in Reading
  /\ state.op = "run.publish" =>
       /\ GoodInput(state.in) /\ state.in.config \in Configs
       /\ state.board = BuildBoard(state.in)
       /\ state.previous \in Seq(Entries)

PlansInv == OneEachRun /\ \A r \in Runs : Prepared(run[r])

BoardOK(list) ==
  /\ list \in Seq(Entries)
  /\ Distinct(list)
  /\ \E c \in Configs : Len(list) <= c.slots

SettingsInv ==
  /\ config \in Configs
  /\ overrides \in [Creators -> Overrides]

PublishedInv ==
  /\ BoardOK(entries)
  /\ ticked \subseteq Creators
  /\ rest \in [Creators -> 0 .. MaxAge]

(* One run moves on with what it has read. *)
LEMMA PlansMove ==
  ASSUME PlansInv, NEW r \in Runs, NEW state, Goto(r, state), Prepared(state)
  PROVE  PlansInv'
<1>1. OneEachRun' /\ run'[r] = state /\ \A s \in Runs \ {r} : run'[s] = run[s]
  BY DEF PlansInv, OneEachRun, Goto
<1>2. \A s \in Runs : Prepared(run'[s])
  BY <1>1 DEF PlansInv
<1> QED BY <1>1, <1>2 DEF PlansInv

(* No run, nothing read. *)
LEMMA IdlePrepared == Prepared(Idle)
BY DEF Prepared, Idle

(* A run ends. *)
LEMMA PlansEnd ==
  ASSUME PlansInv, NEW r \in Runs, Ends(r)
  PROVE  PlansInv'
BY IdlePrepared, PlansMove DEF Ends

(* What buildBoard is given is what it can be given. *)
LEMMA InputIs ==
  ASSUME NEW r \in Runs, Prepared(run[r]), run[r].op = "run.read", NEW m \in Measures,
         NEW in, in = Input(run[r], m)
  PROVE  GoodInput(in) /\ in.config \in Configs /\ in.resting = Resting(run[r])
<1>1. in.config = run[r].config /\ in.overrides = run[r].overrides /\ in.measured = m
      /\ in.resting = Resting(run[r])
  BY DEF Input
<1>2. in.config \in Configs /\ in.overrides \in [Creators -> Overrides]
  BY <1>1 DEF Prepared, Reading
<1> QED BY <1>1, <1>2, ConfigsAssumption, MeasuresAssumption DEF GoodInput

(* Every step of a run carries on what the run read. *)
LEMMA PlansOfARun ==
  ASSUME PlansInv, SettingsInv, PublishedInv, NEW r \in Runs,
         \/ Save(r) \/ RunByHand(r) \/ AutoCheck(r) \/ AutoConfig(r)
         \/ RunConfig(r) \/ RunBuild(r) \/ RunPublish(r) \/ RunFails(r)
         \/ \E what \in Reads : RunRead(r, what)
  PROVE  PlansInv'
<1>1. ASSUME NEW state, Goto(r, state), state.op \in {"idle", "auto.config", "run.config"},
             state.op = "run.config" => state.auto \in BOOLEAN
      PROVE  PlansInv'
  <2>1. Prepared(state)
    BY <1>1 DEF Prepared
  <2> QED BY <1>1, <2>1, PlansMove
<1>2. ASSUME UNCHANGED run
      PROVE  PlansInv'
  BY <1>2 DEF PlansInv, OneEachRun
<1>3. CASE Save(r)
  <2>1. CASE frozen'
    BY <1>2, <1>3, <2>1 DEF Save
  <2>2. CASE ~frozen'
    <3> DEFINE state == [op |-> "run.config", auto |-> FALSE]
    <3>1. Goto(r, state) /\ state.op = "run.config" /\ state.auto \in BOOLEAN
      BY <1>3, <2>2 DEF Save
    <3> HIDE DEF state
    <3> QED BY <1>1, <3>1
  <2> QED BY <2>1, <2>2
<1>4. CASE RunByHand(r)
  <2> DEFINE state == [op |-> "run.config", auto |-> FALSE]
  <2>1. Goto(r, state) /\ state.op = "run.config" /\ state.auto \in BOOLEAN
    BY <1>4 DEF RunByHand
  <2> HIDE DEF state
  <2> QED BY <1>1, <2>1
<1>5. CASE AutoCheck(r)
  <2> DEFINE state == [op |-> "auto.config"]
  <2>1. Goto(r, state) /\ state.op = "auto.config"
    BY <1>5 DEF AutoCheck
  <2> HIDE DEF state
  <2> QED BY <1>1, <2>1
<1>6. CASE AutoConfig(r)
  <2>1. PICK state : /\ Goto(r, state)
                     /\ \/ state = [op |-> "run.config", auto |-> TRUE]
                        \/ state = Idle
    BY <1>6 DEF AutoConfig
  <2>2. state.op \in {"idle", "run.config"} /\ (state.op = "run.config" => state.auto \in BOOLEAN)
    <3>1. CASE state = [op |-> "run.config", auto |-> TRUE]
      BY <3>1
    <3>2. CASE state = Idle
      <4>1. state.op = "idle"
        BY <3>2 DEF Idle
      <4> QED BY <4>1
    <3> QED BY <2>1, <3>1, <3>2
  <2> QED BY <1>1, <2>1, <2>2
<1>7. CASE RunConfig(r)
  <2>1. CASE EndsFrozen(r)
    BY <2>1, PlansEnd DEF EndsFrozen
  <2>2. CASE ~EndsFrozen(r)
    <3>1. run[r].op = "run.config" /\ Prepared(run[r])
      BY <1>7 DEF RunConfig, At, PlansInv
    <3>2. PICK none : none = [c \in Creators |-> NoOverride]
      OBVIOUS
    <3>3. none \in [Creators -> Overrides]
      BY <3>2, RunBoundsAssumption DEF NoOverride, Overrides, OverrideKinds
    <3>4. PICK state :
            /\ Goto(r, state)
            /\ state = [op |-> "run.read", auto |-> run[r].auto, config |-> config, todo |-> Reads,
                        overrides |-> none, previous |-> << >>, resting |-> {}]
      BY <1>7, <2>2, <3>2 DEF RunConfig
    <3>5. state \in Reading
      BY <3>1, <3>3, <3>4 DEF Prepared, Reading, SettingsInv
    <3>6. Prepared(state)
      BY <3>4, <3>5 DEF Prepared
    <3> QED BY <3>4, <3>6, PlansMove
  <2> QED BY <2>1, <2>2
<1>8. CASE RunBuild(r)
  <2>1. run[r].op = "run.read" /\ Prepared(run[r])
    BY <1>8 DEF RunBuild, At, PlansInv
  <2>2. PICK m \in Measures : \E state :
          /\ Goto(r, state)
          /\ state = [op |-> "run.publish", auto |-> run[r].auto, previous |-> run[r].previous,
                      rotate |-> RotateOut(run[r]), in |-> Input(run[r], m),
                      board |-> BuildBoard(Input(run[r], m))]
    BY <1>8 DEF RunBuild
  <2>7. PICK state :
          /\ Goto(r, state)
          /\ state = [op |-> "run.publish", auto |-> run[r].auto, previous |-> run[r].previous,
                      rotate |-> RotateOut(run[r]), in |-> Input(run[r], m),
                      board |-> BuildBoard(Input(run[r], m))]
    BY <2>2
  <2>3. PICK in : in = Input(run[r], m)
    OBVIOUS
  <2>4. GoodInput(in) /\ in.config \in Configs
    BY <2>1, <2>3, InputIs
  <2>5. /\ state.op = "run.publish" /\ state.previous = run[r].previous
        /\ state.in = in /\ state.board = BuildBoard(in)
    BY <2>3, <2>7
  <2>6. Prepared(state)
    BY <2>1, <2>4, <2>5 DEF Prepared, Reading
  <2> QED BY <2>6, <2>7, PlansMove
<1>9. CASE RunPublish(r)
  BY <1>9, PlansEnd DEF RunPublish
<1>10. CASE RunFails(r)
  BY <1>10, PlansEnd DEF RunFails
<1>11. CASE \E what \in Reads : RunRead(r, what)
  <2>1. PICK what \in Reads : RunRead(r, what)
    BY <1>11
  <2>2. run[r].op = "run.read" /\ Prepared(run[r])
    BY <2>1 DEF RunRead, At, PlansInv
  <2>3. PICK left : left = [run[r] EXCEPT !.todo = @ \ {what}]
    OBVIOUS
  <2>4. PICK state :
          /\ Goto(r, state)
          /\ \/ state = [left EXCEPT !.overrides = overrides]
             \/ state = [left EXCEPT !.previous = entries]
             \/ state = [left EXCEPT !.resting = {c \in Creators : rest[c] > 0}]
    BY <2>1, <2>3 DEF RunRead, Reads
  <2>5. run[r] \in Reading /\ left \in Reading
    BY <2>2, <2>3 DEF Prepared, Reading
  <2>6. entries \in Seq(Entries) /\ overrides \in [Creators -> Overrides]
    BY DEF SettingsInv, PublishedInv, BoardOK
  <2>7. state \in Reading
    BY <2>4, <2>5, <2>6 DEF Reading
  <2>8. Prepared(state)
    BY <2>7 DEF Prepared, Reading
  <2> QED BY <2>4, <2>8, PlansMove
<1> QED BY <1>3, <1>4, <1>5, <1>6, <1>7, <1>8, <1>9, <1>10, <1>11

FlagsInv == frozen \in BOOLEAN /\ due \in BOOLEAN /\ refreshInFlight \in BOOLEAN

TrendingInv == FlagsInv /\ SettingsInv /\ PublishedInv /\ PlansInv

(* Min of FiniteSetsExt returns an element. *)
LEMMA MinIs ==
  ASSUME NEW n \in Nat, NEW S \in SUBSET (1 .. n), S # {}
  PROVE  Min(S) \in S
<1> DEFINE R == {p \in Nat \X Nat : p[1] < p[2]}
<1>1. IsWellFoundedOn(R, Nat)
  BY NatLessThanWellFounded, Zenon DEF OpToRel
<1>2. PICK x \in S : \A y \in S : <<y, x>> \notin R
  <2>1. S \subseteq Nat
    OBVIOUS
  <2> HIDE DEF R
  <2> QED BY <1>1, <2>1, WFMin
<1>3. \A y \in S : x <= y
  <2> SUFFICES ASSUME NEW y \in S, y < x
               PROVE  FALSE
    OBVIOUS
  <2>1. x \in Nat /\ y \in Nat
    OBVIOUS
  <2>2. <<y, x>> \in R
    BY <2>1
  <2> QED BY <1>2, <2>2
<1> QED BY <1>3 DEF Min

(* The days of a tenure counted on: none for a new face. *)
LEMMA TenureType ==
  ASSUME NEW list \in Seq(Entries), NEW c
  PROVE  Tenure(list, c) \in 0 .. MaxAge
<1>1. PICK n \in Nat : n = Len(list) /\ DOMAIN list = 1 .. n
  OBVIOUS
<1>2. PICK I : I = {i \in 1 .. Len(list) : list[i].creator = c}
  OBVIOUS
<1>3. PICK i : i = IF I # {} THEN Min(I) ELSE 0
  OBVIOUS
<1>4. Tenure(list, c) = IF i = 0 THEN 0 ELSE list[i].days
  BY <1>2, <1>3 DEF Tenure, SelectInSeq
<1>5. i # 0 => i \in 1 .. n
  BY <1>1, <1>2, <1>3, MinIs
<1>6. \A k \in 1 .. n : list[k].days \in 0 .. MaxAge
  <2> SUFFICES ASSUME NEW k \in 1 .. n
               PROVE  list[k].days \in 0 .. MaxAge
    OBVIOUS
  <2>1. PICK e \in Entries : e = list[k]
    BY <1>1
  <2> QED BY <2>1 DEF Entries
<1> QED BY <1>4, <1>5, <1>6, RunBoundsAssumption

(* A list of the same creators in the same places is as good a board. *)
LEMMA BoardRewritten ==
  ASSUME NEW E, NEW list \in Seq(E), NEW rows,
         DOMAIN rows = DOMAIN list, rows = [i \in DOMAIN rows |-> rows[i]],
         \A i \in DOMAIN list : rows[i] \in Entries /\ rows[i].creator = list[i].creator
  PROVE  rows \in Seq(Entries) /\ Len(rows) = Len(list) /\ (Distinct(list) => Distinct(rows))
<1>1. PICK n \in Nat : n = Len(list) /\ DOMAIN list = 1 .. n
  OBVIOUS
<1>2. rows \in [1 .. n -> Entries]
  BY <1>1
<1>3. rows \in Seq(Entries) /\ Len(rows) = n
  BY <1>1, <1>2
<1> QED BY <1>1, <1>3 DEF Distinct

(* A day ends: tenures grow, rests shrink. *)
LEMMA DayEndsKeeps ==
  ASSUME TrendingInv, DayEnds
  PROVE  PublishedInv'
<1>1. PICK rows, list : rows = entries' /\ list = entries
  OBVIOUS
<1>2. list \in Seq(Entries) /\ Distinct(list) /\ \E c \in Configs : Len(list) <= c.slots
  BY <1>1 DEF TrendingInv, PublishedInv, BoardOK
<1>3. rows = [i \in DOMAIN list |->
        IF list[i].days < MaxAge THEN [list[i] EXCEPT !.days = @ + 1] ELSE list[i]]
  BY <1>1 DEF DayEnds
<1>4. \A i \in DOMAIN list : rows[i] \in Entries /\ rows[i].creator = list[i].creator
  <2> SUFFICES ASSUME NEW i \in DOMAIN list
               PROVE  rows[i] \in Entries /\ rows[i].creator = list[i].creator
    OBVIOUS
  <2>1. PICK e \in Entries : e = list[i]
    BY <1>2
  <2>2. PICK x : x = rows[i] /\ x = IF e.days < MaxAge THEN [e EXCEPT !.days = @ + 1] ELSE e
    BY <1>3, <2>1
  <2>3. e.days \in 0 .. MaxAge /\ MaxAge \in Nat
    BY RunBoundsAssumption DEF Entries
  <2>4. e.days < MaxAge => e.days + 1 \in 0 .. MaxAge
    BY <2>3
  <2>5. CASE e.days < MaxAge
    <3>1. x = [e EXCEPT !.days = e.days + 1]
      BY <2>2, <2>5
    <3>2. x \in Entries /\ x.creator = e.creator
      BY <2>4, <2>5, <3>1 DEF Entries
    <3> QED BY <2>1, <2>2, <3>2
  <2>6. CASE ~(e.days < MaxAge)
    BY <2>1, <2>2, <2>6
  <2> QED BY <2>5, <2>6
<1>5. DOMAIN rows = DOMAIN list /\ rows = [i \in DOMAIN rows |-> rows[i]]
  BY <1>3
<1>6. rows \in Seq(Entries) /\ Len(rows) = Len(list) /\ Distinct(rows)
  BY <1>2, <1>4, <1>5, BoardRewritten
<1>7. BoardOK(rows)
  BY <1>2, <1>6 DEF BoardOK
<1>8. rest' \in [Creators -> 0 .. MaxAge]
  BY RunBoundsAssumption DEF TrendingInv, PublishedInv, DayEnds
<1> QED BY <1>1, <1>7, <1>8 DEF TrendingInv, PublishedInv, DayEnds

(* The transaction of runTrending writes a board that is one. *)
LEMMA PublishKeeps ==
  ASSUME TrendingInv, NEW r \in Runs, RunPublish(r)
  PROVE  PublishedInv'
<1>1. PICK rows, board, in, previous :
        rows = entries' /\ board = run[r].board /\ in = run[r].in /\ previous = run[r].previous
  OBVIOUS
<1>2. /\ GoodInput(in) /\ in.config \in Configs
      /\ board = BuildBoard(in) /\ previous \in Seq(Entries)
  BY <1>1 DEF RunPublish, At, TrendingInv, PlansInv, Prepared
<1>3. board \in Seq(BoardEntry) /\ Distinct(board) /\ Len(board) <= in.config.slots
  BY <1>2, BoardTyped
<1>4. rows = [i \in DOMAIN board |->
        [creator |-> board[i].creator, source |-> board[i].source,
         reserved |-> board[i].reserved, days |-> Tenure(previous, board[i].creator)]]
  BY <1>1 DEF RunPublish
<1>5. \A i \in DOMAIN board : rows[i] \in Entries /\ rows[i].creator = board[i].creator
  <2> SUFFICES ASSUME NEW i \in DOMAIN board
               PROVE  rows[i] \in Entries /\ rows[i].creator = board[i].creator
    OBVIOUS
  <2>1. PICK e \in BoardEntry : e = board[i]
    BY <1>3
  <2>2. PICK days : days = Tenure(previous, e.creator) /\ days \in 0 .. MaxAge
    BY <1>2, TenureType
  <2>3. PICK x : x = rows[i] /\ x = [creator |-> e.creator, source |-> e.source,
                                   reserved |-> e.reserved, days |-> days]
    BY <1>4, <2>1, <2>2
  <2>4. x \in Entries /\ x.creator = e.creator
    BY <2>2, <2>3 DEF BoardEntry, Entries
  <2> QED BY <2>1, <2>3, <2>4
<1>6. DOMAIN rows = DOMAIN board /\ rows = [i \in DOMAIN rows |-> rows[i]]
  BY <1>4
<1>7. rows \in Seq(Entries) /\ Len(rows) = Len(board) /\ Distinct(rows)
  BY <1>3, <1>5, <1>6, BoardRewritten
<1>8. BoardOK(rows)
  BY <1>2, <1>3, <1>7 DEF BoardOK
<1>9. ticked' \subseteq Creators
  <2>1. ticked' = Holders(board)
    BY <1>1 DEF RunPublish
  <2>2. \A i \in DOMAIN board : board[i] \in BoardEntry
    BY <1>3
  <2>3. \A e \in BoardEntry : e.creator \in Creators
    BY DEF BoardEntry
  <2> QED BY <2>1, <2>2, <2>3 DEF Holders
<1>10. rest' \in [Creators -> 0 .. MaxAge]
  <2>1. in.config.cooldownDays \in 0 .. MaxAge
    BY <1>2, RunBoundsAssumption DEF GoodInput, ConfigType
  <2> QED BY <1>1, <2>1 DEF RunPublish, TrendingInv, PublishedInv
<1> QED BY <1>1, <1>8, <1>9, <1>10 DEF PublishedInv

(* The flags stay flags. *)
LEMMA FlagsStep ==
  ASSUME FlagsInv, [TrendingNext]_trendingVars
  PROVE  FlagsInv'
<1>1. ASSUME NEW r \in Runs, Ends(r)
      PROVE  refreshInFlight' \in BOOLEAN
  BY <1>1 DEF Ends
<1>2. CASE Freeze \/ IntervalEnds \/ DayEnds
  BY <1>2 DEF FlagsInv, Freeze, IntervalEnds, DayEnds, published, settings
<1>3. ASSUME NEW c \in Creators, SetOverride(c) \/ ClearCooldown(c) \/ Tick(c)
      PROVE  FlagsInv'
  BY <1>3 DEF FlagsInv, SetOverride, ClearCooldown, Tick, published, settings
<1>4. ASSUME NEW r \in Runs, Save(r) \/ RunByHand(r) \/ AutoCheck(r) \/ RunBuild(r)
                              \/ \E what \in Reads : RunRead(r, what)
      PROVE  FlagsInv'
  BY <1>4 DEF FlagsInv, Save, RunByHand, AutoCheck, RunBuild, RunRead, published, settings
<1>5. ASSUME NEW r \in Runs, AutoConfig(r)
      PROVE  FlagsInv'
  <2>1. refreshInFlight' \in BOOLEAN
    BY <1>5 DEF AutoConfig
  <2> QED BY <1>5, <2>1 DEF FlagsInv, AutoConfig, published, settings
<1>6. ASSUME NEW r \in Runs, RunConfig(r)
      PROVE  FlagsInv'
  <2>1. refreshInFlight' \in BOOLEAN
    BY <1>1, <1>6 DEF FlagsInv, RunConfig, EndsFrozen
  <2> QED BY <1>6, <2>1 DEF FlagsInv, RunConfig, published, settings
<1>7. ASSUME NEW r \in Runs, RunPublish(r)
      PROVE  FlagsInv'
  BY <1>1, <1>7 DEF FlagsInv, RunPublish, settings
<1>8. ASSUME NEW r \in Runs, RunFails(r)
      PROVE  FlagsInv'
  BY <1>1, <1>8 DEF FlagsInv, RunFails, published, settings
<1>9. CASE UNCHANGED trendingVars
  BY <1>9 DEF FlagsInv, trendingVars, published, settings
<1> QED BY <1>2, <1>3, <1>4, <1>5, <1>6, <1>7, <1>8, <1>9 DEF TrendingNext

(* Settings and instructions are what the forms let through. *)
LEMMA SettingsStep ==
  ASSUME SettingsInv, [TrendingNext]_trendingVars
  PROVE  SettingsInv'
<1>1. ASSUME UNCHANGED <<config, overrides>>
      PROVE  SettingsInv'
  BY <1>1 DEF SettingsInv
<1>2. CASE Freeze \/ IntervalEnds \/ DayEnds
  BY <1>1, <1>2 DEF Freeze, IntervalEnds, DayEnds, published, settings
<1>3. ASSUME NEW c \in Creators, SetOverride(c) \/ ClearCooldown(c) \/ Tick(c)
      PROVE  SettingsInv'
  <2>1. CASE SetOverride(c)
    BY <2>1 DEF SettingsInv, SetOverride
  <2>2. CASE ClearCooldown(c) \/ Tick(c)
    BY <1>1, <2>2 DEF ClearCooldown, Tick, settings
  <2> QED BY <1>3, <2>1, <2>2
<1>4. ASSUME NEW r \in Runs, Save(r)
      PROVE  SettingsInv'
  BY <1>4 DEF SettingsInv, Save
<1>5. ASSUME NEW r \in Runs,
             \/ RunByHand(r) \/ AutoCheck(r) \/ AutoConfig(r)
             \/ RunConfig(r) \/ RunBuild(r) \/ RunPublish(r) \/ RunFails(r)
             \/ \E what \in Reads : RunRead(r, what)
      PROVE  SettingsInv'
  BY <1>1, <1>5 DEF RunByHand, AutoCheck, AutoConfig, RunConfig, RunBuild, RunPublish, RunFails,
                    RunRead, settings
<1>6. CASE UNCHANGED trendingVars
  BY <1>1, <1>6 DEF trendingVars, settings
<1> QED BY <1>2, <1>3, <1>4, <1>5, <1>6 DEF TrendingNext

(* What is published stays a board, in every step. *)
LEMMA PublishedStep ==
  ASSUME TrendingInv, [TrendingNext]_trendingVars
  PROVE  PublishedInv'
<1>1. ASSUME UNCHANGED <<entries, ticked, rest>>
      PROVE  PublishedInv'
  BY <1>1 DEF TrendingInv, PublishedInv, BoardOK
<1>2. CASE Freeze \/ IntervalEnds
  BY <1>1, <1>2 DEF Freeze, IntervalEnds, published
<1>3. CASE DayEnds
  BY <1>3, DayEndsKeeps
<1>4. ASSUME NEW c \in Creators, SetOverride(c) \/ ClearCooldown(c) \/ Tick(c)
      PROVE  PublishedInv'
  <2>1. CASE SetOverride(c)
    BY <1>1, <2>1 DEF SetOverride, published
  <2>2. CASE ClearCooldown(c)
    <3>1. rest' \in [Creators -> 0 .. MaxAge]
      BY <2>2, RunBoundsAssumption DEF TrendingInv, PublishedInv, ClearCooldown
    <3> QED BY <2>2, <3>1 DEF TrendingInv, PublishedInv, ClearCooldown
  <2>3. CASE Tick(c)
    BY <2>3 DEF TrendingInv, PublishedInv, Tick
  <2> QED BY <1>4, <2>1, <2>2, <2>3
<1>5. ASSUME NEW r \in Runs,
             \/ Save(r) \/ RunByHand(r) \/ AutoCheck(r) \/ AutoConfig(r)
             \/ RunConfig(r) \/ RunBuild(r) \/ RunFails(r)
             \/ \E what \in Reads : RunRead(r, what)
      PROVE  PublishedInv'
  BY <1>1, <1>5 DEF Save, RunByHand, AutoCheck, AutoConfig, RunConfig, RunBuild, RunFails,
                    RunRead, published
<1>6. ASSUME NEW r \in Runs, RunPublish(r)
      PROVE  PublishedInv'
  BY <1>6, PublishKeeps
<1>7. CASE UNCHANGED trendingVars
  BY <1>1, <1>7 DEF trendingVars, published
<1> QED BY <1>2, <1>3, <1>4, <1>5, <1>6, <1>7 DEF TrendingNext

(* The runs carry on what they read, in every step. *)
LEMMA PlansStep ==
  ASSUME TrendingInv, [TrendingNext]_trendingVars
  PROVE  PlansInv'
<1>1. ASSUME UNCHANGED run
      PROVE  PlansInv'
  BY <1>1 DEF TrendingInv, PlansInv, OneEachRun
<1>2. CASE Freeze \/ IntervalEnds \/ DayEnds
  BY <1>1, <1>2 DEF Freeze, IntervalEnds, DayEnds
<1>3. ASSUME NEW c \in Creators, SetOverride(c) \/ ClearCooldown(c) \/ Tick(c)
      PROVE  PlansInv'
  BY <1>1, <1>3 DEF SetOverride, ClearCooldown, Tick
<1>4. ASSUME NEW r \in Runs,
             \/ Save(r) \/ RunByHand(r) \/ AutoCheck(r) \/ AutoConfig(r)
             \/ RunConfig(r) \/ RunBuild(r) \/ RunPublish(r) \/ RunFails(r)
             \/ \E what \in Reads : RunRead(r, what)
      PROVE  PlansInv'
  BY <1>4, PlansOfARun DEF TrendingInv
<1>5. CASE UNCHANGED trendingVars
  BY <1>1, <1>5 DEF trendingVars
<1> QED BY <1>2, <1>3, <1>4, <1>5 DEF TrendingNext

(* The program starts so. *)
LEMMA TrendingStarts == TrendingInit => TrendingInv
<1> SUFFICES ASSUME TrendingInit
             PROVE  TrendingInv
  OBVIOUS
<1>1. FlagsInv
  BY DEF TrendingInit, FlagsInv
<1>2. SettingsInv
  BY RunBoundsAssumption DEF TrendingInit, SettingsInv, NoOverride, Overrides, OverrideKinds
<1>3. BoardOK(entries)
  <2>1. entries = << >> /\ << >> \in Seq(Entries) /\ Len(<< >>) = 0 /\ Distinct(<< >>)
    BY DEF TrendingInit, Distinct
  <2>2. config \in Configs /\ config.slots \in Nat
    BY ConfigsAssumption DEF TrendingInit, ConfigType
  <2> QED BY <2>1, <2>2 DEF BoardOK
<1>4. PublishedInv
  BY <1>3, RunBoundsAssumption DEF TrendingInit, PublishedInv
<1>5. PlansInv
  BY IdlePrepared DEF TrendingInit, PlansInv, OneEachRun
<1> QED BY <1>1, <1>2, <1>4, <1>5 DEF TrendingInv

(* The invariant that every theorem below is read off: the rows keep their    *)
(* types, and a run about to publish holds the board that buildBoard makes of *)
(* something it can be given.                                                 *)
THEOREM TrendingInvariant == TrendingSpec => []TrendingInv
<1>1. TrendingInv /\ [TrendingNext]_trendingVars => TrendingInv'
  BY FlagsStep, SettingsStep, PublishedStep, PlansStep DEF TrendingInv
<1> QED BY <1>1, TrendingStarts, PTL DEF TrendingSpec

(* As many holders as slots held. *)
LEMMA DistinctCounted ==
  ASSUME NEW E, NEW list \in Seq(E), Distinct(list)
  PROVE  Cardinality(Holders(list)) = Len(list)
<1>1. PICK n \in Nat : n = Len(list) /\ DOMAIN list = 1 .. n
  OBVIOUS
<1>2. PICK S, H : S = 1 .. n /\ H = Holders(list)
  OBVIOUS
<1>3. IsFiniteSet(S) /\ Cardinality(S) = n
  BY <1>2, FS_Interval
<1>4. PICK f : f = [i \in S |-> list[i].creator]
  OBVIOUS
<1>5. f \in Injection(S, H)
  BY <1>1, <1>2, <1>4 DEF Injection, IsInjective, Distinct, Holders
<1>6. f \in Surjection(S, H)
  BY <1>1, <1>2, <1>4 DEF Surjection, Holders
<1> QED BY <1>1, <1>2, <1>3, <1>5, <1>6, FS_Surjection

(* runTrending and the forms beside it: every row keeps its type, nobody ever *)
(* holds two slots, and no board is longer than some settings asked.          *)
THEOREM TrendingTyped == TrendingSpec => []TrendingTypeOK
<1>1. TrendingInv => TrendingTypeOK
  <2> SUFFICES ASSUME TrendingInv
               PROVE  TrendingTypeOK
    OBVIOUS
  <2>1. BoardOK(entries)
    BY DEF TrendingInv, PublishedInv
  <2>2. \A i \in DOMAIN entries : entries[i] \in Entries
    BY <2>1 DEF BoardOK
  <2>3. \A e \in Entries : e.creator \in Creators
    BY DEF Entries
  <2>4. Holders(entries) \subseteq Creators
    BY <2>2, <2>3 DEF Holders
  <2>5. Cardinality(Holders(entries)) = Len(entries)
    BY <2>1, DistinctCounted DEF BoardOK
  <2>6. \A r \in Runs : run[r].op \in {"idle", "auto.config", "run.config", "run.read", "run.publish"}
    BY DEF TrendingInv, PlansInv, Prepared
  <2>7. {frozen, due, refreshInFlight} \subseteq BOOLEAN
    BY DEF TrendingInv, FlagsInv
  <2> QED BY <2>1, <2>2, <2>4, <2>5, <2>6, <2>7, ConfigsAssumption
          DEF TrendingTypeOK, TrendingInv, SettingsInv, PublishedInv, BoardOK
<1> QED BY <1>1, TrendingInvariant, PTL

-------------------------------------------------------------------------------
(* The properties of the boards. *)

(* What a run is about to publish. *)
LEMMA PlannedBoards ==
  ASSUME TrendingInv, NEW r \in Runs, At(r, "run.publish")
  PROVE  /\ GoodInput(run[r].in) /\ run[r].in.config \in Configs
         /\ run[r].board = BuildBoard(run[r].in)
BY DEF At, TrendingInv, PlansInv, Prepared

(* buildBoard, the pins that lead: as long as there are slots for them, no  *)
(* cap, no rest, no limit on new faces and no reserved slot costs one its   *)
(* place, whatever the settings, the scores and the groups of the creators. *)
THEOREM PinsAlwaysKeepTheirSeats == TrendingSpec => []PinsKeepTheirSeats
<1>1. TrendingInv => PinsKeepTheirSeats
  <2> SUFFICES ASSUME TrendingInv, NEW r \in Runs, At(r, "run.publish"),
                      Hybrid(run[r].in), run[r].in.config.pinnedFirst,
                      Cardinality(Pinned(run[r].in)) <= run[r].in.config.slots
               PROVE  Pinned(run[r].in) \subseteq Holders(run[r].board)
    BY DEF PinsKeepTheirSeats, Planned
  <2>1. PICK in, board : in = run[r].in /\ board = run[r].board
    OBVIOUS
  <2>2. GoodInput(in) /\ board = BuildBoard(in)
    BY <2>1, PlannedBoards
  <2>3. Lead(in) /\ Cardinality(Pinned(in)) <= in.config.slots
    BY <2>1 DEF Lead
  <2> QED BY <2>1, <2>2, <2>3, BoardKeepsPins
<1> QED BY <1>1, TrendingInvariant, PTL

(* buildBoard, the limit on new faces: whoever may be ranked and is missing *)
(* from a board with room has a full cap, whatever else the settings say.   *)
THEOREM NoSlotIsEverWasted == TrendingSpec => []NoSlotIsWasted
<1>1. TrendingInv => NoSlotIsWasted
  <2> SUFFICES ASSUME TrendingInv, NEW r \in Runs, At(r, "run.publish"),
                      Len(run[r].board) < run[r].in.config.slots,
                      run[r].in.config.mode # "manual",
                      NEW c \in Rankable(run[r].in) \ Holders(run[r].board)
               PROVE  CapReached(run[r].in, [NoBoard EXCEPT !.entries = run[r].board], c)
    BY DEF NoSlotIsWasted, Planned
  <2>1. PICK in, board : in = run[r].in /\ board = run[r].board
    OBVIOUS
  <2>2. GoodInput(in) /\ board = BuildBoard(in)
    BY <2>1, PlannedBoards
  <2>3. CapReached(in, [NoBoard EXCEPT !.entries = board], c)
    BY <2>1, <2>2, BoardIsNotWasted
  <2> QED BY <2>1, <2>3
<1> QED BY <1>1, TrendingInvariant, PTL

(* Every mixed board that may be saved lets its pins lead. *)
PinsAlwaysLead == \A c \in Configs : c.mode = "hybrid" => c.pinnedFirst

(* buildBoard, the reserved slots: while fewer newcomers sit on the board than  *)
(* were asked for, every entry is a pin or a newcomer, or each newcomer left    *)
(* out was met by a full cap.  A late pin may displace a newcomer again, so the *)
(* theorem is about settings under which pins lead.                             *)
THEOREM NewcomersAlwaysGetIn ==
  ASSUME PinsAlwaysLead
  PROVE  TrendingSpec => []NewcomersGetIn
<1>1. TrendingInv => NewcomersGetIn
  <2> SUFFICES ASSUME TrendingInv, NEW r \in Runs, At(r, "run.publish"),
                      run[r].in.config.mode # "manual",
                      ~(Cardinality(Holders(run[r].board) \cap Newcomers) >= run[r].in.config.newcomerSlots),
                      NEW i \in DOMAIN run[r].board, GivesWay(run[r].board[i]),
                      NEW c \in (Newcomers \cap Rankable(run[r].in)) \ Holders(run[r].board)
               PROVE  \E k \in DOMAIN Ranked(run[r].in).bench :
                        Ranked(run[r].in).bench[k] = [creator |-> c, reason |-> "cap"]
    BY DEF NewcomersGetIn, Planned
  <2>1. PICK in, board : in = run[r].in /\ board = run[r].board
    OBVIOUS
  <2>2. GoodInput(in) /\ in.config \in Configs /\ board = BuildBoard(in)
    BY <2>1, PlannedBoards
  <2>3. Settled(in)
    BY <2>2, PinsAlwaysLead DEF Settled, Hybrid, PinsAlwaysLead
  <2>4. Cardinality(Holders(board) \cap Newcomers) < in.config.newcomerSlots
    <3>1. in.config.newcomerSlots \in Nat
      BY <2>2 DEF GoodInput, ConfigType
    <3>2. Cardinality(Holders(board) \cap Newcomers) \in Nat
      <4>1. Holders(board) \cap Newcomers \in SUBSET Creators
        BY NewcomersAssumption
      <4>2. IsFiniteSet(Holders(board) \cap Newcomers)
        BY <4>1, CreatorsAssumption, FS_Subset
      <4> QED BY <4>2, FS_CardinalityType
    <3> QED BY <2>1, <3>1, <3>2
  <2>5. \E k \in DOMAIN Ranked(in).bench : Ranked(in).bench[k] = Row(c, "cap")
    BY <2>1, <2>2, <2>3, <2>4, BoardLetsNewcomersIn
  <2> QED BY <2>1, <2>5 DEF Row
<1> QED BY <1>1, TrendingInvariant, PTL

-------------------------------------------------------------------------------
(* Rests. *)

(* Between its reads and its end a run is alone. *)
AtWork(r) == run[r].op \in {"run.read", "run.publish"}
RunsInTurn == \A r, s \in Runs : AtWork(r) /\ AtWork(s) => r = s

(* A run knows of every rest that its board could cut short. *)
KnowsRests(state, rests) ==
  /\ state.op = "run.read" /\ "cooldowns" \notin state.todo =>
       \A c \in Creators : rests[c] > 0 => c \in state.resting
  /\ state.op = "run.publish" =>
       \A c \in Creators : rests[c] > 0 \/ c \in state.rotate => c \in state.in.resting

RestInv == RestIsKept /\ \A r \in Runs : KnowsRests(run[r], rest)

(* A rest only ends: by the clock, or by an operator. *)
LEMMA RestsShorten ==
  ASSUME TrendingInv, RestInv, UNCHANGED run,
         \A c \in Creators : rest'[c] > 0 => rest[c] > 0,
         rest' \in [Creators -> 0 .. MaxAge],
         DOMAIN entries' = DOMAIN entries,
         \A i \in DOMAIN entries : /\ entries'[i].source = entries[i].source
                                   /\ entries'[i].creator = entries[i].creator
  PROVE  RestInv'
<1>1. rest \in [Creators -> 0 .. MaxAge] /\ MaxAge \in Nat
  BY RunBoundsAssumption DEF TrendingInv, PublishedInv
<1>2. \A i \in DOMAIN entries : entries[i].creator \in Creators
  <2>1. \A i \in DOMAIN entries : entries[i] \in Entries
    BY DEF TrendingInv, PublishedInv, BoardOK
  <2>2. \A e \in Entries : e.creator \in Creators
    BY DEF Entries
  <2> QED BY <2>1, <2>2
<1>3. \A c \in Creators : rest[c] = 0 => rest'[c] = 0
  BY <1>1
<1>4. RestIsKept'
  BY <1>2, <1>3 DEF RestInv, RestIsKept
<1>5. \A r \in Runs : KnowsRests(run'[r], rest')
  BY DEF RestInv, KnowsRests
<1> QED BY <1>4, <1>5 DEF RestInv

(* One run moves on and knows of every rest still. *)
LEMMA RestsMove ==
  ASSUME TrendingInv, RestInv, NEW r \in Runs, NEW state, Goto(r, state),
         KnowsRests(state, rest), UNCHANGED <<entries, rest>>
  PROVE  RestInv'
<1>1. run'[r] = state /\ \A s \in Runs \ {r} : run'[s] = run[s]
  BY DEF TrendingInv, PlansInv, OneEachRun, Goto
<1>2. RestIsKept'
  BY DEF RestInv, RestIsKept
<1>3. \A s \in Runs : KnowsRests(run'[s], rest')
  BY <1>1 DEF RestInv
<1> QED BY <1>2, <1>3 DEF RestInv

(* The transaction: whoever the board gives a slot for the score does not  *)
(* rest, and its own rotation starts no rest the board did not know.       *)
LEMMA RestsPublish ==
  ASSUME PinsAlwaysLead, TrendingInv, RunsInTurn, RestInv, NEW r \in Runs, RunPublish(r)
  PROVE  RestInv'
<1>1. PICK in, board : in = run[r].in /\ board = run[r].board
  OBVIOUS
<1>2. run[r].op = "run.publish"
  BY DEF RunPublish, At
<1>3. GoodInput(in) /\ in.config \in Configs /\ board = BuildBoard(in)
  BY <1>1, <1>2, PlannedBoards DEF At
<1>4. /\ DOMAIN entries' = DOMAIN board
      /\ \A i \in DOMAIN board : /\ entries'[i].source = board[i].source
                                 /\ entries'[i].creator = board[i].creator
  BY <1>1 DEF RunPublish
<1>5. \A i \in DOMAIN board :
        board[i].source = "algorithm" => board[i].creator \in Creators \ in.resting
  <2>1. CASE in.config.mode = "manual"
    BY <1>3, <2>1, BoardByHand
  <2>2. CASE in.config.mode # "manual"
    <3>1. Settled(in)
      BY <1>3 DEF Settled, Hybrid, PinsAlwaysLead
    <3> QED BY <1>3, <2>2, <3>1, BoardLetsRest
  <2> QED BY <2>1, <2>2
<1>6. \A c \in Creators \ in.resting : rest'[c] = 0
  <2>1. rest \in [Creators -> 0 .. MaxAge] /\ MaxAge \in Nat
    BY RunBoundsAssumption DEF TrendingInv, PublishedInv
  <2>2. \A c \in Creators \ in.resting : ~(rest[c] > 0) /\ c \notin run[r].rotate
    BY <1>1, <1>2 DEF RestInv, KnowsRests
  <2>3. \A c \in Creators \ in.resting : rest[c] = 0
    BY <2>1, <2>2
  <2>4. \A c \in Creators : rest'[c] = IF c \in run[r].rotate THEN run[r].in.config.cooldownDays
                                       ELSE rest[c]
    BY DEF RunPublish
  <2> QED BY <2>2, <2>3, <2>4
<1>7. RestIsKept'
  BY <1>4, <1>5, <1>6 DEF RestIsKept
<1>8. run'[r] = Idle /\ \A s \in Runs \ {r} : run'[s] = run[s]
  BY DEF RunPublish, Ends, Goto, TrendingInv, PlansInv, OneEachRun
<1>9. \A s \in Runs : KnowsRests(run'[s], rest')
  <2>1. \A s \in Runs \ {r} : run[s].op \notin {"run.read", "run.publish"}
    BY <1>2 DEF RunsInTurn, AtWork
  <2>2. KnowsRests(Idle, rest')
    BY DEF KnowsRests, Idle
  <2>3. \A s \in Runs \ {r} : KnowsRests(run[s], rest')
    BY <2>1 DEF KnowsRests
  <2> QED BY <1>8, <2>2, <2>3
<1> QED BY <1>7, <1>9 DEF RestInv

(* Every other step of a run. *)
LEMMA RestsOfARun ==
  ASSUME TrendingInv, RestInv, NEW r \in Runs,
         \/ Save(r) \/ RunByHand(r) \/ AutoCheck(r) \/ AutoConfig(r)
         \/ RunConfig(r) \/ RunBuild(r) \/ RunFails(r)
         \/ \E what \in Reads : RunRead(r, what)
  PROVE  RestInv'
<1>0. UNCHANGED <<entries, rest>>
  BY DEF Save, RunByHand, AutoCheck, AutoConfig, RunConfig, RunBuild, RunFails, RunRead, published
<1>1. ASSUME NEW state, Goto(r, state), state.op \notin {"run.read", "run.publish"}
      PROVE  RestInv'
  <2>1. KnowsRests(state, rest)
    BY <1>1 DEF KnowsRests
  <2> QED BY <1>0, <1>1, <2>1, RestsMove
<1>2. ASSUME UNCHANGED run
      PROVE  RestInv'
  BY <1>0, <1>2 DEF RestInv, RestIsKept
<1>3. Idle.op = "idle"
  BY DEF Idle
<1>4. CASE Save(r)
  <2>1. CASE frozen'
    BY <1>2, <1>4, <2>1 DEF Save
  <2>2. CASE ~frozen'
    <3>1. PICK state : Goto(r, state) /\ state = [op |-> "run.config", auto |-> FALSE]
      BY <1>4, <2>2 DEF Save
    <3> QED BY <1>1, <3>1
  <2> QED BY <2>1, <2>2
<1>5. CASE RunByHand(r)
  <2>1. PICK state : Goto(r, state) /\ state = [op |-> "run.config", auto |-> FALSE]
    BY <1>5 DEF RunByHand
  <2> QED BY <1>1, <2>1
<1>6. CASE AutoCheck(r)
  <2>1. PICK state : Goto(r, state) /\ state = [op |-> "auto.config"]
    BY <1>6 DEF AutoCheck
  <2> QED BY <1>1, <2>1
<1>7. CASE AutoConfig(r)
  <2>1. PICK state : /\ Goto(r, state)
                     /\ \/ state = [op |-> "run.config", auto |-> TRUE]
                        \/ state = Idle
    BY <1>7 DEF AutoConfig
  <2>2. state.op \in {"idle", "run.config"}
    BY <1>3, <2>1
  <2> QED BY <1>1, <2>1, <2>2
<1>8. CASE RunConfig(r)
  <2>1. CASE EndsFrozen(r)
    BY <1>1, <1>3, <2>1 DEF EndsFrozen, Ends
  <2>2. CASE ~EndsFrozen(r)
    <3>1. PICK none : none = [c \in Creators |-> NoOverride]
      OBVIOUS
    <3>2. PICK state :
            /\ Goto(r, state)
            /\ state = [op |-> "run.read", auto |-> run[r].auto, config |-> config, todo |-> Reads,
                        overrides |-> none, previous |-> << >>, resting |-> {}]
      BY <1>8, <2>2, <3>1 DEF RunConfig
    <3>3. state.op = "run.read" /\ "cooldowns" \in state.todo
      BY <3>2 DEF Reads
    <3>4. KnowsRests(state, rest)
      BY <3>3 DEF KnowsRests
    <3> QED BY <1>0, <3>2, <3>4, RestsMove
  <2> QED BY <2>1, <2>2
<1>9. CASE RunBuild(r)
  <2>1. run[r].op = "run.read" /\ run[r].todo = {} /\ Prepared(run[r]) /\ KnowsRests(run[r], rest)
    BY <1>9 DEF RunBuild, At, TrendingInv, PlansInv, RestInv
  <2>2. PICK m \in Measures : \E state :
          /\ Goto(r, state)
          /\ state = [op |-> "run.publish", auto |-> run[r].auto, previous |-> run[r].previous,
                      rotate |-> RotateOut(run[r]), in |-> Input(run[r], m),
                      board |-> BuildBoard(Input(run[r], m))]
    BY <1>9 DEF RunBuild
  <2>3. PICK in, out, now : in = Input(run[r], m) /\ out = RotateOut(run[r]) /\ now = Resting(run[r])
    OBVIOUS
  <2>4. PICK state :
          /\ Goto(r, state)
          /\ state = [op |-> "run.publish", auto |-> run[r].auto, previous |-> run[r].previous,
                      rotate |-> out, in |-> in, board |-> BuildBoard(in)]
    BY <2>2, <2>3
  <2>5. in.resting = now
    BY <2>1, <2>3, InputIs
  <2>6. now = run[r].resting \cup out
    BY <2>3 DEF Resting
  <2>7. state.op = "run.publish" /\ state.in.resting = now /\ state.rotate = out
    BY <2>4, <2>5
  <2>8. \A c \in Creators : rest[c] > 0 => c \in run[r].resting
    BY <2>1 DEF KnowsRests
  <2>9. KnowsRests(state, rest)
    BY <2>6, <2>7, <2>8 DEF KnowsRests
  <2> QED BY <1>0, <2>4, <2>9, RestsMove
<1>10. CASE RunFails(r)
  BY <1>1, <1>3, <1>10 DEF RunFails, Ends
<1>11. CASE \E what \in Reads : RunRead(r, what)
  <2>1. PICK what \in Reads : RunRead(r, what)
    BY <1>11
  <2>2. run[r].op = "run.read" /\ Prepared(run[r]) /\ KnowsRests(run[r], rest)
    BY <2>1 DEF RunRead, At, TrendingInv, PlansInv, RestInv
  <2>3. PICK left : left = [run[r] EXCEPT !.todo = @ \ {what}]
    OBVIOUS
  <2>4. run[r] \in Reading /\ left \in Reading /\ left.resting = run[r].resting
        /\ left.todo = run[r].todo \ {what} /\ left.op = "run.read"
    BY <2>2, <2>3 DEF Prepared, Reading
  <2>5. PICK state : Goto(r, state) /\
          \/ what = "overrides" /\ state = [left EXCEPT !.overrides = overrides]
          \/ what = "entries" /\ state = [left EXCEPT !.previous = entries]
          \/ what = "cooldowns" /\ state = [left EXCEPT !.resting = {c \in Creators : rest[c] > 0}]
    BY <2>1, <2>3 DEF RunRead, Reads
  <2>6. state.op = "run.read" /\ state.todo = run[r].todo \ {what}
    BY <2>4, <2>5 DEF Reading
  <2>7. CASE what = "cooldowns"
    <3>1. state.resting = {c \in Creators : rest[c] > 0}
      BY <2>4, <2>5, <2>7 DEF Reading
    <3>2. KnowsRests(state, rest)
      BY <2>6, <3>1 DEF KnowsRests
    <3> QED BY <1>0, <2>5, <3>2, RestsMove
  <2>8. CASE what # "cooldowns"
    <3>1. state.resting = run[r].resting
      BY <2>4, <2>5, <2>8 DEF Reading
    <3>2. KnowsRests(state, rest)
      BY <2>2, <2>6, <2>8, <3>1 DEF KnowsRests
    <3> QED BY <1>0, <2>5, <3>2, RestsMove
  <2> QED BY <2>7, <2>8
<1> QED BY <1>4, <1>5, <1>6, <1>7, <1>8, <1>9, <1>10, <1>11

(* Every step. *)
LEMMA RestStep ==
  ASSUME PinsAlwaysLead, TrendingInv, TrendingInv', RunsInTurn, RestInv, [TrendingNext]_trendingVars
  PROVE  RestInv'
<1>1. ASSUME UNCHANGED <<entries, rest, run>>
      PROVE  RestInv'
  BY <1>1 DEF RestInv, RestIsKept
<1>2. rest' \in [Creators -> 0 .. MaxAge] /\ rest \in [Creators -> 0 .. MaxAge] /\ MaxAge \in Nat
  BY RunBoundsAssumption DEF TrendingInv, PublishedInv
<1>3. CASE Freeze \/ IntervalEnds
  BY <1>1, <1>3 DEF Freeze, IntervalEnds, published
<1>4. CASE DayEnds
  <2>1. UNCHANGED run
    BY <1>4 DEF DayEnds
  <2>2. \A c \in Creators : rest'[c] > 0 => rest[c] > 0
    BY <1>2, <1>4 DEF DayEnds
  <2>3. PICK list, rows : list = entries /\ rows = entries'
    OBVIOUS
  <2>4. list \in Seq(Entries)
    BY <2>3 DEF TrendingInv, PublishedInv, BoardOK
  <2>5. rows = [i \in DOMAIN list |->
          IF list[i].days < MaxAge THEN [list[i] EXCEPT !.days = @ + 1] ELSE list[i]]
    BY <1>4, <2>3 DEF DayEnds
  <2>6. \A i \in DOMAIN list : rows[i].source = list[i].source /\ rows[i].creator = list[i].creator
    <3> SUFFICES ASSUME NEW i \in DOMAIN list
                 PROVE  rows[i].source = list[i].source /\ rows[i].creator = list[i].creator
      OBVIOUS
    <3>1. PICK e \in Entries : e = list[i]
      BY <2>4
    <3>2. rows[i] = IF e.days < MaxAge THEN [e EXCEPT !.days = @ + 1] ELSE e
      BY <2>5, <3>1
    <3>3. PICK x : x = rows[i] /\ (x = [e EXCEPT !.days = e.days + 1] \/ x = e)
      BY <3>2
    <3>4. x.source = e.source /\ x.creator = e.creator
      BY <3>3 DEF Entries
    <3> QED BY <3>1, <3>3, <3>4
  <2>7. DOMAIN rows = DOMAIN list
    BY <2>5
  <2> QED BY <1>2, <2>1, <2>2, <2>3, <2>6, <2>7, RestsShorten
<1>5. ASSUME NEW c \in Creators, SetOverride(c) \/ ClearCooldown(c) \/ Tick(c)
      PROVE  RestInv'
  <2>1. CASE SetOverride(c) \/ Tick(c)
    BY <1>1, <2>1 DEF SetOverride, Tick, published
  <2>2. CASE ClearCooldown(c)
    <3>1. UNCHANGED <<entries, run>>
      BY <2>2 DEF ClearCooldown
    <3>2. \A d \in Creators : rest'[d] > 0 => rest[d] > 0
      BY <1>2, <2>2 DEF ClearCooldown
    <3> QED BY <1>2, <3>1, <3>2, RestsShorten
  <2> QED BY <1>5, <2>1, <2>2
<1>6. ASSUME NEW r \in Runs,
             \/ Save(r) \/ RunByHand(r) \/ AutoCheck(r) \/ AutoConfig(r)
             \/ RunConfig(r) \/ RunBuild(r) \/ RunFails(r)
             \/ \E what \in Reads : RunRead(r, what)
      PROVE  RestInv'
  BY <1>6, RestsOfARun
<1>7. ASSUME NEW r \in Runs, RunPublish(r)
      PROVE  RestInv'
  BY <1>7, RestsPublish
<1>8. CASE UNCHANGED trendingVars
  BY <1>1, <1>8 DEF trendingVars, published
<1> QED BY <1>3, <1>4, <1>5, <1>6, <1>7, <1>8 DEF TrendingNext

(* runTrending, rotation: no creator holds a slot for the score while a rest   *)
(* lasts, as long as runs take turns and pins lead.  A run that overlaps       *)
(* another has read the rests before the other adds to them; and where pins do *)
(* not lead, a resting pin may take a reserved slot.                           *)
THEOREM RestIsAlwaysKept ==
  ASSUME PinsAlwaysLead
  PROVE  TrendingSpec /\ []RunsInTurn => []RestIsKept
<1>1. TrendingInit => RestInv
  BY DEF TrendingInit, RestInv, RestIsKept, KnowsRests, Idle
<1>2. TrendingInv /\ TrendingInv' /\ RunsInTurn /\ RestInv /\ [TrendingNext]_trendingVars => RestInv'
  BY PinsAlwaysLead, RestStep
<1>3. RestInv => RestIsKept
  BY DEF RestInv
<1> QED BY <1>1, <1>2, <1>3, TrendingInvariant, PTL DEF TrendingSpec
===============================================================================
