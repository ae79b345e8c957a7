--------------------------- MODULE ApplicationsProofs ---------------------------
(***************************************************************************)
(* What TLAPS proves of Applications for any number of briefs, creators,   *)
(* requests and announcements: the types; that nobody is told of a brief   *)
(* twice; and, where no request is cut short, that the tally of a brief    *)
(* never says too much.                                                    *)
(***************************************************************************)
EXTENDS Applications, FiniteSetTheorems, TLAPS

-------------------------------------------------------------------------------
(* Types *)

RowsType ==
  /\ campaign \in [Campaigns -> [status : CampaignStatuses, paid : BOOLEAN,
                                 deleted : BOOLEAN, announced : BOOLEAN]]
  /\ tally \in [Campaigns -> Nat] /\ minimum \in Nat
  /\ application \in [Pairs -> [status : Statuses, price : Prices \cup {0}]]
  /\ deals \in [Pairs -> [opened : Nat, offers : Nat]]
  /\ told \in [Pairs -> Nat] /\ week \in [Creators -> Nat]

(* A request moves on; the rows keep their types. *)
LEMMA RequestMoves ==
  ASSUME ApplicationsTypeOK, NEW r \in Requests, NEW state \in RequestTypes, Goto(r, state),
         RowsType', UNCHANGED announcer
  PROVE  ApplicationsTypeOK'
BY DEF ApplicationsTypeOK, RowsType, Goto

LEMMA AnnouncerMoves ==
  ASSUME ApplicationsTypeOK, NEW n \in Announcers, NEW state \in AnnouncerTypes,
         Announcing(n, state), RowsType', UNCHANGED req
  PROVE  ApplicationsTypeOK'
BY DEF ApplicationsTypeOK, RowsType, Announcing

LEMMA RowsStay ==
  ASSUME ApplicationsTypeOK,
         UNCHANGED <<campaign, tally, minimum, application, deals, told, week>>
  PROVE  RowsType'
BY DEF ApplicationsTypeOK, RowsType

LEMMA IdleType == Idle \in RequestTypes /\ Idle \in AnnouncerTypes
BY DEF RequestTypes, AnnouncerTypes

(* What a request carries, and that it goes on with it. *)
LEMMA ApplyCarries ==
  ASSUME ApplicationsTypeOK, NEW r \in Requests, req[r].op \in ApplyOps
  PROVE  /\ req[r].a \in Pairs /\ req[r].price \in Prices
         /\ \A op \in ApplyOps : [req[r] EXCEPT !.op = op] \in RequestTypes
<1> DEFINE Carried == [op : ApplyOps, a : Pairs, price : Prices, paid : BOOLEAN]
<1>1. req[r] \in Carried
  BY DEF ApplicationsTypeOK, RequestTypes, ApplyOps, DecideOps, Idle
<1>2. Carried \subseteq RequestTypes
  BY DEF RequestTypes
<1>3. \A op \in ApplyOps : [req[r] EXCEPT !.op = op] \in Carried
  BY <1>1
<1> QED BY <1>1, <1>2, <1>3

LEMMA DecideCarries ==
  ASSUME ApplicationsTypeOK, NEW r \in Requests, req[r].op \in DecideOps
  PROVE  /\ req[r].a \in Pairs /\ req[r].verdict \in Verdicts
         /\ \A op \in DecideOps : [req[r] EXCEPT !.op = op] \in RequestTypes
<1> DEFINE Carried == [op : DecideOps, a : Pairs, verdict : Verdicts, price : Prices \cup {0},
                       paid : BOOLEAN]
<1>1. req[r] \in Carried
  BY DEF ApplicationsTypeOK, RequestTypes, ApplyOps, DecideOps, Idle
<1>2. Carried \subseteq RequestTypes
  BY DEF RequestTypes
<1>3. \A op \in DecideOps : [req[r] EXCEPT !.op = op] \in Carried
  BY <1>1
<1> QED BY <1>1, <1>2, <1>3

LEMMA WithdrawCarries ==
  ASSUME ApplicationsTypeOK, NEW r \in Requests,
         req[r].op \in {"withdraw.write", "withdraw.recount"}
  PROVE  req[r].a \in Pairs /\ [req[r] EXCEPT !.op = "withdraw.recount"] \in RequestTypes
<1> DEFINE Carried == [op : {"withdraw.write", "withdraw.recount"}, a : Pairs]
<1>1. req[r] \in Carried
  BY DEF ApplicationsTypeOK, RequestTypes, ApplyOps, DecideOps, Idle
<1>2. [req[r] EXCEPT !.op = "withdraw.recount"] \in Carried
  BY <1>1
<1> QED BY <1>1, <1>2 DEF RequestTypes

(* The creators that count are some of the creators, of which there are    *)
(* finitely many.                                                          *)
LEMMA CountedFinite ==
  ASSUME NEW k \in Campaigns
  PROVE  /\ IsFiniteSet(Counted(k)) /\ Cardinality(Counted(k)) \in Nat
         /\ \A S \in SUBSET Counted(k) : Cardinality(S) <= Cardinality(Counted(k))
<1>1. Counted(k) \subseteq Creators /\ IsFiniteSet(Creators)
  BY BriefsAssumption DEF Counted
<1>2. IsFiniteSet(Counted(k))
  BY <1>1, FS_Subset
<1> QED BY <1>2, FS_Subset, FS_CardinalityType

LEMMA BeginsType ==
  ASSUME ApplicationsTypeOK, NEW r \in Requests, NEW a \in Pairs, Begins(r, a)
  PROVE  ApplicationsTypeOK'
<1>0. a[1] \in Campaigns
  BY DEF Pairs
<1>1. ASSUME NEW price \in Prices, ApplyReads(r, a, price) PROVE ApplicationsTypeOK'
  <2> DEFINE state == [op |-> "apply.size", a |-> a, price |-> price, paid |-> campaign[a[1]].paid]
  <2>1. state \in RequestTypes
    BY <1>0 DEF RequestTypes, ApplyOps, ApplicationsTypeOK
  <2> HIDE DEF state
  <2>2. Goto(r, state) /\ UNCHANGED <<campaign, tally, minimum, application, deals, told, week, announcer>>
    BY <1>1 DEF ApplyReads, briefs, rows, state
  <2> QED BY <2>1, <2>2, RowsStay, RequestMoves
<1>2. ASSUME NEW verdict \in Verdicts, DecideReads(r, a, verdict) PROVE ApplicationsTypeOK'
  <2> DEFINE state == [op |-> "decide.write", a |-> a, verdict |-> verdict,
                       price |-> application[a].price, paid |-> campaign[a[1]].paid]
  <2>1. state \in RequestTypes
    BY <1>0 DEF RequestTypes, DecideOps, ApplicationsTypeOK
  <2> HIDE DEF state
  <2>2. Goto(r, state) /\ UNCHANGED <<campaign, tally, minimum, application, deals, told, week, announcer>>
    BY <1>2 DEF DecideReads, briefs, rows, state
  <2> QED BY <2>1, <2>2, RowsStay, RequestMoves
<1>3. CASE WithdrawReads(r, a)
  <2> DEFINE state == [op |-> "withdraw.write", a |-> a]
  <2>1. state \in RequestTypes
    BY DEF RequestTypes
  <2> HIDE DEF state
  <2>2. Goto(r, state) /\ UNCHANGED <<campaign, tally, minimum, application, deals, told, week, announcer>>
    BY <1>3 DEF WithdrawReads, briefs, rows, state
  <2> QED BY <2>1, <2>2, RowsStay, RequestMoves
<1> QED BY <1>1, <1>2, <1>3 DEF Begins

LEMMA GoesOnType ==
  ASSUME ApplicationsTypeOK, NEW r \in Requests, GoesOn(r)
  PROVE  ApplicationsTypeOK'
<1> DEFINE still == <<campaign, tally, minimum, application, deals, told, week, announcer>>
<1>1. CASE ApplySizes(r)
  <2>1. Goto(r, Idle) \/ Goto(r, [req[r] EXCEPT !.op = "apply.insert"])
    BY <1>1 DEF ApplySizes, Step
  <2>2. UNCHANGED still /\ [req[r] EXCEPT !.op = "apply.insert"] \in RequestTypes
    BY <1>1, ApplyCarries DEF ApplySizes, At, ApplyOps, briefs, rows
  <2> QED BY <2>1, <2>2, IdleType, RowsStay, RequestMoves
<1>2. CASE ApplyInserts(r)
  <2>1. /\ req[r].a \in Pairs /\ req[r].price \in Prices
        /\ [req[r] EXCEPT !.op = "apply.recount"] \in RequestTypes
    BY <1>2, ApplyCarries DEF ApplyInserts, At, ApplyOps
  <2>2. Goto(r, Idle) \/ Goto(r, [req[r] EXCEPT !.op = "apply.recount"])
    BY <1>2 DEF ApplyInserts, Step
  <2>3. UNCHANGED <<campaign, tally, minimum, deals, told, week, announcer>>
    BY <1>2 DEF ApplyInserts, briefs
  <2>4. application' \in [Pairs -> [status : Statuses, price : Prices \cup {0}]]
    BY <1>2, <2>1 DEF ApplyInserts, ApplicationsTypeOK, Statuses
  <2>5. RowsType'
    BY <2>3, <2>4 DEF RowsType, ApplicationsTypeOK
  <2> QED BY <2>1, <2>2, <2>3, <2>5, IdleType, RequestMoves
<1>3. CASE Recounts(r)
  <2>1. req[r].a \in Pairs
    BY <1>3, ApplyCarries, WithdrawCarries DEF Recounts, ApplyOps
  <2>2. req[r].a[1] \in Campaigns /\ Cardinality(Counted(req[r].a[1])) \in Nat
    BY <2>1, CountedFinite DEF Pairs
  <2>3. RowsType'
    BY <1>3, <2>2 DEF Recounts, Recount, RowsType, ApplicationsTypeOK, briefs
  <2> QED BY <1>3, <2>3, IdleType, RequestMoves DEF Recounts, briefs
<1>4. CASE DecideWrites(r)
  <2>1. /\ req[r].a \in Pairs /\ req[r].verdict \in Verdicts
        /\ [req[r] EXCEPT !.op = "decide.look"] \in RequestTypes
    BY <1>4, DecideCarries DEF DecideWrites, At, DecideOps
  <2>2. Goto(r, Idle) \/ Goto(r, [req[r] EXCEPT !.op = "decide.look"])
    BY <1>4 DEF DecideWrites, Step
  <2>3. UNCHANGED <<campaign, tally, minimum, deals, told, week, announcer>>
    BY <1>4 DEF DecideWrites, briefs
  <2>4. application' \in [Pairs -> [status : Statuses, price : Prices \cup {0}]]
    BY <1>4, <2>1 DEF DecideWrites, ApplicationsTypeOK, Statuses
  <2>5. RowsType'
    BY <2>3, <2>4 DEF RowsType, ApplicationsTypeOK
  <2> QED BY <2>1, <2>2, <2>3, <2>5, IdleType, RequestMoves
<1>5. CASE DecideLooks(r) \/ DecideSizes(r)
  <2>1. Goto(r, Idle) \/ \E op \in DecideOps : Goto(r, [req[r] EXCEPT !.op = op])
    BY <1>5 DEF DecideLooks, DecideSizes, Step, DecideOps
  <2>2. UNCHANGED still /\ \A op \in DecideOps : [req[r] EXCEPT !.op = op] \in RequestTypes
    BY <1>5, DecideCarries DEF DecideLooks, DecideSizes, At, DecideOps, briefs, rows
  <2> QED BY <2>1, <2>2, IdleType, RowsStay, RequestMoves
<1>6. CASE DecideBooks(r) \/ DecideOffers(r)
  <2>1. Goto(r, Idle) \/ \E op \in DecideOps : Goto(r, [req[r] EXCEPT !.op = op])
    BY <1>6 DEF DecideBooks, DecideOffers, Step, DecideOps
  <2>2. /\ req[r].a \in Pairs
        /\ \A op \in DecideOps : [req[r] EXCEPT !.op = op] \in RequestTypes
    BY <1>6, DecideCarries DEF DecideBooks, DecideOffers, At, DecideOps
  <2>3. UNCHANGED <<campaign, tally, minimum, application, told, week, announcer>>
    BY <1>6 DEF DecideBooks, DecideOffers, briefs
  <2>4. deals' \in [Pairs -> [opened : Nat, offers : Nat]]
    <3>1. /\ deals \in [Pairs -> [opened : Nat, offers : Nat]]
          /\ deals[req[r].a].opened + 1 \in Nat /\ deals[req[r].a].offers + 1 \in Nat
      BY <2>2 DEF ApplicationsTypeOK
    <3>2. \/ deals' = [deals EXCEPT ![req[r].a].opened = deals[req[r].a].opened + 1]
          \/ deals' = [deals EXCEPT ![req[r].a].offers = deals[req[r].a].offers + 1]
      BY <1>6, <2>2, <3>1 DEF DecideBooks, DecideOffers
    <3> QED BY ONLY <2>2, <3>1, <3>2
  <2>5. RowsType'
    BY <2>3, <2>4 DEF RowsType, ApplicationsTypeOK
  <2> QED BY <2>1, <2>2, <2>3, <2>5, IdleType, RequestMoves
<1>7. CASE WithdrawWrites(r)
  <2>1. req[r].a \in Pairs /\ [req[r] EXCEPT !.op = "withdraw.recount"] \in RequestTypes
    BY <1>7, WithdrawCarries DEF WithdrawWrites, At
  <2>2. Goto(r, [req[r] EXCEPT !.op = "withdraw.recount"])
    BY <1>7 DEF WithdrawWrites, Step
  <2>3. UNCHANGED <<campaign, tally, minimum, deals, told, week, announcer>>
    BY <1>7 DEF WithdrawWrites, briefs
  <2>4. application' \in [Pairs -> [status : Statuses, price : Prices \cup {0}]]
    BY <1>7, <2>1 DEF WithdrawWrites, ApplicationsTypeOK, Statuses
  <2>5. RowsType'
    BY <2>3, <2>4 DEF RowsType, ApplicationsTypeOK
  <2> QED BY <2>1, <2>2, <2>3, <2>5, RequestMoves
<1> QED BY <1>1, <1>2, <1>3, <1>4, <1>5, <1>6, <1>7 DEF GoesOn

LEMMA MatchCarries ==
  ASSUME ApplicationsTypeOK, NEW n \in Announcers, announcer[n].op # "idle"
  PROVE  /\ announcer[n].k \in Campaigns
         /\ announcer[n].op \in {"match.read", "match.claim", "match.gather"} =>
              \A op \in {"match.claim", "match.gather"} :
                /\ [announcer[n] EXCEPT !.op = op] \in AnnouncerTypes
                /\ [announcer[n] EXCEPT !.op = op] = [op |-> op, k |-> announcer[n].k]
         /\ announcer[n].op \in {"match.count", "match.tell"} =>
              /\ announcer[n].todo \subseteq Creators
              /\ announcer[n] = [op |-> announcer[n].op, k |-> announcer[n].k,
                                 todo |-> announcer[n].todo]
<1>1. announcer[n] \in AnnouncerTypes
  BY DEF ApplicationsTypeOK
<1>2. CASE announcer[n] \in [op : {"match.read", "match.claim", "match.gather"}, k : Campaigns]
  <2>1. \A op \in {"match.claim", "match.gather"} :
          [announcer[n] EXCEPT !.op = op] = [op |-> op, k |-> announcer[n].k]
    BY <1>2
  <2> QED BY <1>2, <2>1 DEF AnnouncerTypes
<1>3. CASE announcer[n] \in [op : {"match.count", "match.tell"}, k : Campaigns, todo : SUBSET Creators]
  BY <1>3
<1> QED BY <1>1, <1>2, <1>3 DEF AnnouncerTypes, Idle

(* What is left to tell is some of the creators. *)
Telling(op, k, todo) == [op |-> op, k |-> k, todo |-> todo]

LEMMA MatchType ==
  ASSUME ApplicationsTypeOK, NEW n \in Announcers, Announcement(n)
  PROVE  ApplicationsTypeOK'
<1> DEFINE k == announcer[n].k
<1>0. /\ k \in Campaigns /\ announcer[n].op # "idle"
      /\ \A todo \in SUBSET Creators, op \in {"match.count", "match.tell"} :
           Telling(op, k, todo) \in AnnouncerTypes
  <2>1. announcer[n].op # "idle"
    BY DEF Announcement, MatchReads, MatchClaims, MatchGathers, MatchCounts, MatchTells, Announces
  <2>2. k \in Campaigns
    BY <2>1, MatchCarries
  <2> QED BY <2>1, <2>2 DEF Telling, AnnouncerTypes
<1>1. CASE MatchReads(n)
  <2>1. Announcing(n, Idle) \/ Announcing(n, [announcer[n] EXCEPT !.op = "match.claim"])
    BY <1>1 DEF MatchReads
  <2>2. /\ UNCHANGED <<campaign, tally, minimum, application, deals, told, week, req>>
        /\ [announcer[n] EXCEPT !.op = "match.claim"] \in AnnouncerTypes
    BY <1>0, <1>1, MatchCarries DEF MatchReads, Announces, rows
  <2> QED BY <2>1, <2>2, IdleType, RowsStay, AnnouncerMoves
<1>2. CASE MatchClaims(n)
  <2>1. Announcing(n, Idle) \/ Announcing(n, [announcer[n] EXCEPT !.op = "match.gather"])
    BY <1>2 DEF MatchClaims
  <2>2. /\ UNCHANGED <<tally, minimum, application, deals, told, week, req>>
        /\ [announcer[n] EXCEPT !.op = "match.gather"] \in AnnouncerTypes
    BY <1>0, <1>2, MatchCarries DEF MatchClaims, Announces, rows
  <2>3. RowsType'
    BY <1>0, <1>2, <2>2 DEF MatchClaims, RowsType, ApplicationsTypeOK
  <2> QED BY <2>1, <2>2, <2>3, IdleType, AnnouncerMoves
<1>3. CASE MatchGathers(n)
  <2>1. Announcing(n, Telling("match.count", k, {c \in Fits[k] : application[<<k, c>>].status = "none"}))
    BY <1>3 DEF MatchGathers, Telling
  <2>2. {c \in Fits[k] : application[<<k, c>>].status = "none"} \subseteq Creators
    BY <1>0, BriefsAssumption
  <2>3. UNCHANGED <<campaign, tally, minimum, application, deals, told, week, req>>
    BY <1>3 DEF MatchGathers, rows
  <2> QED BY <1>0, <2>1, <2>2, <2>3, RowsStay, AnnouncerMoves
<1>4. CASE MatchCounts(n)
  <2>1. /\ announcer[n] = Telling("match.count", k, announcer[n].todo)
        /\ announcer[n].todo \subseteq Creators
    BY <1>0, <1>4, MatchCarries DEF MatchCounts, Announces, Telling
  <2>2. Announcing(n, Telling("match.tell", k, {c \in announcer[n].todo : week[c] < WeeklyCap}))
    BY <1>4 DEF MatchCounts, Telling
  <2>3. UNCHANGED <<campaign, tally, minimum, application, deals, told, week, req>>
    BY <1>4 DEF MatchCounts, rows
  <2> QED BY <1>0, <2>1, <2>2, <2>3, RowsStay, AnnouncerMoves
<1>5. CASE MatchTells(n)
  <2>1. /\ announcer[n] = Telling("match.tell", k, announcer[n].todo)
        /\ announcer[n].todo \subseteq Creators
    BY <1>0, <1>5, MatchCarries DEF MatchTells, Announces, Telling
  <2>2. UNCHANGED <<campaign, tally, minimum, application, deals, req>>
    BY <1>5 DEF MatchTells, rows
  <2>3. CASE Announcing(n, Idle) /\ UNCHANGED <<told, week>>
    BY <2>2, <2>3, IdleType, RowsStay, AnnouncerMoves
  <2>4. ASSUME NEW c \in announcer[n].todo,
               told' = [told EXCEPT ![<<k, c>>] = @ + 1], week' = [week EXCEPT ![c] = @ + 1],
               Announcing(n, [announcer[n] EXCEPT !.todo = @ \ {c}])
        PROVE  ApplicationsTypeOK'
    <3>1. [announcer[n] EXCEPT !.todo = @ \ {c}] = Telling("match.tell", k, announcer[n].todo \ {c})
      BY <2>1 DEF Telling
    <3>2. c \in Creators /\ <<k, c>> \in Pairs
      BY <1>0, <2>1 DEF Pairs
    <3>3. told' \in [Pairs -> Nat] /\ week' \in [Creators -> Nat]
      BY <2>4, <3>2 DEF ApplicationsTypeOK
    <3>4. RowsType'
      BY <2>2, <3>3 DEF RowsType, ApplicationsTypeOK
    <3> QED BY <1>0, <2>1, <2>2, <2>4, <3>1, <3>4, AnnouncerMoves
  <2> QED BY <1>5, <2>3, <2>4 DEF MatchTells
<1> QED BY <1>1, <1>2, <1>3, <1>4, <1>5 DEF Announcement

LEMMA ApplicationsStepType ==
  ApplicationsTypeOK /\ [ApplicationsNext]_applicationVars => ApplicationsTypeOK'
<1> SUFFICES ASSUME ApplicationsTypeOK, [ApplicationsNext]_applicationVars
             PROVE  ApplicationsTypeOK'
  OBVIOUS
<1>1. ASSUME NEW k \in Campaigns, SaveCampaign(k) PROVE ApplicationsTypeOK'
  <2>1. PICK saved \in SavedAs :
          /\ campaign' = [campaign EXCEPT ![k].status = saved[1], ![k].paid = saved[2]]
          /\ \/ UNCHANGED announcer
             \/ \E n \in Announcers :
                  announcer' = [announcer EXCEPT ![n] = [op |-> "match.read", k |-> k]]
    BY <1>1 DEF SaveCampaign
  <2>2. saved[1] \in CampaignStatuses /\ saved[2] \in BOOLEAN
    BY BriefsAssumption
  <2>3. campaign' \in [Campaigns -> [status : CampaignStatuses, paid : BOOLEAN,
                                     deleted : BOOLEAN, announced : BOOLEAN]]
    <3>1. campaign \in [Campaigns -> [status : CampaignStatuses, paid : BOOLEAN,
                                      deleted : BOOLEAN, announced : BOOLEAN]]
      BY DEF ApplicationsTypeOK
    <3>2. campaign' = [campaign EXCEPT ![k] = [campaign[k] EXCEPT !.status = saved[1],
                                                                  !.paid = saved[2]]]
      BY <2>1, <3>1
    <3>3. [campaign[k] EXCEPT !.status = saved[1], !.paid = saved[2]]
            \in [status : CampaignStatuses, paid : BOOLEAN, deleted : BOOLEAN, announced : BOOLEAN]
      BY <2>2, <3>1
    <3> QED BY ONLY <3>1, <3>2, <3>3
  <2>4. [op |-> "match.read", k |-> k] \in AnnouncerTypes
    BY DEF AnnouncerTypes
  <2>5. announcer' \in [Announcers -> AnnouncerTypes]
    BY <2>1, <2>4 DEF ApplicationsTypeOK
  <2> QED BY <1>1, <2>3, <2>5 DEF SaveCampaign, rows, ApplicationsTypeOK
<1>2. ASSUME NEW k \in Campaigns, DeleteCampaign(k) PROVE ApplicationsTypeOK'
  BY <1>2 DEF DeleteCampaign, rows, ApplicationsTypeOK
<1>3. CASE SaveMinimum
  BY <1>3, BriefsAssumption DEF SaveMinimum, briefs, rows, ApplicationsTypeOK
<1>4. CASE WeekEnds
  BY <1>4 DEF WeekEnds, rows, ApplicationsTypeOK
<1>5. ASSUME NEW x \in Mortal, Dies(x) PROVE ApplicationsTypeOK'
  BY <1>5, IdleType DEF Dies, rows, ApplicationsTypeOK
<1>6. CASE UNCHANGED applicationVars
  BY <1>6 DEF applicationVars, briefs, rows, ApplicationsTypeOK
<1> QED BY <1>1, <1>2, <1>3, <1>4, <1>5, <1>6, BeginsType, GoesOnType, MatchType DEF ApplicationsNext

LEMMA ApplicationsInitType == BriefsInit => ApplicationsTypeOK
BY BriefsAssumption, IdleType
   DEF BriefsInit, ApplicationsTypeOK, CampaignStatuses, NoApplication, Statuses

(* The rows of campaigns and applications, and what requests and           *)
(* announcements on them carry, keep their types.                          *)
THEOREM ApplicationsTypeCorrect == ApplicationsSpec => []ApplicationsTypeOK
BY ApplicationsInitType, ApplicationsStepType, PTL DEF ApplicationsSpec

-------------------------------------------------------------------------------
(* Nobody is told twice *)

(* Past the conditional write: the announcement is the one that sends. *)
PastOps == {"match.gather", "match.count", "match.tell"}
Sends(n, k) == announcer[n].op \in PastOps /\ announcer[n].k = k

Unheard(k, S) == \A c \in S : told[<<k, c>>] = 0

(* One announcement sends, of a brief that is marked; a brief that is not  *)
(* has told nobody, and the one that sends has told none of those left.    *)
SenderInv ==
  /\ \A n, m \in Announcers, k \in Campaigns : Sends(n, k) /\ Sends(m, k) => n = m
  /\ \A n \in Announcers, k \in Campaigns : Sends(n, k) =>
       /\ campaign[k].announced
       /\ announcer[n].op = "match.tell" => Unheard(k, announcer[n].todo)
       /\ announcer[n].op # "match.tell" => Unheard(k, Creators)
  /\ \A k \in Campaigns : ~campaign[k].announced => Unheard(k, Creators)

ToldInv == ApplicationsTypeOK /\ SenderInv /\ ToldOnce

(* A step that tells nobody, marks no brief and starts no sender. *)
LEMMA ToldKeeps ==
  ASSUME ToldInv, ApplicationsTypeOK', UNCHANGED told,
         \A k \in Campaigns : campaign'[k].announced = campaign[k].announced,
         \A n \in Announcers : announcer'[n] = announcer[n] \/ announcer'[n].op \notin PastOps
  PROVE  ToldInv'
<1>1. \A n \in Announcers, k \in Campaigns :
        Sends(n, k)' => Sends(n, k) /\ announcer'[n] = announcer[n]
  BY DEF Sends
<1>2. SenderInv'
  BY <1>1 DEF ToldInv, SenderInv, Unheard
<1> QED BY <1>2 DEF ToldInv, ToldOnce

(* A sender goes on, with some of those it has yet to tell. *)
LEMMA ToldGoesOn ==
  ASSUME ToldInv, ApplicationsTypeOK', UNCHANGED <<told, campaign>>, NEW n \in Announcers,
         announcer[n].op \in PastOps, NEW op \in {"match.count", "match.tell"},
         NEW todo \in SUBSET Creators, announcer[n].op # "match.tell",
         Announcing(n, Telling(op, announcer[n].k, todo))
  PROVE  ToldInv'
<1> DEFINE k == announcer[n].k
<1>1. /\ k \in Campaigns /\ announcer'[n] = Telling(op, k, todo)
      /\ \A m \in Announcers \ {n} : announcer'[m] = announcer[m]
  BY MatchCarries DEF ToldInv, ApplicationsTypeOK, Announcing, PastOps
<1>2. announcer'[n].op = op /\ announcer'[n].k = k /\ announcer'[n].todo = todo
  BY <1>1 DEF Telling
<1>3. \A m \in Announcers, j \in Campaigns : Sends(m, j)' => Sends(m, j)
  BY <1>1, <1>2 DEF Sends, PastOps
<1>4. Sends(n, k) /\ Unheard(k, Creators)
  BY <1>1 DEF Sends, ToldInv, SenderInv
<1>5. ASSUME NEW m \in Announcers, NEW j \in Campaigns, Sends(m, j)'
      PROVE  /\ campaign'[j].announced
             /\ announcer'[m].op = "match.tell" => \A c \in announcer'[m].todo : told'[<<j, c>>] = 0
             /\ announcer'[m].op # "match.tell" => \A c \in Creators : told'[<<j, c>>] = 0
  <2>1. Sends(m, j)
    BY <1>3, <1>5
  <2>2. CASE m = n
    <3>1. j = k
      BY <1>4, <2>1, <2>2 DEF Sends
    <3> QED BY <1>2, <1>4, <2>1, <2>2, <3>1 DEF Unheard, ToldInv, SenderInv
  <2>3. CASE m # n
    BY <1>1, <2>1, <2>3 DEF ToldInv, SenderInv, Unheard
  <2> QED BY <2>2, <2>3
<1>6. SenderInv'
  BY <1>3, <1>5 DEF ToldInv, SenderInv, Unheard
<1> QED BY <1>6 DEF ToldInv, ToldOnce

LEMMA ToldOfMatch ==
  ASSUME ToldInv, ApplicationsTypeOK', NEW n \in Announcers, Announcement(n)
  PROVE  ToldInv'
<1> DEFINE k == announcer[n].k
<1>0. /\ k \in Campaigns /\ announcer \in [Announcers -> AnnouncerTypes]
      /\ told \in [Pairs -> Nat] /\ ApplicationsTypeOK /\ announcer[n].op # "idle"
  <2>1. announcer[n].op # "idle"
    BY DEF Announcement, MatchReads, MatchClaims, MatchGathers, MatchCounts, MatchTells, Announces
  <2> QED BY <2>1, MatchCarries DEF ToldInv, ApplicationsTypeOK
<1>1. CASE MatchReads(n)
  <2>1. announcer'[n] = Idle \/ announcer'[n] = [announcer[n] EXCEPT !.op = "match.claim"]
    BY <1>0, <1>1 DEF MatchReads, Announcing
  <2>2. announcer'[n].op \notin PastOps
    <3>1. [announcer[n] EXCEPT !.op = "match.claim"] = [op |-> "match.claim", k |-> k]
      BY <1>0, <1>1, MatchCarries DEF MatchReads, Announces
    <3> QED BY <2>1, <3>1 DEF Idle, PastOps
  <2>3. UNCHANGED <<campaign, told>> /\ \A m \in Announcers \ {n} : announcer'[m] = announcer[m]
    BY <1>0, <1>1 DEF MatchReads, Announcing
  <2> QED BY <2>2, <2>3, ToldKeeps
<1>2. CASE MatchClaims(n)
  <2>1. CASE Announcing(n, Idle) /\ UNCHANGED campaign
    BY <1>0, <1>2, <2>1, ToldKeeps DEF MatchClaims, Announcing, Idle, PastOps
  <2>2. CASE /\ MayAnnounce(k)
             /\ campaign' = [campaign EXCEPT ![k].announced = TRUE]
             /\ Announcing(n, [announcer[n] EXCEPT !.op = "match.gather"])
    <3>1. /\ announcer'[n].op = "match.gather" /\ announcer'[n].k = k
          /\ \A m \in Announcers \ {n} : announcer'[m] = announcer[m]
      BY <1>0, <1>2, <2>2, MatchCarries DEF MatchClaims, Announces, Announcing
    <3>2. /\ campaign'[k].announced
          /\ \A j \in Campaigns \ {k} : campaign'[j] = campaign[j]
      BY <1>0, <2>2 DEF ApplicationsTypeOK
    <3>3. Unheard(k, Creators) /\ \A m \in Announcers : ~Sends(m, k)
      BY <1>0, <2>2 DEF MayAnnounce, ToldInv, SenderInv
    <3>4. \A m \in Announcers, j \in Campaigns :
            Sends(m, j)' => (m = n /\ j = k) \/ (m # n /\ j # k /\ Sends(m, j))
      BY <3>1, <3>3 DEF Sends
    <3>5. UNCHANGED told
      BY <1>2 DEF MatchClaims
    <3>6. ASSUME NEW m \in Announcers, NEW j \in Campaigns, Sends(m, j)'
          PROVE  /\ campaign'[j].announced
                 /\ announcer'[m].op = "match.tell" => \A c \in announcer'[m].todo : told'[<<j, c>>] = 0
                 /\ announcer'[m].op # "match.tell" => \A c \in Creators : told'[<<j, c>>] = 0
      <4>1. CASE m = n /\ j = k
        BY <3>1, <3>2, <3>3, <3>5, <4>1 DEF Unheard
      <4>2. CASE m # n /\ j # k /\ Sends(m, j)
        BY <3>1, <3>2, <3>5, <4>2 DEF ToldInv, SenderInv, Unheard
      <4> QED BY <3>4, <3>6, <4>1, <4>2
    <3>7. \A m, l \in Announcers, j \in Campaigns : Sends(m, j)' /\ Sends(l, j)' => m = l
      BY <3>4 DEF ToldInv, SenderInv
    <3>8. \A j \in Campaigns : ~campaign'[j].announced => Unheard(j, Creators)'
      BY <3>2, <3>5 DEF ToldInv, SenderInv, Unheard
    <3>9. SenderInv'
      BY <3>6, <3>7, <3>8 DEF SenderInv, Unheard
    <3> QED BY <3>5, <3>9 DEF ToldInv, ToldOnce
  <2> QED BY <1>2, <2>1, <2>2 DEF MatchClaims
<1>3. CASE MatchGathers(n)
  <2> DEFINE todo == {c \in Fits[k] : application[<<k, c>>].status = "none"}
  <2>1. announcer[n].op = "match.gather" /\ UNCHANGED <<told, campaign>>
    BY <1>3 DEF MatchGathers, Announces
  <2>2. Announcing(n, Telling("match.count", k, todo))
    BY <1>3 DEF MatchGathers, Telling
  <2>3. todo \in SUBSET Creators
    BY <1>0, BriefsAssumption
  <2> HIDE DEF todo
  <2> QED BY <2>1, <2>2, <2>3, ToldGoesOn DEF PastOps
<1>4. CASE MatchCounts(n)
  <2> DEFINE todo == {c \in announcer[n].todo : week[c] < WeeklyCap}
  <2>1. announcer[n].op = "match.count" /\ UNCHANGED <<told, campaign>>
    BY <1>4 DEF MatchCounts, Announces
  <2>2. Announcing(n, Telling("match.tell", k, todo))
    BY <1>4 DEF MatchCounts, Telling
  <2>3. todo \in SUBSET Creators
    BY <1>0, <2>1, MatchCarries
  <2> HIDE DEF todo
  <2> QED BY <2>1, <2>2, <2>3, ToldGoesOn DEF PastOps
<1>5. CASE MatchTells(n)
  <2>0. /\ announcer[n].op = "match.tell" /\ Sends(n, k) /\ UNCHANGED campaign
        /\ announcer[n].todo \subseteq Creators
        /\ announcer[n] = Telling("match.tell", k, announcer[n].todo)
    BY <1>0, <1>5, MatchCarries DEF MatchTells, Announces, Sends, PastOps, Telling
  <2>1. CASE Announcing(n, Idle) /\ UNCHANGED told
    BY <1>0, <2>0, <2>1, ToldKeeps DEF Announcing, Idle, PastOps
  <2>2. ASSUME NEW c \in announcer[n].todo, told' = [told EXCEPT ![<<k, c>>] = @ + 1],
               Announcing(n, [announcer[n] EXCEPT !.todo = @ \ {c}])
        PROVE  ToldInv'
    <3>1. <<k, c>> \in Pairs /\ told[<<k, c>>] = 0
      BY <1>0, <2>0 DEF Pairs, ToldInv, SenderInv, Unheard
    <3>2. told'[<<k, c>>] = 1 /\ \A a \in Pairs \ {<<k, c>>} : told'[a] = told[a]
      BY <1>0, <2>2, <3>1
    <3>3. ToldOnce'
      BY <3>2 DEF ToldInv, ToldOnce
    <3>4. [announcer[n] EXCEPT !.todo = @ \ {c}] = Telling("match.tell", k, announcer[n].todo \ {c})
      BY <2>0 DEF Telling
    <3>5. /\ announcer'[n].op = "match.tell" /\ announcer'[n].k = k
          /\ announcer'[n].todo = announcer[n].todo \ {c}
          /\ \A m \in Announcers \ {n} : announcer'[m] = announcer[m]
      BY <1>0, <2>2, <3>4 DEF Announcing, Telling
    <3>6. \A m \in Announcers, j \in Campaigns :
            Sends(m, j)' => Sends(m, j) /\ (m = n <=> j = k)
      BY <2>0, <3>5 DEF Sends, ToldInv, SenderInv
    <3>7. \A j \in Campaigns \ {k}, d \in Creators : told'[<<j, d>>] = told[<<j, d>>]
      BY <3>2 DEF Pairs
    <3>8. \A d \in Creators \ {c} : told'[<<k, d>>] = told[<<k, d>>]
      BY <1>0, <3>2 DEF Pairs
    <3>9. ASSUME NEW m \in Announcers, NEW j \in Campaigns, Sends(m, j)'
          PROVE  /\ campaign'[j].announced
                 /\ announcer'[m].op = "match.tell" => \A d \in announcer'[m].todo : told'[<<j, d>>] = 0
                 /\ announcer'[m].op # "match.tell" => \A d \in Creators : told'[<<j, d>>] = 0
      <4>1. Sends(m, j) /\ campaign[j].announced
        BY <3>6, <3>9 DEF ToldInv, SenderInv
      <4>2. CASE m = n /\ j = k
        BY <2>0, <3>5, <3>8, <4>1, <4>2 DEF ToldInv, SenderInv, Unheard
      <4>3. CASE m # n /\ j # k
        <5>1. announcer'[m] = announcer[m]
          BY <3>5, <4>3
        <5>2. announcer[m].op = "match.tell" => announcer[m].todo \subseteq Creators
          BY <1>0, MatchCarries
        <5> QED BY <2>0, <3>7, <4>1, <4>3, <5>1, <5>2 DEF ToldInv, SenderInv, Unheard
      <4> QED BY <3>6, <3>9, <4>1, <4>2, <4>3
    <3>10. \A j \in Campaigns : ~campaign'[j].announced => Unheard(j, Creators)'
      <4> SUFFICES ASSUME NEW j \in Campaigns, ~campaign[j].announced, NEW d \in Creators
                   PROVE  told'[<<j, d>>] = 0
        BY <2>0 DEF Unheard
      <4>1. j # k
        BY <2>0 DEF ToldInv, SenderInv
      <4> QED BY <3>7, <4>1 DEF ToldInv, SenderInv, Unheard
    <3>11. SenderInv'
      BY <3>6, <3>9, <3>10 DEF ToldInv, SenderInv, Unheard
    <3> QED BY <3>3, <3>11 DEF ToldInv
  <2> QED BY <1>5, <2>1, <2>2 DEF MatchTells
<1> QED BY <1>1, <1>2, <1>3, <1>4, <1>5 DEF Announcement

LEMMA ToldStep == ToldInv /\ [ApplicationsNext]_applicationVars => ToldInv'
<1> SUFFICES ASSUME ToldInv, [ApplicationsNext]_applicationVars PROVE ToldInv'
  OBVIOUS
<1>0. ApplicationsTypeOK /\ ApplicationsTypeOK'
  BY ApplicationsStepType DEF ToldInv
<1>1. ASSUME NEW k \in Campaigns, SaveCampaign(k) PROVE ToldInv'
  <2>1. UNCHANGED told /\ \A j \in Campaigns : campaign'[j].announced = campaign[j].announced
    BY <1>0, <1>1 DEF SaveCampaign, ApplicationsTypeOK
  <2>2. \A n \in Announcers : announcer'[n] = announcer[n] \/ announcer'[n].op \notin PastOps
    BY <1>0, <1>1 DEF SaveCampaign, ApplicationsTypeOK, PastOps
  <2> QED BY <1>0, <2>1, <2>2, ToldKeeps
<1>2. ASSUME NEW k \in Campaigns, DeleteCampaign(k) PROVE ToldInv'
  <2>1. \A j \in Campaigns : campaign'[j].announced = campaign[j].announced
    BY <1>0, <1>2 DEF DeleteCampaign, ApplicationsTypeOK
  <2> QED BY <1>0, <1>2, <2>1, ToldKeeps DEF DeleteCampaign
<1>3. CASE SaveMinimum \/ WeekEnds \/ UNCHANGED applicationVars
  BY <1>0, <1>3, ToldKeeps DEF SaveMinimum, WeekEnds, applicationVars, briefs
<1>4. ASSUME NEW x \in Mortal, Dies(x) PROVE ToldInv'
  <2>1. \A n \in Announcers : announcer'[n] = announcer[n] \/ announcer'[n] = Idle
    BY <1>4 DEF Dies
  <2> QED BY <1>0, <1>4, <2>1, ToldKeeps DEF Dies, Idle, PastOps
<1>5. ASSUME NEW r \in Requests, GoesOn(r) \/ \E a \in Pairs : Begins(r, a) PROVE ToldInv'
  <2>1. UNCHANGED briefs
    BY <1>5 DEF GoesOn, Begins, ApplyReads, DecideReads, WithdrawReads, ApplySizes, ApplyInserts,
       Recounts, DecideWrites, DecideLooks, DecideSizes, DecideBooks, DecideOffers, WithdrawWrites
  <2> QED BY <1>0, <2>1, ToldKeeps DEF briefs
<1> QED BY <1>0, <1>1, <1>2, <1>3, <1>4, <1>5, ToldOfMatch DEF ApplicationsNext

LEMMA ToldInit == BriefsInit => ToldInv
BY ApplicationsInitType DEF BriefsInit, ToldInv, SenderInv, ToldOnce, Sends, Unheard, Idle,
   PastOps, Pairs

(* notifyCampaignMatches: "whichever changes the row is the one that sends"*)
(* and, wherever the announcements of a brief overlap or stop, no creator  *)
(* is told of it twice.                                                    *)
THEOREM NobodyToldTwice == ApplicationsSpec => []ToldOnce
<1>1. ToldInv => ToldOnce
  BY DEF ToldInv
<1> QED BY <1>1, ToldInit, ToldStep, PTL DEF ApplicationsSpec

-------------------------------------------------------------------------------
(* The tally *)

(* A recount that is cut short leaves the tally as it was. *)
RequestsLive == Mortal \cap Requests = {}

Recounting(k) == \E r \in Requests : req[r].op = "withdraw.recount" /\ req[r].a[1] = k

TallyInv == ApplicationsTypeOK /\ TallyNeverOverstates

(* No application stops counting, and no withdrawal stops recounting. *)
LEMMA TallyKeeps ==
  ASSUME TallyInv, ApplicationsTypeOK', UNCHANGED tally,
         \A k \in Campaigns : Counted(k) \subseteq Counted(k)',
         \A r \in Requests : req[r].op = "withdraw.recount" => req'[r] = req[r]
  PROVE  TallyInv'
<1> SUFFICES ASSUME NEW k \in Campaigns, ~Recounting(k)'
             PROVE  tally'[k] <= Cardinality(Counted(k)')
  BY DEF TallyInv, TallyNeverOverstates, Recounting, At
<1>1. ~Recounting(k)
  BY DEF Recounting
<1>2. tally[k] <= Cardinality(Counted(k)) /\ tally[k] \in Nat
  BY <1>1 DEF TallyInv, TallyNeverOverstates, Recounting, At, ApplicationsTypeOK
<1>3. IsFiniteSet(Creators) /\ Counted(k)' \subseteq Creators
  BY BriefsAssumption DEF Counted
<1>4. IsFiniteSet(Counted(k)')
  BY <1>3, FS_Subset
<1>5. /\ Cardinality(Counted(k)) <= Cardinality(Counted(k)')
      /\ Cardinality(Counted(k)) \in Nat /\ Cardinality(Counted(k)') \in Nat
  BY <1>4, FS_Subset, FS_CardinalityType, CountedFinite
<1> QED BY <1>2, <1>5

(* The request at hand is no withdrawal's recount, and moves alone. *)
LEMMA TallyOfRequest ==
  ASSUME TallyInv, ApplicationsTypeOK', UNCHANGED tally, NEW r \in Requests, NEW state,
         Goto(r, state), req[r].op # "withdraw.recount",
         \A k \in Campaigns : Counted(k) \subseteq Counted(k)'
  PROVE  TallyInv'
BY TallyKeeps DEF Goto, TallyInv, ApplicationsTypeOK

LEMMA TallyGoesOn ==
  ASSUME TallyInv, ApplicationsTypeOK', NEW r \in Requests, GoesOn(r)
  PROVE  TallyInv'
<1>0. /\ req \in [Requests -> RequestTypes] /\ ApplicationsTypeOK
      /\ application \in [Pairs -> [status : Statuses, price : Prices \cup {0}]]
      /\ tally \in [Campaigns -> Nat]
  BY DEF TallyInv, ApplicationsTypeOK
<1>1. CASE UNCHANGED <<tally, application>> /\ ~Recounts(r)
  <2>1. PICK state : Goto(r, state)
    BY <1>1 DEF GoesOn, ApplySizes, ApplyInserts, DecideWrites, DecideLooks, DecideSizes,
       DecideBooks, DecideOffers, WithdrawWrites, Step
  <2>2. req[r].op # "withdraw.recount"
    BY <1>1 DEF GoesOn, ApplySizes, ApplyInserts, DecideWrites, DecideLooks, DecideSizes,
       DecideBooks, DecideOffers, WithdrawWrites, At
  <2>3. \A k \in Campaigns : Counted(k) \subseteq Counted(k)'
    BY <1>1 DEF Counted
  <2> QED BY <1>1, <2>1, <2>2, <2>3, TallyOfRequest
<1>2. ASSUME NEW a \in Pairs, NEW status \in Statuses \ {"none", "withdrawn"}, NEW state,
             \/ application' = [application EXCEPT ![a].status = status]
             \/ \E price \in Prices :
                  application' = [application EXCEPT ![a] = [status |-> status, price |-> price]],
             UNCHANGED tally, Goto(r, state), req[r].op # "withdraw.recount"
      PROVE  TallyInv'
  <2>1. application'[a].status = status /\ \A b \in Pairs \ {a} : application'[b] = application[b]
    BY <1>0, <1>2
  <2>2. \A b \in Pairs : application[b].status \notin {"none", "withdrawn"} =>
                        application'[b].status \notin {"none", "withdrawn"}
    BY <2>1
  <2>3. \A k \in Campaigns : Counted(k) \subseteq Counted(k)'
    BY <2>2 DEF Counted, Pairs
  <2> QED BY <1>2, <2>3, TallyOfRequest
<1>3. CASE ApplyInserts(r) /\ application' # application
  <2>1. /\ req[r].a \in Pairs /\ req[r].price \in Prices
        /\ req[r].op # "withdraw.recount" /\ "applied" \in Statuses \ {"none", "withdrawn"}
    BY <1>0, <1>3, ApplyCarries DEF ApplyInserts, At, ApplyOps, Statuses
  <2>2. /\ application' = [application EXCEPT ![req[r].a] = [status |-> "applied", price |-> req[r].price]]
        /\ Goto(r, [req[r] EXCEPT !.op = "apply.recount"]) /\ UNCHANGED tally
    BY <1>3 DEF ApplyInserts, Step
  <2> QED BY <1>2, <2>1, <2>2
<1>4. CASE DecideWrites(r)
  <2>1. /\ req[r].a \in Pairs /\ req[r].op # "withdraw.recount"
        /\ req[r].verdict \in Statuses \ {"none", "withdrawn"}
    BY <1>0, <1>4, DecideCarries, BriefsAssumption DEF DecideWrites, At, DecideOps, Statuses
  <2>2. /\ application' = [application EXCEPT ![req[r].a].status = req[r].verdict]
        /\ UNCHANGED tally
    BY <1>4 DEF DecideWrites
  <2>3. PICK state : Goto(r, state)
    BY <1>4 DEF DecideWrites, Step
  <2> QED BY <1>2, <2>1, <2>2, <2>3
<1>5. CASE WithdrawWrites(r)
  <2>1. /\ req[r].a \in Pairs /\ UNCHANGED tally
        /\ application' = [application EXCEPT ![req[r].a].status = "withdrawn"]
        /\ Goto(r, [req[r] EXCEPT !.op = "withdraw.recount"]) /\ req[r].op = "withdraw.write"
    BY <1>0, <1>5, WithdrawCarries DEF WithdrawWrites, At, Step
  <2>2. req[r] \in [op : {"withdraw.write", "withdraw.recount"}, a : Pairs]
    BY <1>0, <2>1 DEF RequestTypes, ApplyOps, DecideOps, Idle
  <2>3. [req[r] EXCEPT !.op = "withdraw.recount"].a = req[r].a
        /\ [req[r] EXCEPT !.op = "withdraw.recount"].op = "withdraw.recount"
    BY <2>2
  <2>4. /\ req'[r].a = req[r].a /\ req'[r].op = "withdraw.recount"
        /\ \A s \in Requests \ {r} : req'[s] = req[s]
    BY <1>0, <2>1, <2>3 DEF Goto
  <2>5. ASSUME NEW k \in Campaigns, k # req[r].a[1] PROVE Counted(k)' = Counted(k)
    <3>1. \A c \in Creators : <<k, c>> \in Pairs /\ <<k, c>> # req[r].a
      BY <2>1, <2>5 DEF Pairs
    <3> QED BY <1>0, <2>1, <3>1 DEF Counted
  <2>6. \A k \in Campaigns : Recounting(k) => Recounting(k)'
    BY <2>1, <2>4 DEF Recounting
  <2>7. \A k \in Campaigns : k = req[r].a[1] => Recounting(k)'
    BY <2>4 DEF Recounting
  <2>8. ASSUME NEW k \in Campaigns PROVE tally'[k] <= Cardinality(Counted(k)') \/ Recounting(k)'
    <3>1. CASE k = req[r].a[1]
      BY <2>7, <3>1
    <3>2. CASE k # req[r].a[1]
      BY <2>1, <2>5, <2>6, <3>2 DEF TallyInv, TallyNeverOverstates, Recounting, At
    <3> QED BY <3>1, <3>2
  <2> QED BY <2>8 DEF TallyInv, TallyNeverOverstates, Recounting, At
<1>6. CASE Recounts(r)
  <2> DEFINE k == req[r].a[1]
  <2>1. req[r].a \in Pairs
    BY <1>0, <1>6, ApplyCarries, WithdrawCarries DEF Recounts, ApplyOps
  <2>2. k \in Campaigns /\ Cardinality(Counted(k)) \in Nat
    BY <2>1, CountedFinite DEF Pairs
  <2>3. /\ tally' = [tally EXCEPT ![k] = Cardinality(Counted(k))]
        /\ UNCHANGED application /\ Goto(r, Idle)
    BY <1>6 DEF Recounts, Recount
  <2>4. \A s \in Requests \ {r} : req'[s] = req[s]
    BY <1>0, <2>3 DEF Goto
  <2>5. \A j \in Campaigns : Counted(j)' = Counted(j)
    BY <2>3 DEF Counted
  <2>6. tally'[k] = Cardinality(Counted(k)) /\ \A j \in Campaigns \ {k} : tally'[j] = tally[j]
    BY <1>0, <2>2, <2>3
  <2>7. \A j \in Campaigns \ {k} : Recounting(j) => Recounting(j)'
    BY <2>4 DEF Recounting
  <2>8. ASSUME NEW j \in Campaigns PROVE tally'[j] <= Cardinality(Counted(j)') \/ Recounting(j)'
    <3>1. CASE j = k
      BY <2>2, <2>5, <2>6, <3>1
    <3>2. CASE j # k
      BY <2>5, <2>6, <2>7, <3>2 DEF TallyInv, TallyNeverOverstates, Recounting, At
    <3> QED BY <3>1, <3>2
  <2> QED BY <2>8 DEF TallyInv, TallyNeverOverstates, Recounting, At
<1>7. CASE ApplySizes(r) \/ DecideLooks(r) \/ DecideSizes(r) \/ DecideBooks(r) \/ DecideOffers(r)
  <2>1. UNCHANGED <<tally, application>>
    BY <1>7 DEF ApplySizes, DecideLooks, DecideSizes, DecideBooks, DecideOffers, rows
  <2> QED BY <1>1, <1>6, <2>1
<1>8. CASE ApplyInserts(r) /\ application' = application
  BY <1>1, <1>6, <1>8 DEF ApplyInserts
<1> QED BY <1>3, <1>4, <1>5, <1>6, <1>7, <1>8 DEF GoesOn

LEMMA TallyStep ==
  ASSUME RequestsLive, TallyInv, [ApplicationsNext]_applicationVars
  PROVE  TallyInv'
<1>0. ApplicationsTypeOK /\ ApplicationsTypeOK'
  BY ApplicationsStepType DEF TallyInv
<1>1. CASE UNCHANGED <<application, tally, req>>
  BY <1>0, <1>1, TallyKeeps DEF Counted
<1>2. ASSUME NEW x \in Mortal, Dies(x) PROVE TallyInv'
  <2>1. UNCHANGED <<application, tally>> /\ \A r \in Requests : req'[r] = req[r]
    BY <1>0, <1>2 DEF Dies, rows, RequestsLive, ApplicationsTypeOK
  <2> QED BY <1>0, <2>1, TallyKeeps DEF Counted
<1>3. ASSUME NEW r \in Requests, NEW a \in Pairs, Begins(r, a) PROVE TallyInv'
  <2>1. PICK state : Goto(r, state)
    BY <1>3 DEF Begins, ApplyReads, DecideReads, WithdrawReads
  <2>2. UNCHANGED <<application, tally>> /\ req[r] = Idle
    BY <1>3 DEF Begins, ApplyReads, DecideReads, WithdrawReads, rows
  <2>4. req[r].op # "withdraw.recount"
    BY <2>2 DEF Idle
  <2>3. \A k \in Campaigns : Counted(k) \subseteq Counted(k)'
    BY <2>2 DEF Counted
  <2> QED BY <1>0, <2>1, <2>2, <2>3, <2>4, TallyOfRequest
<1>4. ASSUME NEW k \in Campaigns, SaveCampaign(k) \/ DeleteCampaign(k) PROVE TallyInv'
  BY <1>1, <1>4 DEF SaveCampaign, DeleteCampaign, rows
<1>5. ASSUME NEW n \in Announcers, Announcement(n) PROVE TallyInv'
  BY <1>1, <1>5 DEF Announcement, MatchReads, MatchClaims, MatchGathers, MatchCounts, MatchTells, rows
<1>6. CASE SaveMinimum \/ WeekEnds \/ UNCHANGED applicationVars
  BY <1>1, <1>6 DEF SaveMinimum, WeekEnds, applicationVars, rows
<1> QED BY <1>0, <1>2, <1>3, <1>4, <1>5, <1>6, TallyGoesOn DEF ApplicationsNext

(* recalcCampaignApplications counts afresh what it writes: where no       *)
(* request is cut short, a card never says more than there are, but while  *)
(* a withdrawal is recounting.                                             *)
THEOREM TallyAlwaysHonest ==
  ASSUME RequestsLive PROVE ApplicationsSpec => []TallyNeverOverstates
<1>1. BriefsInit => TallyInv
  <2> SUFFICES ASSUME BriefsInit PROVE TallyInv
    OBVIOUS
  <2>1. \A k \in Campaigns : Cardinality(Counted(k)) \in Nat
    BY CountedFinite
  <2>2. \A k \in Campaigns : tally[k] = 0
    BY DEF BriefsInit
  <2> QED BY <2>1, <2>2, ApplicationsInitType DEF TallyInv, TallyNeverOverstates
<1>2. TallyInv /\ [ApplicationsNext]_applicationVars => TallyInv'
  BY TallyStep
<1>3. TallyInv => TallyNeverOverstates
  BY DEF TallyInv
<1> QED BY <1>1, <1>2, <1>3, PTL DEF ApplicationsSpec
===============================================================================
