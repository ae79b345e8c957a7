------------------------------ MODULE Applications -----------------------------
(***************************************************************************)
(* Briefs and the applications to them: a creator applies and withdraws    *)
(* (routes/(public)/campaigns/[slug], routes/dashboard/applications), the  *)
(* brand or an operator decides and a selection opens a deal, the brief is *)
(* saved and deleted (routes/dashboard/campaigns), and its first publishing*)
(* tells the creators it fits (lib/server/campaign-matches.ts).            *)
(*                                                                         *)
(* A creator here has a published profile and has accepted the NDA of a    *)
(* confidential brief: without either, apply refuses and changes nothing.  *)
(***************************************************************************)
EXTENDS Integers, FiniteSets

CONSTANTS
  Campaigns,   \* briefs
  Creators,    \* creators with a published profile
  Requests,    \* the requests in flight on applications
  Announcers,  \* the announcements in flight, which no request awaits
  Fits,        \* the creators whose fit reaches the threshold, by brief
  Prices,      \* what a creator asks
  Minimums,    \* the smallest deals operators may set
  SavedAs,     \* the status and the compensation a brief is saved with
  Verdicts,    \* the decisions on an application
  WeeklyCap,   \* MATCH_WEEKLY_CAP
  Mortal       \* the requests and announcements the process may stop in

Pairs == Campaigns \X Creators

CampaignStatuses == {"draft", "published", "closed", "cancelled", "completed"}

ASSUME BriefsAssumption ==
  /\ IsFiniteSet(Creators) /\ Prices \cup Minimums \subseteq Nat /\ WeeklyCap \in Nat
  /\ Fits \in [Campaigns -> SUBSET Creators] /\ Mortal \subseteq Requests \cup Announcers
  /\ SavedAs \subseteq CampaignStatuses \X BOOLEAN
  /\ Verdicts \subseteq {"shortlisted", "selected", "rejected"}

VARIABLES
  campaign,     \* campaigns: status, whether paid, deleted, match_notified_at
  tally,        \* campaigns.applications_count
  application,  \* applications: unique on the campaign and the creator
  deals,        \* the bookings opened for an application, and their first offers
  minimum,      \* minProjectSize of the commission settings
  told,         \* notifications of the kind campaign_match
  week,         \* those of the last seven days
  req,          \* the requests in flight
  announcer     \* the announcements in flight

briefs == <<campaign, told, week, announcer>>
rows == <<tally, application, deals>>
applicationVars == <<briefs, rows, minimum, req>>

Statuses == {"none", "applied", "withdrawn"} \cup Verdicts

NoApplication == [status |-> "none", price |-> 0]

Idle == [op |-> "idle"]
At(r, op) == req[r].op = op
Goto(r, state) == req' = [req EXCEPT ![r] = state]
Step(r, op) == Goto(r, [req[r] EXCEPT !.op = op])

BriefsInit ==
  /\ campaign = [k \in Campaigns |->
       [status |-> "draft", paid |-> TRUE, deleted |-> FALSE, announced |-> FALSE]]
  /\ tally = [k \in Campaigns |-> 0]
  /\ application = [a \in Pairs |-> NoApplication]
  /\ deals = [a \in Pairs |-> [opened |-> 0, offers |-> 0]]
  /\ minimum \in Minimums
  /\ told = [a \in Pairs |-> 0]
  /\ week = [c \in Creators |-> 0]
  /\ req = [r \in Requests |-> Idle]
  /\ announcer = [n \in Announcers |-> Idle]

-------------------------------------------------------------------------------
(* Applying *)

(* The brief is read by id: that it was deleted is not asked here. *)
ApplyReads(r, a, price) ==
  /\ req[r] = Idle
  /\ campaign[a[1]].status = "published"
  /\ Goto(r, [op |-> "apply.size", a |-> a, price |-> price, paid |-> campaign[a[1]].paid])
  /\ UNCHANGED <<briefs, rows, minimum>>

TooSmall(r) == req[r].paid /\ req[r].price < minimum

ApplySizes(r) ==
  /\ At(r, "apply.size")
  /\ IF TooSmall(r) THEN Goto(r, Idle) ELSE Step(r, "apply.insert")
  /\ UNCHANGED <<briefs, rows, minimum>>

(* What the select does not see, the unique index refuses. *)
ApplyInserts(r) ==
  /\ At(r, "apply.insert")
  /\ LET a == req[r].a IN
       \/ /\ application[a].status = "none"
          /\ application' = [application EXCEPT ![a] =
                               [status |-> "applied", price |-> req[r].price]]
          /\ Step(r, "apply.recount")
       \/ /\ application[a].status # "none"
          /\ Goto(r, Idle)
          /\ UNCHANGED application
  /\ UNCHANGED <<briefs, tally, deals, minimum>>

(* Live, and not pulled back by the creator. *)
Counted(k) == {c \in Creators : application[<<k, c>>].status \notin {"none", "withdrawn"}}

(* A slip: the count goes up by one, whatever the request did. *)
BugRecount(k) == tally[k] + 1

Recount(k) == Cardinality(Counted(k))

Recounts(r) ==
  /\ req[r].op \in {"apply.recount", "withdraw.recount"}
  /\ LET k == req[r].a[1] IN tally' = [tally EXCEPT ![k] = Recount(k)]
  /\ Goto(r, Idle)
  /\ UNCHANGED <<briefs, application, deals, minimum>>

-------------------------------------------------------------------------------
(* Deciding and withdrawing *)

(* The row is read with its campaign; only a selected one is refused. *)
DecideReads(r, a, verdict) ==
  /\ req[r] = Idle
  /\ application[a].status \notin {"none", "selected"}
  /\ Goto(r, [op |-> "decide.write", a |-> a, verdict |-> verdict,
              price |-> application[a].price, paid |-> campaign[a[1]].paid])
  /\ UNCHANGED <<briefs, rows, minimum>>

DecideWrites(r) ==
  /\ At(r, "decide.write")
  /\ application' = [application EXCEPT ![req[r].a].status = req[r].verdict]
  /\ IF req[r].verdict = "selected" THEN Step(r, "decide.look") ELSE Goto(r, Idle)
  /\ UNCHANGED <<briefs, tally, deals, minimum>>

DecideLooks(r) ==
  /\ At(r, "decide.look")
  /\ IF deals[req[r].a].opened > 0 THEN Goto(r, Idle) ELSE Step(r, "decide.size")
  /\ UNCHANGED <<briefs, rows, minimum>>

DecideSizes(r) ==
  /\ At(r, "decide.size")
  /\ IF TooSmall(r) THEN Goto(r, Idle) ELSE Step(r, "decide.book")
  /\ UNCHANGED <<briefs, rows, minimum>>

DecideBooks(r) ==
  /\ At(r, "decide.book")
  /\ deals' = [deals EXCEPT ![req[r].a].opened = @ + 1]
  /\ Step(r, "decide.offer")
  /\ UNCHANGED <<briefs, tally, application, minimum>>

DecideOffers(r) ==
  /\ At(r, "decide.offer")
  /\ deals' = [deals EXCEPT ![req[r].a].offers = @ + 1]
  /\ Goto(r, Idle)
  /\ UNCHANGED <<briefs, tally, application, minimum>>

WithdrawReads(r, a) ==
  /\ req[r] = Idle
  /\ application[a].status \notin {"none", "selected"}
  /\ Goto(r, [op |-> "withdraw.write", a |-> a])
  /\ UNCHANGED <<briefs, rows, minimum>>

WithdrawWrites(r) ==
  /\ At(r, "withdraw.write")
  /\ application' = [application EXCEPT ![req[r].a].status = "withdrawn"]
  /\ Step(r, "withdraw.recount")
  /\ UNCHANGED <<briefs, tally, deals, minimum>>

-------------------------------------------------------------------------------
(* Saving a brief, and telling the creators it fits *)

(* The form writes the row whole; the columns it has no field for stay.   *)
SaveCampaign(k) ==
  /\ ~campaign[k].deleted
  /\ \E saved \in SavedAs :
       /\ campaign' = [campaign EXCEPT ![k].status = saved[1], ![k].paid = saved[2]]
       /\ IF saved[1] = "published"
            THEN \E n \in Announcers :
                   /\ announcer[n] = Idle
                   /\ announcer' = [announcer EXCEPT ![n] = [op |-> "match.read", k |-> k]]
            ELSE UNCHANGED announcer
  /\ UNCHANGED <<told, week, rows, minimum, req>>

DeleteCampaign(k) ==
  /\ ~campaign[k].deleted
  /\ campaign' = [campaign EXCEPT ![k].deleted = TRUE]
  /\ UNCHANGED <<told, week, announcer, rows, minimum, req>>

SaveMinimum ==
  /\ minimum' \in Minimums \ {minimum}
  /\ UNCHANGED <<briefs, rows, req>>

Announces(n, op) == announcer[n].op = op
Announcing(n, state) == announcer' = [announcer EXCEPT ![n] = state]

MatchReads(n) ==
  /\ Announces(n, "match.read")
  /\ LET row == campaign[announcer[n].k] IN
       Announcing(n, IF row.status = "published" /\ ~row.deleted /\ ~row.announced
                       THEN [announcer[n] EXCEPT !.op = "match.claim"] ELSE Idle)
  /\ UNCHANGED <<campaign, told, week, rows, minimum, req>>

(* A slip: the write trusts the read before it. *)
BugMayAnnounce(k) == TRUE

MayAnnounce(k) == ~campaign[k].announced

(* One conditional write: whichever changes the row is the one that sends. *)
MatchClaims(n) ==
  /\ Announces(n, "match.claim")
  /\ LET k == announcer[n].k IN
       \/ /\ MayAnnounce(k)
          /\ campaign' = [campaign EXCEPT ![k].announced = TRUE]
          /\ Announcing(n, [announcer[n] EXCEPT !.op = "match.gather"])
       \/ /\ ~MayAnnounce(k)
          /\ Announcing(n, Idle)
          /\ UNCHANGED campaign
  /\ UNCHANGED <<told, week, rows, minimum, req>>

MatchGathers(n) ==
  /\ Announces(n, "match.gather")
  /\ LET k == announcer[n].k IN
       Announcing(n, [op |-> "match.count", k |-> k,
                      todo |-> {c \in Fits[k] : application[<<k, c>>].status = "none"}])
  /\ UNCHANGED <<campaign, told, week, rows, minimum, req>>

MatchCounts(n) ==
  /\ Announces(n, "match.count")
  /\ Announcing(n, [op |-> "match.tell", k |-> announcer[n].k,
                    todo |-> {c \in announcer[n].todo : week[c] < WeeklyCap}])
  /\ UNCHANGED <<campaign, told, week, rows, minimum, req>>

(* One notification each, awaited one after the other. *)
MatchTells(n) ==
  /\ Announces(n, "match.tell")
  /\ \/ /\ announcer[n].todo = {}
        /\ Announcing(n, Idle)
        /\ UNCHANGED <<told, week>>
     \/ \E c \in announcer[n].todo :
          /\ told' = [told EXCEPT ![<<announcer[n].k, c>>] = @ + 1]
          /\ week' = [week EXCEPT ![c] = @ + 1]
          /\ Announcing(n, [announcer[n] EXCEPT !.todo = @ \ {c}])
  /\ UNCHANGED <<campaign, rows, minimum, req>>

(* What was told falls out of the window. *)
WeekEnds ==
  /\ week' = [c \in Creators |-> 0]
  /\ UNCHANGED <<campaign, told, announcer, rows, minimum, req>>

-------------------------------------------------------------------------------
(* The process stops: a request, or an announcement, ends where it was. *)
Dies(x) ==
  /\ req' = [r \in Requests |-> IF r = x THEN Idle ELSE req[r]]
  /\ announcer' = [n \in Announcers |-> IF n = x THEN Idle ELSE announcer[n]]
  /\ UNCHANGED <<campaign, told, week, rows, minimum>>

Begins(r, a) ==
  \/ \E price \in Prices : ApplyReads(r, a, price)
  \/ \E verdict \in Verdicts : DecideReads(r, a, verdict)
  \/ WithdrawReads(r, a)

GoesOn(r) ==
  \/ ApplySizes(r) \/ ApplyInserts(r) \/ Recounts(r)
  \/ DecideWrites(r) \/ DecideLooks(r) \/ DecideSizes(r) \/ DecideBooks(r) \/ DecideOffers(r)
  \/ WithdrawWrites(r)

Announcement(n) ==
  \/ MatchReads(n) \/ MatchClaims(n) \/ MatchGathers(n) \/ MatchCounts(n) \/ MatchTells(n)

ApplicationsNext ==
  \/ \E r \in Requests : GoesOn(r) \/ \E a \in Pairs : Begins(r, a)
  \/ \E n \in Announcers : Announcement(n)
  \/ \E k \in Campaigns : SaveCampaign(k) \/ DeleteCampaign(k)
  \/ \E x \in Mortal : Dies(x)
  \/ SaveMinimum \/ WeekEnds

ApplicationsSpec == BriefsInit /\ [][ApplicationsNext]_applicationVars

-------------------------------------------------------------------------------
(* Every variable keeps its type: the rows of campaigns and applications,  *)
(* and what requests and announcements carry from one await to the next.   *)
ApplyOps == {"apply.size", "apply.insert", "apply.recount"}
DecideOps == {"decide.write", "decide.look", "decide.size", "decide.book", "decide.offer"}

RequestTypes ==
  {Idle} \cup [op : ApplyOps, a : Pairs, price : Prices, paid : BOOLEAN]
    \cup [op : DecideOps, a : Pairs, verdict : Verdicts, price : Prices \cup {0}, paid : BOOLEAN]
    \cup [op : {"withdraw.write", "withdraw.recount"}, a : Pairs]

AnnouncerTypes ==
  {Idle} \cup [op : {"match.read", "match.claim", "match.gather"}, k : Campaigns]
    \cup [op : {"match.count", "match.tell"}, k : Campaigns, todo : SUBSET Creators]

ApplicationsTypeOK ==
  /\ campaign \in [Campaigns -> [status : CampaignStatuses, paid : BOOLEAN,
                                 deleted : BOOLEAN, announced : BOOLEAN]]
  /\ tally \in [Campaigns -> Nat] /\ minimum \in Nat
  /\ application \in [Pairs -> [status : Statuses, price : Prices \cup {0}]]
  /\ deals \in [Pairs -> [opened : Nat, offers : Nat]]
  /\ told \in [Pairs -> Nat] /\ week \in [Creators -> Nat]
  /\ req \in [Requests -> RequestTypes] /\ announcer \in [Announcers -> AnnouncerTypes]

(* notifyCampaignMatches: however often a brief is saved, by how many at   *)
(* once, and wherever an announcement stops, no creator hears of it twice. *)
ToldOnce == \A a \in Pairs : told[a] <= 1

(* recalcCampaignApplications: the number on a campaign card never says    *)
(* more than there are applications, but while a withdrawal is recounting. *)
TallyNeverOverstates ==
  \A k \in Campaigns :
    \/ tally[k] <= Cardinality(Counted(k))
    \/ \E r \in Requests : At(r, "withdraw.recount") /\ req[r].a[1] = k

-------------------------------------------------------------------------------
(* What the code or its documentation says and the code does not do. *)

(* "Selecting opens a booking carrying the creator's proposed rate". *)
SelectionOpensADeal ==
  \A a \in Pairs :
    application[a].status = "selected" /\ (\A r \in Requests : req[r] = Idle)
      => deals[a].opened > 0

(* Selecting twice leads to the booking there is. *)
OneDealEach == \A a \in Pairs : deals[a].opened <= 1

(* "A creator may pull an application back before a decision is made." *)
SelectedStays ==
  [][\A a \in Pairs : application[a].status = "selected" => application'[a].status = "selected"]_applicationVars

(* The tally and the rows it counts "can never drift apart". *)
TallyIsExact ==
  (\A r \in Requests : req[r] = Idle)
    => \A k \in Campaigns : tally[k] = Cardinality(Counted(k))

(* "At most this many match notifications reach one creator in seven days". *)
WithinWeeklyCap == \A c \in Creators : week[c] <= WeeklyCap

(* A brief that was deleted takes no application any more. *)
DeletedTakesNone ==
  [][\A a \in Pairs : campaign[a[1]].deleted => application'[a] = application[a]
                        \/ application[a].status # "none"]_applicationVars
===============================================================================
