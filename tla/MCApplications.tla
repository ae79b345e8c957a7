---------------------------- MODULE MCApplications -----------------------------
(* Applications on one brief and two creators, or on two briefs and one. *)
EXTENDS Applications, TLC

CONSTANTS k1, k2, c1, c2, r1, r2, n1, n2

OneBrief == {k1}
TwoBriefs == {k1, k2}
OneCreator == {c1}
TwoCreators == {c1, c2}
TwoRequests == {r1, r2}
TwoAnnouncers == {n1, n2}


(* A paid brief that is published, and saved again; or any terms.           *)
PublishedAgain == {<<"published", TRUE>>}
AnyTerms == {"draft", "published"} \X BOOLEAN

SelectedOrNot == {"selected", "rejected"}

AllFit == [k \in Campaigns |-> Creators]

FirstFits == [k \in Campaigns |-> {c1}]

(* Requests, and announcements, are alike. *)
Alike ==
  {p @@ q : p \in Permutations(TwoRequests), q \in Permutations(TwoAnnouncers)}
===============================================================================
