-------------------------------- MODULE MCClaims --------------------------------
(* Claims on one or two profiles, two claimants, one operator or two. *)
EXTENDS Claims, TLC

CONSTANTS p1, p2, u1, u2, r1, r2, r3

OneProfile == {p1}
TwoProfiles == {p1, p2}
TwoClaimants == {u1, u2}
OneDesk == {r1}
TwoDesks == {r1, r2}
TwoRequests == {r1, r2}
ThreeRequests == {r1, r2, r3}

(* The profiles, the claimants, and the requests that are no operator's. *)
Alike ==
  {p @@ u @@ r : p \in Permutations(Profiles), u \in Permutations(Claimants),
                 r \in Permutations(Requests \ Desks)}
===============================================================================
