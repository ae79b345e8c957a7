-------------------------------- MODULE MCStaff ---------------------------------
(* Staff with one operator or two, and a colleague they invite. *)
EXTENDS Staff, TLC

CONSTANTS o1, o2, a1, r1, r2, v1, v2

OneFounder == {o1}
TwoFounders == {o1, o2}
OneColleague == {o1, a1}
TwoOperators == {o1, o2, a1}
OneDesk == {r1}
TwoDesks == {r1, r2}
TwoVisits == {v1, v2}
AllRequests == Desks \cup Visits

Alike == Permutations(Visits)
===============================================================================
