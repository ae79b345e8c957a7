\* Two profiles, two claimants, an operator and a request beside; both may stop.
CONSTANTS
  p1 = p1
  p2 = p2
  u1 = u1
  u2 = u2
  r1 = r1
  r2 = r2
  r3 = r3
  Nobody = Nobody
  Profiles <- TwoProfiles
  Claimants <- TwoClaimants
  Requests <- TwoRequests
  Desks <- OneDesk
  Mortal <- TwoRequests
  MaxClaims = 2
SYMMETRY Alike
SPECIFICATION ClaimsSpec
INVARIANTS
  ApprovedOwns
PROPERTIES
  HandedOverOnce
CHECK_DEADLOCK FALSE
