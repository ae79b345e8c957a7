\* An operator, a colleague who is invited twice, and two that open the links.
CONSTANTS
  o1 = o1
  o2 = o2
  a1 = a1
  r1 = r1
  r2 = r2
  v1 = v1
  v2 = v2
  Accounts <- OneColleague
  Founders <- OneFounder
  Roles = {"creator", "encoder", "admin"}
  StaffRoles = {"encoder", "admin"}
  Desks <- OneDesk
  Visits <- TwoVisits
  Mortal <- OneDesk
  MaxInvites = 2
SYMMETRY Alike
SPECIFICATION StaffSpec
INVARIANTS
  OneSpender
  NoLinkIsBurnt
CHECK_DEADLOCK FALSE
