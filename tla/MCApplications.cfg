\* One brief, two creators, two requests and two announcements in flight.
CONSTANTS
  k1 = k1
  k2 = k2
  c1 = c1
  c2 = c2
  r1 = r1
  r2 = r2
  n1 = n1
  n2 = n2
  Campaigns <- OneBrief
  Creators <- TwoCreators
  Requests <- TwoRequests
  Announcers <- TwoAnnouncers
  Fits <- FirstFits
  Prices = {1}
  Minimums = {1, 2}
  SavedAs <- PublishedAgain
  Verdicts <- SelectedOrNot
  WeeklyCap = 1
  Mortal <- TwoAnnouncers
SYMMETRY Alike
SPECIFICATION ApplicationsSpec
INVARIANTS
  ToldOnce
  TallyNeverOverstates
CHECK_DEADLOCK FALSE
