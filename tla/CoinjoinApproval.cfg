CONSTANTS
  p1 = p1
  p2 = p2
  bad = bad
  k1 = k1
  k2 = k2
  None = None
  Psbt = {p1, p2, bad}
  Valid = {p1, p2}
  MixId <- MixIds
  Task = {k1, k2}
  MaxDeliver <- FirstTwice
SPECIFICATION FairSpec
INVARIANTS TypeOK ApprovedAtMostOnceEach ResponseNamesItsRequest
PROPERTIES SignsWhatIsShown SignedIsPublished
