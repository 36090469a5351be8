CONSTANTS
  p1 = p1
  p2 = p2
  bad = bad
  k1 = k1
  k2 = k2
  None = None
  Psbt = {p1, p2, bad}
  Valid = {p1, p2}
  MixId <- OneMixId
  Task = {k1, k2}
  MaxDeliver <- AllOnce
SPECIFICATION Spec
PROPERTY RejectedStays
