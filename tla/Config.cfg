CONSTANTS
  c1 = c1
  c2 = c2
  s1 = s1
  s2 = s2
  v1 = v1
  None = None
  Code = {c1, c2}
  VaultSet = {v1}
  Send = {s1, s2}
  FreshFile = TRUE
  WatchDepth = 1
  MaxIndex = 1
  MaxNotify = 1
SPECIFICATION ScenarioSpec
INVARIANTS TypeOK IndexOnlyAfterPayment
PROPERTIES QuietPersists
