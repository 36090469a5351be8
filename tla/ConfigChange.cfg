CONSTANTS
  c1 = c1
  c2 = c2
  s1 = s1
  s2 = s2
  v1 = v1
  None = None
  Code = {c1}
  VaultSet = {v1}
  Send = {s1}
  FreshFile = FALSE
  WatchDepth = 20
  MaxIndex = 2
  MaxNotify = 1
SPECIFICATION HostedSpec
INVARIANT ChangeNeverReused
