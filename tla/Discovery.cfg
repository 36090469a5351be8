SPECIFICATION FairSpec
CONSTANTS
  a = a  aAgain = aAgain  b = b  c = c  torn = torn
  early = early  late = late  plain = plain
  None = None
  Code = {a, aAgain, b, c, torn}
  KeyOf <- Keys
  Offered <- ScanOrder
  Coin = {early, late}
  Script <- Outputs
  Value <- Satoshis
  WatchDepth = 1
  MaxIndex = 1
  MaxReceive = 1
  Task = {t1, t2}
  t1 = t1
  t2 = t2
INVARIANTS TypeOK KeysMatchIdentity FreshSetIsExact AutoPickPaysVault DisplayFollowsSet
PROPERTIES ScansEnd
