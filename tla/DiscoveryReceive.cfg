SPECIFICATION Spec
CONSTANTS
  a = a  aAgain = aAgain  b = b  c = c  torn = torn
  early = early  late = late  plain = plain
  None = None
  Code = {a, aAgain, b, c, torn}
  KeyOf <- Keys
  Offered <- ScanOrder
  Coin = {plain}
  Script <- Outputs
  Value <- Satoshis
  WatchDepth = 1
  MaxIndex = 1
  MaxReceive = 1
  Task = {t1, t2}
  t1 = t1
  t2 = t2
INVARIANTS ShownAddressIsWatched
