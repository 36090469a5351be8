CONSTANTS
  d1 = d1
  d2 = d2
  d3 = d3
  c1 = c1
  c2 = c2
  s1 = s1
  None = None
  Device = {d1, d2, d3}
  VaultSet = {{d1, d3}, {d1, d2}, {d2, d3}}
  Code = {c1, c2}
  Send = {s1}
  MaxIndex = 1
  MaxQr = 3
  Order = 11
  Width = 16
  Key = {1, 5, 9}
  HashValue = {3, 11, 13}
  NoncePair <- TwoPairs
SPECIFICATION EitherSpec
INVARIANTS TypeOK OnlyEarlyPutsBack OwnShareIsForThisSend LeftOutOnlyForOutsiders
  HonestSpendFinalizes OnlyOwnPartialVerifies SharesGiveSecret
SYMMETRY Symmetric
