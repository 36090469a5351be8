CONSTANTS
  d1 = d1
  d2 = d2
  d3 = d3
  c1 = c1
  c2 = c2
  s1 = s1
  None = None
  Device = {d1, d2}
  VaultSet = {{d1, d2}}
  Code = {c1}
  Send = {}
  MaxIndex = 2
  MaxQr = 9
SPECIFICATION Spec
INVARIANT RecipientCanSpend
