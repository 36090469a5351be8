SPECIFICATION Spec
CONSTANTS
  p = p
  q = q
  w1 = w1
  w2 = w2
  w3 = w3
  Noise = Noise
  None = None
  Password = {p, q}
  Writer = {w1, w2, w3}
  MaxSize = 2
INVARIANTS TypeOK NoPlaintext LastPasswordOrNone ParsesAtRest
SYMMETRY Alike
