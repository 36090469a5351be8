CONSTANTS
  u1 = u1
  u2 = u2
  u3 = u3
  u4 = u4
  None = None
  MaxU64 = 21
  Dust = 2
  FeeUnit = 2
  Overhead = 1
  PerInput = 1
  NotifyDust = 2
  NotifyFee = 1
  VaultSize = 2
  Coin = {u1, u2, u3, u4}
  Value = {1, 2, 3, 5, 9}
  Amount = {1, 2, 4, 5, 8, 21}
  Fee = {0, 5, 11, 21}
SPECIFICATION Spec
INVARIANTS TypeOK NeverCollides AmountsRight FewestCoins FailsOnlyWhenPoor
  VaultAmountsRight
SYMMETRY SymmetryOfCoins
CHECK_DEADLOCK FALSE
