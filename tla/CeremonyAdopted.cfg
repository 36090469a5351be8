CONSTANTS
  d1 = d1
  d2 = d2
  d3 = d3
  t1 = t1
  t2 = t2
  a1 = a1
  None = None
  Device = {d1, d2}
  Vault <- OneVault
  Tx = {t1, t2}
  Auth = {}
  VaultOf <- VaultOfAll
  IndexOf <- IndexByTx
  MaxNonce = 1
  MaxSpends = 1
  MaxSessions = 1
SPECIFICATION FreeSpec
INVARIANT SignedTxIsSpendable
