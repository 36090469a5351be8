CONSTANTS
  d1 = d1
  d2 = d2
  d3 = d3
  t1 = t1
  t2 = t2
  a1 = a1
  None = None
  Device = {d1, d2, d3}
  Vault <- TwoVaults
  Tx = {t1, t2}
  Auth = {a1}
  VaultOf <- VaultByTx
  IndexOf <- IndexOfAll
  MaxNonce = 2
  MaxSpends = 2
  MaxSessions = 1
SPECIFICATION ScenarioSpec
INVARIANTS
  TypeOK
  IndexFollowsMsg
  BroadcastIsWhatR4Showed
  AcceptedSignedByAll
PROPERTIES ImplementsVaultSigning
CHECK_DEADLOCK FALSE
