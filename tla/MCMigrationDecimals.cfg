SPECIFICATION Spec
CONSTANTS
  c1 = c1
  u1 = u1
  t1 = t1
  NODE = NODE
  NoToken = NoToken
  Channels = {c1}
  Users = {u1}
  User <- MCUser
  ChallengeDuration <- MCDuration
  MinChallengeDuration = 1
  Tokens = {t1}
  ChainId = 1
  MaxPrecision = 1
  TokenDecimals <- MCDecimals
  Versions <- MCVersions
  Signed <- MCSigned
  UnlockDelay = 1
  EscrowChallengeDuration = 1
  MaxDepositEscrowSteps = 1
  Senders = {u1, NODE}
  Frozen = {}
  Amounts <- MCAmounts
  PurgeSteps = {1}
  WalletInit <- MCWallet
  MaxTime = 3
  Decimals = 1
INVARIANT
  MigrationCompletes
CHECK_DEADLOCK FALSE
