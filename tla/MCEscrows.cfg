SPECIFICATION FairSpec
CONSTANTS
  c1 = c1
  c2 = c2
  u1 = u1
  u2 = u2
  NODE = NODE
  NoToken = NoToken
  Channels = {c1, c2}
  Users = {u1, u2}
  User <- MCUser
  ChallengeDuration <- MCDuration
  MinChallengeDuration = 1
  Tokens = {t1}
  ChainId = 1
  MaxPrecision = 0
  TokenDecimals <- MCDecimals
  Versions <- MCVersions
  Signed <- MCSigned
  UnlockDelay = 1
  EscrowChallengeDuration = 1
  MaxDepositEscrowSteps = 1
  Senders = {NODE}
  Frozen = {u1}
  Amounts = {1}
  PurgeSteps = {1}
  WalletInit <- MCWallet
  MaxTime = 3
INVARIANTS
  QueueSound
  EscrowLocksExact
PROPERTIES
  EscrowGoesToItsOwner
  DisputesEnd
  EscrowsEnd
CHECK_DEADLOCK FALSE
