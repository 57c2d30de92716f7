SPECIFICATION Spec
CONSTANTS
  c1 = c1
  u1 = u1
  t1 = t1
  t2 = t2
  NODE = NODE
  NoToken = NoToken
  Channels = {c1}
  Users = {u1}
  User <- MCUser
  ChallengeDuration <- MCDuration
  MinChallengeDuration = 1
  Tokens = {t1, t2}
  ChainId = 1
  MaxPrecision = 0
  TokenDecimals <- MCDecimals
  Versions <- MCVersions
  Signed <- MCSigned
  UnlockDelay = 1
  EscrowChallengeDuration = 1
  MaxDepositEscrowSteps = 1
  Senders = {u1, NODE}
  Frozen = {}
  Amounts = {1}
  PurgeSteps = {1}
  WalletInit <- MCWallet
  MaxTime = 3
  MaxVersion = 3
  MaxAllocation = 1
  MaxUserDebt = 1
  MaxNodeFlow = 1
INVARIANTS
  TypeOK
  LockedMatchesAllocations
  Solvent
PROPERTIES
  NothingStranded
  NetFlowIsReal
  EnforcementIsOrdered
CHECK_DEADLOCK FALSE
