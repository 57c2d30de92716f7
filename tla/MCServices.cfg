SPECIFICATION ServicesSpec
CONSTANTS
  BlockStep = 2
  MaxBlock = 4
  MaxLogs = 2
  w1 = w1
  w2 = w2
  k1 = k1
  Nobody = Nobody
  Nil = Nil
  Error = Error
  Wallets = {w1, w2}
  SessionKeys = {k1}
  Symbols <- MCSymbols
  Lower <- MCLower
  Bitmaps <- MCBitmaps
  Grants <- MCGrants
  MaxSessionKeyIDs = 2
  ActivationDelay = 1
  MaxRows = 2
  MaxTime = 1
  MaxClients = 2
INVARIANTS
  GapsAreUnfetchedTips
  SignedStatesAreEnforceable
  ActiveKeySigns
  PassMeansFundsHome
  OnlyFaultsFail
  MetricsCountOnce
  ReadyWhenServing
  
  
PROPERTIES
  DeliveredOnceInOrder
  EventuallyApplied
\* The client programs and the process end, and the chain stops growing.
CHECK_DEADLOCK FALSE
