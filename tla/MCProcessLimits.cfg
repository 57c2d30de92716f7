SPECIFICATION ServicesSpec
CONSTANTS
  BlockStep = 2
  MaxBlock = 4
  MaxLogs = 2
  w1 = w1
  w2 = w2
  k1 = k1
  Nobody = Nobody
  Nil = Nil
  Error = Error
  Wallets = {w1, w2}
  SessionKeys = {k1}
  Symbols <- MCSymbols
  Lower <- MCLower
  Bitmaps <- MCBitmaps
  Grants <- MCGrants
  MaxSessionKeyIDs = 2
  ActivationDelay = 1
  MaxRows = 2
  MaxTime = 1
  MaxClients = 2
INVARIANTS
  ConfiguredChallengesAccepted
\* The process ends when it has been launched often enough.
CHECK_DEADLOCK FALSE
