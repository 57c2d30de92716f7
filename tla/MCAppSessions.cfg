SPECIFICATION Spec
CONSTANTS
  Nil = Nil
  NoToken = NoToken
  AssetUnit = 1
  u1 = u1
  u2 = u2
  s1 = s1
  s2 = s2
  s3 = s3
  k1 = k1
  game = game
  Users = {u1, u2}
  Nonces = {1}
  Chain = 1
  Token = token
  Sessions = {s1, s2, s3}
  Definition <- MCDefinition
  Order <- MCOrder
  Keys = {k1}
  SignerSets <- MCSignerSets
  Owners <- MCOwners
  ApprovalNeeded = {game}
  AppCost = 1
  LevelStepTokens = 1
  FreeActionsAllowance = 1
  IncreasePerLevel = 1
  Stakes = {3}
  Pasts = {"nothing", "running"}
  Running = {s1, s2}
  Funded = s1
  KeyHolders = {u1}
  KeyScopes <- MCKeyScopes
  Amounts = {1}
  InitialBalance = 2
  Slots = 2
  MaxRequests = 2
CHECK_DEADLOCK FALSE
INVARIANTS FundsConserved ClosedSessionsAreEmpty SessionsCanClose KeyOwnerIsCurrent GateCounts
PROPERTIES RequestsEnd
