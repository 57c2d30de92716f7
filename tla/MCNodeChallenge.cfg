SPECIFICATION Spec
CONSTANTS
  Nil = Nil
  NoToken = NoToken
  AssetUnit = 1
  u1 = u1
  u2 = u2
  Users = {u1, u2}
  Nonces = {1, 2}
  Chain = 1
  Token = token
  Slots = 2
  Pasts <- MCPasts
  MaxRequests = 2
  Amounts = {1}
  ReopensAfterClose = FALSE
  FreeActions = 1
  MaxActionRetries = 0
  Challengers = {u1}
  NodeFunds = 100
  NODE = NODE
CHECK_DEADLOCK FALSE
INVARIANT LatestStateAnswersChallenge
