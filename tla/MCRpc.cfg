SPECIFICATION Spec
CONSTANTS
  Calls = {1, 2, 3}
  MethodOf <- MCMethodOf
  GroupOf <- MCGroupOf
  MaxRebalanceSignedUpdates = 0
  AppRegistryEnabled = FALSE
  MaxDials = 2
  Scopes <- MCScopes
  ProcessBufferSize = 1
  WriteBufferSize = 1
  EventChanSize = 1
CHECK_DEADLOCK FALSE
INVARIANTS ResultsAreTrue HubIsExact
PROPERTIES CallsEnd ConnectionsEnd
