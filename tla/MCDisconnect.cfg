SPECIFICATION NetSpec
CONSTANTS
  SlotCount = 1
  MaxSessions = 1
  MaxRequests = 1
  MaxSubmissions = 1
  StopCalls = 0
  Channels <- MCChannels
INVARIANT DisconnectIsHarmless
CHECK_DEADLOCK FALSE
