SPECIFICATION NetSpec
CONSTANTS
  SlotCount = 1
  MaxSessions = 1
  MaxRequests = 1
  MaxSubmissions = 1
  StopCalls = 0
  Channels <- MCChannels
INVARIANT AckFirst
CHECK_DEADLOCK FALSE
