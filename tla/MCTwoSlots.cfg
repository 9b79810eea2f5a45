SPECIFICATION NetSpec
CONSTANTS
  SlotCount = 2
  MaxSessions = 3
  MaxRequests = 1
  MaxSubmissions = 1
  StopCalls = 1
  Channels <- MCChannels
INVARIANTS
  NetTypeOK
  SlotsAccounted
  SelectMissesNothing
CHECK_DEADLOCK FALSE
