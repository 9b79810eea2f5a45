SPECIFICATION NetSpec
CONSTANTS
  SlotCount = 1
  MaxSessions = 2
  MaxRequests = 2
  MaxSubmissions = 2
  StopCalls = 0
  Channels <- MCChannels
INVARIANTS
  OnlyOwnMessages
  StreamIntact
  ResultHandedOverOnce
  AckOvertakenOnlyInWindow
PROPERTY StrandedOnlyInWindow
CHECK_DEADLOCK FALSE
