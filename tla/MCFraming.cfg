SPECIFICATION FairFramingSpec
CONSTANTS
  NoByte = NoByte
  kCheapPrepend = 2
  kInitialSize = 3
  ExtraSize = 4
  HeaderSize = 2
  BodyLengths = {0, 4}
  MaxMessages = 2
  MaxConnections = 2
  ExtraLengths = {0, 2, 4, 6, 9}
  MaxLength = 8
INVARIANTS
  FramingTypeOK
  NothingMisplaced
PROPERTIES
  ImplementsDelivery
  GivenUpOnlyBySecondArea
  RequestTaken
CHECK_DEADLOCK FALSE
