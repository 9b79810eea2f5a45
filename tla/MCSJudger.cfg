SPECIFICATION FairSandboxSpec
CONSTANTS
  Limits = {0, 1}
  MaxUse = 2
  MaxTime = 2
  ExitCodes <- MCExitCodes
  Signals <- MCSignals
INVARIANTS
  SandboxTypeOK
  NoChildLeftBehind
  SetupFailureIsSystemError
  AcceptedRanToEnd
  KilledIsTimeout
PROPERTY RunReturns
CHECK_DEADLOCK FALSE
