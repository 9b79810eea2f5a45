SPECIFICATION PoolSpec
CONSTANTS
  w1 = w1
  w2 = w2
  Workers = {w1, w2}
  Retention = 1
  MaxStored = 1
  MaxId = 3
  MaxTime = 1
  Snapshots <- MCSnapshots
  MaxCases = 2
  CaseVerdicts = {"WA"}
  KeepRunnerWorkDir = FALSE
SYMMETRY WorkerSymmetry
INVARIANTS
  PoolTypeOK
  WorkerAgreesWithStore
  NoSubmissionLost
  NoLostWakeup
  WorkDirsAreCleaned
  PushedResultIsFinal
CHECK_DEADLOCK FALSE
