SPECIFICATION FairPoolSpec
CONSTANTS
  w1 = w1
  w2 = w2
  Workers = {w1, w2}
  Retention = 1
  MaxStored = 1
  MaxId = 2
  MaxTime = 0
  Snapshots <- MCSnapshots
  MaxCases = 1
  CaseVerdicts = {"WA"}
  KeepRunnerWorkDir = FALSE
PROPERTIES
  AcceptedIsJudged
  StopTerminates
CHECK_DEADLOCK FALSE
