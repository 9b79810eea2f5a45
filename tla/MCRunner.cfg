SPECIFICATION RunnerSpec
CONSTANTS
  MaxRuns = 2
  IntWidth = 4
  NotAnObject = NotAnObject
  Absent = Absent
  Deployments <- Installations
INVARIANTS
  RunnerTypeOK
  ConfinedAtExec
  SetupNotSelfDefeating
  VerdictIsOwn
CONSTRAINT NotBoth
CHECK_DEADLOCK FALSE
