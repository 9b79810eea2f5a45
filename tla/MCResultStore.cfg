SPECIFICATION StoreSpec
CONSTANTS
  Retention = 2
  MaxStored = 2
  MaxId = 4
  MaxTime = 4
  Snapshots <- MCSnapshots
INVARIANTS
  StoreTypeOK
  CapacityBound
PROPERTIES
  TerminalIsFinal
  EvictsOldestFirst
  UnfinishedSurvives
  FreshAfterEveryCall
  ImplementsLifecycle
