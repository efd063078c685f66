SPECIFICATION FairSpec
CONSTANTS
  h1 = h1  h2 = h2  b1 = b1
  Tasks <- MCTasks
  Handlers <- MCHandlers
  SealTries = 2
  MaxSealFailures = 2
  MaxReleaseErrors = 1
INVARIANTS TypeOK HandedOver AcknowledgedIsDurable ServiceCoversDatabase
PROPERTIES ShutdownEnds
