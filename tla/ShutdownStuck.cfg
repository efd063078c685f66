SPECIFICATION FairSpec
CONSTANTS
  h1 = h1  h2 = h2  b1 = b1
  Tasks <- OneTask
  Handlers <- MCHandlers
  SealTries = 2
  MaxSealFailures = 0
  MaxReleaseErrors = 1
PROPERTIES ShutdownEndsAfterCleanupError
