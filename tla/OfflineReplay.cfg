SPECIFICATION FairSpec
CONSTANTS
  motivation = motivation  deadline = deadline
  Fields <- MCFields
  SavesOverQueue = FALSE
  RebaseAttempts = 1
  MaxTyped = 2
  MaxElsewhere = 1
  MaxLosses = 1
INVARIANTS TypeOK
PROPERTIES QueuedEditsSettle OverwritesOnlyWhatWasSeen QueueDrains
CHECK_DEADLOCK FALSE
