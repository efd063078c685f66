SPECIFICATION Spec
CONSTANTS
  motivation = motivation  deadline = deadline
  Fields <- MCFields
  SavesOverQueue = TRUE
  RebaseAttempts = 1
  MaxTyped = 2
  MaxElsewhere = 0
  MaxLosses = 0
PROPERTIES QueuedEditsSettle
CHECK_DEADLOCK FALSE
