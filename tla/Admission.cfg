SPECIFICATION FairSpec
CONSTANTS
  a1 = a1  a2 = a2  b1 = b1  b2 = b2  c1 = c1
  alice = alice  bob = bob  NoKey = NoKey
  Requests <- MCRequests
  Keys <- MCKeys
  KeyOf <- MCKeyOf
  MaxActive = 2
  MaxQueued = 3
  MaxActivePerKey = 1
  MaxQueuedPerKey = 1
  QueueWhenPerKeyActive = TRUE
INVARIANTS TypeOK LeasesCounted NobodyLeftBehind
PROPERTIES ImplementsFairSemaphore EveryWaiterSettles
