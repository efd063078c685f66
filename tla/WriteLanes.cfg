SPECIFICATION FairSpec
CONSTANTS
  a1 = a1  a2 = a2  b1 = b1  ab = ab  all = all  inner = inner
  laneA = laneA  laneB = laneB  NoOwner = NoOwner
  Operations <- MCOperations
  Lanes <- MCLanes
  LanesOf <- MCLanesOf
  Nested <- MCNested
  Awaited <- MCAwaited
INVARIANTS TypeOK NobodyForgotten
PROPERTIES NoOvertaking ImplementsLaneLock EveryCallRuns SeveralLanesComeFree
