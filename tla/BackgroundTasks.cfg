SPECIFICATION BackgroundFairSpec
CONSTANTS
  http = http  webPush = webPush
  Producers <- MCProducers
  Users <- MCUsers
  Concurrency = 1
  MaxJobs = 1
  MaxDeferrals = 1
  Requests <- MCRequests
  DetachedTasks <- MCDetached
  Workloads <- MCWorkloads
INVARIANTS BackgroundTypeOK NoWakeLost BooksAgree IdleForGood
PROPERTIES EveryWakeServed ResearchEnds BackgroundIdles
CHECK_DEADLOCK FALSE
