SPECIFICATION FairSpec
CONSTANTS
  m1 = m1  m2 = m2  w1 = w1  w2 = w2  e1 = e1
  Mails <- TwoMails
  Workers <- TwoWorkers
  Editors <- OneEditor
  MaxActive = 1
  SlowClaims = TRUE
  Sealed = TRUE
  MaxFailures = 1
  MaxCrashes = 1
INVARIANTS TypeOK SentOnce MaybeSentIsLocked ActiveIsShown
PROPERTIES ClosedWhenShown AcceptedIsIrreversible EverythingSettles
