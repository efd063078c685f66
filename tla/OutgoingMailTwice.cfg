SPECIFICATION Spec
CONSTANTS
  m1 = m1  m2 = m2  w1 = w1  w2 = w2  e1 = e1
  Mails <- OneMail
  Workers <- TwoWorkers
  Editors <- OneEditor
  MaxActive = 2
  SlowClaims = TRUE
  Sealed = FALSE
  MaxFailures = 0
  MaxCrashes = 0
INVARIANTS SentOnce
