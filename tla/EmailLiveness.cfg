\* Liveness, with every interleaving.
CONSTANTS
  n1 = n1  n2 = n2  t1 = t1  t2 = t2  r1 = r1  r2 = r2
  Emails = {n1}
  Tasks = {t1, t2}
  Reports = {r1}
  TestKey = {}
  MaxRetries = 0
  MaxReportRetries = 1
  MaxRefs = 2
  MaxPosts = 1
  MaxFaults = 0
  Overlap = TRUE
SPECIFICATION FairSpec
INVARIANTS HandledIsFinal
PROPERTIES EventuallySettled EventuallyTold ComplaintHeard
\* Once the email is settled and the queues are empty the system may rest.
CHECK_DEADLOCK FALSE
