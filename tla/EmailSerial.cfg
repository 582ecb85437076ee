\* Handlers of one email do not overlap.
CONSTANTS
  n1 = n1  n2 = n2  t1 = t1  t2 = t2  r1 = r1  r2 = r2
  Emails = {n1, n2}
  Tasks = {t1, t2}
  Reports = {r1, r2}
  TestKey = {n2}
  MaxRetries = 1
  MaxReportRetries = 1
  MaxRefs = 3
  MaxPosts = 2
  MaxFaults = 1
  Overlap = FALSE
SPECIFICATION Spec
INVARIANTS EmailInv NoDuplicateEmail
PROPERTIES ImplementsDelivery
CONSTRAINT OneEmail
SYMMETRY EmailSymmetry
\* Once the email is settled and the queues are empty the system may rest.
CHECK_DEADLOCK FALSE
