\* Every interleaving, with fair workers and schedule: a text at home, or one to a
\* country without delivery records.
CONSTANTS
  n1 = n1  n2 = n2  n3 = n3  t1 = t1  t2 = t2  r1 = r1  r2 = r2
  firetext = firetext  spryng = spryng
  Notifications = {n1, n3}
  Tasks = {t1}
  Receipts = {r1}
  Providers = {firetext}
  Firetext = {firetext}
  Spryng = {}
  International = {n3}
  NoDlr = {n3}
  TestKey = {}
  MaxRetries = 1
  MaxFaults = 1
  Overlap = TRUE
SPECIFICATION FairSpec
CONSTRAINT OneMessage
PROPERTIES EventuallySettled
\* Once the message is settled and the queues are empty the system may rest.
CHECK_DEADLOCK FALSE
