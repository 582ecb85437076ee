\* A message to a country without delivery records runs out of retries.
CONSTANTS
  n1 = n1  n2 = n2  n3 = n3  t1 = t1  t2 = t2  r1 = r1  r2 = r2
  firetext = firetext  spryng = spryng
  Notifications = {n1}
  Tasks = {t1}
  Receipts = {r1}
  Providers = {firetext}
  Firetext = {firetext}
  Spryng = {}
  International = {n1}
  NoDlr = {n1}
  TestKey = {}
  MaxRetries = 0
  MaxFaults = 1
  Overlap = FALSE
SPECIFICATION Spec
PROPERTIES GaveUpIsSettled
\* Once the message is settled and the queues are empty the system may rest.
CHECK_DEADLOCK FALSE
