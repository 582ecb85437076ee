\* A receipt may be processed before deliver_sms commits.
CONSTANTS
  n1 = n1  n2 = n2  n3 = n3  t1 = t1  t2 = t2  r1 = r1  r2 = r2
  firetext = firetext  spryng = spryng
  Notifications = {n1}
  Tasks = {t1}
  Receipts = {r1}
  Providers = {firetext}
  Firetext = {firetext}
  Spryng = {}
  International = {}
  NoDlr = {}
  TestKey = {}
  MaxRetries = 0
  MaxFaults = 1
  Overlap = TRUE
SPECIFICATION Spec
PROPERTIES SendingNeverReplacesFinal
\* Once the message is settled and the queues are empty the system may rest.
CHECK_DEADLOCK FALSE
