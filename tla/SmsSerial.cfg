\* Handlers of one message do not overlap: an ordinary message, a test message,
\* or one to a country without delivery records.
CONSTANTS
  n1 = n1  n2 = n2  n3 = n3  t1 = t1  t2 = t2  r1 = r1  r2 = r2
  firetext = firetext  spryng = spryng
  Notifications = {n1, n2, n3}
  Tasks = {t1, t2}
  Receipts = {r1}
  Providers = {firetext, spryng}
  Firetext = {firetext}
  Spryng = {spryng}
  International = {n3}
  NoDlr = {n3}
  TestKey = {n2}
  MaxRetries = 1
  MaxFaults = 2
  Overlap = FALSE
SPECIFICATION Spec
INVARIANTS TextInv NoDuplicateText
PROPERTIES FinalStatusStable ImplementsDelivery
CONSTRAINT OneMessage
SYMMETRY TaskSymmetry
\* Once the message is settled and the queues are empty the system may rest.
CHECK_DEADLOCK FALSE
