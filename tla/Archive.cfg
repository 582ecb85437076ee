\* A text, or a letter and a test letter.
CONSTANTS
  x1 = x1  x2 = x2  l1 = l1  l2 = l2
  Texts = {x1}
  Letters = {l1, l2}
  TestKey = {l2}
  Group <- MCGroup
  TimeoutDays = 1
  TextFactDays = 2
  LetterFactDays = 3
  BillingDays = 3
  Retention = 1
  Limit = 2
  LastCreated = 1
  LastDay = 5
  MaxFaults = 1
SPECIFICATION FairSpec
CONSTRAINT OneType
INVARIANTS ArchiveInv FactsSettled ArchivedHasNoPdf
PROPERTIES ImplementsStore RetentionHonoured
\* The bound on days ends every behaviour.
CHECK_DEADLOCK FALSE
