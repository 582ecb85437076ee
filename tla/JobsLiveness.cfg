\* Tasks are lost, the queues and the beat schedule keep working.
CONSTANTS
  w1 = w1  w2 = w2
  Files <- PlainFiles
  MaxSize = 3
  BatchSize = 2
  MessageLimit = 2
  Workers = {w1}
  MaxCopies = 2
  MaxRetries = 1
  MaxFaults = 1
  FaultKinds = {"worker", "shatter", "save"}
SPECIFICATION FairSpec
PROPERTIES AllRowsCreated
\* A job that has ended rests.
CHECK_DEADLOCK FALSE
