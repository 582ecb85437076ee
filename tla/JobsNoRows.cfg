\* The only shatter task of a job is lost.
CONSTANTS
  w1 = w1  w2 = w2
  Files <- PlainFiles
  MaxSize = 3
  BatchSize = 3
  MessageLimit = 3
  Workers = {w1}
  MaxCopies = 2
  MaxRetries = 1
  MaxFaults = 1
  FaultKinds = {"shatter"}
SPECIFICATION Spec
INVARIANT MissingRowsFound
\* A job that has ended rests.
CHECK_DEADLOCK FALSE
