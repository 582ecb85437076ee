\* Two runs of one job and two faults of different kinds.
CONSTANTS
  w1 = w1  w2 = w2
  Files <- MixedFiles
  MaxSize = 3
  BatchSize = 3
  MessageLimit = 1
  Workers = {w1, w2}
  MaxCopies = 2
  MaxRetries = 0
  MaxFaults = 2
  FaultKinds = {"broker", "beat", "worker", "shatter", "save", "database",
                "redelivery", "slow"}
SPECIFICATION Spec
INVARIANTS JobInv DeliveredOnce CancelledMakesNothing SubdivisionExact
PROPERTIES EndsForGood
SYMMETRY WorkerSymmetry
\* A job that has ended, or that was lost to a fault, rests.
CHECK_DEADLOCK FALSE
