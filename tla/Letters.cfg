\* One letter of any kind, two handlers, and two faults of different kinds.
CONSTANTS
  s1 = s1  s2 = s2
  Kinds = {"templated", "precompiled", "uploaded"}
  Slots = {s1, s2}
  MaxRetries = 1
  MaxCopies = 2
  MaxRescans = 2
  MaxFaults = 2
  FaultKinds = {"overlap", "broker", "worker", "redelivery", "loss", "antivirus",
                "answer lost", "slow", "database"}
SPECIFICATION FairSpec
INVARIANTS LetterInv PrintedIsRecorded DespatchRecorded
PROPERTIES CancelledForGood RefusedForGood LeavesStart
\* A letter that is settled rests.
CHECK_DEADLOCK FALSE
