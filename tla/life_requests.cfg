\* One request at a time, every operation and one fault, of any kind but a lost answer.
CONSTANTS
  r1 = r1
  Requests <- OneRequest
  Operations <- AllOperations
  Faults <- SomeFaults
  MaxRetry = 1
  MaxFaults = 1
SPECIFICATION FairSpec
INVARIANTS AllowanceIsHonest NoneStranded
PROPERTIES Finishes
CHECK_DEADLOCK FALSE
