\* The worker process dies once; nobody does anything else.
CONSTANTS
  r1 = r1
  Requests <- OneRequest
  Operations <- NoOperation
  Faults <- WorkerFault
  MaxRetry = 0
  MaxFaults = 1
SPECIFICATION FairSpec
PROPERTIES FinishesAfterCrash
CHECK_DEADLOCK FALSE
