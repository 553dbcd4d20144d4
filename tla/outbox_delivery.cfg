\* Two events, two dispatchers, one of them in a process without listeners.
SPECIFICATION FairSpec
CONSTANTS
  d1 = d1
  d2 = d2
  e1 = e1
  e2 = e2
  none = none
  Events <- TwoEvents
  Dispatchers <- TwoDispatchers
  Listening <- OnlyD1
  None <- none
  LockTime = 1
  BackoffCap = 1
  MaxAttempts = 2
  BatchSize = 1
  MaxFaults = 1
INVARIANTS OutcomesAreEarned
PROPERTIES KeepsPromise EventuallySettled
