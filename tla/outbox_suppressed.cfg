\* The default of the event bus: errors of listeners are logged, not raised.
SPECIFICATION Spec
CONSTANTS
  d1 = d1
  d2 = d2
  e1 = e1
  e2 = e2
  none = none
  Events <- OneEvent
  Dispatchers <- TwoDispatchers
  Listening <- TwoDispatchers
  None <- none
  LockTime = 1
  BackoffCap = 2
  MaxAttempts = 2
  BatchSize = 2
  MaxFaults = 1
INVARIANTS
  PublishedWasHandled
