\* Two requests at a time, in each of four workloads.
CONSTANTS
  p1 = p1  p2 = p2  s1 = s1  s2 = s2
  Processes <- TwoRequests
  Scenarios <- TwoScenarios
  RequiredScenarios = 1
  Workloads <- EachPart
  MaxAttempts = 2
  MaxChanges = 1
  MaxCrashes = 1
SPECIFICATION Spec
INVARIANTS CompletionsHold
PROPERTIES WorkIsKept
SYMMETRY Symmetry
CHECK_DEADLOCK FALSE
