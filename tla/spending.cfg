\* Two requests or workers, two verifications, an allowance of 1 or 2, costs 1 or 2;
\* two calls of the router for one place, one credential, one failure of the database.
CONSTANTS
  w1 = w1  v1 = v1  v2 = v2  c1 = c1  c2 = c2  q1 = q1  q2 = q2  l1 = l1
  Windows <- OneWindow
  Verifications <- TwoVerifications
  Attempts <- FirstAttempt
  Limits <- OneAndTwo
  Costs <- OneAndTwo
  Callers <- TwoCallers
  AiProviders <- BothProviders
  Capabilities <- OneCapability
  ProviderLimit <- OneAtATime
  CapabilityLimit <- NarrowLimit
  Keys = {l1}
  Requests = {q1, q2}
  BudgetEnabled = TRUE
  Failures = {"AUTHENTICATION_FAILED", "TIMEOUT", "INVALID_RESPONSE"}
  Models = {"text", "reasoning"}
  Probed = {}
  ConserveAt = 1
  CriticalAt = 2
  ExhaustedAt = 2
  InitialSpend = {0}
  MaxFaults = 1
SPECIFICATION MCSpec
INVARIANTS CountersAgree ChargesHold
PROPERTIES ReleasedIsFinal Answers
CHECK_DEADLOCK FALSE
SYMMETRY Symmetry
