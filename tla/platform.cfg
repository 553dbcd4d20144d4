\* Three calls of the router and two credentials; two searches or transcriptions; two
\* releases and two administrators; two processes that start; one publisher.
CONSTANTS
  r1 = r1  r2 = r2  r3 = r3  k1 = k1  k2 = k2
  AiProviders <- BothProviders
  Capabilities <- OneCapability
  ProviderLimit <- OneAtVertex
  CapabilityLimit <- TwoAtOnce
  Keys = {k1, k2}
  Requests = {r1, r2, r3}
  BudgetEnabled = FALSE
  Failures = {"RATE_LIMITED", "INVALID_RESPONSE"}
  Models = {"text", "reasoning"}
  Probed = {"GEMINI"}
  ConserveAt = 1
  CriticalAt = 2
  ExhaustedAt = 2
  InitialSpend = {0}
  MaxFaults = 0
  KeyCalls = {1, 2}
  TranscriptionAttempts = 3
  Releases = {1, 2}
  Admins = {1, 2}
  MaxEdits = 3
  MaxPrompts = 3
  Instances = {1, 2}
  Manifests <- TwoManifests
  Catalog <- BadgeCatalog
  Databases <- FoundDatabases
  Discoveries = {1, 2}
  Overriders = {1, 2}
SPECIFICATION MCSpec
INVARIANTS HoldersAgree ConfigurationHolds
PROPERTIES FifoPerClass
SYMMETRY Symmetry
CHECK_DEADLOCK FALSE
