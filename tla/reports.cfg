\* Every load, three clients; two requests and the jobs of one verification; the owner's
\* two requests, at a time, on three versions, the first of which was shared or not and one
\* of which may be cut short; two readers of a translation; three writers of events and a client that connects three times.
CONSTANTS
  r1 = r1  r2 = r2
  Loads <- AllLoads
  Clients = {1, 2, 3}
  MaxClaims = 3
  MaxEvidence = 3
  Requests <- TwoRequests
  Operations <- OwnersOperations
  Faults = {}
  MaxRetry = 1
  MaxFaults = 0
  Owners <- TwoRequests
  MaxRequests = 2
  Wishes <- OwnersWishes
  MaxVersions = 3
  MaxOrphans = 1
  Readers <- TwoRequests
  LeaseTicks = 1
  RetryTicks = 1
  MaxClock = 3
  ApiWriters = {1, 2}
  WorkerWriters = {3}
  PageSize = 2
  MaxStreams = 3
SPECIFICATION MCSpec
INVARIANTS ReportStandsAlone ReportExplainsItself
  OneCompleteVersion SharingHolds OnlyOvertakenAreMissed LifeHolds
PROPERTIES GuidedHolds TranslationHolds
SYMMETRY Symmetry
CHECK_DEADLOCK FALSE
