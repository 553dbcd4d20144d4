\* Two replicas, two users told one page each, two days, one failed run and one change;
\* two accounts that may leave and two retention runs.
CONSTANTS
  Replicas = {1, 2}
  Users = {1, 2}
  PageSize = 1
  AutoPublish = TRUE
  AiEnabled = TRUE
  MaxDay = 2
  MaxMishaps = 1
  MaxChanges = 1
  Accounts <- TwoAccounts
  Retainers = {1, 2}
  Chances <- Troubles
SPECIFICATION MCSpec
INVARIANTS ReachesEveryone 
PROPERTIES ContentIsStable  
CHECK_DEADLOCK FALSE
