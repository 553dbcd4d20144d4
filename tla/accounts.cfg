\* One account, two sessions and two overlapping requests out of five; two schedulers,
\* one event and two faults of any kind.
CONSTANTS
  r1 = r1  r2 = r2  s1 = s1  s2 = s2
  Procs <- TwoRequests
  Passwords <- TwoPasswords
  Addresses <- OneAddress
  Agents <- OneAgent
  MaxSessions = 2
  MaxSerial = 3
  MaxLinks = 2
  MaxTime = 2
  MaxRequests = 5
  SessionTtl = 2
  LinkTtl = 2
  Grace = 0
  Cooldown = 1
  Schedulers <- TwoSchedulers
  Plans <- CompletionOrAlert
  Switches <- MailAndCategory
  Faults <- AllFaults
  MaxFaults = 2
  SuppressErrors = TRUE
SPECIFICATION MCSpec
INVARIANTS SpentOnce StaleSessionsAreOut DoneMeansNotified MailSettles
PROPERTIES WithdrawnStays SentIsTrueAndFinal
SYMMETRY Symmetry
CHECK_DEADLOCK FALSE
