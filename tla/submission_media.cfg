\* Three submissions under two keys, two at once, over one asset whose upload, deletion
\* and cleanup overlap them; one failure.
CONSTANTS
  a1 = a1  r1 = r1  r2 = r2  r3 = r3  s1 = s1  s2 = s2  c1 = c1  c2 = c2  k1 = k1  k2 = k2
  Assets <- OneAsset
  Calls <- TwoCalls
  Resources <- ThreeResources
  Types <- TwoTypes
  PendingTtl = 1
  MaxTime = 1
  MaxFaults = 1
  NoResource = NoResource
  Profile = Profile
  Submitters <- TwoSubmitters
  Keys <- TwoKeys
  Text = Text
  MaxSubmissions = 3
SPECIFICATION MCSpec
INVARIANTS AnswersHold NothingHalfDone MediaHolds
SYMMETRY Symmetry
CHECK_DEADLOCK FALSE
