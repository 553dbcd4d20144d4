\* Two requests at a time, two activities, a badge for both and one for two days in a row.
CONSTANTS
  p1 = p1  p2 = p2  a1 = a1  a2 = a2  b1 = b1  s1 = s1
  Processes <- TwoRequests
  Activities <- TwoActivities
  Badges <- CountAndStreak
  Streaks <- TheStreak
  Target <- Two
  ActivityXp <- OneXp
  BadgeXp <- BothPay
  Thresholds <- ThreeRanks
  MaxDay = 2
  MaxRequests = 2
  MaxCrashes = 1
SPECIFICATION Spec
INVARIANTS AchievementsSettle
PROPERTIES Promise
SYMMETRY Symmetry
CHECK_DEADLOCK FALSE
