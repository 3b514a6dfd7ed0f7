\* One replica syncs two terms; the results fit the pages of a cycle.
CONSTANTS
  Replicas = {w1}
  Terms = {t1, t2}
  MaxPubs = 1
  MaxTime = 3
  TicksPerDay = 2
  Lookback = 4
  Overlap = 2
  MaxDelay = 2
  MaxCycle = 1
  PageSize = 1
  MaxPages = 2
  NewestFirst = FALSE
  MaxFaults = 1
SPECIFICATION FairSpec
PROPERTY EventuallyMatched
CHECK_DEADLOCK FALSE
