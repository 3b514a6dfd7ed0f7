\* Two replicas sync one term; two publications fit the pages of a cycle.
CONSTANTS
  Replicas = {w1, w2}
  Terms = {t1}
  MaxPubs = 2
  MaxTime = 4
  TicksPerDay = 2
  Lookback = 4
  Overlap = 2
  MaxDelay = 2
  MaxCycle = 1
  PageSize = 1
  MaxPages = 2
  NewestFirst = TRUE
  MaxFaults = 1
SPECIFICATION Spec
SYMMETRY Symmetry
INVARIANTS TypeOK NothingSkipped AnnouncedOnce
CHECK_DEADLOCK FALSE
