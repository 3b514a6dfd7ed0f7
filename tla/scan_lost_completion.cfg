\* A crash between the two transactions of a completed scan.
CONSTANTS
  Jobs = {j1}
  Workers = {w1}
  MainSlots = {s1}
  DlqSlots = {d1}
  MaxRetries = 1
  MaxPublishAttempts = 2
  FaultBudget <- OneCrash
SPECIFICATION FairSpec
PROPERTY CompletionIsAnnounced
CHECK_DEADLOCK FALSE
