\* Every kind of fault, one replica with two slots.
CONSTANTS
  Jobs = {j1}
  Workers = {w1}
  MainSlots = {s1, s2}
  DlqSlots = {d1}
  MaxRetries = 1
  MaxPublishAttempts = 2
  FaultBudget <- EveryFault
SPECIFICATION FairSpec
PROPERTY EventuallyTerminal
CHECK_DEADLOCK FALSE
