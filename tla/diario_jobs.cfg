\* Any one fault, two jobs that share one integration.
CONSTANTS
  Jobs = {j1, j2}
  Workers = {w1}
  MainSlots = {s1, s2}
  DlqSlots = {d1}
  MaxRetries = 1
  MaxPublishAttempts = 1
  FaultBudget <- AnyFault
SPECIFICATION FairSpec
INVARIANTS TypeOK CompletionFollows IntegrationTellsOutcome
PROPERTIES LifecycleSpec EventuallyTerminal
CHECK_DEADLOCK FALSE
