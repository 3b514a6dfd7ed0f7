\* Every kind of fault, one job, two replicas.
CONSTANTS
  Jobs = {j1}
  Workers = {w1, w2}
  MainSlots = {s1}
  DlqSlots = {d1}
  MaxRetries = 1
  MaxPublishAttempts = 2
  FaultBudget <- EveryFault
SPECIFICATION Spec
SYMMETRY Symmetry
INVARIANTS TypeOK OutcomeOnce OutcomeMatchesStatus
           SecondScanOnlyIfStale NoOrphan CompletionFollows
PROPERTY LifecycleSpec
CHECK_DEADLOCK FALSE
