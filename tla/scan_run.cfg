\* Two scans of one target side by side, one retry, a failed write, a crash.
CONSTANTS
  j1 = j1
  j2 = j2
  Scans = {j1, j2}
  Requests <- TheRequests
  Registered <- TheRegistered
  IssuePages = 2
  MaxRetries = 1
  MaxFaults = 1
SPECIFICATION FairSpec
INVARIANTS TypeOK NoCollateral WorkspaceWhileNeeded OwnAnalysis
PROPERTY EveryScannerIsTold
CHECK_DEADLOCK FALSE
