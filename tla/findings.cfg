\* Two projects, three scans of which the last two are listed, three days.
CONSTANTS
  f1 = f1
  Projects = {p1, p2}
  Fingerprints = {f1}
  Scanners = {"trivy"}
  ScannerOf <- TheScanners
  LabelOf <- TheLabels
  Noise = {f1}
  maxRecentScans = 2
  maxPostureProjects = 2
  MaxScans = 3
  MaxEvents = 4
  LastDay = 3
SPECIFICATION Spec
SYMMETRY Symmetry
INVARIANT TypeOK
PROPERTIES OpenUntilDecided SnapshotHonest
CHECK_DEADLOCK FALSE
