\* No faults, but two requests at once.
CONSTANTS
  Requests = {r1, r2}
  Keys = {k1}
  Hashes = {h1, h2}
  Nobody = nobody
  MaxLost = 0
  MaxDbFaults = 0
SPECIFICATION Spec
SYMMETRY Symmetry
INVARIANT NeverTwice
CHECK_DEADLOCK FALSE
