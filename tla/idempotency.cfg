\* Three requests with one key; one is lost, one statement fails.
CONSTANTS
  Requests = {r1, r2, r3}
  Keys = {k1}
  Hashes = {h1, h2}
  Nobody = nobody
  MaxLost = 1
  MaxDbFaults = 1
SPECIFICATION FairSpec
INVARIANTS TypeOK OneClaimant OneAnswer ProcessingHasOwner
PROPERTY KeyIsReleased
CHECK_DEADLOCK FALSE
