\* Three logins and two tickets of one user, two replicas.
CONSTANTS
  user = user
  login1 = login1
  login2 = login2
  login3 = login3
  Logins = {login1, login2, login3}
  Tickets = {t1, t2}
  Replicas = {r1, r2}
  Accounts = {user}
  Calls <- TheCalls
  bucket <- TheBucket
  key <- TheKey
  account <- TheAccount
  holder <- TheHolder
  Arrivals <- TheArrivals
  windowSeconds <- TheWindows
  maxRequests <- TheLimits
  KeepFor = 2
  maxFailedAttempts = 2
  lockoutDuration = 1
  TokenTTL = 2
  TicketTTL = 1
  LastTick = 3
SPECIFICATION Spec
SYMMETRY Symmetry
INVARIANTS TypeOK WindowBound FailuresCounted TicketOnce
CHECK_DEADLOCK FALSE
