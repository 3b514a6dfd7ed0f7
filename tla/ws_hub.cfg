\* One tab with room for two events, three events, a lost channel, a stop.
CONSTANTS
  Events = {e1, e2, e3}
  Clients = {c1}
  Prefetch = 2
  BroadcastCap = 1
  SendCap = 2
  MaxLosses = 1
  MaxShutdowns = 1
SPECIFICATION HubFairSpec
INVARIANTS HubTypeOK NeverPanics StreamWithoutGap
PROPERTIES LaggardsLeave EventReachesHub ShutdownCompletes
CHECK_DEADLOCK FALSE
