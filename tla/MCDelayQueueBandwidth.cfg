CONSTANTS
  Capacity = 3
  Latency = 2
  Items = {a, b}
  NoItem = NoItem
  Bandwidth = 2
  MaxOverdue = 1
  Clients <- BandwidthClients
SPECIFICATION Spec
INVARIANT NoEarlyRelease
CHECK_DEADLOCK FALSE
