CONSTANTS
  Capacity = 2
  Latency = 2
  Items = {a, b}
  NoItem = NoItem
  Bandwidth = 2
  MaxOverdue = 1
  Clients <- AllClients
SPECIFICATION FairSpec
INVARIANTS NoAbort EndReadySound
PROPERTIES ImplementsFifo EventuallyReady
CHECK_DEADLOCK FALSE
