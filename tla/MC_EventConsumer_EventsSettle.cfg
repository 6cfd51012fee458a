SPECIFICATION FairSpec
CONSTANTS
  Replica = {r1}
  Event = {m1}
  Job = {j1, j2}
  Nobody = Nobody
  Prefetch = 1
  MaxLosses = 1
  MaxRetries = 1
  MaxFaults = 0
PROPERTIES EventsSettle
CHECK_DEADLOCK FALSE
