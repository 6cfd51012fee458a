SPECIFICATION Spec
CONSTANTS
  Job = {j1}
  MaxRetries = 3
  MaxFaults = 0
INVARIANT SentMeansMailed
CHECK_DEADLOCK FALSE
