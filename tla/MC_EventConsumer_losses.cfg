SPECIFICATION FairSpec
CONSTANTS
  Replica = {r1, r2}
  Event = {m1}
  Job = {j1, j2, j3}
  Nobody = Nobody
  Prefetch = 1
  MaxLosses = 2
  MaxRetries = 2
  MaxFaults = 1
INVARIANTS TypeOK OutMeansHandled SettledMeansDone MailsPerEventBounded
PROPERTIES ImplementsEmailService SettledUnlessDeaf
CHECK_DEADLOCK FALSE
