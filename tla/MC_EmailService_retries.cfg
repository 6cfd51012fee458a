SPECIFICATION FairSpec
CONSTANTS
  Job = {j1}
  MaxRetries = 3
  MaxFaults = 5
INVARIANTS TypeOK MailsBounded UnsentHasAReason
PROPERTIES JobsEnd
CHECK_DEADLOCK FALSE
