SPECIFICATION FairSpec
CONSTANTS
  MaxAttempts = 3
  InitialDelay = 1
  MaxDelay = 5
  Jitter = TRUE
  RespectRetryAfter = TRUE
  Failures <- failures
  Charges = {0, 1}
INVARIANTS OutputNeverReplayed LedgerBalanced BackoffBounded RetriedWhenTransient
PROPERTY CallReturns
CHECK_DEADLOCK FALSE
