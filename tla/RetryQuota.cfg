SPECIFICATION Spec
CONSTANTS
  MaxAttempts = 2
  InitialDelay = 1
  MaxDelay = 4
  Jitter = FALSE
  RespectRetryAfter = TRUE
  Failures <- failures
  Charges = {0, 1}
INVARIANT QuotaIsNoRateLimit
CHECK_DEADLOCK FALSE
