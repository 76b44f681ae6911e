CONSTANTS
  Attempt <- MCAttempt
  Threshold = 2
  MaxAttempts = 3
  Waits = {4}
  TailLines = 2
  Wedge = 3
  Rotate = 4
  Backoff = 1
  Burst = 1
  Ceiling = 3
  Fallback = 2
  Resets <- MCResets
  MaxLines = 2
  MaxNow = 5
SPECIFICATION FairSpec
CHECK_DEADLOCK FALSE
INVARIANTS
  StruggleOnReceipt
  QuotaIsWaited
PROPERTIES
  EndedInTime
  GenerationsGoOn
