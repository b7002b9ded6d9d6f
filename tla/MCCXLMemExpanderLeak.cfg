\* One thread: the credit lost by an overwritten in-flight request.
CONSTANTS
  w1 = w1
  Worker = {w1}
  None = None
  Addr = {1, 2}
  MAX_QUEUE_SIZE = 4
  INITIAL_CREDITS = 2
  CreditModulus = 4
  MaxTime = 2
  MaxLatency = 1
  MaxEntries = 1
  Locked = TRUE
SPECIFICATION Spec
INVARIANT CreditIsAvailable
