\* One worker and one client: the result of an atomic.
CONSTANTS
  c1 = c1
  c2 = c2
  w1 = w1
  w2 = w2
  Client = {c1}
  Worker = {w1}
  num_slots = 2
  SlotOf <- SharedSlot
  Addr = {0}
  num_cachelines = 1
  LINE = 4
  WORD = 2
  Op = {"WRITE", "ATOMIC_FAA", "ATOMIC_CAS"}
  Modulus = 3
  MaxRequests = 2
  MaxCalls = 2
SPECIFICATION FairSpec
PROPERTY AtomicLeavesOldValue
