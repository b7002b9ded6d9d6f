\* Two threads of PGAS mode, whose inserts no lock serialises.
CONSTANTS
  w1 = w1
  w2 = w2
  Worker = {w1, w2}
  None = None
  Addr = {1}
  MAX_QUEUE_SIZE = 4
  INITIAL_CREDITS = 2
  CreditModulus = 5
  MaxTime = 1
  MaxLatency = 1
  MaxEntries = 1
  Locked = FALSE
SPECIFICATION Spec
INVARIANTS TypeOK QueueWithinLimit 
SYMMETRY WorkerSymmetry
