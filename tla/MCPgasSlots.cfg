\* Two workers, and two clients whose pids fall on one slot.  The word at 0
\* is in the memory; an atomic's operand at 3 reaches beyond it.
CONSTANTS
  c1 = c1
  c2 = c2
  w1 = w1
  w2 = w2
  Client = {c1, c2}
  Worker = {w1, w2}
  num_slots = 1
  SlotOf <- SharedSlot
  Addr = {0, 3}
  num_cachelines = 1
  LINE = 4
  WORD = 2
  Op = {"READ", "ATOMIC_FAA", "LSA"}
  Modulus = 2
  MaxRequests = 2
  MaxCalls = 2
SPECIFICATION FairSpec
INVARIANTS TypeOK AnsweredOnce
PROPERTIES ImplementsService RequestReturns
