\* A call and a heartbeat with the same number.
CONSTANTS
  c1 = c1
  a1 = a1
  b1 = b1
  b2 = b2
  None = None
  Node <- MCNode
  Client = {c1}
  Worker = {a1, b1}
  home <- MCHome
  Capacity = 2
  MaxId <- MCOneEach
SPECIFICATION Spec
\* The messages end at MaxId, and the code deadlocks.
CHECK_DEADLOCK FALSE
INVARIANT OnlyResponsesComplete
