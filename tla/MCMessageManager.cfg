\* Two workers of the calling node race for the responses to its two calls.
CONSTANTS
  c1 = c1
  a1 = a1
  b1 = b1
  b2 = b2
  None = None
  Node <- MCNode
  Client = {c1}
  Worker = {a1, b1, b2}
  home <- MCHome
  Capacity = 2
  MaxId <- MCTwoCalls
SPECIFICATION FairSpec
\* The messages end at MaxId, and the code deadlocks.
CHECK_DEADLOCK FALSE
INVARIANTS TypeOK ResponseBufferIsLive AnsweredMeansExecuted
PROPERTY CallReturnsOrDeadlocks
