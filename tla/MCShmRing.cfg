\* Two workers; clients that pipeline two requests, and may give them up.
CONSTANTS
  w1 = w1
  w2 = w2
  Worker = {w1, w2}
  RING_SIZE = 2
  MaxRequests = 3
  MaxOutstanding = 2
SPECIFICATION FairSpec
INVARIANTS TypeOK  ReceivedWasTaken PendingIsOccupancy
PROPERTIES RequestAnswered ImplementsRequests
