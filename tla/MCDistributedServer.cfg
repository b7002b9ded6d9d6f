\* Three nodes, two of them connected to the third; one may crash.
CONSTANTS
  NumNodes = 3
  capacity = 2
  num_cachelines = 1
  Peers <- StarPeers
  Guest = {"g", "h"}
  Guests <- GuestsOfOne
  Op = {"write", "atomic"}
  Addr = {0, 3}
  MaxCalls = 2
  MaxCrashes = 1
SPECIFICATION Spec
INVARIANTS TypeOK HomeIsOwner SearchesAgree SegmentHoldsOwnLines SoleClientIsPaired
PROPERTY CallReturnsToSoleClient
\* The cluster stops when the guests make no more calls.
CHECK_DEADLOCK FALSE
