\* Two nodes, one call, no crash.
CONSTANTS
  NumNodes = 2
  capacity = 2
  num_cachelines = 1
  Peers <- StarPeers
  Guest = {"g", "h"}
  Guests <- GuestsOfOne
  Op = {"write", "atomic"}
  Addr = {0, 3}
  MaxCalls = 1
  MaxCrashes = 0
SPECIFICATION Spec
INVARIANT RemoteWriteIsStored
\* The cluster stops when the guests make no more calls.
CHECK_DEADLOCK FALSE
