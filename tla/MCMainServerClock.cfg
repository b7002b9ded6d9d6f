CONSTANTS
  Worker = {w1}
  Thread = {t1, t2}
  NoOwner = NoOwner
  W = 1
  NumCachelines = 1
  BaseAddr = 0
  Addr = {0}
  MaxTime = 1
  Modulus = 2
  LsaSize = 0
  MaxLsa = 0
  MaxQueue = 1
SYMMETRY ServerSymmetry
SPECIFICATION Spec
INVARIANT MemoryIsCurrent
