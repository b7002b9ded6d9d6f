CONSTANTS
  Worker = {w1, w2}
  Thread = {t1, t2}
  NoOwner = NoOwner
  W = 2
  NumCachelines = 1
  BaseAddr = 0
  Addr = {0, 1}
  MaxTime = 1
  Modulus = 2
  LsaSize = 0
  MaxLsa = 1
  MaxQueue = 2
SYMMETRY ServerSymmetry
SPECIFICATION Spec
INVARIANTS TypeOK MesiConsistent ActiveBalanced OrderedMemoryIsCurrent
PROPERTY RevocationsAreRegistered
