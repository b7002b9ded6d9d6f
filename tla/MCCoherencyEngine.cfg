SPECIFICATION Spec
SYMMETRY EngineSymmetry
CONSTANTS
  Line = {l1}
  Node = {n0, n1, n2}
  LocalNode = n0
  NoNode = NoNode
  Head = {h1, h2, h3}
  MaxVersion = 3
INVARIANTS TypeOK DirectoryConsistent HitIsFresh DirtyUntilWriteback FairShares
PROPERTIES RevocationsAreCharged AccessIsKept ImplementsMemory
