\* Prune of the old block 1 after InitForStatePruning: is all of its garbage batched?
CONSTANTS
  StateNode <- MCStateNode
  StorageNode <- MCStorageNode
  IndexNode <- MCIndexNode
  Kids <- MCKids
  StorageOf <- MCStorageOf
  NoStorage = NoStorage
  LastBlock = 3
  Snap = 2
  StateRoot <- MCStateRoot
  IndexRoot <- MCIndexRoot
SPECIFICATION Spec
INVARIANT PruneReclaims
