SPECIFICATION LoadSpec
CONSTANTS
  Label = {l1}
  Client = {c1, c2}
  Key <- Keys2
  Value = {0, 1}
  MaxFaults = 0
  MaxUpdates = 3
  Batches <- NoBatches
SYMMETRY Symmetry
INVARIANTS TypeOK ChildrenStored VerifiedProofsAreTrue
PROPERTIES RootsDoNotMove
CHECK_DEADLOCK FALSE
