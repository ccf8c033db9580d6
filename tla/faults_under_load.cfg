SPECIFICATION FairLoadSpec
CONSTANTS
  Label = {l1}
  Client = {c1, c2}
  Key <- Keys2
  Value = {0, 1}
  MaxFaults = 1
  MaxUpdates = 2
  Batches <- TwoLeaves
INVARIANTS ChildrenStored
PROPERTIES RootsDoNotMove CallsEnd
CHECK_DEADLOCK FALSE
