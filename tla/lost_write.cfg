SPECIFICATION ClientSpec
CONSTANTS
  Label = {l1}
  Client = {c1}
  Key <- Keys3
  Value = {0, 1, 2}
  MaxFaults = 1
  Rules = {"newest_root", "new_pair", "new_root", "not_empty"}
  MaxWrites = 3
  Inner = inner
  Misplaced = misplaced
INVARIANTS AckedRootsOpen
