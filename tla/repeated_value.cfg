SPECIFICATION ClientSpec
CONSTANTS
  Label = {l1}
  Client = {c1}
  Key <- Keys3
  Value = {0, 1, 2}
  MaxFaults = 0
  Rules = {"newest_root", "new_root", "not_empty", "lost_first"}
  MaxWrites = 4
  Inner = inner
  Misplaced = misplaced
INVARIANTS ReadsMatchRoots
