SPECIFICATION Spec
CONSTANTS
  Label = {l1}
  Key = {k1}
  Value = {0, 1, 2}
  Zero = 0
  NoRoot = NoRoot
  Injectable <- AnyStart
  Rules = {"known_label", "no_delete"}
  MaxCalls = 3
INVARIANTS WriteReturnsUpdatedRoot
CHECK_DEADLOCK FALSE
