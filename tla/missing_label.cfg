SPECIFICATION Spec
CONSTANTS
  Label = {l1}
  Key = {k1}
  Value = {0, 1}
  Zero = 0
  NoRoot = NoRoot
  Injectable <- AnyStart
  Rules = {"no_delete", "one_value"}
  MaxCalls = 3
INVARIANTS Completes
CHECK_DEADLOCK FALSE
