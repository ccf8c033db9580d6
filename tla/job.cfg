SPECIFICATION Spec
CONSTANTS
  Label = {l1, l2}
  Key = {k1, k2}
  Value = {0, 1, 2}
  Zero = 0
  NoRoot = NoRoot
  Injectable <- AnyStart
  Rules = {"known_label", "no_delete", "one_value"}
  MaxCalls = 3
SYMMETRY Symmetry
INVARIANTS TypeOK IInv SoundAgrees Completes DryReadsTrue RootsMeet
PROPERTIES FactsStay
CHECK_DEADLOCK FALSE
