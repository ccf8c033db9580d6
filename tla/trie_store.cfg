SPECIFICATION BoundedSpec
CONSTANTS
  Key = {k1, k2}
  Value = {z, v1, v2}
  Zero = z
  Inner = inner
  MaxWrites = 3
  MaxRows = 6
INVARIANTS IInv SnapshotReads
PROPERTIES SnapshotsImmutable
CHECK_DEADLOCK FALSE
