SPECIFICATION FairSpec
CONSTANTS
  Updates = {u1, u2}
  Shared = {s1}
  MaxFaults = 2
  MaxLate = 1
INVARIANTS TypeOK PersistedIsStored ClosedIsStored
PROPERTIES SnapshotsGrow MergedIsStored
CHECK_DEADLOCK FALSE
