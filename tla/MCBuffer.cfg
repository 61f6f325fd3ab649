SPECIFICATION Spec
CONSTANTS
  Limits <- MCLimits
  Keys <- MCKeys
  k1 = k1
  MaxLog = 6
  MaxBody = 1
INVARIANTS
  TypeOK
  EntriesAreDigest
  SnapshotInOrder
PROPERTIES
  ImplementsLogDigest
