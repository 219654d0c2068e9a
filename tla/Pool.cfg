SPECIFICATION Spec
CONSTANTS
  Kinds = {0, 1}
  Geometry <- MCGeometry
  Identities = {m1, m2}
  Sizes = {1, 4}
  Scratches = {0, 5}
  MaxTickets = 3
  MaxBatch = 3
INVARIANTS TypeOK Tiled Merged RefsAreHolds AllOrNothing UsageTruthful
PROPERTY LedgerSpec
CHECK_DEADLOCK FALSE
