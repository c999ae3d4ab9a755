\* Two batches of up to two items of two contract ids, and an overview.
SPECIFICATION Spec
CONSTANTS
  Batches = {b1, b2}
  Ids = {i1, i2}
  Texts = {x1, x2}
  i1 = i1
  i2 = i2
  x1 = x1
  x2 = x2
  Contracts <- MCContracts
  MaxBatch = 2
  Absent = Absent
SYMMETRY BatchSymmetry
INVARIANTS
  Inv
  RefusedAsAWhole
  AuditedItemByItem
  RateIsTrue
CHECK_DEADLOCK FALSE
