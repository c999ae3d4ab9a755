\* Three deliveries of up to two events of two workspaces, and one search.
SPECIFICATION Spec
CONSTANTS
  erp = erp
  crm = crm
  acme = acme
  globex = globex
  Deliveries = {d1, d2, d3}
  Runs = {v1}
  Tenants = {acme, globex}
  Sources = {erp, crm}
  Owner <- MCOwner
  Objects = {o1}
  Values = {x1}
  Drifts <- MCDrifts
  Offsets <- MCOffsets
  Skew = 0
  MaxTick = 3
  MaxSends = 2
  Absent = Absent
SYMMETRY DeliverySymmetry
INVARIANTS
  Inv
  EvidenceIsOwn
PROPERTIES
  AcknowledgedIsSeen
CHECK_DEADLOCK FALSE
