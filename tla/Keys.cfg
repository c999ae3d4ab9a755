\* Two instances, started twice with any settings; two receipts.
SPECIFICATION Spec
CONSTANTS
  Instances = {n1, n2}
  Seeds = {k1, k2}
  NotBase64 = NotBase64
  Short = Short
  Secrets = {w1}
  Example = Example
  BuiltIn = BuiltIn
  Absent = Absent
  Contents = {x1, x2}
  MaxReceipts = 2
  MaxStarts = 2
INVARIANTS
  Inv
  IssuedStaysValid
  TrustedIsIssued
CHECK_DEADLOCK FALSE
