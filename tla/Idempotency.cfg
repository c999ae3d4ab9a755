\* Three verifications race for one key, one contract id and two bodies.
SPECIFICATION SafetySpec
CONSTANTS
  Requests = {r1, r2, r3}
  Endpoints = {"verify", "verifyRun"}
  Tenants = {t1}
  Keys = {k1}
  LongKeys = {}
  CallerIds = {c1}
  Specs = {s1}
  CallerTime = CallerTime
  Absent = Absent
  Conditions = {p1}
  Required = {p1}
  RequireChange = {}
  Flaky = {}
  MaxEpoch = 0
SYMMETRY RequestSymmetry
INVARIANTS
  ReceiptBindsContract
  IdempotencyReferential
  SameKeySameAnswer
  AnsweredIsAudited
PROPERTIES
  ContractImmutable
  RememberedIsReplayed
  ImplementsOracle
CHECK_DEADLOCK FALSE
