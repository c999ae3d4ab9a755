\* Two workspaces use the same keys and contract ids at every endpoint; every
\* request ends, with instances that die and providers that time out.
SPECIFICATION Spec
CONSTANTS
  Requests = {r1, r2}
  Endpoints = {"compile", "register", "verify", "verifyRun"}
  Tenants = {t1, t2}
  Keys = {k1, k2}
  LongKeys = {k2}
  CallerIds = {c1}
  Specs = {s1}
  CallerTime = CallerTime
  Absent = Absent
  Conditions = {p1}
  Required = {p1}
  RequireChange = {p1}
  Flaky = {p1}
  MaxEpoch = 0
INVARIANTS
  GInv
  AnswerIsOwn
  AuditIsTruthful
  DrawnIdNeverConflicts
PROPERTIES
  EveryRequestEnds
CHECK_DEADLOCK FALSE
