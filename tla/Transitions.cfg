\* A run of two conditions that require a change is registered, its baselines
\* saved one by one, and verified, while the providers change.
SPECIFICATION SafetySpec
CONSTANTS
  Requests = {r1, r2}
  Endpoints = {"register", "verifyRun"}
  Tenants = {t1}
  Keys = {}
  LongKeys = {}
  CallerIds = {}
  Specs = {s1}
  CallerTime = CallerTime
  Absent = Absent
  Conditions = {p1, p2}
  Required = {p1}
  RequireChange = {p1, p2}
  Flaky = {p1}
  MaxEpoch = 3
SYMMETRY RequestSymmetry
INVARIANTS
  TransitionProven
  VerifiedIsGrounded
  RunBaselinesComplete
CHECK_DEADLOCK FALSE
