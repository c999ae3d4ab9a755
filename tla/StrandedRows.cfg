\* One process dies between two statements of the migration script.
SPECIFICATION Spec
CONSTANTS
  Processes = {p1}
  Tenants = {default}
  Default = default
  Ids = {i1}
  MaxDeaths = 1
INVARIANTS
  ServedIsComplete
CHECK_DEADLOCK FALSE
