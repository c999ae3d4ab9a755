\* Two processes start at one SQLite file or PostgreSQL database; two deaths.
SPECIFICATION StoreSpec
CONSTANTS
  Processes = {p1, p2}
  Tenants = {default, acme}
  Default = default
  Ids = {i1, i2}
  MaxDeaths = 2
  Statements = 2
INVARIANTS
  StoreInv
  NothingDestroyed
  MigrationKeepsAll
  ServedIsScoped
PROPERTIES
  SomebodyServes
  EverybodyServes
CHECK_DEADLOCK FALSE
