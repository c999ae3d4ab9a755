\* Two keys, two requests per window of two seconds, half-second ticks.
SPECIFICATION Spec
CONSTANTS
  Keys = {acme, globex}
  Limit = 2
  Window = 2
  TicksPerSecond = 2
  MaxTick = 9
INVARIANTS
  WindowBound
  Inv
PROPERTIES
  RefusedOnlyWhenFull
  RetryAfterIsClose
CHECK_DEADLOCK FALSE
