SPECIFICATION Spec
CONSTANTS
  Loop = Loop
  r1 = r1
  r2 = r2
  Reader = {r1, r2}
  MaxAttempts = 3
  MaxFailures = 3
  MaxFeed = 3
  MaxFaults = 6
INVARIANTS
  StaleTellsFailures
PROPERTIES
  NeverBackwards
  EventuallyFresh
