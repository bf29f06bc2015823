\* Every fault: two requests of every kind, sent too early, in time or too late.
SPECIFICATION Spec
CONSTANTS
  r1 = r1  r2 = r2
  Request = {r1, r2}
  Contents <- AllContents
  Tolerance = 1
  MaxTime = 4
  MaxOutages = 2
  Faults = {"audit", "reject", "lost", "crash"}
SYMMETRY Alike
INVARIANTS
  TypeOK AcknowledgedIsQueued OneJobPerConnection QueuedWasVerified TrailFitsAnswer
