\* Outages of Redis that end, outages of MongoDB, refused and lost calls,
\* shutdowns: two requests and a probe.
SPECIFICATION FairHealthSpec
CONSTANTS
  r1 = r1  r2 = r2  p1 = p1
  Request = {r1, r2}
  Probe = {p1}
  Contents <- TwoContents
  Tolerance = 1
  MaxTime = 0
  MaxOutages = 1
  Faults = {"audit", "reject", "lost"}
INVARIANTS
  TrailWholeUnlessDown
PROPERTIES
  EveryRequestAnswered EveryProbeAnswered ShutdownEnds
