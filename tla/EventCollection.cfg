\* Three executions of one event, room for a second document, and the index
\* script at any time.
SPECIFICATION Spec
CONSTANTS
  k1 = k1
  c1 = c1
  c2 = c2
  c3 = c3
  d1 = d1
  d2 = d2
  Key = {k1}
  Client = {c1, c2, c3}
  Id = {d1, d2}
  MaxAttempts = 2
  Retention = 1
  MaxTime = 3
  None = None
SYMMETRY Symmetric
INVARIANTS
  IndexMeansOneLock
PROPERTIES
  IndexedFollowsLedger
