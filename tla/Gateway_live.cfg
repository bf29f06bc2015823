\* Answers of the queue that are lost and crashes of the API; shutdowns and
\* restarts of two workers: two requests with one event, one of them malformed.
SPECIFICATION FairGatewaySpec
CONSTANTS
  k1 = k1  x1 = x1
  w1 = w1  w2 = w2  s1 = s1  s2 = s2  r1 = r1  r2 = r2
  Key = {k1}
  Shipment = {x1}
  Job <- TwoJobs
  Worker = {w1, w2}
  Slot = {s1, s2}
  None = None
  JobKey <- OneEvent
  JobShipment <- OneShipment
  Malformed <- FirstMalformed
  Host <- TwoHosts
  MongoError <- OneError
  MaxAttempts = 2
  MaxResends = 0
  Faults = {}
  Request = {r1, r2}
  Contents <- TwoContents
  Tolerance = 1
  MaxTime = 0
  MaxOutages = 0
  ApiFaults = {"lost", "crash"}
INVARIANTS
  LedgerWasVerified
PROPERTIES
  KeepsPromise
