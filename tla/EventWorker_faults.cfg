\* Every fault: three deliveries of one event, one of them malformed, on one
\* worker process with two slots.
SPECIFICATION Spec
CONSTANTS
  k1 = k1  x1 = x1
  j1 = j1  j2 = j2  j3 = j3
  w1 = w1  s1 = s1  s2 = s2
  Key = {k1}
  Shipment = {x1}
  Job = {j1, j2, j3}
  Worker = {w1}
  Slot = {s1, s2}
  None = None
  JobKey <- OneKeyJobKey
  JobShipment <- OneShipment
  Malformed = {j3}
  Host <- OneHost
  MongoError <- OneError
  MaxAttempts = 2
  MaxResends = 1
  Faults = {"reject", "lost", "crash", "drain", "stall"}
SYMMETRY Alike
INVARIANTS
  TypeOK RunsMatchRecords LockExclusive AttemptsRecorded AttemptsBounded DeadLettersComplete
  BuriedOnce CompletedWasAttempted ShipmentsFollowLedger
PROPERTIES
  DeadLetteredIsFinal ImplementsLedger
