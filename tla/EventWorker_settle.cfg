\* Refused calls, expired locks and drain timeouts: two deliveries of one event,
\* whose answers are not lost.
SPECIFICATION FairSpec
CONSTANTS
  k1 = k1  x1 = x1
  j1 = j1  j2 = j2  j3 = j3
  w1 = w1  s1 = s1  s2 = s2
  Key = {k1}
  Shipment = {x1}
  Job = {j1, j2}
  Worker = {w1}
  Slot = {s1, s2}
  None = None
  JobKey <- TwiceJobKey
  JobShipment <- TwiceShipment
  Malformed = {}
  Host <- OneHost
  MongoError <- OneError
  MaxAttempts = 2
  MaxResends = 0
  Faults = {"reject", "drain", "stall"}
PROPERTIES
  EveryJobSettles ProcessedIsFinal
