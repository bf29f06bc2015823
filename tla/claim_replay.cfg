\* No fault; docs/runbook.md:42 expects a replay to be processed.
SPECIFICATION FairReplaySpec
CONSTANTS
  k1 = k1  k2 = k2  x1 = x1
  j1 = j1  j2 = j2  j3 = j3  p1 = p1  p2 = p2 
  w1 = w1  s1 = s1  s2 = s2  o1 = o1  o2 = o2
  Key = {k1}
  Shipment = {x1}
  Job = {j1, p1, p2}
  ReplayJob = {p1, p2}
  Worker = {w1}
  Slot = {s1, s2}
  None = None
  JobKey <- OneKeyJobKey
  JobShipment <- OneKeyShipment
  Malformed = {j1, p1, p2}
  Host <- OneHost
  MongoError <- OneError
  MaxAttempts = 2
  MaxResends = 0
  Operator = {o1}
  Limit = 1
  Faults = {}
PROPERTIES
  ReplayIsProcessed
