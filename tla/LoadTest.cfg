\* Three events, the second of them a duplicate of the first, two consumers, a
\* record of an earlier run, a target that may be slower than the signatures live.
\* The percentile is one that leaves one of three latencies out, as the 95th leaves
\* some out of twenty.
SPECIFICATION Spec
CONSTANTS
  old = old
  TotalRequests = 3
  Concurrency = 2
  DuplicatePercent = 34
  Earlier = {old}
  Tolerance = 0
  AcceptPercent = 99
  LatencyPercentile = 60
  LatencyLimit = 0
  Answers = {202, 401, 0}
  MaxTime = 1
  MaxAttempts = 2
  None = None
INVARIANTS
  PoolSendsEachOnce DuplicatesMakeNoRecords Sc001BracketsSpec

  
