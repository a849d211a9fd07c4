SPECIFICATION FairSpec
CONSTANTS
  Jobs = {j1}
  Requests = {r1}
  Schedulers = {s1, s2}
  Agents = {a1}
  MaxParts = 3
  Bounds <- FaultAndCrash
  NoJob = NoJob
INVARIANTS TypeOK ReceivedOnce SentIsComplete
PROPERTIES DeletedInTimeStaysUnsent DueJobsAreClaimed
CHECK_DEADLOCK FALSE
