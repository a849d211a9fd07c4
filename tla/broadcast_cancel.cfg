SPECIFICATION Spec
CONSTANTS
  Jobs = {j1}
  Requests = {r1}
  Schedulers = {s1}
  Agents = {a1}
  MaxParts = 2
  Bounds <- None
  NoJob = NoJob

INVARIANT CancelledIsNotSent
CHECK_DEADLOCK FALSE
