SPECIFICATION Spec
CONSTANTS
  Rules = {1, 2}
  Runs = {1, 2}
  Workers = {w1, w2}
  Handlers = {h1}
  Messages = {m1, m2, m3}
  JobIds = {j1, j2, j3}
  Crons = {}
  Trigger <- MessageThenOffHours
  Plans <- PausesAndDelays
  MaxSteps = 3
  Inline = FALSE
  MaxDeliveries = 1
  Bounds <- None
  NoJob = NoJob
  NoMessage = NoMessage
SYMMETRY Symmetry
INVARIANTS TypeOK NoDoubleFire
  ReplyStepsFollowAResume ResumedByALaterMessage PauseEndsOnce
PROPERTIES SettledIsFinal KeepsThePromise
CHECK_DEADLOCK FALSE
