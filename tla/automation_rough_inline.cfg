SPECIFICATION Spec
CONSTANTS
  Rules = {1, 2}
  Runs = {1, 2}
  Workers = {}
  Handlers = {h1, h2}
  Messages = {m1, m2}
  JobIds = {j1}
  Crons = {}
  Trigger <- CreationThenStatus
  Plans <- LongAndShort
  MaxSteps = 3
  Inline = TRUE
  MaxDeliveries = 1
  Bounds <- RoughInline
  NoJob = NoJob
  NoMessage = NoMessage

INVARIANT NoStepSkipped
CHECK_DEADLOCK FALSE
