SPECIFICATION Spec
CONSTANTS
  Rules = {1}
  Runs = {1}
  Workers = {w1}
  Handlers = {h1}
  Messages = {m1, m2}
  JobIds = {j1, j2}
  Crons = {}
  Trigger <- AllOnMessage
  Plans <- DelayThenReply
  MaxSteps = 3
  Inline = FALSE
  MaxDeliveries = 1
  Bounds <- None
  NoJob = NoJob
  NoMessage = NoMessage

INVARIANT ReplyStepsFollowAResume
CHECK_DEADLOCK FALSE
