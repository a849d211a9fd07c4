SPECIFICATION Spec
CONSTANTS
  Rules = {1}
  Runs = {1}
  Workers = {w1}
  Handlers = {h1, h2}
  Messages = {m1, m2, m3}
  JobIds = {j1, j2}
  Crons = {}
  Trigger <- AllOnMessage
  Plans <- PauseTwice
  MaxSteps = 3
  Inline = FALSE
  MaxDeliveries = 1
  Bounds <- None
  NoJob = NoJob
  NoMessage = NoMessage

INVARIANT PauseEndsOnce
CHECK_DEADLOCK FALSE
