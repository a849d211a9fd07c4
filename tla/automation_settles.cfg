SPECIFICATION FairSpec
CONSTANTS
  Rules = {1}
  Runs = {1, 2}
  Workers = {w1, w2}
  Handlers = {h1}
  Messages = {m1, m2}
  JobIds = {j1, j2, j3}
  Crons = {c1}
  Trigger <- AllOnMessage
  Plans <- PauseTwice
  MaxSteps = 3
  Inline = FALSE
  MaxDeliveries = 1
  Bounds <- None
  NoJob = NoJob
  NoMessage = NoMessage

PROPERTY EveryRunSettles
CHECK_DEADLOCK FALSE
