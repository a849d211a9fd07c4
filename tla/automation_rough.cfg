SPECIFICATION Spec
CONSTANTS
  Rules = {1}
  Runs = {1}
  Workers = {w1, w2}
  Handlers = {h1}
  Messages = {m1, m2}
  JobIds = {j1, j2}
  Crons = {c1}
  Trigger <- AllOnMessage
  Plans <- LongAndShort
  MaxSteps = 3
  Inline = FALSE
  MaxDeliveries = 1
  Bounds <- Rough
  NoJob = NoJob
  NoMessage = NoMessage
SYMMETRY Symmetry
INVARIANTS StepsComeWhole RepeatsNeedACrash
CHECK_DEADLOCK FALSE
