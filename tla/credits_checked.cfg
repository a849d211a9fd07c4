SPECIFICATION Spec
CONSTANTS
  Background = {}
  Manual = {r1, r2}
  MaxMonth = 2
  Limits = {1}
  Bounds <- Undisturbed
INVARIANTS CreditsWithinLimit
CHECK_DEADLOCK FALSE
