SPECIFICATION ConversationsSpec
CONSTANTS
  m1 = m1
  m2 = m2
  first = first
  again = again
  Deliveries = {first, again}
  Payload <- Requests
  Messages = {m1, m2}
  Agents = {a1}
  Attempts = 3
  InBounds <- Twice
  ann = ann
  bob = bob
  Users = {ann, bob}
  RoleOf <- TheRoles
  Bot = Bot
  Tags = {x1, x2}
  Notes = {n1}
  Replies = {r1}
  Names = {vip, escalated}
  DkBound = 4
  Instances = {y1, y2}
  Flows = {x1, x2}
  DfLimit = 2
  DfBounds <- DfScenarios
  Images = {y1, y2}
  Tasks = {x1, x2}
  Codes = {c1}
  SlLimit = 1
  SlDeliveries = 3
  SlFaults = 1
  Spaces = {w1, w2}
  AxChanges = 2
  Rows = {x1, x2}
  Places = {home, other}
  FirstPlace = home
  ScBounds <- ScScenarios
  Appliers = {y1, y2}
  Labels = {"vip", "sale"}
  Words = {"price", "refund"}
  SnStaff = {ann, bob}
  NoLabel = NoLabel
  NoOne = NoOne
  SnSetups <- SnScenarios
  Editors = {y1, y2}
  RuTerms = {"price"}
  RuMarks = {"vip"}
  RuPlaces = {home, other}
  RuSteps = {"SEND_TEXT_REPLY", "ADD_TAG", "WAIT", "ESCALATE"}
  RuHours = {8, 9, 18, 23}
  RuLongest = 2
  Anywhere = Anywhere
  RuBounds <- RuScenarios
SYMMETRY Symmetry
INVARIANTS TypesOK DeliveriesAreHandled ThreadIsTrue LinksAreTrue DraftsAreTimely TransfersCountOnce PagesAreRight ScenariosAndRulesHold
PROPERTY GoneStaysGone
CHECK_DEADLOCK FALSE
