SPECIFICATION PeopleSpec
CONSTANTS
  Tokens = {t1, t2, t3}
  Requests = {r1, r2}
  NoToken = NoToken
  MaxTroubles = 2
  AcRequests = {t1, t2, t3}
  MaxFailed = 2
  AcBounds <- AcScenarios
  founder = founder
  home = home
  People = {founder, t1, t2, t3}
  Workspaces = {home, other}
  Invitations = {r1, r2}
  Channels = {c1}
  Founder = founder
  Home = home
  Ops = {r1, r2}
  MbBounds <- MbScenarios
  Tabs = {r1, r2}
  Reqs = {t1, t2, t3}
  BrTokens = 4
  BrBounds <- BrScenarios
  CoTabs = {r1, r2}
  MaxConns = 2
  CoBounds <- CoScenarios
SYMMETRY Symmetry
INVARIANTS TypesOK OneLivePerLogin ExchangedOnce LoggedOutStaysOut CredentialsHold TenancyHolds SessionSurvives
CHECK_DEADLOCK FALSE
