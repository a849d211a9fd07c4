SPECIFICATION PlatformSpec
CONSTANTS
  Background = {t1, t2, t3}
  Manual = {m1}
  MaxMonth = 2
  Limits = {0, 1, 2}
  Bounds <- OneOfEach
  home = home
  other = other
  Docs = {d1}
  Articles = {a1}
  KnWorkers = {r1, r2}
  KnBounds <- KnOnce
  Workers = {r1, r2}
  Admins = {r1, r2}
  LastDay = 5
  QaBounds <- QaScenarios
  Convs = {home, other}
  PageSize = 2
  LoadPlaces = {1, 2}
  AskPlaces = {1, 2}
  Earlier <- ThreeAndOne
  ClBounds <- ClScenarios
  WbSize = 3
  WbPage = 2
  WbBounds <- WbScenarios
SYMMETRY Symmetry
INVARIANTS TypesOK CreditsAddUp ReservedInLimit IngestedIsQuoted GuardrailStands InboxIsRight BenchIsRight
PROPERTY DeletedStaysUnquoted
\* the calls and the scenarios come to an end
CHECK_DEADLOCK FALSE
