\* A match that is moved to another day.
SPECIFICATION Spec
CONSTANTS
  t1 = t1
  t2 = t2
  Matches = {1, 2}
  Reports <- MovedReports
  Scores = {0}
  MaxTime = 5
  MaxRows = 3
  MaxBatch = 1
  Tables <- MCTables
  Teams <- MCTeams
  Day = {3}
  HistoryLimit = 1
  MeetingsLimit = 1
  MaxTargets = 2
  Requests = {t1}
  Routes <- MCRoutes
  Pool <- MCPool
  Places <- MCPlaces
  Limit <- MCLimit
  WindowSeconds = 2
  TicksPerSecond = 2
  MaxCalls = 3
  MaxBusyCalls = 1
INVARIANT ListedAreLatest
CHECK_DEADLOCK FALSE
