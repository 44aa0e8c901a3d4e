\* Two threads, three requests, a window of two seconds beside a writer.
SPECIFICATION Spec
CONSTANTS
  t1 = t1
  t2 = t2
  Matches = {1, 2}
  Reports <- MCReports
  Scores = {0}
  MaxTime = 5
  MaxRows = 3
  MaxBatch = 1
  Tables <- MCTables
  Teams <- MCTeams
  Day = {3}
  HistoryLimit = 1
  MeetingsLimit = 1
  MaxTargets = 2
  Requests = {t1, t2}
  Routes <- MCRoutes
  Pool <- MCPool
  Places <- MCPlaces
  Limit <- MCLimit
  WindowSeconds = 2
  TicksPerSecond = 2
  MaxCalls = 3
  MaxBusyCalls = 1
SYMMETRY MCSymmetry
INVARIANTS
  TypeOK
  PlacesAreConserved
  AdmittedWithinLimit
  RetryAfterIsHonest
  ReadsPassTheirChecks
  SettledReadsAgree
CHECK_DEADLOCK FALSE
