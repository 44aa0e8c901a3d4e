\* The numbers of the code, lists of one item, days of up to three matches.
SPECIFICATION Spec
CONSTANTS
  RecentWindow = 5
  MinimumResults = 3
  H2HLimit = 5
  H2HMinimum = 3
  TtlMinutes = 1
  TicksPerMinute = 2
  MaxSuggestions = 1
  MaxOpportunities = 1
  Datasets <- MCDatasets
  DayDatasets <- MCDayDatasets
  MaxTargets = 3
INVARIANTS
  
  RefusalsAreExplained
  SelectionsAreFounded
CHECK_DEADLOCK FALSE
