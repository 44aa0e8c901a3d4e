\* Two dates, two leagues and a cup, or two commands; calls of up to two attempts, quotas
\* that run out.
SPECIFICATION ServiceSpec
CONSTANTS
  f1 = f1
  f2 = f2
  f3 = f3
  f4 = f4
  NoQuota = NoQuota
  Days = 2
  Fixtures = {f1, f2, f3, f4}
  CompOf <- MCCompOf
  Comps = {1, 2, 3}
  Coverage <- MCCoverage
  Priority <- MCPriority
  Fates <- MCFates
  Quotas <- MCQuotas
  MaxRequests = 9
  MaxAttempts = 2
  MaxCompetitions = 2
  MaxH2H = 1
  MaxRows = 2
  MaxHistory = 2
  Priorities = 2
  PastMatches = 9
  Over <- MCOver
  Earlier <- MCEarlier
  MaxCommands = 2
INVARIANTS
  TypeOK
  EveryFixtureAccounted
  RetainedAreStored
  TruthfulRecord
  SuccessMeansComplete
  
  
  
PROPERTY
  PlanFitsBudget
