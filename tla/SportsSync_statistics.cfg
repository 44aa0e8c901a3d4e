\* A window of more matches than the commands look at.
SPECIFICATION ServiceSpec
CONSTANTS
  f1 = f1
  f2 = f2
  f3 = f3
  f4 = f4
  NoQuota = NoQuota
  Days = 2
  Fixtures = {f1, f2, f3, f4}
  CompOf <- MCCompOf
  Comps = {1, 2, 3}
  Coverage <- MCCoverage
  Priority <- MCPriority
  Fates <- MCFates
  Quotas <- MCQuotas
  MaxRequests = 9
  MaxAttempts = 2
  MaxCompetitions = 2
  MaxH2H = 1
  MaxRows = 2
  MaxHistory = 2
  Priorities = 2
  PastMatches = 9
  Over <- MCOver
  Earlier <- MCMostly
  MaxCommands = 2
INVARIANT NoneIsLeft
