\* Two runs that keep to their bounds, under fairness.
SPECIFICATION RoutineSpec
CONSTANTS
  Runs = {r1, r2}
  NoRun = NoRun
  Reasons = {"rejected_status", "rejected_other"}
  MaxFixtures = 2
  StepTimeout <- MCStepTimeout
  RedisTimeout <- MCRedisTimeout
  LockTTL <- MCLockTTL
  Overruns = {}
INVARIANTS
  TypeOK
  LeaseOutlivesRun
  OverlapOnlyByAbandonedThreads
  StoredIsReadBack
PROPERTIES
  SuccessIsStored
  
  ImplementsExclusiveRuns
  RunsTerminate
  LockIsFreed
