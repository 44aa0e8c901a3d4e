\* Finding: an abandoned worker thread is still at work under another run.
SPECIFICATION RoutineSpec
CONSTANTS
  Runs = {r1, r2}
  NoRun = NoRun
  Reasons = {"rejected_status", "rejected_other"}
  MaxFixtures = 2
  StepTimeout <- MCStepTimeout
  RedisTimeout <- MCRedisTimeout
  LockTTL <- MCLockTTL
  Overruns = {}
INVARIANTS
  NoOverlap
