-------------------------- MODULE MCDailyOperations --------------------------
(* Values for the constants of OperationsStatus: a scale on which the five    *)
(* timeouts (300, 300, 120, 120 and 60 seconds), the Redis timeout (1 second)*)
(* and the expiry (1800 seconds) keep their order, and on which a run takes  *)
(* all the time the expiry leaves it.                                        *)
EXTENDS OperationsStatus

MCStepTimeout == <<0, 0, 0, 0, 1>>
MCRedisTimeout == 0
MCLockTTL == 2
=============================================================================
