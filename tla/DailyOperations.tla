--------------------------- MODULE DailyOperations ---------------------------
(***************************************************************************)
(* The daily routine `urim-daily-operations run`                           *)
(* (apps/api/app/cli/daily_operations.py): several processes, each started *)
(* for one run, share one Redis lock and one Redis status key.  A run that *)
(* gets the lock executes five steps in order, each under asyncio.wait_for,*)
(* stores its summary and releases the lock by token.                      *)
(*                                                                         *)
(* Time is discrete.  `lock.ttl' is what is left of the key's expiry and   *)
(* `left[r]' what is left of the bound on what run r is doing: the timeout *)
(* of its step, or of its Redis call.  The last three steps run in a       *)
(* worker thread (asyncio.to_thread): wait_for abandons the thread when it *)
(* times out, it does not stop it.                                         *)
(***************************************************************************)
EXTENDS Naturals, Sequences

CONSTANTS
  Runs,          \* invocations of the command, one lock token each
  NoRun,         \* the lock is free, no status is stored
  StepTimeout,   \* STEP_TIMEOUTS, in ticks, by position of the step
  RedisTimeout,  \* REDIS_TIMEOUT_SECONDS, in ticks
  LockTTL,       \* LOCK_TTL_SECONDS, in ticks
  Overruns       \* phases that may outlast their bound (a runner that holds
                 \* the event loop, a process that is suspended)

StepCount == 5
StepIndex == 1..StepCount
Critical == {1, 3}      \* daily_discovery and snapshot
Threaded == {3, 4, 5}   \* snapshot, resolve and report
Redis == 0              \* the phase of a run that talks to Redis

ASSUME DailyOperationsAssumption ==
  /\ NoRun \notin Runs
  /\ StepTimeout \in [StepIndex -> Nat]
  /\ RedisTimeout \in Nat
  /\ LockTTL \in Nat \ {0}
  /\ Overruns \subseteq StepIndex \cup {Redis}

\* LOCK_TTL_SECONDS exceeds what a run can spend: 1800 > 300 + 300 + 120 + 120
\* + 60 + 1.
ASSUME LeaseAssumption ==
  LockTTL > StepTimeout[1] + StepTimeout[2] + StepTimeout[3] + StepTimeout[4]
            + StepTimeout[5] + RedisTimeout

VARIABLES
  lock,     \* the key LOCK_KEY: its token's run and its remaining life
  stored,   \* the key STATUS_KEY: the summary of the run that wrote it last
  pc,       \* where each run is
  left,     \* what is left of the bound on the present phase of a run
  results,  \* step_results: one entry for each step done
  threads,  \* steps whose worker thread is still executing
  outcome   \* what the process reports: its summary's status, or how it died

vars == <<lock, stored, pc, left, results, threads, outcome>>

StepResult == [status : {"completed", "failed"}]
Phase == {"start", "step", "saving", "releasing", "draining", "exited",
          "crashed"}
Outcome == {"none", "completed", "degraded", "failed", "refused",
            "unavailable", "interrupted"}

\* The step a run is at: the first one without a result.
Current(r) == Len(results[r]) + 1

\* The run's own control flow is between the acquisition and the release.
Foreground(r) == pc[r] \in {"step", "saving"}

\* What bounds the run at the moment, as a member of Overruns.
Bounded(r) == pc[r] \in {"step", "saving", "releasing"}
BoundOf(r) == IF pc[r] = "step" THEN Current(r) ELSE Redis

FreeLock == [owner |-> NoRun, ttl |-> 0]
\* Variant for mutation: an expiry that covers the first step only.
HeldForTheFirstStep(r) == [owner |-> r, ttl |-> StepTimeout[1] + 1]
\* The key as the acquisition writes it.
HeldBy(r) == [owner |-> r, ttl |-> LockTTL]

\* final_status, as the loop over the steps leaves it.
FailedSteps(res) == {i \in DOMAIN res : res[i].status = "failed"}
FinalStatus(res) ==
  CASE FailedSteps(res) \cap Critical # {} -> "failed"
    [] FailedSteps(res) = {}               -> "completed"
    [] OTHER                               -> "degraded"

\* What a stored summary says; its steps and metrics are those of module
\* OperationsStatus.
Summary(r) == [run |-> r, status |-> FinalStatus(results[r])]
NoStatus == [run |-> NoRun, status |-> "none"]

Init ==
  /\ lock = FreeLock
  /\ stored = NoStatus
  /\ pc = [r \in Runs |-> "start"]
  /\ left = [r \in Runs |-> 0]
  /\ results = [r \in Runs |-> <<>>]
  /\ threads = [r \in Runs |-> {}]
  /\ outcome = [r \in Runs |-> "none"]

-----------------------------------------------------------------------------
(* Redis operations of RedisDailyOperationsGuard, as seen by the server.     *)

\* Variant for mutation: SET without NX.
TakenAnyway == TRUE

\* Variant for mutation: SET of a call that gets no answer replaces the key.
SetAlways(r) == HeldBy(r)

\* SET key token NX EX: takes the key only when it is free.
KeyFree == lock.owner = NoRun
SetNX(r) == IF KeyFree THEN HeldBy(r) ELSE lock

\* Variant for mutation: DEL without the comparison.
DeleteWhateverToken(r) == FreeLock

\* _RELEASE_LOCK_SCRIPT: deletes the key only when it holds the caller's token.
CompareAndDelete(r) == IF lock.owner = r THEN FreeLock ELSE lock

-----------------------------------------------------------------------------
(* The lock is taken before the try: a run that does not get it touches      *)
(* nothing else.                                                             *)

Acquire(r) ==
  /\ pc[r] = "start"
  /\ KeyFree
  /\ lock' = SetNX(r)
  /\ pc' = [pc EXCEPT ![r] = "step"]
  /\ left' = [left EXCEPT ![r] = StepTimeout[1]]
  /\ UNCHANGED <<stored, results, threads, outcome>>

AcquireRefused(r) ==
  /\ pc[r] = "start"
  /\ ~KeyFree
  /\ pc' = [pc EXCEPT ![r] = "exited"]
  /\ outcome' = [outcome EXCEPT ![r] = "refused"]
  /\ UNCHANGED <<lock, stored, left, results, threads>>

\* The call raises; Redis may have executed it all the same, in which case
\* nobody is left who could release the lock.
AcquireUnavailable(r) ==
  /\ pc[r] = "start"
  /\ lock' \in {lock, SetNX(r)}
  /\ pc' = [pc EXCEPT ![r] = "exited"]
  /\ outcome' = [outcome EXCEPT ![r] = "unavailable"]
  /\ UNCHANGED <<stored, left, results, threads>>

-----------------------------------------------------------------------------
(* The loop over the steps.                                                  *)

\* Variant for mutation: no break after a critical failure.
ProceedToTheEnd(r, result, running) ==
  LET done == Append(results[r], result)
      next == Len(done) + 1
      stop == next > StepCount
  IN /\ results' = [results EXCEPT ![r] = done]
     /\ pc' = [pc EXCEPT ![r] = IF stop THEN "saving" ELSE "step"]
     /\ left' = [left EXCEPT ![r] = IF stop THEN RedisTimeout
                                            ELSE StepTimeout[next]]
     /\ threads' = [threads EXCEPT ![r] =
                      running \cup (IF stop THEN {} ELSE {next} \cap Threaded)]
     /\ UNCHANGED <<lock, stored, outcome>>

\* What follows a step's result: the next step, whose thread starts with it
\* when it has one, or the end of the loop.
Proceed(r, result, running) ==
  LET done == Append(results[r], result)
      next == Len(done) + 1
      stop == \/ next > StepCount
              \/ result.status = "failed" /\ Len(done) \in Critical
  IN /\ results' = [results EXCEPT ![r] = done]
     /\ pc' = [pc EXCEPT ![r] = IF stop THEN "saving" ELSE "step"]
     /\ left' = [left EXCEPT ![r] = IF stop THEN RedisTimeout
                                            ELSE StepTimeout[next]]
     /\ threads' = [threads EXCEPT ![r] =
                      running \cup (IF stop THEN {} ELSE {next} \cap Threaded)]
     /\ UNCHANGED <<lock, stored, outcome>>

\* Variant for mutation: the runner returns before its thread has ended.
StepCompletesUnjoined(r) ==
  /\ pc[r] = "step"
  /\ Proceed(r, [status |-> "completed"], threads[r])

\* The runner returns and its metrics are accepted.  A synchronisation that failed
\* reports so in what it returns: it does not raise, and its step is completed.
StepCompletes(r) ==
  /\ pc[r] = "step"
  /\ Proceed(r, [status |-> "completed"], threads[r] \ {Current(r)})

\* The runner raises, or _safe_step_metrics refuses what it returned.
StepRaises(r) ==
  /\ pc[r] = "step"
  /\ Proceed(r, [status |-> "failed"],
             threads[r] \ {Current(r)})

\* Variant for mutation: the runner is awaited without wait_for.
StepAwaitedForEver(r) == FALSE

\* asyncio.wait_for gives up.  A coroutine is cancelled; a thread goes on.
StepTimesOut(r) ==
  /\ pc[r] = "step"
  /\ left[r] = 0
  /\ Proceed(r, [status |-> "failed"], threads[r])

\* The run is cancelled (Ctrl-C) or an event cannot be written: neither
\* handler catches it and the finally releases the lock.  No status is stored,
\* unless the interruption falls into the call that stores it.
Interrupt(r) ==
  /\ Foreground(r)
  /\ stored' \in IF pc[r] = "saving" THEN {stored, Summary(r)} ELSE {stored}
  /\ pc' = [pc EXCEPT ![r] = "releasing"]
  /\ left' = [left EXCEPT ![r] = RedisTimeout]
  /\ outcome' = [outcome EXCEPT ![r] = "interrupted"]
  /\ UNCHANGED <<lock, results, threads>>

\* A worker thread that nobody waits for any more reaches its end.
ThreadEnds(r) ==
  /\ \E i \in threads[r] :
       /\ ~(pc[r] = "step" /\ i = Current(r))
       /\ threads' = [threads EXCEPT ![r] = @ \ {i}]
  /\ UNCHANGED <<lock, stored, pc, left, results, outcome>>

-----------------------------------------------------------------------------
(* The end of a run: save_status, then release in the finally.               *)

SaveStatus(r) ==
  /\ pc[r] = "saving"
  /\ stored' = Summary(r)
  /\ outcome' = [outcome EXCEPT ![r] = FinalStatus(results[r])]
  /\ pc' = [pc EXCEPT ![r] = "releasing"]
  /\ left' = [left EXCEPT ![r] = RedisTimeout]
  /\ UNCHANGED <<lock, results, threads>>

\* Variant for mutation: the failure of save_status is swallowed.
SaveFailureIgnored(r) ==
  /\ pc[r] = "saving"
  /\ stored' \in {stored, Summary(r)}
  /\ outcome' = [outcome EXCEPT ![r] = FinalStatus(results[r])]
  /\ pc' = [pc EXCEPT ![r] = "releasing"]
  /\ left' = [left EXCEPT ![r] = RedisTimeout]
  /\ UNCHANGED <<lock, results, threads>>

\* save_status raises: the run fails closed.  Redis may have stored the
\* summary before the answer was lost.
SaveUnavailable(r) ==
  /\ pc[r] = "saving"
  /\ stored' \in {stored, Summary(r)}
  /\ outcome' = [outcome EXCEPT ![r] = "failed"]
  /\ pc' = [pc EXCEPT ![r] = "releasing"]
  /\ left' = [left EXCEPT ![r] = RedisTimeout]
  /\ UNCHANGED <<lock, results, threads>>

\* The script is executed; a refusal is only reported.
Release(r) ==
  /\ pc[r] = "releasing"
  /\ lock' = CompareAndDelete(r)
  /\ pc' = [pc EXCEPT ![r] = "draining"]
  /\ left' = [left EXCEPT ![r] = 0]
  /\ UNCHANGED <<stored, results, threads, outcome>>

ReleaseUnavailable(r) ==
  /\ pc[r] = "releasing"
  /\ lock' \in {lock, CompareAndDelete(r)}
  /\ pc' = [pc EXCEPT ![r] = "draining"]
  /\ left' = [left EXCEPT ![r] = 0]
  /\ UNCHANGED <<stored, results, threads, outcome>>

\* asyncio.run joins the worker threads before the process ends.  What the
\* process remembered ends with it.
Exit(r) ==
  /\ pc[r] = "draining"
  /\ threads[r] = {}
  /\ pc' = [pc EXCEPT ![r] = "exited"]
  /\ results' = [results EXCEPT ![r] = <<>>]
  /\ UNCHANGED <<lock, stored, left, threads, outcome>>

\* The process is killed: its threads stop, its lock stays until it expires.
Crash(r) ==
  /\ pc[r] \in {"step", "saving", "releasing", "draining"}
  /\ pc' = [pc EXCEPT ![r] = "crashed"]
  /\ left' = [left EXCEPT ![r] = 0]
  /\ threads' = [threads EXCEPT ![r] = {}]
  /\ results' = [results EXCEPT ![r] = <<>>]
  /\ UNCHANGED <<lock, stored, outcome>>

-----------------------------------------------------------------------------
(* One tick of the clock: the key ages and expires, and time never passes a  *)
(* bound except in the phases that may overrun it.                           *)

\* Variant for mutation: the key is written without an expiry.
ExpireNever == lock

\* Variant for mutation: the expiry reached zero and the key stayed.
ExpireUnnoticed == [owner |-> lock.owner, ttl |-> lock.ttl - 1]

\* The key loses one tick of its life, or is gone.
Expire == IF lock.ttl <= 1 THEN FreeLock
                           ELSE [owner |-> lock.owner, ttl |-> lock.ttl - 1]

Tick ==
  /\ \/ lock.owner # NoRun
     \/ \E r \in Runs : Bounded(r) /\ left[r] > 0
  /\ \A r \in Runs : Bounded(r) /\ left[r] = 0 => BoundOf(r) \in Overruns
  /\ lock' = Expire
  /\ left' = [r \in Runs |-> IF Bounded(r) /\ left[r] > 0 THEN left[r] - 1
                                                          ELSE left[r]]
  /\ UNCHANGED <<stored, pc, results, threads, outcome>>

\* Every run is over and the lock is free: nothing more happens.
Finished ==
  /\ \A r \in Runs : pc[r] \in {"exited", "crashed"}
  /\ lock.owner = NoRun
  /\ UNCHANGED vars

\* What a run does by itself, as opposed to what befalls it.
Progress(r) ==
  \/ Acquire(r) \/ AcquireRefused(r) \/ AcquireUnavailable(r)
  \/ StepCompletes(r) \/ StepRaises(r) \/ StepTimesOut(r)
  \/ SaveStatus(r) \/ SaveUnavailable(r)
  \/ Release(r) \/ ReleaseUnavailable(r)

Next ==
  \/ \E r \in Runs : \/ Progress(r)
                     \/ Interrupt(r)
                     \/ ThreadEnds(r)
                     \/ Exit(r)
                     \/ Crash(r)
  \/ Tick
  \/ Finished

Spec == Init /\ [][Next]_vars

\* The event loop runs what is due and time passes.  Nothing is assumed of a
\* worker thread: its SQL statements have no timeout.
Fairness ==
  /\ \A r \in Runs : WF_vars(\/ StepTimesOut(r)
                             \/ SaveStatus(r) \/ SaveUnavailable(r)
                             \/ Release(r) \/ ReleaseUnavailable(r))
  /\ WF_vars(Tick)

FairSpec == Spec /\ Fairness
-----------------------------------------------------------------------------
(* Properties.                                                               *)

\* The Redis keys hold what the code writes to them, and what a process
\* remembers is of the kinds the code gives it.
TypeOK ==
  /\ lock \in [owner : Runs \cup {NoRun}, ttl : 0..LockTTL]
  /\ stored \in [run    : Runs \cup {NoRun},
                 status : {"none", "completed", "degraded", "failed"}]
  /\ pc \in [Runs -> Phase]
  /\ left \in [Runs -> Nat]
  /\ results \in [Runs -> Seq(StepResult)]
  /\ threads \in [Runs -> SUBSET Threaded]
  /\ outcome \in [Runs -> Outcome]

\* Some code of the run may still write to the database.
Working(r) == pc[r] = "step" \/ threads[r] # {}

\* Two runs are never between acquisition and release at the same time: the
\* five timeouts and the Redis timeout add up to less than the lock's expiry,
\* so the key outlives every run that keeps to its bounds.
ForegroundExclusion ==
  \A r, s \in Runs : Foreground(r) /\ Foreground(s) => r = s

\* The inductive form: while a run is between acquisition and release the key
\* is its own, and has more life left than all the bounds still ahead of it.
BoundAfter(i, j) == IF j > i THEN StepTimeout[j] ELSE 0
RestAfter == [i \in StepIndex |-> BoundAfter(i, 2) + BoundAfter(i, 3)
                                + BoundAfter(i, 4) + BoundAfter(i, 5)
                                + RedisTimeout]

LeaseOutlivesRun ==
  \A r \in Runs :
    /\ pc[r] = "step" =>
         /\ lock.owner = r
         /\ Current(r) \in StepIndex
         /\ lock.ttl > left[r] + RestAfter[Current(r)]
    /\ pc[r] = "saving" => lock.owner = r /\ lock.ttl > left[r]

\* The lock of a run that keeps to its bounds implements exclusive runs.
Exclusive ==
  INSTANCE ExclusiveRuns WITH
    phase <- [r \in Runs |-> IF pc[r] = "start" THEN "idle"
                             ELSE IF Foreground(r) THEN "active"
                             ELSE "over"]

ImplementsExclusiveRuns == Exclusive!Spec

\* If two runs are at work together, all but one of them are worker threads
\* that wait_for abandoned after a timeout, or whose run was interrupted.
OverlapOnlyByAbandonedThreads ==
  \A r, s \in Runs :
    r # s /\ Working(r) /\ Working(s) =>
      \E q \in {r, s} : pc[q] # "step" /\ threads[q] # {}

\* Whatever overruns, expires or fails: a key that has not expired disappears
\* only in its owner's own release, and never passes from run to run.
OnlyOwnerReleases ==
  [][\A r \in Runs :
       lock.owner = r /\ lock'.owner # r =>
         /\ lock'.owner = NoRun
         /\ \/ lock.ttl <= 1
            \/ pc[r] = "releasing" /\ pc'[r] = "draining"]_vars

\* A failure of a critical step is the last thing the loop does: no later step
\* has a result, none is running, and none of their threads was started.
StopsAtCriticalFailure ==
  \A r \in Runs : \A i \in DOMAIN results[r] \cap Critical :
    results[r][i].status = "failed" =>
      /\ i = Len(results[r])
      /\ pc[r] # "step"
      /\ \A j \in threads[r] : j <= i

\* A run reports success, full or degraded, only with all five steps done, the
\* critical ones successfully, and with that very summary in the status key.
SuccessIsStored ==
  [][\A r \in Runs :
       outcome[r] = "none" /\ outcome'[r] \in {"completed", "degraded"} =>
         /\ Len(results[r]) = StepCount
         /\ \A i \in Critical : results[r][i].status = "completed"
         /\ outcome'[r] = "completed" <=> FailedSteps(results[r]) = {}
         /\ stored' = [run |-> r, status |-> outcome'[r]]]_vars

\* A step's thread is started once its predecessors have a result, and a step
\* that has been reached is not left out: no thread belongs to a later step.
ThreadsFollowTheLoop ==
  \A r \in Runs : \A i \in threads[r] :
    \/ i \in DOMAIN results[r] /\ results[r][i].status = "failed"
    \/ i = Current(r) /\ pc[r] \in {"step", "releasing", "draining"}

\* A run that is executing its steps comes to the end of them, or is killed.
RunsTerminate ==
  \A r \in Runs :
    pc[r] = "step" ~> pc[r] \in {"draining", "exited", "crashed"}

\* The lock of a run never stays for ever: not even when the run was killed,
\* its release was lost, or its acquisition took effect unnoticed.
LockIsFreed == \A r \in Runs : lock.owner = r ~> lock.owner # r

\* docs/79, line 40: the lock is distributed and a run starts only if Redis
\* confirms its exclusivity.
NoOverlap == \A r, s \in Runs : Working(r) /\ Working(s) => r = s
=============================================================================
