--------------------------- MODULE OperationsStatus ---------------------------
(***************************************************************************)
(* What a run of the daily routine says of itself                          *)
(* (apps/api/app/cli/daily_operations.py): the filter of the results of the*)
(* steps, the counters kept beside them, the summary written to STATUS_KEY *)
(* and what `urim-daily-operations status' makes of it, which checks all of*)
(* it again before it prints it.  The lock and the timeouts are the subject*)
(* of module DailyOperations; here is one run that has the lock.           *)
(***************************************************************************)
EXTENDS DailyOperations, FiniteSets, Functions

CONSTANTS
  Reasons,      \* the fields of the retention funnel that begin with rejected_
  MaxFixtures   \* bound: fixtures that a synchronisation receives

ASSUME StatusAssumption == IsFiniteSet(Reasons) /\ MaxFixtures \in Nat

VARIABLES
  stage,   \* where the run is
  done,    \* step_results, with their metrics
  totals,  \* OperationMetrics
  kept,    \* the value of STATUS_KEY
  shown    \* what the command status has printed

statusVars == <<stage, done, totals, kept, shown>>

Synchronisations == {1, 2}  \* daily_discovery and daily_refresh
Snapshot == 3
Resolve == 4
Journal == {3, 4, 5}        \* snapshot, resolve and report

\* What may be absent is a sequence of length 0 or 1.
None == <<>>
NoError == "none"
Amounts == 0..MaxFixtures

-----------------------------------------------------------------------------
(* The retention funnel.                                                     *)

EmptyFunnel == [received |-> 0, retained |-> 0, rejected |-> [reason \in Reasons |-> 0]]

Rejected(funnel) == FoldFunction(+, 0, funnel.rejected)

\* Variant for mutation: the funnel is not checked.
Unbalanced(funnel) == TRUE

\* _safe_retention_funnel.
Balanced(funnel) == funnel.received = funnel.retained + Rejected(funnel)

Plus(a, b) ==
  [received |-> a.received + b.received,
   retained |-> a.retained + b.retained,
   rejected |-> [reason \in Reasons |-> a.rejected[reason] + b.rejected[reason]]]

-----------------------------------------------------------------------------
(* What the runners return, and what is kept of it.                          *)

\* A synchronisation gives its counts and its funnel, which may not fit them.
SyncResults ==
  {[received |-> received, retained |-> retained, ignored |-> received - retained,
    funnel |-> funnel] :
     received \in Amounts, retained \in Amounts,
     funnel \in [received : Amounts, retained : Amounts, rejected : [Reasons -> Amounts]]}

\* snapshot, resolve and report, as far as they are counted.
JournalResults(step) ==
  IF step = Snapshot THEN [created : 0..1, received : {1}]
  ELSE IF step = Resolve THEN [inserted : 0..1]
  ELSE {[performance |-> [resolved |-> n]] : n \in 0..1}

\* _safe_step_metrics raises no DailyOperationsRetentionFunnelError.
Accepted(step, result) ==
  step \in Synchronisations =>
    /\ result.retained <= result.received
    /\ Balanced(result.funnel)
    /\ result.funnel.received = result.received
    /\ result.funnel.retained = result.retained
    /\ result.ignored = result.received - result.retained

\* What _safe_step_metrics keeps: of a report what is under "performance".
SafeMetrics(step, result) ==
  IF step # StepCount THEN result
  ELSE IF "performance" \in DOMAIN result THEN result.performance
  ELSE [resolved |-> 0]

\* Why a step failed: the funnel does not add up, the step is too long, or an exception.
Failure == {"funnel", "timeout", "provider", "database", "other"}

\* _public_step_error.
PublicError(step, cause) ==
  IF cause = "funnel" THEN "retention_funnel_invalid"
  ELSE IF cause = "timeout" THEN "step_timeout"
  ELSE IF cause = "provider" THEN "provider_unavailable"
  ELSE IF cause = "database" \/ step \in Journal THEN "postgresql_error"
  ELSE "daily_operations_internal_error"

-----------------------------------------------------------------------------
(* The counters.                                                             *)

NoTotals ==
  [succeeded |-> 0, failed |-> 0, received |-> 0, retained |-> 0, funnel |-> EmptyFunnel,
   snapshots |-> 0, resolutions |-> 0, providerErrors |-> 0, databaseErrors |-> 0]

\* Variant for mutation: the funnel is that of the last synchronisation.
RecordLast(step, metrics) ==
  IF step \in Synchronisations
  THEN [totals EXCEPT !.succeeded = @ + 1, !.received = @ + metrics.received,
                      !.retained = @ + metrics.retained, !.funnel = metrics.funnel]
  ELSE totals

\* _record_success.
RecordSuccess(step, metrics) ==
  IF step \in Synchronisations
  THEN [totals EXCEPT !.succeeded = @ + 1, !.received = @ + metrics.received,
                      !.retained = @ + metrics.retained,
                      !.funnel = Plus(@, metrics.funnel)]
  ELSE IF step = Snapshot THEN [totals EXCEPT !.snapshots = @ + metrics.created]
  ELSE IF step = Resolve THEN [totals EXCEPT !.resolutions = @ + metrics.inserted]
  ELSE totals

\* _record_failure.
RecordFailure(step, error) ==
  [totals EXCEPT
     !.failed = @ + IF step \in Synchronisations THEN 1 ELSE 0,
     !.providerErrors = @ + IF error = "provider_unavailable" THEN 1 ELSE 0,
     !.databaseErrors = @ + IF error = "postgresql_error" THEN 1 ELSE 0]

-----------------------------------------------------------------------------
(* The run.                                                                  *)

StatusInit ==
  /\ stage = "idle"
  /\ done = <<>>
  /\ totals = NoTotals
  /\ kept = None
  /\ shown = None

Begin ==
  /\ stage = "idle"
  /\ stage' = "looping"
  /\ UNCHANGED <<done, totals, kept, shown>>

Step == Len(done) + 1

\* The end of a turn of the loop.
Turn(result) ==
  /\ done' = Append(done, result)
  /\ stage' = IF \/ Step = StepCount
                 \/ result.status = "failed" /\ Step \in Critical
              THEN "saving" ELSE stage
  /\ UNCHANGED <<kept, shown>>

StepSucceeds ==
  /\ stage = "looping"
  /\ \E result \in IF Step \in Synchronisations THEN SyncResults ELSE JournalResults(Step) :
       LET metrics == SafeMetrics(Step, result) IN
       /\ Accepted(Step, result)
       /\ totals' = RecordSuccess(Step, metrics)
       /\ Turn([status |-> "completed", error |-> NoError, metrics |-> <<metrics>>])

StepFails ==
  /\ stage = "looping"
  /\ \E cause \in Failure :
       LET error == PublicError(Step, cause) IN
       /\ cause = "funnel" => \E result \in SyncResults : ~Accepted(Step, result)
       /\ totals' = RecordFailure(Step, error)
       /\ Turn([status |-> "failed", error |-> error, metrics |-> None])

\* final_error_code: that of the critical failure, which is the last result.
FinalError ==
  IF FinalStatus(done) = "failed" THEN done[Len(done)].error ELSE NoError

\* The summary is stored, or the call to Redis fails, with or without an effect.
Store ==
  /\ stage = "saving"
  /\ stage' = "over"
  /\ kept' \in {kept, <<[status |-> FinalStatus(done), error |-> FinalError, steps |-> done,
                         totals |-> totals]>>}
  /\ UNCHANGED <<done, totals, shown>>

\* STATUS_TTL_SECONDS.
Forget ==
  /\ kept' = None
  /\ UNCHANGED <<stage, done, totals, shown>>

-----------------------------------------------------------------------------
(* The command status.                                                       *)

Completed(summary) == {i \in DOMAIN summary.steps : summary.steps[i].status = "completed"}

\* The funnels of the completed synchronisations, counted again.
FunnelOfSteps(summary) ==
  FoldFunction(Plus, EmptyFunnel,
    [i \in Completed(summary) \cap Synchronisations |-> summary.steps[i].metrics[1].funnel])

\* _sanitize_saved_status raises nothing.
Readable(summary) ==
  /\ Len(summary.steps) <= StepCount
  /\ \A i \in Completed(summary) :
       /\ i \in Synchronisations => summary.steps[i].metrics # None
       /\ \A metrics \in Range(summary.steps[i].metrics) : Accepted(i, metrics)
  /\ Balanced(summary.totals.funnel)
  /\ summary.totals.funnel.received = summary.totals.received
  /\ summary.totals.funnel.retained = summary.totals.retained
  /\ summary.totals.funnel = FunnelOfSteps(summary)

\* What it returns: the metrics of the steps go through the same filter again.
ReadBack(summary) ==
  [summary EXCEPT !.steps =
     [i \in DOMAIN summary.steps |->
        [summary.steps[i] EXCEPT !.metrics =
           [one \in DOMAIN @ |-> SafeMetrics(i, summary.steps[i].metrics[one])]]]]

ShowStatus ==
  /\ shown' = IF kept = None THEN <<"never_run">>
              ELSE IF Readable(kept[1]) THEN <<"summary", ReadBack(kept[1])>>
              ELSE <<"unavailable">>
  /\ UNCHANGED <<stage, done, totals, kept>>

\* Redis does not answer.
StatusUnavailable ==
  /\ shown' = <<"unavailable">>
  /\ UNCHANGED <<stage, done, totals, kept>>

StatusStep ==
  \/ Begin \/ StepSucceeds \/ StepFails \/ Store \/ Forget
  \/ ShowStatus \/ StatusUnavailable

\* The two views of the routine are checked side by side: of runs that nobody looks into,
\* and of one run that is looked into.
NobodyStarted == lock = FreeLock /\ \A r \in Runs : pc[r] = "start"

RoutineNext ==
  \/ stage = "idle" /\ shown = None /\ Next /\ UNCHANGED statusVars
  \/ NobodyStarted /\ StatusStep /\ UNCHANGED vars

RoutineInit == Init /\ StatusInit

RoutineSpec ==
  /\ RoutineInit
  /\ [][RoutineNext]_<<vars, statusVars>>
  /\ Fairness
-----------------------------------------------------------------------------
(* Properties.                                                               *)

\* The command status can read every summary that a run has stored, whichever steps failed
\* and however, and shows it as it was, the metrics of the report excepted; the summary's
\* counters are what its steps say, added up, and its error code is there exactly when a
\* critical step failed.
StoredIsReadBack ==
  \A summary \in Range(kept) :
    LET steps  == summary.steps
        with(e) == Cardinality({i \in DOMAIN steps : steps[i].error = e})
    IN  /\ Readable(summary)
        /\ \A i \in DOMAIN steps \ {StepCount} : ReadBack(summary).steps[i] = steps[i]
        /\ summary.totals.succeeded + summary.totals.failed
             = Cardinality(DOMAIN steps \cap Synchronisations)
        /\ summary.totals.providerErrors = with("provider_unavailable")
        /\ summary.totals.databaseErrors = with("postgresql_error")
        /\ summary.status = "failed" <=> summary.error # NoError
        /\ summary.error # NoError => steps[Len(steps)].error = summary.error
=============================================================================
