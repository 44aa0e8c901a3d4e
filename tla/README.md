# TLA+ models of URIM Platform

URIM Platform ingests football data from a provider (API-Football) into
PostgreSQL, computes Kairos analyses of coming matches from what it ingested,
keeps a journal of the analyses and resolves them after the matches, and serves
all of this read-only over HTTP.  This directory holds TLA+ models of the part of
the platform that runs: the backend in `apps/api/app`.  Paths below are relative
to the root of the repository; `PROJECT.json` maps each definition to its lines.

## 1. Inventory

### Components

| Component | State it keeps | Operations | Talks to |
|---|---|---|---|
| Daily routine `cli/daily_operations.py` | Redis key `urim:daily-operations:lock` (token, 30 min expiry), Redis status key, in-process results and worker threads | `run` (five steps), `status` | Redis; the discovery, the refresh, the journal |
| Provider client `modules/sports_data/provider.py` | request counter, last quota headers, window of the rate limiter | `get` with retries | the provider over HTTPS |
| Discovery and synchronisation `modules/sports_data/sync.py`, `discovery.py` | the record of the run (`sports_sync_runs`), in-memory counters and the retention funnel | `daily_discovery`, `daily_refresh`, eight operator syncs through `_run` | provider client, observation store |
| Synchronisation command `cli/sports_sync.py` | none | one command of an operator, its exit code | the synchronisation |
| Observation store `modules/sports_data/repository.py`, `normalization.py`, `db/models.py` | append-only tables, unique on (provider, event id, hash of the payload) | `insert_result`, latest reads, `record_error`, `start_run`, `finish_run` | PostgreSQL |
| Kairos reads `modules/kairos/repository.py` | none of its own | reads "as of" an instant, in several statements | observation store |
| Kairos analysis `modules/kairos/services.py`, `half_time.py`, `opportunities.py`, `suggestions.py`, `schemas.py` | none | analyse a match, list the suggestions and the opportunities of a day | Kairos reads |
| Kairos journal `modules/kairos/journal.py`, `performance.py`, `cli/kairos_journal.py`, migration `202607280001` | append-only `kairos_analysis_journal` and `kairos_analysis_resolutions`, guarded by CHECKs and triggers | `snapshot`, `resolve`, `report` | PostgreSQL, Kairos reads |
| Kairos routes `api/v1/routes/kairos.py`, `modules/kairos/rate_limit.py` | semaphores per process, a sorted set per client in Redis | GET routes in two pools | Redis, PostgreSQL |
| Sports routes `api/v1/routes/sports.py` | none | reads | observation store |
| Database access, settings `db/session.py`, `core/config.py` | engine cache | - | PostgreSQL |
| Readiness gates `modules/providers/*`, web application `apps/web` | none | pure validations; a read-only client | - |

### What is hard, and what makes each component correct

* **Daily routine.**  Several invocations, one lock that expires; five steps under
  `asyncio.wait_for`, three of them in worker threads that a timeout does not stop;
  Redis calls whose effect and answer can part; kills at any point.  Correct when
  runs exclude one another, only the owner releases, the loop stops at a critical
  failure, success means that the summary is stored, what is stored can be read back,
  and no lock stays for ever.
* **Provider client.**  Retries, a budget shared by all requests of a
  synchronisation, quota headers that come and go with each answer, a sliding
  window.  Correct when no window of a minute exceeds the limit, the budget is
  never exceeded, a request that starts with an exhausted quota sends nothing, and
  every `get` ends.
* **Discovery and synchronisation.**  Up to about a hundred requests in sequence, a
  commit after each part, a rollback of the current part on any error, counters
  that no rollback touches, rows of any shape.  Correct when the record tells the
  truth about what was committed, the funnel accounts for every fixture under the
  right reason, and a success leaves out no row that the provider sent.
* **Observation store and Kairos reads.**  Reads as of an instant must not see what
  came later, must agree with one another although each is several statements, and
  duplicates must be recognised without losing a change.
* **Kairos analysis.**  Thresholds that several services and validators compare
  separately, after different roundings.  Correct when no answer is refused by its own
  contract, a refusal keeps its reasons, and a selection rests on enough recent data.
* **Journal.**  Snapshots only before kickoff, one resolution for each analysis, all
  of it append-only; concurrent snapshots, resolutions and reports.
* **Routes.**  Capacity given back on every path, limits shared by all processes,
  refusal when Redis is absent.

The hazards, one by one and at their lines, are in `PROJECT.json`; the few that no
property covers carry the reason.

## 2. Plan

The modules in the order in which they are written; all are checked.

| Module | What it models | Abstract specification | Composition | Theorems |
|---|---|---|---|---|
| `DailyOperations` | lock, loop, timeouts, threads, process ends | `ExclusiveRuns` | extended by `OperationsStatus` | its safety properties and the refinement: **done** |
| `OperationsStatus` | the counters, the stored summary, the command `status` | - | extends `DailyOperations` | what is stored is read back; it implements the routine: **done** |
| `ProviderClient` | `get`, its retries, budget, quota, limiter | `BudgetedCalls` | - | limits, quota, refinement: **done** |
| `ProviderCalls` | the client by what `BudgetedCalls` promises | - | extended by both synchronisations | - |
| `DailyDiscovery` | one synchronisation of a window: record, commits, plan, funnel | - | extends `ProviderCalls` | stored, truthful, recorded, the funnel reconciles, success is complete, the plan fits: **done** |
| `Normalization` | what becomes of the items of an answer | - | extended by `SyncCommands` | - |
| `SyncCommands` | the operator's commands | - | with `DailyDiscovery` in `SportsSync` | its record is truthful and success misses no row, in the composition: **done** |
| `ObservationStore` | the rows of matches, the writer's transactions, reads as of an instant | - | extended by `KairosJournal` and `KairosRoutes` | with the journal: **done** |
| `KairosJournal` | snapshot and resolve by concurrent sessions | `AnalysisLedger` | extends `ObservationStore` | no hindsight, no refusal, founded outcomes, one report for each row, the refinement: **done** |
| `KairosReport` | the report of performance beside those sessions | - | extends `KairosJournal` | it adds up: **done** |
| `KairosAnalysis`, `KairosAnswers` | what is made of a dataset, and the contracts of the answers | - | the second extends the first | all its safety invariants: **done** |
| `KairosRoutes` | admission and reads of the routes | - | extends `ObservationStore` | all its invariants: **done** |

The theorems about a component are in the module `...Proofs` named after it;
`CountingTheorems` holds the lemmas about sums, images and orders of finite sets that
several of them use.

## 3. What the modules say, and how they correspond to the code

### DailyOperations (with ExclusiveRuns, DailyOperationsProofs)

State: `lock` and `stored` are the two Redis keys; `pc`, `left`, `results`,
`threads` and `outcome` are what a process remembers of its run: where it is, what
is left of the bound of its present phase, `step_results`, the worker threads that
are still executing, and what it reports.  One action for each thing that can
happen: the acquisition (`Acquire`, `AcquireRefused`, `AcquireUnavailable`), the end
of a step (`StepCompletes`, `StepRaises`, `StepTimesOut`, all through `Proceed`, the
body of the loop with its break), `SaveStatus` and `SaveUnavailable`, `Release` and
`ReleaseUnavailable`, `Interrupt` (what only the `finally` sees), `ThreadEnds`,
`Exit` (`asyncio.run` joins its threads), `Crash` and `Tick`.  A Redis call that
raises may have been executed all the same.  Abstracted: the events written, dates.
`Overruns` names the phases that may outlast their bound, because a runner holds the
event loop or the process is suspended.

`ExclusiveRuns` is the promise: runs that are idle, active or over, one active at
a time.  `ImplementsExclusiveRuns` is the refinement.

### OperationsStatus (with MCDailyOperations, DailyOperationsProofs)

One run that has the lock, looked at from the side of its data: the results of its
steps with their metrics (`done`), the counters of `OperationMetrics` (`totals`), the
value of the status key (`kept`) and what the command `status` printed last
(`shown`).  `StepSucceeds` draws a result of the runner, which `Accepted` may refuse
as `_safe_retention_funnel` does, filters it (`SafeMetrics`) and adds it up
(`RecordSuccess`); `StepFails` classifies what was raised (`PublicError`).  `Store`
is the write, `ShowStatus` the command, with `Readable` for all that
`_sanitize_saved_status` demands and `ReadBack` for what it returns.

`RoutineSpec` puts two views of the routine side by side: runs that nobody looks
into, which are those of `DailyOperations`, or one run that is looked into, for which
the lock and the clock stand still.  A behaviour is of one kind or of the other.

### ProviderClient (with BudgetedCalls, ProviderClientProofs)

State: the fields of `ApiFootballClient` and of its `WindowRateLimiter`, with the
position in `get` (`pc`, `attempt`, `timer`).  `sent` is the history of the requests
granted, each with its age and with the quota known after it; the limiter's deque is
the part of it that begins at `first`, so that the limit can be stated about all
requests and not about those the limiter remembers.  `Call` and `CallRefused` enter
`get`; `Attempt` and `OutOfBudget` look at the budget; `Grant`, `Wait`, `Wake` are
the limiter; `NetworkFails`, `Raises`, `RetryableAnswer`, `FinalAnswer` are what an
exchange brings; `BackoffEnds` the next attempt; `Close` the end of the context, at
any moment since a step's timeout may cancel it.  Abstracted: the validation of
parameters, the classification of errors reported in a body, the values of the
quota beyond unknown, exhausted or not.

`BudgetedCalls` is what a synchronisation relies on: a shared budget, a bounded
number of requests for each call, and outcomes that tell whether anything was sent.
`ProviderCalls` is the same promise as one step for each call, which the modules of
the synchronisation extend.

### DailyDiscovery (with DailyDiscoveryProofs)

One synchronisation of a window (`daily_discovery` is one date, `daily_refresh` up
to seven).  State: the position `pc`, the in-memory `_DiscoveryRunState` up to what
the properties need (`received`, `ignored`, `causes`, `codes`, `inserted`), the plan
and the candidates of its first competition, the fixtures retained, the client's
counter and quotas, `pending` (what the open transaction has written), `db` (what
is committed) and `record` (the row of `sports_sync_runs`).  Each request is one
step: `RequestFails` is `_discovery_request` when the client raises, with the error
recorded and committed; `EnvelopeReceived` notes the rows that cannot be normalised
without a commit.  The plan (`Verdict`, `Key`, `Select`, `Chosen`) is
`build_discovery_plan` and `RetentionFunnel` is `build_retention_funnel`, translated as
pure operators.  `Raise` is any other exception: the transaction is rolled back, the
counters are not.  `Stop` is a cancellation or a kill at any moment, `Abort` an
exception where nothing catches it.

Abstracted: a fixture row is its date, its fixture and its fate; the several reasons
for which a row cannot be normalised are one; a competition stands for one of its
seasons; the rows of a competition other than its fixtures are counted, not named;
which past matches get statistics is a number.

### Normalization, SyncCommands and SportsSync (with MCSportsSync, SportsSyncProofs)

`SyncCommands` is `_run` with the lists of requests of the eight commands.  Seven of
them ask one request for each priority competition; `sync_statistics` chooses its
matches (`WithoutStatistics`, `MatchLimit`) and stops at the first error.
`RequestAnswered`, `RequestRefused` and `RequestRaises` are the three ways in which a
request ends, `RecordInternal`, `FinishRun` and `FinishFails` the closing of the
record, with the exit code of `cli/sports_sync.py`.  `RefuseCommand` is a command that
says no before it has a record.  `stored` is what is committed, `tally` and `failures`
what is in memory, `missed` a history of what was left out of the answers.

`Normalization` says which answers there can be.  A field has a reader
(`_required_int`, `_optional_text` and so on) and the values that its column refuses;
a row is described by the one thing that is wrong with it; `RowsOf`, `StandingsItems`,
`LineupsItems`, `League` and the others are the loops that make rows of the items.
Nothing in it is a choice: TLC computes the set of answers once, from the kinds of
values the provider may send in each field of each resource.

`SportsSync` puts the two synchronisations together: a behaviour is one of
`DailyDiscovery` or a sequence of commands on the same tables.

### ObservationStore

The table `api_football_matches` with its one writer.  `answers` are rows received
and normalised, each with its `fetched_at`; `opened` is the instant at which the
transaction of the writer began, `written` what it has inserted, `observations` what
is committed.  `Receive`, `NoteRejected`, `Insert`, `CommitRows` and `Rollback` are
the calls of the services on the client, the repository and the session, in any
order: which order the code takes is the subject of `DailyDiscovery`.  What matters
here is that `created_at` is `now()` of PostgreSQL, the start of the transaction,
and that `record_error` may have started it before the answer was there.  `Known`,
`Ranked` and `Latest` are `build_latest_as_of_subquery`.

Abstracted: a row is its kickoff, a class of its status and its scores; `available_at`
is `fetched_at`, which is what the client sets; the hash of an answer is a choice,
among the rows that say the same, of those that are dropped.  The clocks of the
program and of the database are one.

### KairosJournal (with AnalysisLedger, KairosJournalProofs)

Any number of commands run beside the writer and one another: operators at a shell,
the threads of the daily routine, the threads that a timeout has abandoned.  Each is
one transaction at READ COMMITTED.  `Start` reads the clock; `ListTargets` is the
query of the targets; then each target is passed over (`Pass`: blocked, or its
analysis not allowed) or appended (`Append`), until `CommitSnapshot`.
`SelectCompleted` is the query of `resolve_completed`, `InsertResolutions` its
insertion, `CommitResolve` the end.  `AppendRefused` is the CHECK of the journal, which
ends the command with everything it did; `Fail` is any other error, the refusal of a
resolution by the trigger included, or a kill.  That the trigger never has a reason to
refuse is `ResolutionsAreAdmitted`.  `Waits` is PostgreSQL: `ON CONFLICT DO NOTHING` waits for
the transaction that has inserted the same key, and sees its row if it commits.
`drafts` and `settling` are what a transaction has inserted; `journal` and
`resolutions` are the tables.  `reported` adds up what the summaries call inserted.

`MarketOutcome` is `evaluate_market_outcome`; `Decidable` and `Expects` are the same
rules as the trigger has them in SQL, written a second time because the code has
them twice.

Abstracted: an analysis is named by its target's observation, its market and its
`as_of`, which is what the hash in its identifier covers as far as the properties
tell; probabilities and scores of quality only decide which markets are candidates.
The other observations that an analysis loads can only block it.

`AnalysisLedger` is the promise: what is published stays, and is settled once.

### KairosReport (with MCKairosJournal, KairosJournalProofs)

`report` writes nothing and has no variables: `Counts` is the statement that counts
entries and their outcomes, `ByMarket`, `ByBand` and `ByCompetition` are the segments
of the answer, `AddsUp` its validators.  A report is several statements; as the tables
only grow, what a later statement counts can be compared with what an earlier one did
by comparing the tables of each step, which is what `ReportIsCoherent` does.
Abstracted: which analyses fall into a band is a choice; Brier scores, log loss and
calibration are arithmetic over the reals.

### KairosAnalysis and KairosAnswers (with MCKairosAnswers, KairosAnswersProofs)

`KairosAnalysis` is a set of functions on a dataset: `Profile` and what follows from it
are the feature profile and its availability, then the data quality, the analysis, the
suggestion with its reasons, the six half-time markets, the opportunity; the two lists
of a day; and the validators of `schemas.py` (the operators whose names end in
`Contract`).  The numbers are those of the code: weights, thresholds, tenths of a point,
minutes cut off or not.  What the Poisson model makes of the averages is a forecast that
comes with the dataset: any percentages in the relations that
`_poisson_market_probabilities` builds its result with (`IsForecast`).  One of them comes
from rounding: the rates of goals are kept above 0.05, so that an away win always has some
probability and the rounded percentages of the two other outcomes do not exceed 100.
`AnswersAssumption` says that a dataset that passed the checks is of the types of
`KairosMatchDataset`, which `repository.py` builds from typed columns.

`KairosAnswers` is the handlers: `AnalyseMatch`, `ListSuggestions`, `ListOpportunities`
compute an answer of any dataset or day and set its status, `error` when the contract
refuses it, which FastAPI turns into an internal error.

### KairosRoutes (with MCKairosRoutes, KairosRoutesProofs)

The routes of one process, for the requests of one client in several threads.
`Arrive` is the capacity dependency, which does not wait; `Admit`, `Refuse` and
`LimiterFails` are the script in Redis and what may become of its answer; `ReadTargets`
and `ReadHistory` are the statements of a dataset, each of which sees what is committed
when it is executed; `Conclude` judges what was read (`Verdict`: the checks of
`KairosAnalysisService.analyze` in their order); `Release` is the `finally`.
`entries` is the history of a client's sorted set: the entries that the script would
have removed are kept, so that the limit can be stated about every window.

Abstracted: the route `journal` and the others that read no observation are one route
that reads nothing (`performance`); the histories are those of matches, which have
statements of their own for statistics, events and standings that look alike.

## 4. The runs

| Run | Question | Bounds, and why they are enough |
|---|---|---|
| `daily` | Do runs that keep to their timeouts exclude one another, release what is theirs, report success truthfully, end their steps and free the lock? Can every stored summary be read? | Two runs: every property is about one or two runs. Timeouts 0, 0, 0, 0, 1 and 0 for Redis, expiry 2: the slack of the real ones (960 + 1 < 1800 seconds) at the tightest scale at which the assumption on the expiry still holds, so that a run may take all the time the key gives it. For the data: two reasons and up to two fixtures, so that a funnel can be right, cut off or shifted between reasons |
| `daily_overlap` | A finding | As `daily` |
| `provider_client` | Limits, quota, refinement, end of the calls | Three calls of three attempts, a budget of five that can end inside a call, a window of two requests and three ticks: a window fills, empties and fills again within one call and across calls |
| `sports_sync` | Funnel, plan, record and storage of a synchronisation; the same of commands | Two dates, three competitions of which two are chosen, calls of up to two attempts, nine requests and quotas that run out: every request can be the one that fails, and a second competition follows one that failed. Two commands: the second reads tables that the first has filled, or has left half filled; nine past matches, one more than a command looks at |
| `statistics` | A finding | As `sports_sync`; earlier commands have stored the statistics of all matches but one |
| `journal` | Is the journal free of hindsight, its outcomes founded, admitted, counted once, its report coherent? | Two commands that are run any number of times, one match with two markets, one of each group, three observations, clock 0 to 2, one row in a transaction: the kickoff falls between, so that results come before, at and after it, an analysis can be made and stored on either side of it, and two resolutions can see different results |
| `journal_again` | A finding | As `journal`, with a kickoff that leaves room for two snapshots |
| `journal_stamps` | A finding | As `journal` |
| `kairos_answers` | Does every answer keep its contract, a refusal its reasons, a selection its foundation? | The thresholds of the code; histories with one match less and one more than each threshold, ages on both sides of the limit within one minute, two forecasts that a market accepts and refuses; days of up to three matches for lists of one, so that a list can overflow twice |
| `full_day` | A finding | As `kairos_answers` |
| `kairos_routes` | Places, windows, delays, and what is read beside a writer | Two threads and one place in each pool, so that one of two is refused; three requests, a limit of one or two, a window of four ticks of half a second, so that a window empties and a delay has a part of a second; two matches of the same teams, the second completed and perhaps annulled between two statements |
| `moved` | A finding | One thread, a match that may be moved to another day |

The bounds of the store are `MaxTime` (the clock), `MaxRows` (observations received)
and `MaxBatch` (rows of one transaction); `MaxTargets` and `MaxSettled` are limits of
the code.  A snapshot of several matches repeats `Append` and is left to the proofs,
which hold for any number.  That the rules of the markets agree for every score is
left to the theorem `OutcomesAgree`.  `MaxBusyCalls` lets fewer requests arrive while
the writer is at work than while it rests, which the two halves of the properties of
the routes allow: places and windows do not depend on the store.

The runs of the routine keep to their bounds (`Overruns = {}`).  What survives when they
do not is left to the theorems `ReleaseByToken`, `SuccessNeedsStorage`,
`CriticalFailureStops` and `ThreadsOfTheLoop`, which hold for any `Overruns`.

Symmetry is used in the runs of the journal, whose commands nothing orders, and in
`kairos_routes`, whose threads nothing orders; in no run with a liveness property.

## 5. Fairness

* **DailyOperations.**  The event loop runs what is due (a timeout, a Redis call)
  and time passes.  Nothing is assumed of a worker thread: its SQL statements have
  no timeout.  `Exit`, which waits for the threads, is therefore not fair, and
  nothing is claimed about the end of a process, only about its steps and its lock.
* **ProviderClient.**  The event loop runs what is due, time passes, and an HTTP
  exchange ends in some way: httpx bounds the connection and each read and write,
  although not the exchange as a whole.
* The other modules state no fairness.  A synchronisation, a command or a request may
  be killed at any point, and what it has to end by is the timeout of its caller.

## 6. What is proved

All theorems are checked by TLAPS for every value of the constants that satisfies
the named assumptions.

*DailyOperationsProofs* (from `DailyOperationsAssumption` and `LeaseAssumption`).
`TypeCorrect` is the type invariant.  `LoopInv` strengthens it with what the loop
keeps: no result before the last one is a critical failure, a run past its loop has
no thread that started after one, and the threads that exist belong to steps already
reached; `CriticalFailureStops` and `ThreadsOfTheLoop` follow.  Exclusion is not
inductive: `LeaseOutlivesRun` is, and says that the key has more life left than the
sum of all the bounds ahead of its owner.  It needs `Overruns = {}` and the
assumption that the expiry exceeds the sum of the timeouts; from it follow
`RunsExclude`, `OverlapIsAbandoned` and the refinement
`LockImplementsExclusiveRuns`.  `ReleaseByToken` and `SuccessNeedsStorage` are
action properties and need no bound on time.

The same module has the run that is looked into (with `StatusAssumption`: there are
finitely many reasons, as `RetentionFunnel` has a field for each).
`StoredStatusIsReadBack` says that whatever is stored passes all the checks of
`_sanitize_saved_status`.  Those checks recompute from the steps what the run counted as
it went along, so the invariant, `StatusInv`, ties each counter to the steps done so far:
successes and failures to the synchronisations among them, the two error counters to the
steps that failed in that way, the funnel to the sum of those of the two
synchronisations, and a critical failure to the last place.  A funnel that is added to
stays balanced (`PlusIsBalanced`), which is an equation between sums over the reasons.
`StatusImplementsTheRoutine` is the refinement: every theorem above holds of it too.

*ProviderClientProofs* (from `ProviderAssumption`).  `ClientTypes` needs that an
attempt that may be retried is not the last.  `NoMinuteExceedsTheLimit` rests on
`WindowInv`: every request before `first` is a minute old, and those from `first` on
are at most the limit; so the recent ones are among at most that many positions.
`NoNeedlessWait` relates the time left to sleep to the age of the oldest
timestamp.  `ExhaustedMeansSilent` relates the quota known to that of the last
request.  `ClientImplementsBudgetedCalls` is the refinement; its invariant counts
the requests of the present call by its attempts.

*CountingTheorems* has no assumption.  The folds and sums of the community modules are
recursive functions over finite sets; that such a function exists (`FoldExists`,
`SumsExist`), and what it does when a set grows, shrinks or splits (`SumByElement`,
`SumOfUnion`, `SumOfRest`) are proved here, as are counting by key
(`CountedByKey`: the images of a set add up to it) and sorting (`SortedExists`: what a
total order sorts is a sequence) and taking the first few by an order (`FirstAreFew`,
`FewAreFirst`).  The induction theorems of the library take an operator
as a parameter and cannot be used; each induction here looks at the set of its
counterexamples, which has a least element (`LeastNumber`).

*DailyDiscoveryProofs.*  `RetainedStayStored`, `RecordsAreTruthful` and
`FailuresAreRecorded` need no assumption and follow from one invariant, `Inv`: as long as
no part has been rolled back, the insertions counted are the rows committed and those of
the open transaction; every cause of a failed call is in the table of errors and every
code in the table or in the transaction; when a competition is about to be committed its
candidates are in the transaction; and a record of success is the last thing a
synchronisation writes.

The others (from `DiscoveryAssumption`: fixtures and competitions are finitely many)
follow a fixture through the funnel.  `TheFunnelReconciles` states an equation between
the sum over the reasons, the rows not yet planned, the fixtures retained and a sum over
the plan that is left.  To keep it, a step needs that what it moves is counted once:
`RowsInv` (after the duplicates are gone, a fixture has one row), `PlanInv` (the entries
of the plan are of different competitions, and nothing retained is of one that is still
ahead) and `CourseInv` (where in its course a synchronisation is, and what is empty
there).  The step `Plan` is the hard one: the candidates of all competitions partition
the scheduled rows (`CountedByKey`), sorting them loses none, and the fold of `Select`
is followed entry by entry (`SelectionInv`): what it takes, limits or cannot afford adds
up to what it has seen, and never exceeds the budget, which is also why
`ThePlanFitsTheBudget`.  That the funnel of the record never cuts a count is then
arithmetic over the seven sets of reasons.  `SuccessIsComplete` adds `SuccessInv`: an
error leaves its code, and without one every date was received.
`DiscoveryHasItsTypes` needs the same invariant, because a count that is reduced must not
become negative.

*SportsSyncProofs* (from the same assumption) proves the composition.  A behaviour of
`SportsSync` is a synchronisation or a sequence of commands on the same tables; each side
leaves the other's variables alone, and `ServiceInv` is the conjunction of the invariants
of both.  Of commands, `CommittedInv` says that what is in memory is in the tables unless an
internal error came between, `NoticedInv` that a list not asked to its end, or a row left
out, has left its code; that a normaliser drops no row in silence is a lemma about
`Normalization` for all the answers there can be (`ItemsAreHonest`).
`CommandsTellTheTruth` and `SuccessLeavesNoRowOut` follow; `SynchronisationKeepsItsWord`
and `ServicePlanFitsTheBudget` are the theorems about a synchronisation again, for the
composition.

*KairosJournalProofs* (from `StoreAssumption` and `JournalAssumption`).
`OutcomesAgree` is about data: when `evaluate_market_outcome` decides a market, the
trigger finds the same outcome; it goes by cases on the market, after the scores are
shown to be in range.  `JournalTypes` needs that all tables are finite.
`JournalIsPreMatch`, `NoResolutionIsRefused` and `OutcomesRestOnResults` are
not inductive, because the tables receive what commands prepared earlier; `IInv` adds
that what each command holds (its targets, drafts, resolutions to insert and inserted)
is already as good as what is in the tables.  It is kept because the tables only grow
(`TablesGrow`) and because the query of `resolve_completed` and `_resolution_value`
ensure all that the trigger asks for (`SelectedAreSound`).

The same module continues with what commands report and with the refinement.
`ReportsCountOnce` and `JournalImplementsLedger` both rest on keys: `KInv` adds to `IInv`
that no table holds a key twice (`Distinct`), that what a command has inserted has keys of
its own, which neither the table nor any other command that is still open has (`Tidy`,
`Alone`), and that it counts each of those rows.  An insertion keeps this because it
waits for every other transaction that has inserted the same key and then skips what the
table has.  A commit then adds as many rows as it reports, and a resolution settles
analyses of the journal that had no outcome; every other step stutters in the ledger.

With `ReportAssumption`, `ReportsAreCoherent`: an entry is decided,
VOID or open, and no two of them, because `KInv` leaves it one resolution at most
(`EntriesAreParted`), so that the counts of every statement add up.  That the segments
of the markets count what the totals count needs no induction over the sum: the pairs of
a segment and a number are mapped onto the rows that the total counts
(`SegmentsCountAll`), and the tables only grow between two statements.

*KairosRoutesProofs* (from `StoreAssumption` and `RoutesAssumption`).  `RoutesTypes` is
the type invariant.  `PlacesComeBack` needs `HoldersTookOne`: only an answer for which a
place was taken gives one back; every other step keeps the set of the threads that hold a
place, whichever route fails in whatever way.  `LimitHolds` is nearly inductive: what is
counted is at most one more than what was live.  `WaitIsHonest` adds that the entries of a
route are in order and that a refusal of the present tick still finds the window full, so
that nothing counted later was there when it was made; the rest is the arithmetic of whole
seconds (`SecondsCover`) and the fact that the oldest live entry is the first
(`AnnouncedInTime`).

The same module continues with the reads, for tables of any size.  `WriterInv` says
that a transaction stamps its rows with the instant it began, so that nothing committed
later is known at a settled instant (`SettledForGood`).  `ReadsInv` follows a request
from statement to statement: its targets are one of each match, so that the target whose
turn it is does not change until its dataset is whole (`OneIsNext`), and each part is a
history of that target which, at a settled instant, could be read again.  `ReadsPass` and
`SettledReads` are what it says of answers.

*KairosAnswersProofs* (from `AnalysisAssumption` and `AnswersAssumption`).
`SelectionsRestOnData` is about two services that judge one dataset by different clocks
and different samples.  Its invariant is short: the items of a list are the opportunities
of the matches it was made of.  The rest is about the functions.  The six half-time
markets of a match share their quality, their confidence and their guardrails
(`MarketsShare`), so that one of them that is eligible says that all have enough samples
and fresh data.  Only too few results make a warning that blocks (`WhatBlocks`).  Whole
minutes above the threshold are more than the threshold (`StaleIsOld`), so that what the
analysis calls stale the markets call stale too.  And a match that is refused without any
cause cannot exist: were quality, confidence and the probability of some market all high
enough, and no guardrail in the way, that market would have been selected
(`WhyNotSelected`); this is what makes `critical_guardrail`, the reason of last resort,
mean what it says.

`RefusalsExplainThemselves` is about a list that is cut.  The reasons of a suggestion are
the concatenation of what the gate, the features and the warnings add;
`_suggestion_reasons` keeps twelve, the critical ones first.  How often a reason occurs in
each part is counted (`Times`), so that what is found in the whole is known part by part
(`WhatIsFound`).  At most four of the reasons are critical, hence none of these is cut
(`KeptAreFound`), and what a suggestion keeps says exactly what refuses it
(`SuggestionIsExplained`).  The age is compared in whole minutes: it exceeds the threshold
once the next minute is full (`StaleIsWhole`).

`AnswersAreAccepted` is about bounds and orders.  Each number of an answer lies in the
interval that its field of `schemas.py` demands (`DataQualityLies`, `ConfidenceLies`,
`StrengthLies`, `HalfTimeQualityLies`, `HalfTimeConfidenceLies`, `EstimateLies`), for all
that a history can count.  Of the opportunities of a match there is one primary, unless
there are none, and at most two others, all of different groups (`SelectionsAreFew`), which
rests on the ranking being an order (`PrecedesOrders`).  In the list of a day every match
is in one category (`CategoriesAddUp`), so that the counts agree with what was evaluated;
the exception that the property names, too many allowed matches, is the case of the finding
`full_day` below.

Only model-checked: liveness (`RunsTerminate`, `LockIsFreed`, `CallsEnd`), which is out of
the prover's reach.  Every invariant and every other action property of the passing runs is
stated by a theorem.

The invariants of the discovery and of the status were found with TLC, as invariants of
the runs of their modules, before they were proved.

## 7. Findings

* `daily_overlap`: `asyncio.wait_for` abandons the worker thread of a step that
  times out; the run then releases its lock and another run starts beside a thread
  that still writes, although docs/79 describes the lock as preventing concurrent
  executions.
* `statistics`: the command looks at the first matches of its window only, whether or
  not they have statistics already; once they do, later matches are never reached and
  the command records that none is left.
* `journal_again`: the identifier of an analysis depends on the instant of the
  command, so that a snapshot that is run again publishes every analysis again, although docs/79
  calls it idempotent and says to run it again after a failure.
* `journal_stamps`: an error recorded without a commit opens a transaction; what is
  fetched while it is open is stored as created before it was fetched, which
  `validate_temporal_integrity` then refuses.
* `full_day`: a day with 13 to 16 allowed matches has more opportunities than its list
  holds; those left out are counted nowhere, and the contract refuses the answer.
* `moved`: the targets of a day are ranked after the filter by kickoff, so that a match
  that was moved to another day is still listed on its old one.

Differences that were noticed while modelling and that no run is about:

* docs/79, line 53, asks that a failed discovery stop the routine; a discovery that ends
  with a summary FAILED raises nothing, and the step counts as completed
  (`daily_operations.py:304`) and as `synchronization_succeeded`.
* The record of a synchronisation that failed counts as added the rows of the part
  that was rolled back (`sync.py:491`; docs/77, line 151).
* `status` filters the metrics of the step `report` a second time
  (`daily_operations.py:700`), which looks for a key that the first filter has removed:
  they are shown as zero.  `StoredIsReadBack` excepts them.
* An observation that returns to what it was before (A, B, A) is a duplicate of the
  first, and the latest stays B (`sports_data/repository.py:108`).
* Some rows that the normaliser accepts are refused by their table, a match of a team
  against itself or a text that is too long, and the whole answer fails with them
  (`RefusedByTable`); a negative goal difference is read as absent
  (`normalization.py:267`); players with neither number nor name have one key
  (`normalization.py:394`); a group of standings or the seasons of a league that are no
  list are passed over in silence.  `SuccessMissesNoRow` names the last three.

## 8. What is not modelled, and why

* *In modelled components.*  The tables of the store other than that of the matches:
  they have the same columns and the same writer, and `Normalization` covers what may
  enter them.  `db/models.py` also has the tables of earlier phases, which no code
  writes.  The numeric estimators of Kairos (Poisson rates, shrinkage, Brier score, log
  loss, calibration) are arithmetic over the reals; their results are inputs that
  satisfy the relations they are built with.
* *Sports routes*: stateless reads over the store.
* *Database access and settings*: engine caches, configuration and the calendar
  arithmetic of the business time zone, read once.
* *Readiness gates*: pure validations of documents of earlier phases, without effect on
  the running system.
* *Web application*: a read-only client of the routes.
