---------------------------- MODULE DailyDiscovery ----------------------------
(***************************************************************************)
(* One synchronisation of a window of dates                                *)
(* (SportsSyncService._sync_daily_window, apps/api/app/modules/sports_data/*)
(* sync.py) with the plan and the retention funnel of discovery.py: the    *)
(* dates, the catalogue of leagues, the plan, the enrichment of each       *)
(* planned competition, head-to-head matches, statistics and events, and   *)
(* the final record of the run.                                            *)
(*                                                                         *)
(* A competition stands for one of its seasons.  What the database holds   *)
(* and what the open transaction would add to it are kept apart.           *)
(***************************************************************************)
EXTENDS ProviderCalls, Sequences, FiniteSets, SequencesExt

CONSTANTS
  Days,             \* the dates asked for
  Fixtures,         \* fixtures of the provider
  CompOf,           \* the competition of each fixture
  Comps,            \* competitions, numbered as the provider does
  Coverage,         \* what the catalogue of leagues says of each competition
  Priority,         \* API_FOOTBALL_PRIORITY_COMPETITIONS
  Fates,            \* what the rows of each fixture may look like
  MaxCompetitions,  \* MAX_DISCOVERY_COMPETITIONS
  MaxH2H,           \* MAX_H2H_ENRICHMENT_REQUESTS
  MaxRows,          \* bound: fixtures in one answer
  MaxHistory        \* bound: past matches that want statistics

\* How a row looks: unusable, not scheduled, not in the future, or none of these.
RowFates == {"scheduled", "invalid_fixture", "fixture_status_not_scheduled",
             "fixture_not_future"}
Listing == {"missing", "season_missing", "cup", "league"}

ASSUME DiscoveryAssumption ==
  /\ Days \in Nat \ {0}
  /\ IsFiniteSet(Fixtures)
  /\ IsFiniteSet(Comps)
  /\ CompOf \in [Fixtures -> Comps]
  /\ Comps \subseteq Nat
  /\ Coverage \in [Comps -> [listing : Listing, standings : BOOLEAN,
                            statistics : BOOLEAN, events : BOOLEAN]]
  /\ Priority \in Seq(Nat)
  /\ Fates \in [Fixtures -> SUBSET RowFates]
  /\ MaxCompetitions \in Nat \ {0}
  /\ {MaxH2H, MaxRows, MaxHistory} \subseteq Nat

VARIABLES
  pc,        \* where the synchronisation is
  day,       \* dates asked for so far
  rows,      \* fixture rows received, before the plan
  received,  \* fixtures_received
  catalogue, \* the leagues were received
  ignored,   \* ignored_reasons
  plan,      \* competitions still to be enriched, with their fixtures
  valid,     \* fixtures of the first of them that are still candidates
  retained,  \* final_fixture_rows
  left,      \* turns left of the present loop over pairs or past matches
  causes,    \* provider_unavailable_causes
  codes,     \* error_codes
  inserted,  \* records_inserted
  pending,   \* what the open transaction has written
  db,        \* what is committed
  fatal,     \* fatal_error
  record     \* the row of the run in sports_sync_runs

tables == <<inserted, pending, db>>
funnel == <<received, ignored, plan, valid, retained>>
vars == <<pc, day, rows, received, catalogue, ignored, plan, valid, retained,
          left, used, quota, causes, codes, inserted, pending, db, fatal,
          record>>

Blocking == {"quota", "budget", "unavailable"}
Codes == Causes \cup {"invalid_row", "internal"}
Reason == (RowFates \ {"scheduled"}) \cup
  {"duplicate_fixture", "competition_metadata_unavailable",
   "season_metadata_unavailable", "competition_type_unsupported",
   "insufficient_data_coverage", "competition_limit",
   "request_budget_competition_limit", "team_metadata_unavailable",
   "recent_results_unavailable", "insufficient_recent_results"}
Phase == {"new", "dates", "dedupe", "leagues", "plan", "teams", "history",
          "standings", "store", "commit", "pairs", "h2h", "past", "statistics",
          "events", "failed", "finish", "done", "stopped", "aborted"}
Stopped == {"done", "stopped", "aborted"}
Written == [rows : Nat, fixtures : SUBSET Fixtures, errors : SUBSET Codes]
Nothing == [rows |-> 0, fixtures |-> {}, errors |-> {}]
NoRecord == [status |-> "none", inserted |-> 0]

Sum(f) == SumFunction(f)
Ignore(reason, n) == [ignored EXCEPT ![reason] = @ + n]

Init ==
  /\ pc = "new"
  /\ day = 0
  /\ rows = {}
  /\ received = 0
  /\ catalogue = FALSE
  /\ ignored = [reason \in Reason |-> 0]
  /\ plan = <<>>
  /\ valid = {}
  /\ retained = {}
  /\ left = 0
  /\ NewClient
  /\ causes = {}
  /\ codes = {}
  /\ inserted = 0
  /\ pending = Nothing
  /\ db = Nothing
  /\ fatal = FALSE
  /\ record = NoRecord

\* ensure_provider and start_run, committed before anything is asked.
Start ==
  /\ pc = "new"
  /\ record' = [status |-> "RUNNING", inserted |-> 0]
  /\ pc' = "dates"
  /\ UNCHANGED <<day, rows, catalogue, funnel, left, client, causes, codes,
                 tables, fatal>>

-----------------------------------------------------------------------------
(* What becomes of a call, and of the open transaction.                      *)

\* commit: the open transaction, with what is written last, reaches the tables.
Committed(written) ==
  [rows     |-> db.rows + written.rows,
   fixtures |-> db.fixtures \cup written.fixtures,
   errors   |-> db.errors \cup written.errors]
WithErrors(new) == [pending EXCEPT !.errors = @ \cup new]

\* Variant for mutation: the error is noted and not recorded.
NoteOnly(cause) ==
  /\ Fails(cause)
  /\ causes' = causes \cup {cause}
  /\ codes' = codes \cup {cause}
  /\ UNCHANGED tables

\* Variant for mutation: the cause is kept, the error code is not.
CauseOnly(cause) ==
  /\ Fails(cause)
  /\ causes' = causes \cup {cause}
  /\ db' = Committed(WithErrors({cause}))
  /\ pending' = Nothing
  /\ UNCHANGED <<codes, inserted>>

\* _discovery_request, when the client raises an ApiFootballRequestError.
RequestFails(cause) ==
  /\ Fails(cause)
  /\ causes' = causes \cup {cause}
  /\ codes' = codes \cup {cause}
  /\ db' = Committed(WithErrors({cause}))
  /\ pending' = Nothing
  /\ inserted' = inserted

\* _discovery_request returns an envelope, and _record_normalization_errors
\* notes the rows that could not be normalised, without a commit.
EnvelopeReceived(unusable) ==
  /\ Answered
  /\ codes' = IF unusable THEN codes \cup {"invalid_row"} ELSE codes
  /\ pending' = IF unusable THEN WithErrors({"invalid_row"}) ELSE pending
  /\ UNCHANGED <<causes, inserted, db>>

\* _remaining_discovery_requests.
Least(a, b) == IF a < b THEN a ELSE b
Known(q, remaining) == IF q = NoQuota THEN remaining ELSE Least(q, remaining)
Remaining == Known(quota.daily, Known(quota.minute, MaxRequests - used))

-----------------------------------------------------------------------------
(* The dates of the window, one request each.                                *)

\* What the provider may list for one date.
Row == {row \in [day : 1..Days, fixture : Fixtures, fate : RowFates] :
          row.fate \in Fates[row.fixture]}
Answers(d) ==
  {list \in SUBSET {row \in Row : row.day = d} :
     /\ Cardinality(list) <= MaxRows
     /\ \A a, b \in list : a.fixture = b.fixture => a = b}

\* Variant for mutation: one date too many.
AfterOneDateMore == IF day < Days THEN "dates" ELSE "dedupe"

AfterDate == IF day + 1 < Days THEN "dates" ELSE "dedupe"

DateReceived ==
  /\ pc = "dates"
  /\ \E list \in Answers(day + 1) :
       /\ EnvelopeReceived(\E row \in list : row.fate = "invalid_fixture")
       /\ rows' = rows \cup list
       /\ received' = received + Cardinality(list)
  /\ day' = day + 1
  /\ pc' = AfterDate
  /\ UNCHANGED <<catalogue, ignored, plan, valid, retained, left, fatal, record>>

DateFails ==
  /\ pc = "dates"
  /\ \E cause \in Causes :
       /\ RequestFails(cause)
       /\ pc' = IF cause \in Blocking THEN "dedupe" ELSE AfterDate
  /\ day' = day + 1
  /\ UNCHANGED <<rows, catalogue, funnel, left, fatal, record>>

-----------------------------------------------------------------------------
(* The plan.                                                                 *)

Usable == {row \in rows : row.fate # "invalid_fixture"}

\* _deduplicate_fixture_rows: of the rows of one fixture, the first in the
\* order of kickoffs stays, whichever date listed it.
Dedupe ==
  /\ pc = "dedupe"
  /\ \E unique \in SUBSET Usable :
       /\ \A row \in Usable :
            Cardinality({u \in unique : u.fixture = row.fixture}) = 1
       /\ rows' = unique \cup (rows \ Usable)
       /\ ignored' = Ignore("duplicate_fixture",
                            Cardinality(Usable) - Cardinality(unique))
  /\ pc' = IF Usable = {} THEN "plan" ELSE "leagues"
  /\ UNCHANGED <<day, received, catalogue, plan, valid, retained, left, client,
                 causes, codes, tables, fatal, record>>

LeaguesReceived ==
  /\ pc = "leagues"
  /\ \E unusable \in BOOLEAN : EnvelopeReceived(unusable)
  /\ catalogue' = TRUE
  /\ pc' = "plan"
  /\ UNCHANGED <<day, rows, funnel, left, fatal, record>>

LeaguesFail ==
  /\ pc = "leagues"
  /\ \E cause \in Causes : RequestFails(cause)
  /\ pc' = "plan"
  /\ UNCHANGED <<day, rows, catalogue, funnel, left, fatal, record>>

Listed(c) == IF catalogue THEN Coverage[c].listing ELSE "missing"
Standings(c) == Coverage[c].standings
Statistics(c) == Coverage[c].statistics

\* Why the plan leaves a row out, "scheduled" when it does not.
Verdict(row) ==
  LET c == CompOf[row.fixture] IN
  CASE row.fate # "scheduled"            -> row.fate
    [] Listed(c) = "missing"             -> "competition_metadata_unavailable"
    [] Listed(c) = "season_missing"      -> "season_metadata_unavailable"
    [] Listed(c) = "cup"                 -> "competition_type_unsupported"
    [] ~Standings(c) /\ ~Statistics(c)   -> "insufficient_data_coverage"
    [] OTHER                             -> "scheduled"

Candidate(c) == {row.fixture : row \in {r \in rows :
                   Verdict(r) = "scheduled" /\ CompOf[r.fixture] = c}}

\* The key by which candidates are sorted.
Rank(c) ==
  IF \E i \in DOMAIN Priority : Priority[i] = c
  THEN CHOOSE i \in DOMAIN Priority : Priority[i] = c
  ELSE Len(Priority) + 1
Key(c) ==
  <<Rank(c), IF Statistics(c) THEN 0 ELSE 1, IF Standings(c) THEN 0 ELSE 1,
    -Cardinality(Candidate(c)), c>>
Precedes(a, b) ==
  \E i \in 1..5 : /\ Key(a)[i] < Key(b)[i]
                  /\ \A j \in 1..(i - 1) : Key(a)[j] = Key(b)[j]

\* enrichment_request_cost.
Cost(c) == 2 + (IF Standings(c) THEN 1 ELSE 0)

\* Variant for mutation: every competition is compared with the whole budget.
NotDeducted(budget, c) == budget

\* What a competition selected leaves of the budget.
Deducted(budget, c) == budget - Cost(c)

\* How many fixtures a competition left out makes ignored.
LeftOut(c) == Cardinality(Candidate(c))

\* The selection, one candidate at a time: what is selected, what is left of the
\* budget, what is left out and why.
Select(chosen, c) ==
  LET reserve == IF chosen.plan = <<>> THEN 0 ELSE 1 IN
     CASE Len(chosen.plan) >= MaxCompetitions ->
            [chosen EXCEPT !.limited = @ + LeftOut(c)]
       [] Len(chosen.plan) < MaxCompetitions /\ Cost(c) + reserve > chosen.budget ->
            [chosen EXCEPT !.unaffordable = @ + LeftOut(c)]
       [] OTHER ->
            [chosen EXCEPT !.plan = Append(@, [comp |-> c, fixtures |-> Candidate(c)]),
                           !.budget = Deducted(@, c)]
\* The candidates, sorted.
Candidates == {c \in Comps : Candidate(c) # {}}
Order ==
  CHOOSE order \in SetToSeqs(Candidates) :
    \A i, j \in DOMAIN order : i < j => Precedes(order[i], order[j])
Chosen ==
  FoldLeft(Select,
           [plan |-> <<>>, budget |-> Remaining, limited |-> 0, unaffordable |-> 0],
           Order)

\* build_discovery_plan; the rows are not needed any more.
Plan ==
  /\ pc = "plan"
  /\ plan' = Chosen.plan
  /\ ignored' = [reason \in Reason |->
       ignored[reason] + Cardinality({row \in rows : Verdict(row) = reason})
         + (CASE reason = "competition_limit" -> Chosen.limited
              [] reason = "request_budget_competition_limit" -> Chosen.unaffordable
              [] OTHER -> 0)]
  /\ rows' = {}
  /\ pc' = IF Chosen.plan = <<>> THEN "pairs" ELSE "teams"
  /\ UNCHANGED <<day, received, catalogue, valid, retained, left, client, causes,
                 codes, tables, fatal, record>>

-----------------------------------------------------------------------------
(* _enrich_discovery_competition, for the first competition of the plan.     *)

Competition == Head(plan)

\* The next competition of the plan, or what follows the loop.
NextCompetition ==
  /\ plan' = Tail(plan)
  /\ valid' = {}
  /\ pc' = IF Len(plan) = 1 THEN "pairs" ELSE "teams"

\* A competition given up because of a failed request: the loop ends when the
\* cause is one that blocks.
GiveUp(cause) ==
  IF cause \in Blocking
  THEN plan' = Tail(plan) /\ valid' = {} /\ pc' = "pairs"
  ELSE NextCompetition

TeamsReceived ==
  /\ pc = "teams"
  /\ \E unusable \in BOOLEAN : EnvelopeReceived(unusable)
  /\ \E known \in SUBSET Competition.fixtures :
       /\ ignored' = Ignore("team_metadata_unavailable",
                            Cardinality(Competition.fixtures \ known))
       /\ IF known = {}
          THEN NextCompetition
          ELSE valid' = known /\ pc' = "history" /\ UNCHANGED plan
  /\ UNCHANGED <<day, rows, received, catalogue, retained, left, fatal, record>>

TeamsFail ==
  /\ pc = "teams"
  /\ \E cause \in Causes : RequestFails(cause) /\ GiveUp(cause)
  /\ ignored' = Ignore("team_metadata_unavailable",
                       Cardinality(Competition.fixtures))
  /\ UNCHANGED <<day, rows, received, catalogue, retained, left, fatal, record>>

\* Variant for mutation: every candidate is counted again.
CandidatesAgain == Competition.fixtures

\* The fixtures that a failed request for the recent results leaves aside.
WithoutHistory == valid

HistoryReceived ==
  /\ pc = "history"
  /\ \E unusable \in BOOLEAN : EnvelopeReceived(unusable)
  /\ \E enough \in SUBSET valid :
       /\ ignored' = Ignore("insufficient_recent_results",
                            Cardinality(valid \ enough))
       /\ IF enough = {}
          THEN NextCompetition
          ELSE /\ valid' = enough
               /\ pc' = IF Standings(Competition.comp) THEN "standings" ELSE "store"
               /\ UNCHANGED plan
  /\ UNCHANGED <<day, rows, received, catalogue, retained, left, fatal, record>>

HistoryFails ==
  /\ pc = "history"
  /\ \E cause \in Causes : RequestFails(cause) /\ GiveUp(cause)
  /\ ignored' = Ignore("recent_results_unavailable", Cardinality(WithoutHistory))
  /\ UNCHANGED <<day, rows, received, catalogue, retained, left, fatal, record>>

\* The standings are optional: their failure is noted and changes nothing else.
StandingsRequest ==
  /\ pc = "standings"
  /\ \/ \E unusable \in BOOLEAN : EnvelopeReceived(unusable)
     \/ \E cause \in Causes : RequestFails(cause)
  /\ pc' = "store"
  /\ UNCHANGED <<day, rows, catalogue, funnel, left, fatal, record>>

\* _insert_discovery_rows: a row that is already there counts as a duplicate,
\* the others are inserted.
Insert(n, fixtures) ==
  /\ inserted' = inserted + n
  /\ pending' = [pending EXCEPT !.rows = @ + n,
                                !.fixtures = @ \cup fixtures]

\* The rows of the competition, its season, its teams, the fixtures retained,
\* their history and the standings: any of them may be there already, and what
\* is new beside the fixtures counts as one row.
Store ==
  /\ pc = "store"
  /\ \E n \in 0..(Cardinality(valid) + 1) : Insert(n, valid)
  /\ pc' = "commit"
  /\ UNCHANGED <<day, rows, catalogue, funnel, left, client, causes, codes, db,
                 fatal, record>>

\* Variant for mutation: the commit is left to the end of the synchronisation.
CommitAtTheEnd ==
  /\ pc = "commit"
  /\ retained' = retained \cup valid
  /\ NextCompetition
  /\ UNCHANGED <<day, rows, received, catalogue, ignored, left, client, causes,
                 codes, tables, fatal, record>>

Commit ==
  /\ pc = "commit"
  /\ db' = Committed(pending)
  /\ pending' = Nothing
  /\ retained' = retained \cup valid
  /\ NextCompetition
  /\ UNCHANGED <<day, rows, received, catalogue, ignored, left, client, causes,
                 codes, inserted, fatal, record>>

-----------------------------------------------------------------------------
(* _enrich_missing_h2h: one turn for each pair of teams of the fixtures      *)
(* retained that is not known well enough and within the cap.                *)

Pairs ==
  /\ pc = "pairs"
  /\ left' \in 0..Least(Cardinality(retained), MaxH2H)
  /\ pc' = "h2h"
  /\ UNCHANGED <<day, rows, catalogue, funnel, client, causes, codes, tables,
                 fatal, record>>

\* An answer whose rows are inserted and committed at once; n of them are new.
StoredAtOnce(n) ==
  /\ Answered
  /\ \E unusable \in BOOLEAN :
       /\ codes' = IF unusable THEN codes \cup {"invalid_row"} ELSE codes
       /\ db' = [Committed(WithErrors(IF unusable THEN {"invalid_row"} ELSE {}))
                   EXCEPT !.rows = @ + n]
  /\ inserted' = inserted + n
  /\ pending' = Nothing
  /\ UNCHANGED causes

\* Whatever becomes of the request, the next pair follows.
HeadToHead ==
  /\ pc = "h2h"
  /\ left > 0
  /\ Remaining > 0
  /\ \/ \E n \in {0, 1} : StoredAtOnce(n)
     \/ \E cause \in Causes : RequestFails(cause)
  /\ left' = left - 1
  /\ UNCHANGED <<pc, day, rows, catalogue, funnel, fatal, record>>

-----------------------------------------------------------------------------
(* Statistics and events of past matches of the competitions retained, as    *)
(* far as the remaining requests go.                                         *)

Covered == {c \in Comps : Statistics(c) /\ \E f \in retained : CompOf[f] = c}
EventsWanted == \E c \in Covered : Coverage[c].events

\* How many past matches the remaining requests allow.
StatisticsLimit == IF EventsWanted THEN Remaining \div 2 ELSE Remaining

HeadToHeadEnds ==
  /\ pc = "h2h"
  /\ left = 0 \/ Remaining = 0
  /\ \E wanted \in IF Covered = {} THEN {0} ELSE 0..MaxHistory :
       left' = Least(wanted, StatisticsLimit)
  /\ pc' = "statistics"
  /\ UNCHANGED <<day, rows, catalogue, funnel, client, causes, codes, tables,
                 fatal, record>>

\* No row: nothing is inserted and nothing committed.
NoStatistics ==
  /\ pc = "statistics"
  /\ left > 0
  /\ \E unusable \in BOOLEAN : EnvelopeReceived(unusable)
  /\ left' = left - 1
  /\ UNCHANGED <<pc, day, rows, catalogue, funnel, fatal, record>>

\* The statistics are stored; the events of the match follow when it has some
\* and a request is left for them.
StatisticsReceived ==
  /\ pc = "statistics"
  /\ left > 0
  /\ \E n \in {0, 1} : StoredAtOnce(n)
  /\ \/ EventsWanted /\ Remaining' > 0 /\ pc' = "events" /\ left' = left
     \/ pc' = pc /\ left' = left - 1
  /\ UNCHANGED <<day, rows, catalogue, funnel, fatal, record>>

StatisticsFail ==
  /\ pc = "statistics"
  /\ left > 0
  /\ \E cause \in Causes : RequestFails(cause)
  /\ left' = 0
  /\ UNCHANGED <<pc, day, rows, catalogue, funnel, fatal, record>>

EventsRequest ==
  /\ pc = "events"
  /\ \/ \E n \in {0, 1} : StoredAtOnce(n)
     \/ \E unusable \in BOOLEAN : EnvelopeReceived(unusable)
     \/ \E cause \in Causes : RequestFails(cause)
  /\ left' = left - 1
  /\ pc' = "statistics"
  /\ UNCHANGED <<day, rows, catalogue, funnel, fatal, record>>

StatisticsEnd ==
  /\ pc = "statistics"
  /\ left = 0
  /\ pc' = "finish"
  /\ UNCHANGED <<day, rows, catalogue, funnel, left, client, causes, codes,
                 tables, fatal, record>>

-----------------------------------------------------------------------------
(* The end of a synchronisation.                                             *)

InTry == pc \notin {"new", "failed", "finish"} \cup Stopped

\* Any other exception, in a call, in the normalisation or in the database: the
\* transaction is rolled back, the counters are not.  It may come after an
\* insertion or the fixtures of a date were counted; the client is not used again.
Raise ==
  /\ InTry
  /\ pending' = Nothing
  /\ received' \in {received} \cup (IF pc = "dates" THEN {received + MaxRows} ELSE {})
  /\ inserted' \in {inserted, inserted + 1}
  /\ inserted' = inserted \/ pc \in {"store", "h2h", "statistics", "events"}
  /\ fatal' = TRUE
  /\ pc' = "failed"
  /\ UNCHANGED <<day, rows, catalogue, ignored, plan, valid, retained, left,
                 client, causes, codes, db, record>>

\* The error is noted, recorded and committed.
RecordFailure ==
  /\ pc = "failed"
  /\ codes' = codes \cup {"internal"}
  /\ db' = Committed(WithErrors({"internal"}))
  /\ pending' = Nothing
  /\ pc' = "finish"
  /\ UNCHANGED <<day, rows, catalogue, funnel, left, client, causes, inserted,
                 fatal, record>>

\* Variant for mutation: an internal error counts as any other error.
StatusWithoutFatal ==
  IF causes # {} /\ retained = {} THEN "FAILED"
  ELSE IF codes # {} THEN "PARTIAL" ELSE "SUCCEEDED"

FinalStatus ==
  IF fatal \/ (causes # {} /\ retained = {}) THEN "FAILED"
  ELSE IF codes # {} THEN "PARTIAL" ELSE "SUCCEEDED"

\* The reasons behind each count of rejected fixtures, in the order in which they are
\* counted.  Of the rows that are not usable, those without an identifier stand for all.
FunnelReasons ==
  <<{"competition_metadata_unavailable", "competition_type_unsupported",
     "competition_limit", "request_budget_competition_limit"},
    {"season_metadata_unavailable"},
    {"fixture_status_not_scheduled"},
    {"fixture_not_future"},
    {"team_metadata_unavailable"},
    {"insufficient_data_coverage", "recent_results_unavailable",
     "insufficient_recent_results"},
    {"duplicate_fixture"}>>

IgnoredFor(reasons) == SumFunctionOnSet(ignored, reasons)

\* build_retention_funnel: a count takes no more than those before it have left, and what
\* nothing explains is other.
RetentionFunnel ==
  LET remaining == received - Cardinality(retained)
      asked(i) == IgnoredFor(UNION {FunnelReasons[j] : j \in 1..i})
      taken(i) == IF asked(i) < remaining THEN asked(i) ELSE remaining
  IN  [rejected |-> [i \in DOMAIN FunnelReasons |-> taken(i) - taken(i - 1)],
       other    |-> remaining - taken(Len(FunnelReasons))]

\* The funnel is built, finish_run writes the record, all is committed.
Finish ==
  /\ pc = "finish"
  /\ record' = [status |-> FinalStatus, inserted |-> inserted]
  /\ db' = Committed(pending)
  /\ pending' = Nothing
  /\ pc' = "done"
  /\ UNCHANGED <<day, rows, catalogue, funnel, left, client, causes, codes,
                 inserted, fatal>>

\* An error where nothing catches it: the command ends, the transaction with it.
Abort ==
  /\ pc \in {"new", "failed", "finish"}
  /\ pending' = Nothing
  /\ pc' = "aborted"
  /\ UNCHANGED <<day, rows, catalogue, funnel, left, client, causes, codes,
                 inserted, db, fatal, record>>

\* A step's timeout cancels the synchronisation, or its process is killed.
Stop ==
  /\ pc \notin Stopped
  /\ pending' = Nothing
  /\ pc' = "stopped"
  /\ UNCHANGED <<day, rows, catalogue, funnel, left, client, causes, codes,
                 inserted, db, fatal, record>>

Work ==
  \/ Start
  \/ DateReceived \/ DateFails \/ Dedupe
  \/ LeaguesReceived \/ LeaguesFail \/ Plan
  \/ TeamsReceived \/ TeamsFail
  \/ HistoryReceived \/ HistoryFails
  \/ StandingsRequest \/ Store \/ Commit
  \/ Pairs \/ HeadToHead \/ HeadToHeadEnds
  \/ NoStatistics \/ StatisticsReceived \/ StatisticsFail
  \/ EventsRequest \/ StatisticsEnd
  \/ Raise \/ RecordFailure \/ Finish \/ Abort

\* A stopped synchronisation does nothing more.
Stay == pc \in Stopped /\ UNCHANGED vars

Next == Work \/ Stop \/ Stay

Spec == Init /\ [][Next]_vars
-----------------------------------------------------------------------------
(* Properties.                                                               *)

\* The state of a synchronisation has the types of the code.
TypeOK ==
  /\ pc \in Phase
  /\ day \in 0..Days
  /\ rows \subseteq Row
  /\ received \in Nat
  /\ catalogue \in BOOLEAN
  /\ ignored \in [Reason -> Nat]
  /\ plan \in Seq([comp : Comps, fixtures : SUBSET Fixtures])
  /\ valid \subseteq Fixtures
  /\ retained \subseteq Fixtures
  /\ left \in Nat
  /\ used \in 0..MaxRequests
  /\ quota \in Quotas \cup {[daily |-> NoQuota, minute |-> NoQuota]}
  /\ causes \subseteq Causes
  /\ codes \subseteq Codes
  /\ inserted \in Nat
  /\ pending \in Written
  /\ db \in Written
  /\ fatal \in BOOLEAN
  /\ record \in [status : {"none", "RUNNING", "SUCCEEDED", "PARTIAL", "FAILED"},
                 inserted : Nat]

\* Fixtures of the plan on which nothing is decided yet, or ever after a failure
\* that ends the enrichment.
Undecided(i) ==
  IF i = 1 /\ valid # {} THEN Cardinality(valid) ELSE Cardinality(plan[i].fixtures)
Unreached == Sum([i \in DOMAIN plan |-> Undecided(i)])

\* Whatever fails in between, the funnel reconciles: each fixture received is
\* retained, ignored for exactly one reason, still to be planned, or in a
\* competition that was never reached.  After an internal error some may be
\* missing, and none is counted twice: build_retention_funnel never has to cut a count.
EveryFixtureAccounted ==
  LET accounted == Sum(ignored) + Cardinality(retained) + Cardinality(rows) + Unreached
  IN  /\ IF fatal THEN accounted <= received ELSE accounted = received
      /\ pc = "finish" =>
           LET rejected == RetentionFunnel.rejected IN
           \A i \in DOMAIN rejected : rejected[i] = IgnoredFor(FunnelReasons[i])

\* What a synchronisation retains is in the database, even if it fails later or
\* is cancelled.
RetainedAreStored == retained \subseteq db.fixtures

\* A synchronisation that did not fail tells the truth about the rows it added:
\* every insertion it counted was committed.
TruthfulRecord ==
  record.status \in {"SUCCEEDED", "PARTIAL"} => record.inserted = db.rows

\* Success means that every date was received, every competition of the plan
\* enriched, and every fixture retained or rejected for a reason of its own.
SuccessMeansComplete ==
  record.status = "SUCCEEDED" =>
    /\ day = Days
    /\ causes = {}
    /\ RetentionFunnel.other = 0

\* Each failure of a call is recorded at once and for good; when no internal
\* error intervened, so is everything else that the status reflects.
ErrorsAreRecorded ==
  /\ causes \subseteq db.errors
  /\ record.status \in {"SUCCEEDED", "PARTIAL"} => codes \subseteq db.errors

\* What a plan selects, all of it, can be asked for with what the budget and both quotas
\* have left, and a plan of several competitions leaves a request for the head-to-head.
PlanFitsBudget ==
  [][pc = "plan" /\ plan' # <<>> =>
       Sum([i \in DOMAIN plan' |-> Cost(plan'[i].comp)])
         + (IF Len(plan') > 1 THEN 1 ELSE 0) <= Remaining]_vars
=============================================================================
