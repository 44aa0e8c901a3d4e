---------------------------- MODULE KairosJournal ----------------------------
(***************************************************************************)
(* The analytical journal: the commands snapshot and resolve of            *)
(* urim-kairos-journal (apps/api/app/cli/kairos_journal.py, modules/kairos/*)
(* journal.py) and the tables, constraints and triggers of its migration   *)
(* (alembic/versions/202607280001_kairos_b2_4_analysis_journal.py).        *)
(*                                                                         *)
(* Commands run side by side, by hand or in the threads of the daily       *)
(* routine, while the writer of the observations goes on.  Each is one     *)
(* transaction at the level READ COMMITTED: a statement sees what is       *)
(* committed when it starts, and ON CONFLICT DO NOTHING waits for the      *)
(* transaction that has inserted the same key.                             *)
(***************************************************************************)
EXTENDS ObservationStore

CONSTANTS
  Commands,   \* executions of the command line
  Markets,    \* markets for which an analysis may be allowed
  Windows,    \* business dates, as the sets of kickoffs that fall on them
  Missing,    \* a score that is not known
  MaxTargets, \* MAX_DAILY_TARGET_MATCHES
  MaxSettled  \* RESOLUTION_LIMIT

HalfTime == {"FIRST_HALF_MORE_GOALS", "SECOND_HALF_MORE_GOALS", "EQUAL_HALF_GOALS",
             "FIRST_HALF_OVER_0_5", "SECOND_HALF_OVER_0_5", "SECOND_HALF_OVER_1_5"}
DoubleChance == {"HOME_OR_DRAW", "AWAY_OR_DRAW", "HOME_OR_AWAY"}
Outcomes == {"SUCCESS", "FAILURE", "VOID"}
Score == [halfHome : Int \cup {Missing}, halfAway : Int \cup {Missing},
          fullHome : Int \cup {Missing}, fullAway : Int \cup {Missing}]

ASSUME JournalAssumption ==
  /\ Markets \subseteq HalfTime \cup DoubleChance
  /\ Windows \subseteq SUBSET Nat
  /\ Missing \notin Int
  /\ Scores \subseteq Score
  /\ MaxTargets \in Nat /\ MaxSettled \in Nat

VARIABLES
  pc,          \* where each command is
  now,         \* utc_now() of the command
  began,       \* when its transaction began
  window,      \* its --date
  targets,     \* snapshot: observations left to analyse
  due,         \* resolve: resolutions to insert
  drafts,      \* entries that its transaction has inserted
  settling,    \* resolutions that its transaction has inserted
  inserted,    \* what it counts as inserted
  reported,    \* the total of what the summaries of commands report as inserted
  journal,     \* kairos_analysis_journal
  resolutions  \* kairos_analysis_resolutions

results == <<reported, journal, resolutions>>
vars == <<store, pc, now, began, window, targets, due, drafts, settling, inserted,
          results>>

\* analysis_id: a name for the match, the market and a hash that covers the
\* observations of the analysis and its as_of.
Analysis == [source : Observation, market : Markets, asOf : Time]
Entry == [analysis : Analysis, created : Time]
Resolution == [analysis : Analysis, outcome : Outcomes, observation : Observation,
               resolvedAt : Time, created : Time]
Kickoff(analysis) == analysis.source.report.kickoff

Init ==
  /\ StoreInit
  /\ pc = [c \in Commands |-> "idle"]
  /\ now = [c \in Commands |-> 0]
  /\ began = [c \in Commands |-> 0]
  /\ window = [c \in Commands |-> {}]
  /\ targets = [c \in Commands |-> {}]
  /\ due = [c \in Commands |-> {}]
  /\ drafts = [c \in Commands |-> {}]
  /\ settling = [c \in Commands |-> {}]
  /\ inserted = [c \in Commands |-> 0]
  /\ reported = 0
  /\ journal = {}
  /\ resolutions = {}

-----------------------------------------------------------------------------
(* The outcome of an analysis.                                               *)

InRange(goals) == goals = Missing \/ goals \in 0..100

\* The score does not decide the market.
Undecided(market, s) ==
  \/ \E goals \in {s.halfHome, s.halfAway, s.fullHome, s.fullAway} : ~InRange(goals)
  \/ Missing \in {s.fullHome, s.fullAway}
  \/ market \in HalfTime /\ (\/ Missing \in {s.halfHome, s.halfAway}
                             \/ s.halfHome + s.halfAway > s.fullHome + s.fullAway)

FirstHalf(s) == s.halfHome + s.halfAway
SecondHalf(s) == s.fullHome + s.fullAway - FirstHalf(s)

Won(market, s) ==
  \/ market = "HOME_OR_DRAW" /\ s.fullHome >= s.fullAway
  \/ market = "AWAY_OR_DRAW" /\ s.fullAway >= s.fullHome
  \/ market = "HOME_OR_AWAY" /\ s.fullHome # s.fullAway
  \/ market = "FIRST_HALF_MORE_GOALS" /\ FirstHalf(s) > SecondHalf(s)
  \/ market = "SECOND_HALF_MORE_GOALS" /\ SecondHalf(s) > FirstHalf(s)
  \/ market = "EQUAL_HALF_GOALS" /\ FirstHalf(s) = SecondHalf(s)
  \/ market = "FIRST_HALF_OVER_0_5" /\ FirstHalf(s) >= 1
  \/ market = "SECOND_HALF_OVER_0_5" /\ SecondHalf(s) >= 1
  \/ market = "SECOND_HALF_OVER_1_5" /\ SecondHalf(s) >= 2

\* evaluate_market_outcome.
MarketOutcome(market, s) ==
  IF Undecided(market, s) THEN "VOID"
  ELSE IF Won(market, s) THEN "SUCCESS" ELSE "FAILURE"

\* Variant for mutation: only the kickoff is compared.
KickoffMoved(analysis, o) == o.report.kickoff <= analysis.asOf

\* temporal_mismatch: the match was played before its analysis, or its result was
\* known before the kickoff of the analysis.
TemporalMismatch(analysis, o) ==
  \/ o.report.kickoff <= analysis.asOf
  \/ o.fetched < Kickoff(analysis)

\* _resolution_value.
OutcomeOf(analysis, o) ==
  IF TemporalMismatch(analysis, o) THEN "VOID"
  ELSE MarketOutcome(analysis.market, o.report.score)

-----------------------------------------------------------------------------
(* What the database admits.                                                 *)

\* Variant for mutation: the CHECK does not look at the kickoff.
NotInThePast(e) == e.analysis.asOf <= e.created

\* ck_kairos_analysis_journal_pre_match.
EntryAdmitted(e) == e.analysis.asOf <= e.created /\ e.created < Kickoff(e.analysis)

\* A JSON value that matches '^[0-9]+$' and is not above 100.
Readable(goals) == goals # Missing /\ goals >= 0 /\ goals <= 100

\* The trigger does not raise an exception before it compares outcomes.
Decidable(market, s) ==
  /\ Readable(s.fullHome) /\ Readable(s.fullAway)
  /\ market \notin DoubleChance =>
       /\ Readable(s.halfHome) /\ Readable(s.halfAway)
       /\ s.halfHome + s.halfAway <= s.fullHome + s.fullAway
       /\ market \in HalfTime

\* The conditions of the trigger's CASE, which come to SUCCESS.
Expects(market, s) ==
  LET played == s.fullHome + s.fullAway
      first  == s.halfHome + s.halfAway
  IN \/ market = "HOME_OR_DRAW" /\ s.fullHome >= s.fullAway
     \/ market = "AWAY_OR_DRAW" /\ s.fullAway >= s.fullHome
     \/ market = "HOME_OR_AWAY" /\ s.fullHome # s.fullAway
     \/ market = "FIRST_HALF_MORE_GOALS" /\ first > played - first
     \/ market = "SECOND_HALF_MORE_GOALS" /\ played - first > first
     \/ market = "EQUAL_HALF_GOALS" /\ first = played - first
     \/ market = "FIRST_HALF_OVER_0_5" /\ first >= 1
     \/ market = "SECOND_HALF_OVER_0_5" /\ played - first >= 1
     \/ market = "SECOND_HALF_OVER_1_5" /\ played - first >= 2

\* expected_outcome of the trigger, which refuses NULL.
Expected(market, s) ==
  IF ~Decidable(market, s) THEN "NULL"
  ELSE IF Expects(market, s) THEN "SUCCESS" ELSE "FAILURE"

\* enforce_kairos_analysis_resolution_integrity and the temporal CHECK; the key of
\* the analysis is a foreign key, its market and match come with it.
ResolutionAdmitted(r) ==
  /\ \E e \in journal : e.analysis = r.analysis
  /\ r.resolvedAt > Kickoff(r.analysis)
  /\ r.outcome # "VOID" =>
       /\ r.observation.fetched >= Kickoff(r.analysis)
       /\ r.outcome = Expected(r.analysis.market, r.observation.report.score)
  /\ r.observation.fetched <= r.resolvedAt /\ r.resolvedAt <= r.created

\* The rows of new whose key nobody has used.
Fresh(new, used) == {n \in new : ~\E u \in used : u.analysis = n.analysis}

\* Variant for mutation: a key is looked up, and not waited for.
NoWait(c, new, uncommitted) == FALSE

\* Another transaction has inserted one of the keys and is not over: the
\* statement waits.
Waits(c, new, uncommitted) ==
  \E d \in Commands \ {c} : \E n \in new, u \in uncommitted[d] :
    n.analysis = u.analysis

-----------------------------------------------------------------------------
(* The commands.                                                             *)

\* run_command reads the clock, then opens its session.
Start(c) ==
  /\ pc[c] = "idle"
  /\ \E name \in {"snapshot", "resolve"} : pc' = [pc EXCEPT ![c] = name]
  /\ \E date \in Windows : window' = [window EXCEPT ![c] = date]
  /\ now' = [now EXCEPT ![c] = clock]
  /\ UNCHANGED <<store, began, targets, due, drafts, settling, inserted,
                 results>>

\* LIMIT n.
Fills(top, rows, n) ==
  Cardinality(top) = IF Cardinality(rows) < n THEN Cardinality(rows) ELSE n

KicksOffBefore(a, b) ==
  \/ a.report.kickoff < b.report.kickoff
  \/ a.report.kickoff = b.report.kickoff /\ a.match < b.match

\* The first rows by kickoff and match.
FirstTargets(rows) ==
  {top \in SUBSET rows : /\ Fills(top, rows, MaxTargets)
                         /\ \A a \in top, b \in rows \ top : ~KicksOffBefore(b, a)}

\* list_target_matches_as_of: the rows of the date are ranked among themselves.
ListTargets(c) ==
  /\ pc[c] = "snapshot"
  /\ \E latest \in Latest({o \in Known(now[c]) : o.report.kickoff \in window[c]}) :
     \E top \in FirstTargets({o \in latest : /\ o.report.kickoff > now[c]
                                            /\ o.report.status = "scheduled"}) :
       targets' = [targets EXCEPT ![c] = top]
  /\ began' = [began EXCEPT ![c] = clock]
  /\ pc' = [pc EXCEPT ![c] = "analyse"]
  /\ UNCHANGED <<store, now, window, due, drafts, settling, inserted, results>>

\* The target whose turn it is.
IsNext(c, o) ==
  pc[c] = "analyse" /\ o \in targets[c] /\ ~\E p \in targets[c] : KicksOffBefore(p, o)

\* The target is blocked, for a reason in its own observation or in those of the
\* teams' matches, or its analysis is not allowed: nothing is written.
Pass(c) ==
  /\ \E o \in targets[c] :
       /\ IsNext(c, o)
       /\ targets' = [targets EXCEPT ![c] = @ \ {o}]
  /\ UNCHANGED <<store, pc, now, began, window, due, drafts, settling, inserted,
                 results>>

\* A primary analysis and at most one alternative, of the other group.
Candidates ==
  {chosen \in SUBSET Markets :
     /\ chosen # {}
     /\ Cardinality(chosen \cap HalfTime) <= 1
     /\ Cardinality(chosen \cap DoubleChance) <= 1}

\* validate_temporal_integrity.
Valid(o, asOf) == o.fetched <= o.created /\ o.created <= asOf /\ asOf < o.report.kickoff

\* _journal_value, with the default of created_at.
EntryOf(c, o, market) ==
  [analysis |-> [source |-> o, market |-> market, asOf |-> now[c]], created |-> began[c]]

\* append_opportunity, for a target whose analysis is allowed.
Append(c) ==
  /\ \E o \in targets[c], chosen \in Candidates :
       LET new   == {EntryOf(c, o, market) : market \in chosen}
           fresh == Fresh(new, journal \cup drafts[c])
       IN /\ IsNext(c, o)
          /\ Valid(o, now[c])
          /\ \A e \in new : EntryAdmitted(e)
          /\ ~Waits(c, new, drafts)
          /\ targets' = [targets EXCEPT ![c] = @ \ {o}]
          /\ drafts' = [drafts EXCEPT ![c] = @ \cup fresh]
          /\ inserted' = [inserted EXCEPT ![c] = @ + Cardinality(fresh)]
  /\ UNCHANGED <<store, pc, now, began, window, due, settling, results>>

\* The command ends, and what it kept in memory and in its transaction goes.
End(c) ==
  /\ pc' = [pc EXCEPT ![c] = "idle"]
  /\ now' = [now EXCEPT ![c] = 0]
  /\ began' = [began EXCEPT ![c] = 0]
  /\ window' = [window EXCEPT ![c] = {}]
  /\ targets' = [targets EXCEPT ![c] = {}]
  /\ due' = [due EXCEPT ![c] = {}]
  /\ drafts' = [drafts EXCEPT ![c] = {}]
  /\ settling' = [settling EXCEPT ![c] = {}]
  /\ inserted' = [inserted EXCEPT ![c] = 0]
  /\ UNCHANGED store

\* The CHECK of the table refuses the entries of a target: nothing catches the error.
AppendRefused(c) ==
  /\ \E o \in targets[c], market \in Markets :
       IsNext(c, o) /\ Valid(o, now[c]) /\ ~EntryAdmitted(EntryOf(c, o, market))
  /\ End(c)
  /\ UNCHANGED results

\* Variant for mutation: a snapshot replaces the earlier entries of its matches.
ReplaceEarlier(c) ==
  /\ pc[c] = "analyse"
  /\ targets[c] = {}
  /\ journal' = drafts[c] \cup {e \in journal : \A d \in drafts[c] :
                   d.analysis.source.match # e.analysis.source.match}
  /\ reported' = reported + inserted[c]
  /\ End(c)
  /\ UNCHANGED resolutions

CommitSnapshot(c) ==
  /\ pc[c] = "analyse"
  /\ targets[c] = {}
  /\ journal' = journal \cup drafts[c]
  /\ reported' = reported + inserted[c]
  /\ End(c)
  /\ UNCHANGED resolutions

\* Variant for mutation: the observation need not say that the match is over.
AnyStatus(c, e, o) ==
  /\ o.match = e.analysis.source.match
  /\ Kickoff(e.analysis) < now[c]
  /\ Kickoff(e.analysis) \in window[c]

\* The match of e, of the date of the command, is over according to o.
IsOver(c, e, o) ==
  /\ o.match = e.analysis.source.match
  /\ Kickoff(e.analysis) < now[c]
  /\ Kickoff(e.analysis) \in window[c]
  /\ o.report.status = "completed"

Unresolved(e) == ~\E r \in resolutions : r.analysis = e.analysis

\* The entries that are not resolved and whose match is over, each with the latest
\* observation of the match.
Completed(c, latest) ==
  {p \in journal \X latest : Unresolved(p[1]) /\ IsOver(c, p[1], p[2])}

\* The first rows by the kickoff of the entry; its analysis_id breaks ties.
FirstDue(rows) ==
  {top \in SUBSET rows :
     /\ Fills(top, rows, MaxSettled)
     /\ \A p \in top, q \in rows \ top : Kickoff(p[1].analysis) <= Kickoff(q[1].analysis)}

\* The query of resolve_completed and the values made from its rows.
SelectCompleted(c) ==
  /\ pc[c] = "resolve"
  /\ \E latest \in Latest(Known(now[c])) :
     \E rows \in FirstDue(Completed(c, latest)) :
       due' = [due EXCEPT ![c] =
         {[analysis |-> p[1].analysis, outcome |-> OutcomeOf(p[1].analysis, p[2]),
           observation |-> p[2], resolvedAt |-> now[c], created |-> clock] : p \in rows}]
  /\ began' = [began EXCEPT ![c] = clock]
  /\ pc' = [pc EXCEPT ![c] = "insert"]
  /\ UNCHANGED <<store, now, window, targets, drafts, settling, inserted, results>>

\* The insertion; the trigger and the CHECKs refuse it as a whole or not at all.
InsertResolutions(c) ==
  LET fresh == Fresh(due[c], resolutions) IN
  /\ pc[c] = "insert"
  /\ \A r \in due[c] : ResolutionAdmitted(r)
  /\ ~Waits(c, due[c], settling)
  /\ settling' = [settling EXCEPT ![c] = fresh]
  /\ inserted' = [inserted EXCEPT ![c] = Cardinality(fresh)]
  /\ pc' = [pc EXCEPT ![c] = "commit"]
  /\ UNCHANGED <<store, now, began, window, targets, due, drafts, results>>

CommitResolve(c) ==
  /\ pc[c] = "commit"
  /\ resolutions' = resolutions \cup settling[c]
  /\ reported' = reported + inserted[c]
  /\ End(c)
  /\ UNCHANGED journal

\* A statement that takes too long or that the database refuses, a lost connection, a
\* killed process.
Fail(c) == pc[c] # "idle" /\ End(c) /\ UNCHANGED results

Command(c) ==
  \/ Start(c)
  \/ ListTargets(c) \/ Pass(c) \/ Append(c) \/ AppendRefused(c) \/ CommitSnapshot(c)
  \/ SelectCompleted(c) \/ InsertResolutions(c) \/ CommitResolve(c)
  \/ Fail(c)

StoreStep ==
  /\ StoreNext
  /\ UNCHANGED <<pc, now, began, window, targets, due, drafts, settling, inserted,
                 results>>

Next == StoreStep \/ \E c \in Commands : Command(c)

Spec == Init /\ [][Next]_vars
-----------------------------------------------------------------------------
(* Properties.                                                               *)

\* The tables and the commands have the types of the code.
TypeOK ==
  /\ StoreTypeOK
  /\ pc \in [Commands -> {"idle", "snapshot", "analyse", "resolve", "insert", "commit"}]
  /\ now \in [Commands -> Time]
  /\ began \in [Commands -> Time]
  /\ window \in [Commands -> Windows \cup {{}}]
  /\ targets \in [Commands -> SUBSET Observation]
  /\ due \in [Commands -> SUBSET Resolution]
  /\ drafts \in [Commands -> SUBSET Entry]
  /\ settling \in [Commands -> SUBSET Resolution]
  /\ inserted \in [Commands -> Nat]
  /\ reported \in Nat
  /\ journal \subseteq Entry
  /\ resolutions \subseteq Resolution

\* Nothing in the journal was analysed with a look at the future: the observation it
\* rests on is in the table and was there at as_of, and the analysis precedes the
\* transaction that stores it, which began before the kickoff.
NoLookAhead ==
  \A e \in journal :
    LET o == e.analysis.source IN
    /\ o \in observations
    /\ o.fetched <= o.created
    /\ o.created <= e.analysis.asOf
    /\ e.analysis.asOf <= e.created
    /\ e.created < o.report.kickoff

\* The trigger and the code agree on the outcome of every analysis and on its times:
\* the database never refuses what a resolution has computed.
ResolutionsAreAdmitted ==
  \A c \in Commands : pc[c] = "insert" => \A r \in due[c] : ResolutionAdmitted(r)

\* A resolution rests on an observation of the match that is in the table, says that
\* it is over and was known when it was resolved; it declares a success or a failure
\* only after a kickoff that followed the analysis, and as the score has it.
OutcomesAreFounded ==
  \A r \in resolutions :
    LET o == r.observation IN
    /\ \E e \in journal : e.analysis = r.analysis
    /\ o \in observations
    /\ o.match = r.analysis.source.match
    /\ o.report.status = "completed"
    /\ o.fetched <= r.resolvedAt /\ o.created <= r.resolvedAt
    /\ r.outcome # "VOID" =>
         /\ r.analysis.asOf < o.report.kickoff
         /\ Kickoff(r.analysis) <= o.fetched
         /\ r.outcome = Expected(r.analysis.market, o.report.score)

\* What the commands report as inserted is what the tables hold, one row for each
\* key, however many commands run at once: no row is reported twice, none is missing.
ReportsAddUp ==
  reported = Cardinality({e.analysis : e \in journal})
               + Cardinality({r.analysis : r \in resolutions})

\* The journal keeps the promise of a ledger: an analysis that is published stays, and
\* is settled once, for good.
Ledger == INSTANCE AnalysisLedger WITH
  Outcomes <- {"SUCCESS", "FAILURE", "VOID"},
  open     <- {e.analysis : e \in journal} \ {r.analysis : r \in resolutions},
  settled  <- {<<r.analysis, r.outcome>> : r \in resolutions}
ImplementsLedger == Ledger!Spec

\* docs/79: snapshot is idempotent.  A second snapshot of a match of which nothing
\* new is known would then add nothing.
SnapshotIdempotent ==
  \A d, e \in journal :
    d.analysis.source = e.analysis.source /\ d.analysis.market = e.analysis.market
      => d = e
=============================================================================
