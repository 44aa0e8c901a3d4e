--------------------------- MODULE ObservationStore ---------------------------
(***************************************************************************)
(* The table api_football_matches: the writer that fills it (the services  *)
(* of apps/api/app/modules/sports_data through SportsRepository) and the   *)
(* readers of apps/api/app/modules/kairos/repository.py, who see what was  *)
(* known at an instant as_of.                                              *)
(*                                                                         *)
(* Times are those of one clock.  fetched_at is when an answer arrived     *)
(* (available_at is the same instant); created_at is a column default,     *)
(* now(), which PostgreSQL freezes at the first statement of a transaction.*)
(* What the writer asks for and in which order is the subject of module    *)
(* DailyDiscovery; here it may receive, note, store, commit and fail in    *)
(* any order.                                                              *)
(***************************************************************************)
EXTENDS Integers, FiniteSets

CONSTANTS
  Matches,   \* provider_match_id
  Reports,   \* what the provider may say of a match
  Scores,    \* the scores in these reports
  MaxTime,   \* bound: the last instant of the clock
  MaxRows,   \* bound: observations received
  MaxBatch   \* bound: rows received and not committed yet

Time == 0..MaxTime
Status == {"scheduled", "completed", "other"}
Report == [kickoff : Nat, status : Status, score : Scores]

ASSUME StoreAssumption ==
  /\ MaxTime \in Nat
  /\ MaxRows \in Nat
  /\ MaxBatch \in Nat
  /\ Reports \subseteq Report

VARIABLES
  clock,
  answers,      \* rows received and normalised, not yet inserted
  opened,       \* when the writer's transaction began, Closed outside of one
  written,      \* what that transaction has inserted
  observations  \* the committed rows

Closed == -1
writer == <<answers, opened, written>>
store == <<clock, answers, opened, written, observations>>

Answer == [match : Matches, report : Report, fetched : Time]
Observation == [match : Matches, report : Report, fetched : Time, created : Time]

StoreTypeOK ==
  /\ clock \in Time
  /\ answers \subseteq Answer
  /\ opened \in Time \cup {Closed}
  /\ written \subseteq Observation
  /\ observations \subseteq Observation

StoreInit ==
  /\ clock = 0
  /\ answers = {}
  /\ opened = Closed
  /\ written = {}
  /\ observations = {}

\* An answer of the provider arrives; whether a transaction is open does not matter.
Receive ==
  /\ Cardinality(answers) + Cardinality(written) < MaxBatch
  /\ Cardinality(answers) + Cardinality(written) + Cardinality(observations) < MaxRows
  /\ \E match \in Matches, report \in Reports :
       answers' = answers \cup {[match |-> match, report |-> report, fetched |-> clock]}
  /\ UNCHANGED <<clock, opened, written, observations>>

\* Variant for mutation: a statement is taken to find a transaction open.
AlreadyBegun == opened

\* The first statement of a transaction begins it.
Began == IF opened = Closed THEN clock ELSE opened

\* record_error, for rows that could not be normalised: a statement, no commit.
NoteRejected ==
  /\ opened' = Began
  /\ UNCHANGED <<clock, answers, written, observations>>

\* The defaults of the table.
Stamped(answer) ==
  [match |-> answer.match, report |-> answer.report, fetched |-> answer.fetched,
   created |-> Began]

\* insert_result, for some of the rows received.  A row whose answer is, byte for
\* byte, one that was stored before is left out: only rows that say the same can be.
Insert ==
  \E batch \in SUBSET answers :
    /\ batch # {}
    /\ \E duplicate \in SUBSET {a \in batch : \E o \in observations \cup written :
                                  o.match = a.match /\ o.report = a.report} :
         written' = written \cup {Stamped(a) : a \in batch \ duplicate}
    /\ answers' = answers \ batch
    /\ opened' = Began
    /\ UNCHANGED <<clock, observations>>

CommitRows ==
  /\ opened # Closed
  /\ observations' = observations \cup written
  /\ written' = {}
  /\ opened' = Closed
  /\ UNCHANGED <<clock, answers>>

\* The synchronisation ends on an error: what it has not committed is lost.
Rollback ==
  /\ answers' = {}
  /\ written' = {}
  /\ opened' = Closed
  /\ UNCHANGED <<clock, observations>>

Tick ==
  /\ clock < MaxTime
  /\ clock' = clock + 1
  /\ UNCHANGED <<writer, observations>>

StoreNext == Receive \/ NoteRejected \/ Insert \/ CommitRows \/ Rollback \/ Tick

-----------------------------------------------------------------------------
(* Readers.                                                                  *)

\* Variant for mutation: what was fetched by asOf, whenever it was stored.
FetchedBy(asOf) == {o \in observations : o.fetched <= asOf}

\* What a reader admits at asOf.
Known(asOf) == {o \in observations : o.fetched <= asOf /\ o.created <= asOf}

\* The order in which observations of a match are ranked.
Newer(a, b) ==
  a.fetched > b.fetched \/ (a.fetched = b.fetched /\ a.created > b.created)

\* The row that ROW_NUMBER puts first, or one of those the times do not tell apart.
Ranked(o, rows) == ~\E p \in rows : p.match = o.match /\ Newer(p, o)

\* build_latest_as_of_subquery with rank 1, among rows: one row of each match, the
\* newest, whichever it is when the times do not tell.
Latest(rows) ==
  {latest \in SUBSET {o \in rows : Ranked(o, rows)} :
     \A o \in rows : Cardinality({l \in latest : l.match = o.match}) = 1}

\* The assertion of KairosMatchDataset.validate_temporal_integrity, of every row of
\* the table: an observation is stored after it was fetched.
StoredInOrder == \A o \in observations : o.fetched <= o.created
=============================================================================
