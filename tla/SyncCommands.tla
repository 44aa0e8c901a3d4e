----------------------------- MODULE SyncCommands -----------------------------
(***************************************************************************)
(* The operator's synchronisation commands                                 *)
(* (apps/api/app/modules/sports_data/sync.py: sync_competitions,           *)
(* sync_seasons, sync_teams, sync_standings, sync_matches_for_date,        *)
(* sync_upcoming, sync_results, sync_statistics and _run, with the exits   *)
(* of cli/sports_sync.py).  A command is a process: it makes a list of     *)
(* requests, asks them one after the other, commits what each brings, and  *)
(* closes its record.  Commands follow one another on the same tables.     *)
(***************************************************************************)
EXTENDS ProviderCalls, Normalization

CONSTANTS
  Priorities,     \* how many priority competitions are configured
  PastMatches,    \* the matches of the window of statistics, numbered by kickoff
  Over,           \* those whose latest observation is completed
  Earlier,        \* the matches that earlier commands have stored statistics of
  MaxCommands     \* bound: commands, one after the other

ASSUME CommandsAssumption ==
  /\ Priorities \in Nat
  /\ PastMatches \in Nat
  /\ Over \subseteq 1..PastMatches
  /\ Earlier \subseteq Over
  /\ MaxCommands \in Nat

VARIABLES
  step,      \* where the command is
  resumable, \* stop_on_error
  todo,      \* the requests that are not answered yet
  tally,     \* in memory: whether rows were received, and how many were inserted
  failures,  \* error_codes
  internal,  \* fatal_error
  stored,    \* committed: rows and errors of this command, matches with statistics
  missed,    \* what is left out of the answers committed so far
  run,       \* the row of the command in sports_sync_runs
  exit,      \* the exit code of the process
  made       \* commands begun

commands ==
  <<step, resumable, todo, tally, failures, internal, stored, missed, run, exit, made>>

Failures == Causes \cup {"invalid_row", "internal"}
Ended == {"idle", "done", "stopped"}
NoExit == -1
NoRun == [status |-> "none", inserted |-> 0, reason |-> "none"]
NoTally == [received |-> FALSE, inserted |-> 0]
NoneLeft == "no_completed_matches_without_statistics"

InitCommands ==
  /\ step = "idle"
  /\ resumable = FALSE
  /\ todo = <<>>
  /\ tally = NoTally
  /\ failures = {}
  /\ internal = FALSE
  /\ stored = [rows |-> 0, errors |-> {}, statistics |-> Earlier]
  /\ missed = {}
  /\ run = NoRun
  /\ exit = NoExit
  /\ made = 0

-----------------------------------------------------------------------------
(* The requests of a command: the match whose statistics each asks for, or   *)
(* NoMatch when it asks for something else.                                  *)

NoMatch == 0

\* One request for each priority competition.
ForCompetitions == [i \in 1..Priorities |-> NoMatch]

\* The first matches of an ascending sequence.
FirstOf(matches, n) == SubSeq(matches, 1, IF n < Len(matches) THEN n ELSE Len(matches))
InOrder == [match \in 1..PastMatches |-> match]

\* How many requests a match takes: events, lineups and injuries go with its statistics.
PerMatch(related) == IF related THEN 4 ELSE 1
MatchLimit(related) ==
  IF MaxRequests \div PerMatch(related) > 1 THEN MaxRequests \div PerMatch(related) ELSE 1

\* completed_match_ids_without_statistics: of the first matches of the window, those that
\* are over and have no statistics.
WithoutStatistics(limit) ==
  FirstOf(SelectSeq(FirstOf(InOrder, 4 * limit),
                    LAMBDA match : match \in Over \ stored.statistics), limit)

StatisticsRequests(related) ==
  LET matches == WithoutStatistics(MatchLimit(related))
      ofMatch(i) == [j \in 1..PerMatch(related) |->
                       IF j = PerMatch(related) THEN matches[i] ELSE NoMatch]
  IN  FlattenSeq([i \in DOMAIN matches |-> ofMatch(i)])

-----------------------------------------------------------------------------
(* _run.                                                                     *)

\* The command says no before it has a record: disabled, not configured, out of range, or
\* without a database.
RefuseCommand ==
  /\ step \in Ended
  /\ made < MaxCommands
  /\ exit' \in {2, 4, 5}
  /\ step' = "done"
  /\ made' = made + 1
  /\ run' = NoRun
  /\ todo' = <<>>
  /\ failures' = {}
  /\ internal' = FALSE
  /\ tally' = NoTally
  /\ stored' = [stored EXCEPT !.rows = 0, !.errors = {}]
  /\ missed' = {}
  /\ used' = 0 /\ quota' = NothingAnnounced
  /\ resumable' = FALSE

\* A record is committed before anything is asked.
Begin(requests, stops) ==
  /\ step \in Ended
  /\ made < MaxCommands
  /\ step' = "asking"
  /\ made' = made + 1
  /\ exit' = NoExit
  /\ run' = [status |-> "RUNNING", inserted |-> 0,
             reason |-> IF stops /\ requests = <<>> THEN NoneLeft ELSE "none"]
  /\ todo' = requests
  /\ resumable' = stops
  /\ failures' = {}
  /\ internal' = FALSE
  /\ tally' = NoTally
  /\ stored' = [stored EXCEPT !.rows = 0, !.errors = {}]
  /\ missed' = {}
  /\ used' = 0 /\ quota' = NothingAnnounced

\* Competitions, seasons, teams, standings, and the matches of a date, of the days to come
\* or of a time past.
SyncResource == Priorities > 0 /\ Begin(ForCompetitions, FALSE)
SyncStatistics == \E related \in BOOLEAN : Begin(StatisticsRequests(related), TRUE)

Asking == step = "asking" /\ todo # <<>>

\* The next request, or the end of the list.
Advance == todo' = Tail(todo) /\ step' = step

\* The rows of an answer that are new count as one.
Counting(rows, inserted) ==
  [received |-> tally.received \/ rows, inserted |-> tally.inserted + inserted]

\* The answers to a request: events, lineups and injuries go with statistics.
AnswersTo(match) ==
  IF match # NoMatch THEN StatisticsAnswers
  ELSE IF resumable THEN RelatedAnswers ELSE ResourceAnswers

\* An answer: its rows and what was wrong with others are committed together.
RequestAnswered ==
  /\ Asking
  /\ Answered
  /\ \E answer \in AnswersTo(Head(todo)), inserted \in 0..1 :
       LET items  == answer.of
           errors == IF items.rejected THEN {"invalid_row"} ELSE {}
           match  == Head(todo)
       IN  /\ ~items.refused
           /\ inserted > 0 => items.kept
           /\ tally' = Counting(answer.received, inserted)
           /\ failures' = failures \cup errors
           /\ stored' = [rows |-> stored.rows + inserted,
                         errors |-> stored.errors \cup errors,
                         statistics |-> stored.statistics \cup
                           IF match # NoMatch /\ inserted > 0 THEN {match} ELSE {}]
           /\ missed' = missed \cup items.missed
           /\ IF resumable /\ items.rejected
              THEN step' = "finish" /\ todo' = todo
              ELSE Advance
  /\ UNCHANGED <<resumable, internal, run, exit, made>>

\* An ApiFootballRequestError is recorded and committed; the end of the budget ends the list.
RequestRefused ==
  /\ Asking
  /\ \E cause \in Causes :
       /\ Fails(cause)
       /\ failures' = failures \cup {cause}
       /\ stored' = [stored EXCEPT !.errors = @ \cup {cause}]
       /\ IF resumable \/ cause = "budget"
          THEN step' = "finish" /\ todo' = todo
          ELSE Advance
  /\ UNCHANGED <<resumable, tally, internal, missed, run, exit, made>>

AllAsked ==
  /\ step = "asking"
  /\ todo = <<>>
  /\ step' = "finish"
  /\ UNCHANGED <<resumable, todo, tally, failures, internal, stored, missed, run, exit, made, client>>

\* Any other error, a row that its table refuses for one: the transaction is rolled back,
\* the counters are not.
RequestRaises ==
  /\ step = "asking"
  /\ step' = "failed"
  /\ internal' = TRUE
  /\ \E rows \in BOOLEAN, inserted \in 0..1 :
       /\ rows => todo # <<>>
       /\ inserted > 0 => rows
       /\ tally' = Counting(rows, inserted)
  /\ UNCHANGED <<resumable, todo, failures, stored, missed, run, exit, made, client>>

RecordInternal ==
  /\ step = "failed"
  /\ step' = "finish"
  /\ failures' = failures \cup {"internal"}
  /\ stored' = [stored EXCEPT !.errors = @ \cup {"internal"}]
  /\ UNCHANGED <<resumable, todo, tally, internal, missed, run, exit, made, client>>

\* Variant for mutation: an internal error counts as any other.
StatusByCounters ==
  IF failures # {} /\ tally.inserted = 0 /\ ~tally.received THEN "FAILED"
  ELSE IF failures # {} THEN "PARTIAL" ELSE "SUCCEEDED"

StatusOfRun ==
  IF internal \/ (failures # {} /\ tally.inserted = 0 /\ ~tally.received) THEN "FAILED"
  ELSE IF failures # {} THEN "PARTIAL" ELSE "SUCCEEDED"

\* finish_run; the process says that it completed, whatever the status.
FinishRun ==
  /\ step = "finish"
  /\ run' = [run EXCEPT !.status = StatusOfRun, !.inserted = tally.inserted]
  /\ step' = "done"
  /\ exit' = 0
  /\ UNCHANGED <<resumable, todo, tally, failures, internal, stored, missed, made, client>>

\* The record of the error, or the last one, cannot be written.
FinishFails ==
  /\ step \in {"failed", "finish"}
  /\ step' = "done"
  /\ exit' \in {4, 5}
  /\ UNCHANGED <<resumable, todo, tally, failures, internal, stored, missed, run, made, client>>

\* The operator interrupts the command, or its process is killed.
StopCommand ==
  /\ step \notin Ended
  /\ step' = "stopped"
  /\ UNCHANGED <<resumable, todo, tally, failures, internal, stored, missed, run, exit, made, client>>

CommandStep ==
  \/ RefuseCommand \/ SyncResource \/ SyncStatistics
  \/ RequestAnswered \/ RequestRefused \/ AllAsked
  \/ RequestRaises \/ RecordInternal \/ FinishRun \/ FinishFails \/ StopCommand

CommandsEnd == step \in Ended /\ made > 0 /\ UNCHANGED <<commands, client>>

-----------------------------------------------------------------------------
(* Properties.                                                               *)

\* What the last command says of itself is what the tables hold, whatever was retried,
\* interrupted or rolled back.  A record that is not FAILED counts the rows committed and its
\* errors are all in sports_sync_errors; a record of success leaves no request unanswered; a
\* record FAILED without an internal error means that nothing was added; and the process
\* ends well exactly when its record is closed.
CommandsAreTruthful ==
  /\ run.status \in {"SUCCEEDED", "PARTIAL"} =>
       run.inserted = stored.rows /\ failures \subseteq stored.errors
  /\ run.status = "SUCCEEDED" => todo = <<>> /\ failures = {}
  /\ run.status = "FAILED" /\ ~internal => stored.rows = 0
  /\ exit = 0 <=> run.status \in {"SUCCEEDED", "PARTIAL", "FAILED"}

\* A command that succeeded has stored every row of its answers, whatever the provider sent:
\* one bad row is enough for PARTIAL.  Three things are left out unnoticed: a group of
\* standings that is no list, seasons that are no list, and all players of a line-up but one
\* that have neither number nor name.
SuccessMissesNoRow ==
  run.status = "SUCCEEDED" => missed \subseteq {"group", "seasons", "player"}

\* "no_completed_matches_without_statistics": a command that gives this reason has found no
\* match of its window that is over and has no statistics.
NoneIsLeft ==
  run.status = "SUCCEEDED" /\ run.reason = NoneLeft => Over \subseteq stored.statistics
=============================================================================
