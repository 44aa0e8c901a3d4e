--------------------------- MODULE SportsSyncProofs ---------------------------
(***************************************************************************)
(* Theorems about SportsSync: what the commands of an operator say of the  *)
(* tables, for any answers, priorities, matches, budget and quotas; and    *)
(* that a synchronisation keeps in the service what it promises alone.     *)
(***************************************************************************)
EXTENDS SportsSync, DailyDiscoveryProofs

-----------------------------------------------------------------------------
(* Answers: what is left out of one is counted, three things excepted.       *)

Unnoticed == {"group", "seasons", "player"}
Honest(item) == item.rejected \/ item.missed \subseteq Unnoticed

LEMMA RowsAreHonest ==
  ASSUME NEW list
  PROVE  Honest(RowsOf(list))
BY DEF Honest, RowsOf, MissedOf, Unnoticed

LEMMA NothingIsHonest == Honest(NoRows) /\ Honest(Rejected)
BY DEF Honest, NoRows, Rejected, Unnoticed

LEMMA BothAreHonest ==
  ASSUME NEW a, NEW b, Honest(a), Honest(b)
  PROVE  Honest(Both(a, b)) /\ Honest(AfterGroup(a, b))
BY DEF Honest, Both, AfterGroup

LEMMA LeaguesAreHonest ==
  ASSUME NEW item \in LeaguesItems
  PROVE  Honest(item)
<1>1. PICK competition \in FatesOf("competitions"), list \in SeasonLists :
        item = League(competition, list)
  BY DEF LeaguesItems
<1> DEFINE first == RowsOf(<<competition>>)
           seasons == RowsOf([i \in DOMAIN list[2] |-> list[2][i].fate])
           passed == [NoRows EXCEPT !.missed = {"seasons"}]
<1>2. Honest(first) /\ Honest(seasons)
  BY RowsAreHonest
<1>3. Honest(passed)
  BY DEF Honest, NoRows, Unnoticed
<1>4. item = Rejected \/ item = Both(first, passed) \/ item = Both(first, seasons)
  BY <1>1 DEF League
<1> HIDE DEF first, seasons, passed
<1> QED BY <1>2, <1>3, <1>4, NothingIsHonest, BothAreHonest

LEMMA GroupsAreHonest ==
  ASSUME NEW list
  PROVE  Honest(Group(list))
<1>1. Honest([NoRows EXCEPT !.missed = {"group"}])
  BY DEF Honest, NoRows, Unnoticed
<1> QED BY <1>1, RowsAreHonest DEF Group

LEMMA ItemsAreHonest ==
  /\ \A item \in TeamsItems \cup FixturesItems \cup EventsItems \cup InjuriesItems : Honest(item)
  /\ \A item \in StandingsItems \cup StatisticsItems \cup LineupsItems : Honest(item)
<1>1. \A item \in TeamsItems \cup FixturesItems \cup EventsItems \cup InjuriesItems : Honest(item)
  BY RowsAreHonest DEF TeamsItems, FixturesItems, EventsItems, InjuriesItems, FlatItems
<1>2. \A item \in StandingsItems : Honest(item)
  BY NothingIsHonest, GroupsAreHonest, BothAreHonest DEF StandingsItems
<1>3. \A item \in StatisticsItems : Honest(item)
  BY NothingIsHonest, RowsAreHonest DEF StatisticsItems
<1>4. \A item \in LineupsItems : Honest(item)
  <2> DEFINE players == {RowsOf(list[2]) : list \in ListOf("lineups")} \cup {NoRows, Rejected}
  <2>1. \A item \in players : Honest(item)
    BY NothingIsHonest, RowsAreHonest
  <2>2. LineupsItems = {Rejected} \cup {AfterGroup(a, b) : a \in players, b \in players}
    BY DEF LineupsItems
  <2> HIDE DEF players
  <2> QED BY <2>1, <2>2, NothingIsHonest, BothAreHonest
<1> QED BY <1>1, <1>2, <1>3, <1>4

LEMMA AnswersAreHonest ==
  ASSUME NEW match, NEW answer \in AnswersTo(match)
  PROVE  Honest(answer.of)
<1>1. ASSUME NEW items, \A item \in items : Honest(item), answer \in AnswersOf(items)
      PROVE  Honest(answer.of)
  <2>1. CASE answer = [received |-> FALSE, of |-> NoRows]
    BY <2>1, NothingIsHonest
  <2>2. CASE \E a, b \in items : answer = [received |-> TRUE, of |-> Both(a, b)]
    BY <1>1, <2>2, BothAreHonest
  <2> QED BY <1>1, <2>1, <2>2 DEF AnswersOf
<1>2. \A item \in LeaguesItems : Honest(item)
  BY LeaguesAreHonest
<1>3. \/ answer \in AnswersOf(LeaguesItems) \/ answer \in AnswersOf(TeamsItems)
      \/ answer \in AnswersOf(StandingsItems) \/ answer \in AnswersOf(FixturesItems)
      \/ answer \in AnswersOf(StatisticsItems) \/ answer \in AnswersOf(EventsItems)
      \/ answer \in AnswersOf(LineupsItems) \/ answer \in AnswersOf(InjuriesItems)
  BY DEF AnswersTo, StatisticsAnswers, RelatedAnswers, ResourceAnswers
<1>4. /\ \A item \in TeamsItems : Honest(item)
      /\ \A item \in FixturesItems : Honest(item)
      /\ \A item \in EventsItems : Honest(item)
      /\ \A item \in InjuriesItems : Honest(item)
      /\ \A item \in StandingsItems : Honest(item)
      /\ \A item \in StatisticsItems : Honest(item)
      /\ \A item \in LineupsItems : Honest(item)
  BY ItemsAreHonest
<1> QED BY <1>1, <1>2, <1>3, <1>4

-----------------------------------------------------------------------------
(* What holds while a command runs.                                          *)

Closed == {"SUCCEEDED", "PARTIAL", "FAILED"}

CommandTypes ==
  /\ step \in {"idle", "asking", "failed", "finish", "done", "stopped"}
  /\ run = [status |-> run.status, inserted |-> run.inserted, reason |-> run.reason]
  /\ stored = [rows |-> stored.rows, errors |-> stored.errors, statistics |-> stored.statistics]

\* Whatever is in memory is in the tables, or an internal error came between.
CommittedInv ==
  /\ failures \subseteq stored.errors
  /\ ~internal => tally.inserted = stored.rows

\* A list that is not asked to its end leaves an error, and so does a row that is left out.
NoticedInv ==
  /\ step = "finish" /\ ~internal /\ failures = {} => todo = <<>>
  /\ "invalid_row" \in failures \/ missed \subseteq Unnoticed

\* A record is closed last, and what it was closed with stays.
ClosedInv ==
  /\ exit = 0 <=> run.status \in Closed
  /\ run.status \in Closed =>
       /\ step = "done" /\ run.status = StatusOfRun /\ run.inserted = tally.inserted
       /\ run.status = "SUCCEEDED" => todo = <<>>

CommandInv == CommandTypes /\ CommittedInv /\ NoticedInv /\ ClosedInv

LEMMA CommandInit == InitCommands => CommandInv
BY DEF InitCommands, CommandInv, CommandTypes, CommittedInv, NoticedInv, ClosedInv, NoRun, NoTally,
       NoExit, Closed, Unnoticed

LEMMA OpenedStep ==
  ASSUME CommandInv, RefuseCommand \/ SyncResource \/ SyncStatistics
  PROVE  CommandInv'
<1>1. /\ stored' = [stored EXCEPT !.rows = 0, !.errors = {}]
      /\ failures' = {} /\ tally' = NoTally /\ missed' = {} /\ ~internal'
      /\ exit' \in {2, 4, 5, NoExit} /\ step' \in {"done", "asking"}
      /\ \E reason : run' = [status |-> "RUNNING", inserted |-> 0, reason |-> reason] \/ run' = NoRun
  <2>1. CASE RefuseCommand
    BY <2>1 DEF RefuseCommand
  <2>2. ASSUME NEW requests, NEW stops, Begin(requests, stops)
        PROVE  /\ stored' = [stored EXCEPT !.rows = 0, !.errors = {}]
               /\ failures' = {} /\ tally' = NoTally /\ missed' = {} /\ ~internal'
               /\ exit' \in {2, 4, 5, NoExit} /\ step' \in {"done", "asking"}
               /\ \E reason : run' = [status |-> "RUNNING", inserted |-> 0, reason |-> reason]
                                \/ run' = NoRun
    BY <2>2 DEF Begin
  <2> QED BY <2>1, <2>2 DEF SyncResource, SyncStatistics
<1>2. CommandTypes'
  BY <1>1 DEF CommandInv, CommandTypes, NoRun
<1>3. CommittedInv'
  BY <1>1 DEF CommandInv, CommandTypes, CommittedInv, NoTally
<1>4. NoticedInv' /\ ClosedInv'
  BY <1>1 DEF NoticedInv, ClosedInv, NoRun, NoExit, Closed
<1> QED BY <1>2, <1>3, <1>4 DEF CommandInv

\* Nothing is closed before the end.
LEMMA OpenRun ==
  ASSUME CommandInv, step # "done", exit' = exit, run' = run
  PROVE  ClosedInv'
BY DEF CommandInv, ClosedInv

LEMMA AskedStep ==
  ASSUME CommandInv, RequestAnswered \/ RequestRefused
  PROVE  CommandInv'
<1>1. step = "asking" /\ exit' = exit /\ run' = run /\ internal' = internal
      /\ step' \in {"asking", "finish"}
  BY DEF RequestAnswered, RequestRefused, Asking, Advance
<1>2. ClosedInv'
  BY <1>1, OpenRun
<1>3. CASE RequestAnswered
  <2>1. PICK answer \in AnswersTo(Head(todo)), new \in 0..1 :
          LET errors == IF answer.of.rejected THEN {"invalid_row"} ELSE {} IN
          /\ tally' = Counting(answer.received, new)
          /\ failures' = failures \cup errors
          /\ \E statistics :
               stored' = [rows |-> stored.rows + new, errors |-> stored.errors \cup errors,
                          statistics |-> statistics]
          /\ missed' = missed \cup answer.of.missed
          /\ step' = "finish" => answer.of.rejected
    BY <1>1, <1>3, Zenon DEF RequestAnswered, Advance
  <2>2. Honest(answer.of)
    BY <2>1, AnswersAreHonest
  <2>3. CommandTypes'
    BY <1>1, <2>1 DEF CommandInv, CommandTypes
  <2>4. CommittedInv'
    BY <1>1, <2>1 DEF CommandInv, CommittedInv, Counting
  <2>5. NoticedInv'
    BY <1>1, <2>1, <2>2 DEF CommandInv, NoticedInv, Honest
  <2> QED BY <1>2, <2>3, <2>4, <2>5 DEF CommandInv
<1>4. CASE RequestRefused
  <2>1. PICK cause \in Causes :
          /\ failures' = failures \cup {cause}
          /\ stored' = [stored EXCEPT !.errors = @ \cup {cause}]
          /\ UNCHANGED <<tally, missed>>
    BY <1>4 DEF RequestRefused
  <2>2. CommandTypes' /\ CommittedInv'
    BY <1>1, <2>1 DEF CommandInv, CommandTypes, CommittedInv
  <2>3. NoticedInv'
    BY <1>1, <2>1 DEF CommandInv, NoticedInv
  <2> QED BY <1>2, <2>2, <2>3 DEF CommandInv
<1> QED BY <1>3, <1>4

LEMMA EndedStep ==
  ASSUME CommandInv,
         AllAsked \/ RequestRaises \/ RecordInternal \/ FinishRun \/ FinishFails \/ StopCommand
  PROVE  CommandInv'
<1>1. CASE AllAsked
  <2>1. ClosedInv'
    BY <1>1, OpenRun DEF AllAsked
  <2> QED BY <1>1, <2>1
       DEF AllAsked, CommandInv, CommandTypes, CommittedInv, NoticedInv
<1>2. CASE RequestRaises
  <2>1. ClosedInv'
    BY <1>2, OpenRun DEF RequestRaises
  <2> QED BY <1>2, <2>1
       DEF RequestRaises, CommandInv, CommandTypes, CommittedInv, NoticedInv
<1>3. CASE RecordInternal
  <2>1. ClosedInv'
    BY <1>3, OpenRun DEF RecordInternal
  <2> QED BY <1>3, <2>1
       DEF RecordInternal, CommandInv, CommandTypes, CommittedInv, NoticedInv
<1>4. CASE FinishRun
  <2>1. /\ step = "finish" /\ step' = "done" /\ exit' = 0
        /\ run' = [run EXCEPT !.status = StatusOfRun, !.inserted = tally.inserted]
        /\ UNCHANGED <<todo, tally, failures, internal, stored, missed>>
    BY <1>4 DEF FinishRun
  <2>2. run' = [status |-> StatusOfRun, inserted |-> tally.inserted, reason |-> run.reason]
    BY <2>1 DEF CommandInv, CommandTypes
  <2>3. CommandTypes' /\ CommittedInv' /\ NoticedInv'
    BY <2>1, <2>2 DEF CommandInv, CommandTypes, CommittedInv, NoticedInv
  <2>4. StatusOfRun' = StatusOfRun /\ StatusOfRun \in Closed
        /\ (StatusOfRun = "SUCCEEDED" => ~internal /\ failures = {})
    BY <2>1 DEF StatusOfRun, Closed
  <2>5. ClosedInv'
    BY <2>1, <2>2, <2>4 DEF CommandInv, NoticedInv, ClosedInv
  <2> QED BY <2>3, <2>5 DEF CommandInv
<1>5. CASE FinishFails
  <2>1. ClosedInv'
    BY <1>5 DEF FinishFails, CommandInv, ClosedInv
  <2> QED BY <1>5, <2>1
       DEF FinishFails, CommandInv, CommandTypes, CommittedInv, NoticedInv
<1>6. CASE StopCommand
  <2>1. ClosedInv'
    BY <1>6, OpenRun DEF StopCommand, Ended
  <2> QED BY <1>6, <2>1
       DEF StopCommand, CommandInv, CommandTypes, CommittedInv, NoticedInv
<1> QED BY <1>1, <1>2, <1>3, <1>4, <1>5, <1>6

LEMMA CommandInvStep ==
  ASSUME CommandInv, CommandStep \/ UNCHANGED commands
  PROVE  CommandInv'
<1>1. CASE CommandStep
  BY <1>1, OpenedStep, AskedStep, EndedStep DEF CommandStep
<1>2. CASE UNCHANGED commands
  BY <1>2 DEF commands, CommandInv, CommandTypes, CommittedInv, NoticedInv, ClosedInv,
              StatusOfRun
<1> QED BY <1>1, <1>2

LEMMA CommandPromises == CommandInv => CommandsAreTruthful /\ SuccessMissesNoRow
<1> SUFFICES ASSUME CommandInv
             PROVE  CommandsAreTruthful /\ SuccessMissesNoRow
  OBVIOUS
<1>1. run.status = "SUCCEEDED" => todo = <<>> /\ failures = {} /\ ~internal
  BY DEF CommandInv, ClosedInv, Closed, StatusOfRun
<1>2. run.status \in {"SUCCEEDED", "PARTIAL"} =>
        run.inserted = stored.rows /\ failures \subseteq stored.errors
  BY DEF CommandInv, ClosedInv, Closed, StatusOfRun, CommittedInv
<1>3. run.status = "FAILED" /\ ~internal => stored.rows = 0
  BY DEF CommandInv, ClosedInv, Closed, StatusOfRun, CommittedInv
<1>4. exit = 0 <=> run.status \in {"SUCCEEDED", "PARTIAL", "FAILED"}
  BY DEF CommandInv, ClosedInv, Closed
<1>5. run.status = "SUCCEEDED" => missed \subseteq {"group", "seasons", "player"}
  BY <1>1 DEF CommandInv, NoticedInv, Unnoticed
<1> QED BY <1>1, <1>2, <1>3, <1>4, <1>5 DEF CommandsAreTruthful, SuccessMissesNoRow

-----------------------------------------------------------------------------
(* The service.                                                              *)

ServiceInv == Inv /\ DiscoveryInv /\ CommandInv

\* A command has a client of its own.
LEMMA CommandClient ==
  ASSUME ClientOK, CommandStep
  PROVE  ClientOK'
<1>1. CASE RefuseCommand \/ SyncResource \/ SyncStatistics
  <2>1. used' = 0 /\ quota' = NothingAnnounced
    BY <1>1 DEF RefuseCommand, SyncResource, SyncStatistics, Begin
  <2> QED BY <2>1, CallsAssumption DEF ClientOK
<1>2. CASE RequestAnswered
  BY <1>2, AnsweredType DEF RequestAnswered
<1>3. CASE RequestRefused
  BY <1>3, FailsType DEF RequestRefused
<1>4. CASE AllAsked \/ RequestRaises \/ RecordInternal \/ FinishRun \/ FinishFails \/ StopCommand
  BY <1>4 DEF AllAsked, RequestRaises, RecordInternal, FinishRun, FinishFails, StopCommand,
              client, ClientOK
<1> QED BY <1>1, <1>2, <1>3, <1>4 DEF CommandStep

LEMMA ServiceStep == ServiceInv /\ [ServiceNext]_<<vars, commands>> => ServiceInv'
<1> SUFFICES ASSUME ServiceInv, [ServiceNext]_<<vars, commands>>
             PROVE  ServiceInv'
  OBVIOUS
<1>1. CASE \/ made = 0 /\ Next /\ UNCHANGED commands
           \/ CommandsEnd /\ UNCHANGED vars
           \/ UNCHANGED <<vars, commands>>
  <2>1. [Next]_vars /\ UNCHANGED commands
    BY <1>1 DEF CommandsEnd
  <2> QED BY <2>1, InvStep, DiscoveryStep, CommandInvStep DEF ServiceInv
<1>2. CASE pc = "new" /\ CommandStep
           /\ UNCHANGED <<pc, day, rows, catalogue, funnel, left, causes, codes, tables,
                          fatal, record>>
  <2>1. CommandInv'
    BY <1>2, CommandInvStep DEF ServiceInv
  <2>2. DiscoveryInv'
    BY <1>2, CommandClient, ClientAside DEF ServiceInv, DiscoveryInv, CallType
  <2>3. Inv'
    BY <1>2 DEF ServiceInv, Inv, ShapeInv, StoredInv, CountedInv, NotedInv, RecordInv, Sound,
                Nothing, funnel, tables
  <2> QED BY <2>1, <2>2, <2>3 DEF ServiceInv
<1> QED BY <1>1, <1>2 DEF ServiceNext

LEMMA ServiceInvariant == ServiceSpec => []ServiceInv
<1>1. ServiceInit => ServiceInv
  BY InvInit, DiscoveryInit, CommandInit DEF ServiceInit, ServiceInv
<1> QED BY <1>1, ServiceStep, PTL DEF ServiceSpec

-----------------------------------------------------------------------------
(* The theorems.                                                             *)

\* What the last command says of itself is what the tables hold, whatever was refused,
\* interrupted or rolled back, and it exits with 0 exactly when its record is closed.
THEOREM CommandsTellTheTruth == ServiceSpec => []CommandsAreTruthful
<1>1. ServiceInv => CommandsAreTruthful
  BY CommandPromises DEF ServiceInv
<1> QED BY <1>1, ServiceInvariant, PTL

\* A command recorded as a success has left out none of the rows it was sent, but groups and
\* seasons that are no lists and players without number and name.
THEOREM SuccessLeavesNoRowOut == ServiceSpec => []SuccessMissesNoRow
<1>1. ServiceInv => SuccessMissesNoRow
  BY CommandPromises DEF ServiceInv
<1> QED BY <1>1, ServiceInvariant, PTL

\* Commands on the same tables do not keep a synchronisation from what it promises.
THEOREM SynchronisationKeepsItsWord ==
  ServiceSpec => [](/\ TypeOK /\ EveryFixtureAccounted /\ SuccessMeansComplete
                    /\ RetainedAreStored /\ TruthfulRecord /\ ErrorsAreRecorded)
<1>1. ServiceInv => /\ TypeOK /\ EveryFixtureAccounted /\ SuccessMeansComplete
                    /\ RetainedAreStored /\ TruthfulRecord /\ ErrorsAreRecorded
  BY TypeParts, InvAccounts, InvCompletes, InvPromises DEF ServiceInv, DiscoveryInv, FunnelInv
<1> QED BY <1>1, ServiceInvariant, PTL

\* Its plan fits what is left of the budget and of the quotas there too.
THEOREM ServicePlanFitsTheBudget == ServiceSpec => PlanFitsBudget
<1>1. ServiceInv /\ [ServiceNext]_<<vars, commands>> =>
        [pc = "plan" /\ plan' # <<>> =>
           Sum([i \in DOMAIN plan' |-> Cost(plan'[i].comp)])
             + (IF Len(plan') > 1 THEN 1 ELSE 0) <= Remaining]_vars
  BY InvFits, FitsSaysIt DEF ServiceInv, ServiceNext
<1> QED BY <1>1, ServiceInvariant, PTL DEF ServiceSpec, PlanFitsBudget
=============================================================================
