------------------------ MODULE DailyDiscoveryProofs ------------------------
(***************************************************************************)
(* Theorems about module DailyDiscovery, for any fixtures, competitions,   *)
(* budget, quotas and bounds.  First what the record of a synchronisation  *)
(* says of the database; then the funnel, for which the plan is shown to   *)
(* select what the budget allows and to lose no fixture, and every step to *)
(* keep the count of what was received.                                    *)
(***************************************************************************)
EXTENDS DailyDiscovery, CountingTheorems

\* Neither cancelled, killed nor ended by an error that nothing catches, and no
\* internal error so far.
Sound == ~fatal /\ pc \notin {"stopped", "aborted"}

\* The tables and the open transaction keep their columns.
ShapeInv ==
  /\ db = [rows |-> db.rows, fixtures |-> db.fixtures, errors |-> db.errors]
  /\ pending = [rows |-> pending.rows, fixtures |-> pending.fixtures,
                errors |-> pending.errors]
  /\ db.rows \in Nat
  /\ pending.rows \in Nat
  /\ inserted \in Nat

\* What is about to be retained is in the transaction, what is retained in the
\* tables.
StoredInv ==
  /\ retained \subseteq db.fixtures
  /\ pc = "commit" => valid \subseteq pending.fixtures

\* The insertions counted are those of the tables and of the transaction.
CountedInv == Sound => inserted = db.rows + pending.rows

\* The causes are in the tables, the error codes in the tables or in the
\* transaction.
NotedInv ==
  /\ causes \subseteq db.errors
  /\ Sound => codes \subseteq db.errors \cup pending.errors

\* A record of success, full or partial, is the last thing written.
RecordInv ==
  record.status \in {"SUCCEEDED", "PARTIAL"} =>
    /\ pc = "done"
    /\ ~fatal
    /\ pending = Nothing
    /\ record.inserted = inserted

Inv == ShapeInv /\ StoredInv /\ CountedInv /\ NotedInv /\ RecordInv

-----------------------------------------------------------------------------
\* What most steps have in common: they start and end in the course of the
\* synchronisation, and touch neither what is retained nor the record.
Ordinary ==
  /\ retained' = retained
  /\ fatal' = fatal
  /\ record' = record
  /\ pc \notin Stopped
  /\ pc' \notin Stopped \cup {"commit"}

\* A step that writes nothing keeps the invariant.
LEMMA SilentStep ==
  ASSUME Inv, Ordinary, UNCHANGED <<tables, causes, codes>>
  PROVE  Inv'
BY DEF Inv, Ordinary, ShapeInv, StoredInv, CountedInv, NotedInv, RecordInv,
       Sound, Stopped, tables

\* What is in the database after a commit of the pending writes and of new
\* error notes: the sum of the two, field by field.
LEMMA CommittedErrors ==
  ASSUME Inv, NEW new
  PROVE  Committed(WithErrors(new)) =
           [rows |-> db.rows + pending.rows,
            fixtures |-> db.fixtures \cup pending.fixtures,
            errors |-> db.errors \cup (pending.errors \cup new)]
<1> DEFINE written == WithErrors(new)
<1>1. /\ written.rows = pending.rows
      /\ written.fixtures = pending.fixtures
      /\ written.errors = pending.errors \cup new
  BY DEF WithErrors, Inv, ShapeInv
<1>2. Committed(written) = [rows |-> db.rows + written.rows,
                            fixtures |-> db.fixtures \cup written.fixtures,
                            errors |-> db.errors \cup written.errors]
  BY DEF Committed
<1> HIDE DEF written
<1>3. Committed(written) =
        [rows |-> db.rows + pending.rows,
         fixtures |-> db.fixtures \cup pending.fixtures,
         errors |-> db.errors \cup (pending.errors \cup new)]
  BY <1>1, <1>2, Zenon
<1> QED
  BY <1>3 DEF written

\* A failed call keeps it: its error is committed with what was pending.
LEMMA FailedCall ==
  ASSUME Inv, Ordinary, NEW cause, RequestFails(cause)
  PROVE  Inv'
<1>1. /\ db' = [rows |-> db.rows + pending.rows,
                fixtures |-> db.fixtures \cup pending.fixtures,
                errors |-> db.errors \cup (pending.errors \cup {cause})]
      /\ pending' = Nothing
      /\ inserted' = inserted
      /\ causes' = causes \cup {cause}
      /\ codes' = codes \cup {cause}
  BY CommittedErrors DEF RequestFails
<1>2. ShapeInv'
  BY <1>1 DEF Inv, ShapeInv, Nothing
<1>3. StoredInv'
  BY <1>1 DEF Inv, StoredInv, Ordinary, Stopped
<1>4. CountedInv'
  BY <1>1 DEF Inv, ShapeInv, CountedInv, Sound, Ordinary, Stopped, Nothing
<1>5. NotedInv'
  BY <1>1 DEF Inv, NotedInv, Sound, Ordinary, Stopped
<1>6. RecordInv'
  BY DEF Inv, RecordInv, Ordinary, Stopped
<1> QED
  BY <1>2, <1>3, <1>4, <1>5, <1>6 DEF Inv

\* An answer whose unusable rows are noted, without a commit, keeps it.
LEMMA AnsweredCall ==
  ASSUME Inv, Ordinary, NEW unusable \in BOOLEAN, EnvelopeReceived(unusable)
  PROVE  Inv'
<1>1. PICK new : /\ codes' = codes \cup new
                 /\ pending' = [rows |-> pending.rows,
                                fixtures |-> pending.fixtures,
                                errors |-> pending.errors \cup new]
  <2>1. CASE unusable
    BY <2>1 DEF EnvelopeReceived, WithErrors, Inv, ShapeInv
  <2>2. CASE ~unusable
    <3>1. codes' = codes \cup {} /\ pending' = pending
      BY <2>2 DEF EnvelopeReceived
    <3> QED
      BY <3>1 DEF Inv, ShapeInv
  <2> QED
    BY <2>1, <2>2
<1>2. UNCHANGED <<causes, inserted, db>>
  BY DEF EnvelopeReceived
<1>3. ShapeInv'
  BY <1>1, <1>2 DEF Inv, ShapeInv
<1>4. StoredInv'
  BY <1>2 DEF Inv, StoredInv, Ordinary, Stopped
<1>5. CountedInv'
  BY <1>1, <1>2 DEF Inv, CountedInv, Sound, Ordinary, Stopped
<1>6. NotedInv'
  BY <1>1, <1>2 DEF Inv, NotedInv, Sound, Ordinary, Stopped
<1>7. RecordInv'
  BY DEF Inv, RecordInv, Ordinary, Stopped
<1> QED
  BY <1>3, <1>4, <1>5, <1>6, <1>7 DEF Inv

\* An answer whose rows are inserted and committed at once keeps it.
LEMMA StoredCall ==
  ASSUME Inv, Ordinary, NEW n \in {0, 1}, StoredAtOnce(n)
  PROVE  Inv'
<1>1. PICK new : /\ codes' \subseteq codes \cup new
                 /\ db' = [rows |-> db.rows + pending.rows + n,
                           fixtures |-> db.fixtures \cup pending.fixtures,
                           errors |-> db.errors \cup (pending.errors \cup new)]
  <2>1. PICK unusable \in BOOLEAN :
          /\ codes' = IF unusable THEN codes \cup {"invalid_row"} ELSE codes
          /\ db' = [Committed(WithErrors(IF unusable THEN {"invalid_row"} ELSE {}))
                      EXCEPT !.rows = @ + n]
    BY DEF StoredAtOnce
  <2> DEFINE added == IF unusable THEN {"invalid_row"} ELSE {}
  <2>2. codes' \subseteq codes \cup added
    BY <2>1
  <2>3. db' = [rows |-> db.rows + pending.rows + n,
               fixtures |-> db.fixtures \cup pending.fixtures,
               errors |-> db.errors \cup (pending.errors \cup added)]
    <3>1. Committed(WithErrors(added)) =
            [rows |-> db.rows + pending.rows,
             fixtures |-> db.fixtures \cup pending.fixtures,
             errors |-> db.errors \cup (pending.errors \cup added)]
      BY CommittedErrors
    <3> DEFINE whole == Committed(WithErrors(added))
    <3>2. db' = [whole EXCEPT !.rows = @ + n]
      BY <2>1
    <3>3. whole = [rows |-> db.rows + pending.rows,
                   fixtures |-> db.fixtures \cup pending.fixtures,
                   errors |-> db.errors \cup (pending.errors \cup added)]
      BY <3>1
    <3> HIDE DEF whole, added
    <3> QED
      BY <3>2, <3>3
  <2> HIDE DEF added
  <2> QED
    BY <2>2, <2>3
<1>2. /\ inserted' = inserted + n
      /\ pending' = Nothing
      /\ causes' = causes
  BY DEF StoredAtOnce
<1>3. ShapeInv'
  BY <1>1, <1>2 DEF Inv, ShapeInv, Nothing
<1>4. StoredInv'
  BY <1>1 DEF Inv, StoredInv, Ordinary, Stopped
<1>5. CountedInv'
  BY <1>1, <1>2 DEF Inv, ShapeInv, CountedInv, Sound, Ordinary, Stopped, Nothing
<1>6. NotedInv'
  BY <1>1, <1>2 DEF Inv, NotedInv, Sound, Ordinary, Stopped
<1>7. RecordInv'
  BY DEF Inv, RecordInv, Ordinary, Stopped
<1> QED
  BY <1>3, <1>4, <1>5, <1>6, <1>7 DEF Inv
-----------------------------------------------------------------------------
(* The actions that are ordinary steps.                                      *)

\* The steps that write nothing; of them only Start touches the record.
LEMMA SilentActions ==
  ASSUME Inv,
         Dedupe \/ Plan \/ Pairs \/ HeadToHeadEnds \/ StatisticsEnd
  PROVE  Inv'
<1>1. Ordinary /\ UNCHANGED <<tables, causes, codes>>
  <2>1. CASE Dedupe
    BY <2>1 DEF Dedupe, Ordinary, Stopped, tables
  <2>2. CASE Plan
    BY <2>2 DEF Plan, Ordinary, Stopped, tables
  <2>3. CASE Pairs
    BY <2>3 DEF Pairs, Ordinary, Stopped, tables, funnel
  <2>4. CASE HeadToHeadEnds
    BY <2>4 DEF HeadToHeadEnds, Ordinary, Stopped, tables, funnel
  <2>5. CASE StatisticsEnd
    BY <2>5 DEF StatisticsEnd, Ordinary, Stopped, tables, funnel
  <2> QED
    BY <2>1, <2>2, <2>3, <2>4, <2>5
<1> QED
  BY <1>1, SilentStep

\* The steps that are one answer of the provider.
LEMMA AnswerActions ==
  ASSUME Inv,
         \/ DateReceived \/ LeaguesReceived \/ TeamsReceived
         \/ HistoryReceived \/ NoStatistics
  PROVE  Inv'
<1>1. Ordinary /\ \E unusable \in BOOLEAN : EnvelopeReceived(unusable)
  <2>1. CASE DateReceived
    BY <2>1 DEF DateReceived, AfterDate, Ordinary, Stopped
  <2>2. CASE LeaguesReceived
    BY <2>2 DEF LeaguesReceived, funnel, Ordinary, Stopped
  <2>3. CASE TeamsReceived
    BY <2>3 DEF TeamsReceived, NextCompetition, Ordinary, Stopped
  <2>4. CASE HistoryReceived
    BY <2>4 DEF HistoryReceived, NextCompetition, Ordinary, Stopped
  <2>5. CASE NoStatistics
    BY <2>5 DEF NoStatistics, funnel, Ordinary, Stopped
  <2> QED
    BY <2>1, <2>2, <2>3, <2>4, <2>5
<1> QED
  BY <1>1, AnsweredCall

\* The steps that are one failure of a call.
LEMMA FailureActions ==
  ASSUME Inv,
         \/ DateFails \/ LeaguesFail \/ TeamsFail \/ HistoryFails
         \/ StatisticsFail
  PROVE  Inv'
<1>1. Ordinary /\ \E cause \in Causes : RequestFails(cause)
  <2>1. CASE DateFails
    BY <2>1 DEF DateFails, AfterDate, funnel, Ordinary, Stopped
  <2>2. CASE LeaguesFail
    BY <2>2 DEF LeaguesFail, funnel, Ordinary, Stopped
  <2>3. CASE TeamsFail
    BY <2>3 DEF TeamsFail, GiveUp, NextCompetition, Ordinary, Stopped
  <2>4. CASE HistoryFails
    BY <2>4 DEF HistoryFails, GiveUp, NextCompetition, Ordinary, Stopped
  <2>5. CASE StatisticsFail
    BY <2>5 DEF StatisticsFail, funnel, Ordinary, Stopped
  <2> QED
    BY <2>1, <2>2, <2>3, <2>4, <2>5
<1> QED
  BY <1>1, FailedCall

\* The steps in which an answer or a failure leads to the same place.
LEMMA EitherActions ==
  ASSUME Inv,
         StandingsRequest \/ HeadToHead \/ StatisticsReceived \/ EventsRequest
  PROVE  Inv'
<1>1. /\ Ordinary
      /\ \/ \E unusable \in BOOLEAN : EnvelopeReceived(unusable)
         \/ \E cause \in Causes : RequestFails(cause)
         \/ \E n \in {0, 1} : StoredAtOnce(n)
  <2>1. CASE StandingsRequest
    BY <2>1 DEF StandingsRequest, funnel, Ordinary, Stopped
  <2>2. CASE HeadToHead
    BY <2>2 DEF HeadToHead, funnel, Ordinary, Stopped
  <2>3. CASE StatisticsReceived
    BY <2>3 DEF StatisticsReceived, funnel, Ordinary, Stopped
  <2>4. CASE EventsRequest
    BY <2>4 DEF EventsRequest, funnel, Ordinary, Stopped
  <2> QED
    BY <2>1, <2>2, <2>3, <2>4
<1> QED
  BY <1>1, AnsweredCall, FailedCall, StoredCall

-----------------------------------------------------------------------------
(* The actions that are not.                                                 *)

LEMMA StartStep == ASSUME Inv, Start PROVE Inv'
BY DEF Inv, Start, ShapeInv, StoredInv, CountedInv, NotedInv, RecordInv, Sound,
       tables, funnel

\* The rows of a competition enter the transaction, and its fixtures with them.
LEMMA StoreStep == ASSUME Inv, Store PROVE Inv'
<1>1. PICK n \in Nat : Insert(n, valid)
  BY DEF Store
<1>2. /\ inserted' = inserted + n
      /\ pending' = [rows |-> pending.rows + n,
                     fixtures |-> pending.fixtures \cup valid,
                     errors |-> pending.errors]
  <2>1. pending' = [[pending EXCEPT !.rows = @ + n]
                      EXCEPT !.fixtures = @ \cup valid]
    BY <1>1, Zenon DEF Insert
  <2>2. pending = [rows |-> pending.rows, fixtures |-> pending.fixtures,
                   errors |-> pending.errors]
    BY DEF Inv, ShapeInv
  <2> QED
    BY <1>1, <2>1, <2>2 DEF Insert
<1>3. /\ pc = "store" /\ pc' = "commit"
      /\ UNCHANGED <<retained, valid, db, causes, codes, fatal, record>>
  BY DEF Store, funnel
<1>4. ShapeInv'
  BY <1>2, <1>3 DEF Inv, ShapeInv
<1>5. StoredInv'
  BY <1>2, <1>3 DEF Inv, StoredInv
<1>6. CountedInv'
  BY <1>2, <1>3 DEF Inv, ShapeInv, CountedInv, Sound
<1>7. NotedInv'
  BY <1>2, <1>3 DEF Inv, NotedInv, Sound
<1>8. RecordInv'
  BY <1>3 DEF Inv, RecordInv
<1> QED
  BY <1>4, <1>5, <1>6, <1>7, <1>8 DEF Inv

\* They are committed, and only then are its fixtures retained.
LEMMA CommitStep == ASSUME Inv, Commit PROVE Inv'
<1>1. /\ db' = [rows |-> db.rows + pending.rows,
                fixtures |-> db.fixtures \cup pending.fixtures,
                errors |-> db.errors \cup pending.errors]
      /\ pending' = Nothing
      /\ retained' = retained \cup valid
      /\ pc = "commit" /\ pc' \in {"teams", "pairs"}
      /\ UNCHANGED <<inserted, causes, codes, fatal, record>>
  BY DEF Commit, Committed, NextCompetition
<1>2. ShapeInv'
  BY <1>1 DEF Inv, ShapeInv, Nothing
<1>3. StoredInv'
  BY <1>1 DEF Inv, StoredInv
<1>4. CountedInv'
  BY <1>1 DEF Inv, ShapeInv, CountedInv, Sound, Nothing
<1>5. NotedInv'
  BY <1>1 DEF Inv, NotedInv, Sound
<1>6. RecordInv'
  BY <1>1 DEF Inv, RecordInv
<1> QED
  BY <1>2, <1>3, <1>4, <1>5, <1>6 DEF Inv

\* An internal error empties the transaction, and nothing is claimed of the
\* counters any more.
LEMMA RaiseStep == ASSUME Inv, Raise PROVE Inv'
BY DEF Inv, Raise, InTry, Stopped, Nothing, ShapeInv, StoredInv, CountedInv,
       NotedInv, RecordInv, Sound

LEMMA RecordFailureStep == ASSUME Inv, RecordFailure PROVE Inv'
<1>1. /\ db' = [rows |-> db.rows + pending.rows,
                fixtures |-> db.fixtures \cup pending.fixtures,
                errors |-> db.errors \cup (pending.errors \cup {"internal"})]
      /\ pending' = Nothing
      /\ codes' = codes \cup {"internal"}
      /\ pc = "failed" /\ pc' = "finish"
      /\ UNCHANGED <<retained, inserted, causes, fatal, record>>
  BY DEF RecordFailure, Committed, WithErrors, funnel, Inv, ShapeInv
<1> QED
  BY <1>1 DEF Inv, ShapeInv, StoredInv, CountedInv, NotedInv, RecordInv, Sound,
              Nothing

\* The record is written with the last commit.
LEMMA FinishStep == ASSUME Inv, Finish PROVE Inv'
<1>1. /\ db' = [rows |-> db.rows + pending.rows,
                fixtures |-> db.fixtures \cup pending.fixtures,
                errors |-> db.errors \cup pending.errors]
      /\ pending' = Nothing
      /\ record' = [status |-> FinalStatus, inserted |-> inserted]
      /\ pc = "finish" /\ pc' = "done"
      /\ UNCHANGED <<retained, inserted, causes, codes, fatal>>
  BY DEF Finish, Committed, funnel
<1>2. FinalStatus \in {"SUCCEEDED", "PARTIAL"} => ~fatal
  BY DEF FinalStatus
<1> QED
  BY <1>1, <1>2 DEF Inv, ShapeInv, StoredInv, CountedInv, NotedInv, RecordInv,
                    Sound, Nothing

\* The process ends, and its transaction with it.
LEMMA EndStep == ASSUME Inv, Abort \/ Stop PROVE Inv'
BY DEF Inv, Abort, Stop, Stopped, Nothing, funnel, ShapeInv, StoredInv,
       CountedInv, NotedInv, RecordInv, Sound

LEMMA InvInit == Init => Inv
BY DEF Init, Inv, ShapeInv, StoredInv, CountedInv, NotedInv, RecordInv, Sound, Nothing,
       NoRecord

LEMMA InvStep == Inv /\ [Next]_vars => Inv'
<1> SUFFICES ASSUME Inv, [Next]_vars
             PROVE  Inv'
  OBVIOUS
<1>1. CASE UNCHANGED vars
  BY <1>1 DEF vars, Inv, ShapeInv, StoredInv, CountedInv, NotedInv, RecordInv, Sound
<1>2. CASE Work
  BY <1>2, SilentActions, AnswerActions, FailureActions, EitherActions,
     StartStep, StoreStep, CommitStep, RaiseStep, RecordFailureStep, FinishStep, EndStep
     DEF Work
<1>3. CASE Stop
  BY <1>3, EndStep
<1> QED BY <1>1, <1>2, <1>3 DEF Next, Stay

LEMMA Invariant == Spec => []Inv
BY InvInit, InvStep, PTL DEF Spec

LEMMA InvPromises == Inv => RetainedAreStored /\ TruthfulRecord /\ ErrorsAreRecorded
BY DEF Inv, ShapeInv, StoredInv, CountedInv, NotedInv, RecordInv, Sound, Nothing,
       RetainedAreStored, TruthfulRecord, ErrorsAreRecorded

-----------------------------------------------------------------------------
\* Whatever befalls a synchronisation afterwards, the fixtures it has retained
\* are in the database: they are only retained once their commit is through.
THEOREM RetainedStayStored == Spec => []RetainedAreStored
BY InvPromises, Invariant, PTL

\* A record of a synchronisation that did not fail counts exactly the rows that
\* the database gained.
THEOREM RecordsAreTruthful == Spec => []TruthfulRecord
BY InvPromises, Invariant, PTL

\* A failure of a call is recorded for good, and a record of success comes with
\* all the errors that its status reflects.
THEOREM FailuresAreRecorded == Spec => []ErrorsAreRecorded
BY InvPromises, Invariant, PTL

-----------------------------------------------------------------------------
(* The funnel: rows, candidates and their order.                             *)

LEMMA RowsAreFinite == IsFiniteSet(Row)
<1> USE DiscoveryAssumption
<1> DEFINE parts == ((1..Days) \X Fixtures) \X RowFates
           make == [p \in parts |-> [day |-> p[1][1], fixture |-> p[1][2], fate |-> p[2]]]
           image == {make[p] : p \in parts}
<1>1. IsFiniteSet(1..Days)
  BY Interval
<1>2. IsFiniteSet(RowFates)
  <2>1. /\ RowFates = (({"scheduled"} \cup {"invalid_fixture"})
                         \cup {"fixture_status_not_scheduled"}) \cup {"fixture_not_future"}
    BY DEF RowFates
  <2> QED BY <2>1, FS_Singleton, FS_Union
<1>3. IsFiniteSet(parts)
  BY <1>1, <1>2, FS_Product
<1>4. Row \subseteq image
  <2> SUFFICES ASSUME NEW row \in Row PROVE row \in image
    OBVIOUS
  <2>1. /\ row.day \in 1..Days /\ row.fixture \in Fixtures /\ row.fate \in RowFates
        /\ row = [day |-> row.day, fixture |-> row.fixture, fate |-> row.fate]
    BY DEF Row
  <2> DEFINE p == <<<<row.day, row.fixture>>, row.fate>>
  <2>2. p \in parts
    BY <2>1
  <2>3. make[p] = row
    BY <2>1, <2>2
  <2> QED BY <2>2, <2>3
<1>5. IsFiniteSet(image)
  <2> HIDE DEF parts, make
  <2> QED BY <1>3, ImageIsFinite
<1> HIDE DEF image
<1> QED BY <1>4, <1>5, FS_Subset

LEMMA FixturesAreFinite ==
  ASSUME NEW S, S \subseteq Fixtures
  PROVE  IsFiniteSet(S) /\ Cardinality(S) \in Nat
BY DiscoveryAssumption, FS_Subset, FS_CardinalityType

LEMMA ListsAreFinite ==
  ASSUME NEW S, S \subseteq Row
  PROVE  IsFiniteSet(S) /\ Cardinality(S) \in Nat
BY RowsAreFinite, FS_Subset, FS_CardinalityType

\* What remains is a number of requests.
ClientOK ==
  /\ used \in 0..MaxRequests
  /\ quota \in Quotas \cup {NothingAnnounced}

LEMMA RemainingIsNumber ==
  ASSUME ClientOK
  PROVE  Remaining \in Nat
<1>1. MaxRequests - used \in Nat
  BY CallsAssumption DEF ClientOK
<1>2. quota.daily \in Nat \cup {NoQuota} /\ quota.minute \in Nat \cup {NoQuota}
  BY CallsAssumption DEF ClientOK, NothingAnnounced
<1> QED BY <1>1, <1>2, CallsAssumption DEF Remaining, Known, Least

CandidatesOK == rows \subseteq Row

LEMMA CandidateFacts ==
  ASSUME CandidatesOK, NEW c
  PROVE  /\ Candidate(c) \subseteq Fixtures
         /\ IsFiniteSet(Candidate(c)) /\ Cardinality(Candidate(c)) \in Nat
         /\ \A f \in Candidate(c) : CompOf[f] = c
<1>1. \A r \in rows : r.fixture \in Fixtures
  BY DEF CandidatesOK, Row
<1>2. Candidate(c) \subseteq Fixtures /\ \A f \in Candidate(c) : CompOf[f] = c
  BY <1>1 DEF Candidate
<1> QED BY <1>2, FixturesAreFinite

\* The keys of candidates put them in an order.
LEMMA KeysAreNumbers ==
  ASSUME CandidatesOK, NEW c \in Comps
  PROVE  Key(c) \in [1..5 -> Int] /\ Key(c)[5] = c
<1>1. Rank(c) \in Int
  <2>1. CASE \E i \in DOMAIN Priority : Priority[i] = c
    <3>1. Rank(c) \in DOMAIN Priority
      BY <2>1 DEF Rank
    <3> QED BY <3>1, DiscoveryAssumption
  <2>2. CASE ~ \E i \in DOMAIN Priority : Priority[i] = c
    BY <2>2, DiscoveryAssumption DEF Rank
  <2> QED BY <2>1, <2>2
<1>2. Cardinality(Candidate(c)) \in Nat /\ c \in Int
  BY CandidateFacts, DiscoveryAssumption
<1> QED BY <1>1, <1>2 DEF Key

Before == {p \in Comps \X Comps : Precedes(p[1], p[2])}

LEMMA KeysOrder ==
  ASSUME CandidatesOK
  PROVE  IsOrder(Comps, Before)
<1> DEFINE K == [c \in Comps |-> Key(c)]
           less(x, y) == \E i \in 1..5 : x[i] < y[i] /\ \A j \in 1..(i - 1) : x[j] = y[j]
<1>1. \A c \in Comps : K[c] \in [1..5 -> Int] /\ K[c][5] = c
  BY KeysAreNumbers
<1>2. \A a, b \in Comps : <<a, b>> \in Before <=> less(K[a], K[b])
  BY DEF Before, Precedes
<1> HIDE DEF K
<1>3. \A x, y \in [1..5 -> Int] : x[5] # y[5] => less(x, y) \/ less(y, x)
  <2> SUFFICES ASSUME NEW x \in [1..5 -> Int], NEW y \in [1..5 -> Int], x[5] # y[5]
               PROVE  less(x, y) \/ less(y, x)
    OBVIOUS
  <2>1. PICK i \in 1..5 : x[i] # y[i] /\ \A j \in 1..(i - 1) : x[j] = y[j]
    <3> DEFINE differ == {i \in 1..5 : x[i] # y[i]}
    <3>1. differ \subseteq Nat /\ differ # {}
      OBVIOUS
    <3>2. PICK i \in differ : \A m \in differ : i <= m
      <4> HIDE DEF differ
      <4> QED BY <3>1, LeastNumber
    <3>3. \A j \in 1..(i - 1) : x[j] = y[j]
      BY <3>2
    <3> QED BY <3>2, <3>3
  <2>2. x[i] \in Int /\ y[i] \in Int
    OBVIOUS
  <2> QED BY <2>1, <2>2
<1>4. \A x, y, z \in [1..5 -> Int] : less(x, y) /\ less(y, z) => less(x, z)
  <2> SUFFICES ASSUME NEW x \in [1..5 -> Int], NEW y \in [1..5 -> Int], NEW z \in [1..5 -> Int],
                      less(x, y), less(y, z)
               PROVE  less(x, z)
    OBVIOUS
  <2>1. PICK i \in 1..5 : x[i] < y[i] /\ \A j \in 1..(i - 1) : x[j] = y[j]
    OBVIOUS
  <2>2. PICK k \in 1..5 : y[k] < z[k] /\ \A j \in 1..(k - 1) : y[j] = z[j]
    OBVIOUS
  <2>3. x[i] \in Int /\ y[i] \in Int /\ z[i] \in Int /\ x[k] \in Int /\ y[k] \in Int /\ z[k] \in Int
    OBVIOUS
  <2>4. CASE i < k
    <3>1. x[i] < z[i]
      BY <2>1, <2>2, <2>3, <2>4
    <3>2. \A j \in 1..(i - 1) : x[j] = z[j]
      BY <2>1, <2>2, <2>4
    <3> QED BY <3>1, <3>2
  <2>5. CASE i >= k
    <3>1. x[k] < z[k]
      BY <2>1, <2>2, <2>3, <2>5
    <3>2. \A j \in 1..(k - 1) : x[j] = z[j]
      BY <2>1, <2>2, <2>5
    <3> QED BY <3>1, <3>2
  <2> QED BY <2>4, <2>5
<1>5. \A x \in [1..5 -> Int] : ~less(x, x)
  OBVIOUS
<1> HIDE DEF less
<1> QED BY <1>1, <1>2, <1>3, <1>4, <1>5 DEF IsOrder

\* The plan takes each candidate once.
LEMMA OrderHasAll ==
  ASSUME CandidatesOK
  PROVE  /\ IsFiniteSet(Candidates)
         /\ Cardinality(Candidates) \in Nat
         /\ Order \in [1..Cardinality(Candidates) -> Candidates]
         /\ \A i, j \in 1..Cardinality(Candidates) : i # j => Order[i] # Order[j]
         /\ {Order[i] : i \in 1..Cardinality(Candidates)} = Candidates
<1>1. IsFiniteSet(Candidates) /\ Candidates \subseteq Comps
  BY DiscoveryAssumption, FS_Subset DEF Candidates
<1>2. IsOrder(Candidates, Before)
  BY <1>1, KeysOrder DEF IsOrder
<1>3. PICK sorted : Sorted(Candidates, Before, sorted)
  BY <1>1, <1>2, SortedExists
<1>4. \A i, j \in DOMAIN sorted : i < j => Precedes(sorted[i], sorted[j])
  BY <1>3 DEF Sorted, Before
<1>5. \E order \in SetToSeqs(Candidates) :
        \A i, j \in DOMAIN order : i < j => Precedes(order[i], order[j])
  BY <1>3, <1>4 DEF Sorted
<1>6. Order \in SetToSeqs(Candidates)
  BY <1>5 DEF Order
<1> QED BY <1>1, <1>6, SequenceHasAll, FS_CardinalityType

-----------------------------------------------------------------------------
(* The plan: what the selection comes to, candidate after candidate.         *)

PlanEntry == [comp : Comps, fixtures : SUBSET Fixtures]
Selection == [plan : Seq(PlanEntry), budget : Int, limited : Nat, unaffordable : Nat]

CostsOf(entries) == [i \in DOMAIN entries |-> Cost(entries[i].comp)]
SizesOf(entries) == [i \in DOMAIN entries |-> Cardinality(entries[i].fixtures)]

\* The three things that may become of a candidate.
Limits(chosen, c) ==
  /\ Len(chosen.plan) >= MaxCompetitions
  /\ Select(chosen, c) = [plan |-> chosen.plan, budget |-> chosen.budget,
                          limited |-> chosen.limited + Cardinality(Candidate(c)),
                          unaffordable |-> chosen.unaffordable]
CannotAfford(chosen, c) ==
  Select(chosen, c) = [plan |-> chosen.plan, budget |-> chosen.budget,
                       limited |-> chosen.limited,
                       unaffordable |-> chosen.unaffordable + Cardinality(Candidate(c))]
Selects(chosen, c) ==
  /\ Cost(c) + (IF chosen.plan = <<>> THEN 0 ELSE 1) <= chosen.budget
  /\ Select(chosen, c) = [plan |-> Append(chosen.plan, [comp |-> c, fixtures |-> Candidate(c)]),
                          budget |-> chosen.budget - Cost(c),
                          limited |-> chosen.limited,
                          unaffordable |-> chosen.unaffordable]

LEMMA CostIsNatural ==
  ASSUME NEW c
  PROVE  Cost(c) \in Nat
BY DEF Cost

LEMMA SelectCases ==
  ASSUME NEW chosen \in Selection, NEW c
  PROVE  Limits(chosen, c) \/ CannotAfford(chosen, c) \/ Selects(chosen, c)
<1> DEFINE reserve == IF chosen.plan = <<>> THEN 0 ELSE 1
           A == Len(chosen.plan) >= MaxCompetitions
           B == Len(chosen.plan) < MaxCompetitions /\ Cost(c) + reserve > chosen.budget
           limited == [chosen EXCEPT !.limited = @ + LeftOut(c)]
           unaffordable == [chosen EXCEPT !.unaffordable = @ + LeftOut(c)]
           selected == [chosen EXCEPT !.plan = Append(@, [comp |-> c, fixtures |-> Candidate(c)]),
                                      !.budget = Deducted(@, c)]
<1>1. Select(chosen, c) = CASE A -> limited [] B -> unaffordable [] OTHER -> selected
  BY DEF Select
<1>2. Len(chosen.plan) \in Nat /\ chosen.budget \in Int /\ MaxCompetitions \in Nat
      /\ Cost(c) + reserve \in Int
  BY DiscoveryAssumption, CostIsNatural DEF Selection
<1>3. /\ limited = [plan |-> chosen.plan, budget |-> chosen.budget,
                    limited |-> chosen.limited + Cardinality(Candidate(c)),
                    unaffordable |-> chosen.unaffordable]
      /\ unaffordable = [plan |-> chosen.plan, budget |-> chosen.budget,
                         limited |-> chosen.limited,
                         unaffordable |-> chosen.unaffordable + Cardinality(Candidate(c))]
      /\ selected = [plan |-> Append(chosen.plan, [comp |-> c, fixtures |-> Candidate(c)]),
                     budget |-> chosen.budget - Cost(c),
                     limited |-> chosen.limited,
                     unaffordable |-> chosen.unaffordable]
  <2> DEFINE size == LeftOut(c)
             entry == [comp |-> c, fixtures |-> Candidate(c)]
             cost == Cost(c)
  <2>1. chosen = [plan |-> chosen.plan, budget |-> chosen.budget, limited |-> chosen.limited,
                  unaffordable |-> chosen.unaffordable]
    BY DEF Selection
  <2>2. /\ limited = [chosen EXCEPT !.limited = @ + size]
        /\ unaffordable = [chosen EXCEPT !.unaffordable = @ + size]
        /\ selected = [[chosen EXCEPT !.plan = Append(@, entry)] EXCEPT !.budget = @ - cost]
    BY DEF Deducted
  <2>3. size = Cardinality(Candidate(c))
    BY DEF LeftOut
  <2> HIDE DEF size, entry, cost, limited, unaffordable, selected
  <2>4. limited = [plan |-> chosen.plan, budget |-> chosen.budget,
                   limited |-> chosen.limited + size, unaffordable |-> chosen.unaffordable]
    BY <2>1, <2>2
  <2>5. unaffordable = [plan |-> chosen.plan, budget |-> chosen.budget,
                        limited |-> chosen.limited, unaffordable |-> chosen.unaffordable + size]
    BY <2>1, <2>2
  <2>6. selected = [plan |-> Append(chosen.plan, entry), budget |-> chosen.budget - cost,
                    limited |-> chosen.limited, unaffordable |-> chosen.unaffordable]
    BY <2>1, <2>2
  <2> QED BY <2>3, <2>4, <2>5, <2>6 DEF entry, cost
<1> HIDE DEF limited, unaffordable, selected
<1>4. CASE A
  <2>1. ~B
    BY <1>2, <1>4
  <2>2. Select(chosen, c) = limited
    BY <1>1, <1>4, <2>1
  <2> QED BY <1>3, <1>4, <2>2 DEF Limits
<1>5. CASE ~A /\ B
  BY <1>1, <1>3, <1>5 DEF CannotAfford
<1>6. CASE ~A /\ ~B
  <2>1. Select(chosen, c) = selected
    BY <1>1, <1>6
  <2>2. Cost(c) + reserve <= chosen.budget
    BY <1>2, <1>6
  <2> QED BY <1>3, <2>1, <2>2 DEF Selects
<1> QED BY <1>4, <1>5, <1>6

LEMMA SelectType ==
  ASSUME CandidatesOK, NEW chosen \in Selection, NEW c \in Comps
  PROVE  Select(chosen, c) \in Selection
<1>1. Candidate(c) \in SUBSET Fixtures /\ Cardinality(Candidate(c)) \in Nat
  BY CandidateFacts
<1>2. /\ chosen.plan \in Seq(PlanEntry) /\ chosen.budget \in Int
      /\ chosen.limited \in Nat /\ chosen.unaffordable \in Nat
  BY DEF Selection
<1>3. [comp |-> c, fixtures |-> Candidate(c)] \in PlanEntry
  BY <1>1 DEF PlanEntry
<1>4. Append(chosen.plan, [comp |-> c, fixtures |-> Candidate(c)]) \in Seq(PlanEntry)
  BY <1>2, <1>3
<1>5. chosen.budget - Cost(c) \in Int
  BY <1>2, CostIsNatural
<1>6. CASE Limits(chosen, c)
  BY <1>1, <1>2, <1>6 DEF Limits, Selection
<1>7. CASE CannotAfford(chosen, c)
  BY <1>1, <1>2, <1>7 DEF CannotAfford, Selection
<1>8. CASE Selects(chosen, c)
  BY <1>2, <1>4, <1>5, <1>8 DEF Selects, Selection
<1> QED BY <1>6, <1>7, <1>8, SelectCases

\* How many fixtures the candidates have, in order.
Wanted == [j \in 1..Cardinality(Candidates) |-> Cardinality(Candidate(Order[j]))]

\* After the first candidates: what the plan costs and the budget left come to what
\* remained, and each of their fixtures is in the plan or left out.
SelectionInv(i, chosen) ==
  /\ chosen.budget + SumFunction(CostsOf(chosen.plan)) = Remaining
  /\ chosen.plan # <<>> => chosen.budget >= 0
  /\ Len(chosen.plan) > 1 => chosen.budget >= 1
  /\ \A k \in DOMAIN chosen.plan :
       /\ chosen.plan[k].fixtures = Candidate(chosen.plan[k].comp)
       /\ \E j \in 1..i : chosen.plan[k].comp = Order[j]
  /\ \A k, m \in DOMAIN chosen.plan : k # m => chosen.plan[k].comp # chosen.plan[m].comp
  /\ chosen.limited + chosen.unaffordable + SumFunction(SizesOf(chosen.plan))
       = SumFunctionOnSet(Wanted, 1..i)

LEMMA EntriesAreNumbers ==
  ASSUME NEW entries \in Seq(PlanEntry)
  PROVE  /\ Len(entries) \in Nat
         /\ DOMAIN entries = 1..Len(entries)
         /\ DOMAIN CostsOf(entries) = 1..Len(entries)
         /\ DOMAIN SizesOf(entries) = 1..Len(entries)
         /\ \A k \in 1..Len(entries) :
              entries[k].comp \in Comps /\ entries[k].fixtures \subseteq Fixtures
         /\ NaturalsOn(CostsOf(entries), 1..Len(entries))
         /\ NaturalsOn(SizesOf(entries), 1..Len(entries))
         /\ IntegersOn(CostsOf(entries), 1..Len(entries))
         /\ IntegersOn(SizesOf(entries), 1..Len(entries))
<1>1. Len(entries) \in Nat /\ DOMAIN entries = 1..Len(entries)
      /\ \A k \in 1..Len(entries) : entries[k] \in PlanEntry
  OBVIOUS
<1>2. \A k \in 1..Len(entries) :
        entries[k].comp \in Comps /\ entries[k].fixtures \subseteq Fixtures
  BY <1>1 DEF PlanEntry
<1>3. \A k \in 1..Len(entries) : Cardinality(entries[k].fixtures) \in Nat
  BY <1>2, FixturesAreFinite
<1> QED BY <1>1, <1>2, <1>3, CostIsNatural DEF CostsOf, SizesOf, NaturalsOn, IntegersOn

\* What one more entry adds to both sums.
LEMMA OneMoreEntry ==
  ASSUME NEW entries \in Seq(PlanEntry), NEW entry \in PlanEntry
  PROVE  /\ SumFunction(CostsOf(Append(entries, entry)))
              = SumFunction(CostsOf(entries)) + Cost(entry.comp)
         /\ SumFunction(SizesOf(Append(entries, entry)))
              = SumFunction(SizesOf(entries)) + Cardinality(entry.fixtures)
<1> DEFINE more == Append(entries, entry)
           n == Len(entries)
<1>1. more \in Seq(PlanEntry) /\ Len(more) = n + 1 /\ more[n + 1] = entry
      /\ \A k \in 1..n : more[k] = entries[k]
  OBVIOUS
<1>2. n \in Nat /\ n + 1 \in 1..(n + 1) /\ \A k \in 1..n : k \in 1..(n + 1)
  BY EntriesAreNumbers
<1> HIDE DEF more
<1>3. /\ IntegersOn(CostsOf(more), 1..(n + 1)) /\ IntegersOn(SizesOf(more), 1..(n + 1))
      /\ DOMAIN CostsOf(more) = 1..(n + 1) /\ DOMAIN SizesOf(more) = 1..(n + 1)
      /\ DOMAIN more = 1..(n + 1)
  BY <1>1, EntriesAreNumbers
<1>4. DOMAIN CostsOf(entries) = 1..n /\ DOMAIN SizesOf(entries) = 1..n /\ DOMAIN entries = 1..n
  BY EntriesAreNumbers
<1>5. /\ \A k \in 1..n : CostsOf(entries)[k] = CostsOf(more)[k]
      /\ CostsOf(more)[n + 1] = Cost(entry.comp)
  BY <1>1, <1>2, <1>3, <1>4 DEF CostsOf
<1>6. /\ \A k \in 1..n : SizesOf(entries)[k] = SizesOf(more)[k]
      /\ SizesOf(more)[n + 1] = Cardinality(entry.fixtures)
  BY <1>1, <1>2, <1>3, <1>4 DEF SizesOf
<1> HIDE DEF n
<1>7. SumFunctionOnSet(CostsOf(more), 1..(n + 1))
        = SumFunctionOnSet(CostsOf(entries), 1..n) + CostsOf(more)[n + 1]
  BY <1>2, <1>3, <1>5, SumOfAppended
<1>8. SumFunctionOnSet(SizesOf(more), 1..(n + 1))
        = SumFunctionOnSet(SizesOf(entries), 1..n) + SizesOf(more)[n + 1]
  BY <1>2, <1>3, <1>6, SumOfAppended
<1> QED BY <1>3, <1>4, <1>5, <1>6, <1>7, <1>8 DEF SumFunction, more

LEMMA SelectionStep ==
  ASSUME CandidatesOK, ClientOK, NEW i \in Nat, i + 1 \in 1..Cardinality(Candidates),
         NEW chosen \in Selection, SelectionInv(i, chosen)
  PROVE  SelectionInv(i + 1, Select(chosen, Order[i + 1]))
<1> DEFINE c == Order[i + 1]
           n == Cardinality(Candidates)
           next == Select(chosen, c)
           size == Cardinality(Candidate(c))
           before == SumFunctionOnSet(Wanted, 1..i)
           cost == SumFunction(CostsOf(chosen.plan))
           sizes == SumFunction(SizesOf(chosen.plan))
<1>1. /\ n \in Nat /\ c \in Comps
      /\ \A j \in 1..n : Order[j] \in Comps
      /\ \A j, k \in 1..n : j # k => Order[j] # Order[k]
  BY OrderHasAll DEF Candidates
<1>2. size \in Nat /\ Candidate(c) \in SUBSET Fixtures /\ Cost(c) \in Nat
  BY CandidateFacts, CostIsNatural
<1>3. /\ chosen.plan \in Seq(PlanEntry) /\ chosen.budget \in Int
      /\ chosen.limited \in Nat /\ chosen.unaffordable \in Nat
  BY DEF Selection
<1>4. cost \in Int /\ sizes \in Int
  BY <1>3, EntriesAreNumbers, Interval, SumIsInteger DEF SumFunction
<1>5. SumFunctionOnSet(Wanted, 1..(i + 1)) = before + size /\ before \in Int
  <2>1. IntegersOn(Wanted, 1..(i + 1)) /\ IntegersOn(Wanted, 1..i) /\ Wanted[i + 1] = size
    <3>1. \A j \in 1..n : Wanted[j] \in Int
      BY CandidateFacts DEF Wanted
    <3>2. \A j \in 1..(i + 1) : j \in 1..n
      BY <1>1
    <3> QED BY <3>1, <3>2 DEF IntegersOn, Wanted
  <2>2. SumFunctionOnSet(Wanted, 1..(i + 1)) = before + Wanted[i + 1]
    BY <2>1, SumOfAppended
  <2>3. before \in Int
    BY <2>1, Interval, SumIsInteger
  <2> QED BY <2>1, <2>2, <2>3
<1>6. CASE Limits(chosen, c) \/ CannotAfford(chosen, c)
  <2>1. /\ next.plan = chosen.plan /\ next.budget = chosen.budget
        /\ next.limited + next.unaffordable = chosen.limited + chosen.unaffordable + size
    BY <1>2, <1>3, <1>6 DEF Limits, CannotAfford
  <2>2. chosen.limited + chosen.unaffordable + sizes = before
    BY DEF SelectionInv
  <2>3. next.limited + next.unaffordable + sizes = before + size
    <3> DEFINE l == chosen.limited
               u == chosen.unaffordable
               m == next.limited + next.unaffordable
    <3>1. m = l + u + size /\ l + u + sizes = before
      BY <2>1, <2>2
    <3>2. l \in Int /\ u \in Int /\ size \in Int /\ sizes \in Int
      BY <1>2, <1>3, <1>4
    <3> HIDE DEF l, u, m, size, before, sizes
    <3>3. m + sizes = before + size
      BY <3>1, <3>2
    <3> QED BY <3>3 DEF m
  <2>4. \A j \in 1..i : j \in 1..(i + 1)
    OBVIOUS
  <2> HIDE DEF size, before, next
  <2>5. next.limited + next.unaffordable + SumFunction(SizesOf(next.plan))
          = SumFunctionOnSet(Wanted, 1..(i + 1))
    BY <1>5, <2>1, <2>3
  <2>6. SelectionInv(i + 1, next)
    BY <2>1, <2>4, <2>5 DEF SelectionInv
  <2> QED BY <2>6 DEF next
<1>7. CASE Selects(chosen, c)
  <2> DEFINE entry == [comp |-> c, fixtures |-> Candidate(c)]
             entries == chosen.plan
  <2>1. /\ next.plan = Append(entries, entry) /\ next.budget = chosen.budget - Cost(c)
        /\ next.limited = chosen.limited /\ next.unaffordable = chosen.unaffordable
        /\ Cost(c) + (IF entries = <<>> THEN 0 ELSE 1) <= chosen.budget
    BY <1>7 DEF Selects
  <2>2. entry \in PlanEntry /\ entry.comp = c /\ entry.fixtures = Candidate(c)
    BY <1>1, <1>2 DEF PlanEntry
  <2>3. /\ SumFunction(CostsOf(next.plan)) = cost + Cost(c)
        /\ SumFunction(SizesOf(next.plan)) = sizes + size
    BY <1>3, <2>1, <2>2, OneMoreEntry
  <2>4. /\ DOMAIN next.plan = 1..(Len(entries) + 1) /\ Len(next.plan) = Len(entries) + 1
        /\ \A k \in 1..Len(entries) : next.plan[k] = entries[k]
        /\ next.plan[Len(entries) + 1] = entry
        /\ DOMAIN entries = 1..Len(entries) /\ Len(entries) \in Nat
        /\ next.plan # <<>>
    <3> HIDE DEF next, entry
    <3> QED BY <1>3, <2>1
  <2>5. /\ chosen.budget + cost = Remaining
        /\ chosen.limited + chosen.unaffordable + sizes = before
    BY DEF SelectionInv
  <2>6. next.budget + SumFunction(CostsOf(next.plan)) = Remaining
    <3> HIDE DEF cost, next
    <3> QED BY <1>2, <1>3, <1>4, <2>1, <2>3, <2>5
  <2>7. next.limited + next.unaffordable + SumFunction(SizesOf(next.plan))
          = SumFunctionOnSet(Wanted, 1..(i + 1))
    <3> DEFINE l == chosen.limited
               u == chosen.unaffordable
               m == next.limited + next.unaffordable
               more == SumFunction(SizesOf(next.plan))
    <3>1. m = l + u /\ more = sizes + size /\ l + u + sizes = before
      BY <2>1, <2>3, <2>5
    <3>2. l \in Int /\ u \in Int /\ size \in Int /\ sizes \in Int
      BY <1>2, <1>3, <1>4
    <3> HIDE DEF l, u, m, size, before, sizes, more
    <3>3. m + more = before + size
      BY <3>1, <3>2
    <3> QED BY <1>5, <3>3 DEF m, more
  <2>8. next.budget >= 0 /\ (Len(next.plan) > 1 => next.budget >= 1)
    <3> DEFINE rest == next.budget
               had == chosen.budget
               price == Cost(c)
    <3>1. rest = had - price /\ price \in Nat /\ had \in Int
      BY <1>2, <1>3, <2>1
    <3>2. CASE entries = <<>>
      <4>1. Len(next.plan) = 1 /\ price + 0 <= had
        BY <2>1, <2>4, <3>2
      <4> HIDE DEF rest, had, price
      <4>2. rest >= 0
        BY <3>1, <4>1
      <4> QED BY <4>1, <4>2 DEF rest
    <3>3. CASE entries # <<>>
      <4>1. price + 1 <= had
        BY <2>1, <3>3
      <4> HIDE DEF rest, had, price
      <4>2. rest >= 1 /\ rest >= 0
        BY <3>1, <4>1
      <4> QED BY <4>2 DEF rest
    <3> QED BY <3>2, <3>3
  <2>9. ASSUME NEW k \in DOMAIN next.plan
        PROVE  /\ next.plan[k].fixtures = Candidate(next.plan[k].comp)
               /\ \E j \in 1..(i + 1) : next.plan[k].comp = Order[j]
    <3>1. CASE k \in 1..Len(entries)
      BY <2>4, <3>1 DEF SelectionInv
    <3>2. CASE k = Len(entries) + 1
      BY <2>2, <2>4, <3>2
    <3> QED BY <2>4, <3>1, <3>2
  <2>10. \A k, m \in DOMAIN next.plan : k # m => next.plan[k].comp # next.plan[m].comp
    <3>1. \A k \in 1..Len(entries) : next.plan[k].comp # c
      <4> SUFFICES ASSUME NEW k \in 1..Len(entries), entries[k].comp = c PROVE FALSE
        BY <2>4
      <4>1. PICK j \in 1..i : entries[k].comp = Order[j]
        BY <2>4 DEF SelectionInv
      <4>2. j \in 1..n /\ i + 1 \in 1..n /\ j # i + 1
        BY <1>1
      <4> QED BY <1>1, <4>1, <4>2
    <3>2. \A k, m \in 1..Len(entries) : k # m => next.plan[k].comp # next.plan[m].comp
      BY <2>4 DEF SelectionInv
    <3>3. next.plan[Len(entries) + 1].comp = c
      BY <2>2, <2>4
    <3>4. \A k \in DOMAIN next.plan : k \in 1..Len(entries) \/ k = Len(entries) + 1
      BY <2>4
    <3> HIDE DEF next, c, entries
    <3> QED BY <3>1, <3>2, <3>3, <3>4
  <2> HIDE DEF next
  <2>11. SelectionInv(i + 1, next)
    BY <2>6, <2>7, <2>8, <2>9, <2>10 DEF SelectionInv
  <2> QED BY <2>11 DEF next
<1> QED BY <1>6, <1>7, SelectCases

LEMMA ChosenIsSelected ==
  ASSUME CandidatesOK, ClientOK
  PROVE  Chosen \in Selection /\ SelectionInv(Cardinality(Candidates), Chosen)
<1> DEFINE n == Cardinality(Candidates)
           D == DOMAIN Order
           start == [plan |-> <<>>, budget |-> Remaining, limited |-> 0, unaffordable |-> 0]
           op == [p \in (1..n) \X Selection |-> Select(p[2], Order[p[1]])]
           IsFold(g) == g = [t \in SUBSET D |-> IF t = {} THEN start
                                                ELSE Select(g[t \ {Max(t)}], Order[Max(t)])]
           acc == CHOOSE g : IsFold(g)
<1>1. n \in Nat /\ D = 1..n /\ \A j \in 1..n : Order[j] \in Comps
  BY OrderHasAll DEF Candidates
<1>2. Chosen = acc[D]
  BY DEF Chosen, FoldLeft, MapThenFoldSet
<1>3. start \in Selection
  BY RemainingIsNumber DEF Selection
<1>4. \A j \in 1..n : \A v \in Selection : op[<<j, v>>] = Select(v, Order[j])
  OBVIOUS
<1>5. \A j \in 1..n : \A v \in Selection : op[<<j, v>>] \in Selection
  BY <1>1, <1>4, SelectType
<1> HIDE DEF op, start
<1>6. IsFold(acc)
  <2> DEFINE pick == [t \in SUBSET (1..n) |-> Max(t)]
  <2>1. PICK g : Folds(1..n, Selection, start, pick, op, g)
    <3> HIDE DEF n
    <3> QED BY <1>1, <1>3, <1>5, FoldOfPositionsExists
  <2>2. \A t \in SUBSET (1..n) : t # {} => Max(t) \in t
    BY <1>1, MaxOfPositions
  <2>3. ASSUME NEW t \in SUBSET (1..n), t # {}
        PROVE  g[t] = Select(g[t \ {Max(t)}], Order[Max(t)])
    <3>1. Max(t) \in 1..n /\ t \ {Max(t)} \in SUBSET (1..n)
      BY <2>2, <2>3
    <3>2. pick[t] = Max(t)
      OBVIOUS
    <3> HIDE DEF pick
    <3> QED BY <1>4, <2>1, <2>3, <3>1, <3>2 DEF Folds
  <2>4. g[{}] = start
    BY <2>1 DEF Folds
  <2>5. IsFold(g)
    BY <1>1, <2>1, <2>3, <2>4 DEF Folds
  <2> QED BY <2>5
<1> HIDE DEF acc
<1> DEFINE Good == {i \in Nat : i <= n =>
                      acc[1..i] \in Selection /\ SelectionInv(i, acc[1..i])}
<1>7. 0 \in Good
  <2>1. acc[1..0] = start
    <3>1. 1..0 = {} /\ {} \in SUBSET D
      OBVIOUS
    <3> QED BY <1>6, <3>1
  <2>2. SelectionInv(0, start)
    <3>1. /\ start.plan = <<>> /\ start.budget = Remaining
          /\ start.limited = 0 /\ start.unaffordable = 0
      BY DEF start
    <3>2. DOMAIN CostsOf(start.plan) = {} /\ DOMAIN SizesOf(start.plan) = {}
          /\ DOMAIN start.plan = {} /\ 1..0 = {}
      BY <3>1 DEF CostsOf, SizesOf
    <3>3. SumFunction(CostsOf(start.plan)) = 0 /\ SumFunction(SizesOf(start.plan)) = 0
          /\ SumFunctionOnSet(Wanted, 1..0) = 0
      BY <3>2, SumOfNone DEF SumFunction
    <3>4. ~(Len(start.plan) > 1)
      BY <3>1
    <3> QED BY <3>1, <3>2, <3>3, <3>4, RemainingIsNumber DEF SelectionInv
  <2> QED BY <1>3, <2>1, <2>2
<1>8. ASSUME NEW i \in Nat, i \in Good
      PROVE  i + 1 \in Good
  <2> SUFFICES ASSUME i + 1 <= n
               PROVE  acc[1..(i + 1)] \in Selection /\ SelectionInv(i + 1, acc[1..(i + 1)])
    OBVIOUS
  <2>1. acc[1..i] \in Selection /\ SelectionInv(i, acc[1..i]) /\ i + 1 \in 1..n
    BY <1>1, <1>8
  <2>2. acc[1..(i + 1)] = Select(acc[1..i], Order[i + 1])
    <3>1. Max(1..(i + 1)) = i + 1 /\ (1..(i + 1)) \ {i + 1} = 1..i
      BY MaxOfFirst
    <3>2. 1..(i + 1) \in SUBSET D /\ 1..(i + 1) # {}
      BY <1>1, <2>1
    <3>3. acc[1..(i + 1)] = Select(acc[(1..(i + 1)) \ {Max(1..(i + 1))}], Order[Max(1..(i + 1))])
      BY <1>6, <3>2
    <3> QED BY <3>1, <3>3
  <2>3. acc[1..(i + 1)] \in Selection
    BY <1>1, <2>1, <2>2, SelectType
  <2>4. SelectionInv(i + 1, acc[1..(i + 1)])
    BY <2>1, <2>2, SelectionStep
  <2> QED BY <2>3, <2>4
<1>9. Nat \subseteq Good
  <2> HIDE DEF Good
  <2> QED BY <1>7, <1>8, NumberByNumber
<1> QED BY <1>1, <1>2, <1>9

-----------------------------------------------------------------------------
(* Counting fixtures.                                                        *)

LEMMA ReasonsAreFinite == IsFiniteSet(Reason)
<1>1. \A T, x : IsFiniteSet(T) => IsFiniteSet(T \cup {x})
  BY FS_AddElement
<1> DEFINE T1 == {"invalid_fixture"} \cup {"fixture_status_not_scheduled"}
           T2 == T1 \cup {"fixture_not_future"}
           T3 == T2 \cup {"duplicate_fixture"}
           T4 == T3 \cup {"competition_metadata_unavailable"}
           T5 == T4 \cup {"season_metadata_unavailable"}
           T6 == T5 \cup {"competition_type_unsupported"}
           T7 == T6 \cup {"insufficient_data_coverage"}
           T8 == T7 \cup {"competition_limit"}
           T9 == T8 \cup {"request_budget_competition_limit"}
           T10 == T9 \cup {"team_metadata_unavailable"}
           T11 == T10 \cup {"recent_results_unavailable"}
           T12 == T11 \cup {"insufficient_recent_results"}
<1>2. Reason = T12
  BY DEF Reason, RowFates
<1>3. IsFiniteSet(T4)
  <2>1. IsFiniteSet(T1)
    BY <1>1, FS_Singleton
  <2> HIDE DEF T1
  <2> QED BY <1>1, <2>1
<1> HIDE DEF T4
<1>4. IsFiniteSet(T8)
  BY <1>1, <1>3
<1> HIDE DEF T8
<1>5. IsFiniteSet(T12)
  BY <1>1, <1>4
<1> HIDE DEF T12
<1> QED BY <1>2, <1>5

LEMMA IgnoredIsCounted ==
  ASSUME NEW f \in [Reason -> Nat]
  PROVE  SumFunction(f) \in Nat
<1>1. NaturalsOn(f, Reason) /\ DOMAIN f = Reason
  BY DEF NaturalsOn
<1> QED BY <1>1, ReasonsAreFinite, SumIsNatural DEF SumFunction

LEMMA IgnoringMore ==
  ASSUME NEW f \in [Reason -> Nat], NEW reason \in Reason, NEW n \in Nat
  PROVE  /\ [f EXCEPT ![reason] = @ + n] \in [Reason -> Nat]
         /\ SumFunction([f EXCEPT ![reason] = @ + n]) = SumFunction(f) + n
<1> DEFINE h == [f EXCEPT ![reason] = @ + n]
<1>1. h \in [Reason -> Nat] /\ DOMAIN h = Reason /\ DOMAIN f = Reason
  OBVIOUS
<1>2. /\ IntegersOn(f, Reason) /\ n \in Int
      /\ \A r \in Reason : h[r] = IF r = reason THEN f[r] + n ELSE f[r]
  BY DEF IntegersOn
<1> HIDE DEF h
<1>3. SumFunctionOnSet(h, Reason) = SumFunctionOnSet(f, Reason) + n
  BY <1>2, ReasonsAreFinite, SumOfIncreased
<1> QED BY <1>1, <1>3 DEF SumFunction, h

\* Fixtures of a plan on which nothing is decided, when some of the first entry are left.
UndecidedIn(entries, some) ==
  [i \in DOMAIN entries |->
     IF i = 1 /\ some # {} THEN Cardinality(some) ELSE Cardinality(entries[i].fixtures)]

LEMMA UnreachedIsSum ==
  /\ Unreached = SumFunction(UndecidedIn(plan, valid))
  /\ Unreached' = SumFunction(UndecidedIn(plan', valid'))
BY DEF Unreached, Undecided, UndecidedIn, Sum

LEMMA UndecidedIsCounted ==
  ASSUME NEW entries \in Seq(PlanEntry), NEW some, some \subseteq Fixtures
  PROVE  SumFunction(UndecidedIn(entries, some)) \in Nat
<1>1. Cardinality(some) \in Nat
  BY FixturesAreFinite
<1>2. \A i \in 1..Len(entries) : Cardinality(entries[i].fixtures) \in Nat
  BY EntriesAreNumbers, FixturesAreFinite
<1>3. /\ DOMAIN UndecidedIn(entries, some) = 1..Len(entries)
      /\ NaturalsOn(UndecidedIn(entries, some), 1..Len(entries))
  BY <1>1, <1>2, EntriesAreNumbers DEF UndecidedIn, NaturalsOn
<1> QED BY <1>3, EntriesAreNumbers, Interval, SumIsNatural DEF SumFunction

LEMMA NoneDecided ==
  ASSUME NEW entries, NEW some, some = {}
  PROVE  UndecidedIn(entries, some) = SizesOf(entries)
BY DEF UndecidedIn, SizesOf

\* The first entry, and the others.
LEMMA FirstEntry ==
  ASSUME NEW entries \in Seq(PlanEntry), entries # <<>>, NEW some, some \subseteq Fixtures
  PROVE  SumFunction(UndecidedIn(entries, some))
           = (IF some # {} THEN Cardinality(some) ELSE Cardinality(Head(entries).fixtures))
               + SumFunction(SizesOf(Tail(entries)))
<1> DEFINE n == Len(entries) - 1
           f == UndecidedIn(entries, some)
           h == SizesOf(Tail(entries))
<1>1. n \in Nat /\ Len(entries) = n + 1 /\ DOMAIN entries = 1..(n + 1)
  OBVIOUS
<1>2. Tail(entries) \in Seq(PlanEntry) /\ Len(Tail(entries)) = n
      /\ \A i \in 1..n : Tail(entries)[i] = entries[i + 1]
  BY <1>1
<1>3. DOMAIN f = 1..(n + 1) /\ DOMAIN h = 1..n /\ DOMAIN Tail(entries) = 1..n
  BY <1>1, <1>2, EntriesAreNumbers DEF UndecidedIn
<1>4. IntegersOn(f, 1..(n + 1))
  <2>1. \A i \in 1..(n + 1) : Cardinality(entries[i].fixtures) \in Nat
    BY <1>1, EntriesAreNumbers, FixturesAreFinite
  <2>2. Cardinality(some) \in Nat
    BY FixturesAreFinite
  <2> QED BY <1>1, <2>1, <2>2 DEF UndecidedIn, IntegersOn
<1>5. \A i \in 1..n : h[i] = f[i + 1]
  BY <1>1, <1>2, <1>3 DEF UndecidedIn, SizesOf
<1>6. f[1] = IF some # {} THEN Cardinality(some) ELSE Cardinality(Head(entries).fixtures)
  BY <1>1 DEF UndecidedIn
<1> HIDE DEF n, f, h
<1>7. SumFunctionOnSet(f, 1..(n + 1)) = f[1] + SumFunctionOnSet(h, 1..n)
  BY <1>1, <1>4, <1>5, SumOfRest
<1> QED BY <1>3, <1>6, <1>7 DEF SumFunction, f, h

-----------------------------------------------------------------------------
(* What the plan does with the rows.                                         *)

UniqueRows ==
  /\ rows \subseteq Row
  /\ \A a, b \in Usable : a.fixture = b.fixture => a = b

Scheduled == {row \in rows : Verdict(row) = "scheduled"}
CountedFor(reason) == Cardinality({row \in rows : Verdict(row) = reason})

LEMMA VerdictsAreReasons ==
  ASSUME rows \subseteq Row, NEW row \in rows
  PROVE  Verdict(row) \in Reason \cup {"scheduled"}
<1>1. row.fate \in RowFates
  BY DEF Row
<1> QED BY <1>1 DEF Verdict, Reason, RowFates

LEMMA RowsByVerdict ==
  ASSUME rows \subseteq Row
  PROVE  /\ \A reason \in Reason : CountedFor(reason) \in Nat
         /\ Cardinality(rows) = Cardinality(Scheduled)
              + SumFunctionOnSet([reason \in Reason |-> CountedFor(reason)], Reason)
<1> DEFINE K == Reason \cup {"scheduled"}
           key == [row \in rows |-> Verdict(row)]
           counts == CountsByKey(rows, key, K)
           some == [reason \in Reason |-> CountedFor(reason)]
<1>1. IsFiniteSet(rows) /\ IsFiniteSet(K)
  BY ListsAreFinite, ReasonsAreFinite, FS_AddElement
<1>2. \A row \in rows : key[row] \in K
  BY VerdictsAreReasons
<1>3. \A k : Having(rows, key, k) = {row \in rows : Verdict(row) = k}
  BY DEF Having
<1>4. counts["scheduled"] = Cardinality(Scheduled)
      /\ \A reason \in Reason : counts[reason] = CountedFor(reason)
  BY <1>3 DEF CountsByKey, Scheduled, CountedFor
<1>5. IntegersOn(counts, K) /\ NaturalsOn(counts, K)
  <2> HIDE DEF key, K
  <2> QED BY <1>1, CountsAreNatural
<1>6. SumFunctionOnSet(counts, K) = Cardinality(rows)
  <2> HIDE DEF key, K
  <2> QED BY <1>1, <1>2, CountedByKey
<1>7. K \ {"scheduled"} = Reason /\ "scheduled" \in K
  BY DEF Reason, RowFates
<1>8. \A reason \in Reason : CountedFor(reason) \in Nat
  BY <1>4, <1>5, <1>7 DEF NaturalsOn
<1> HIDE DEF counts, K
<1>9. SumFunctionOnSet(counts, K) = counts["scheduled"] + SumFunctionOnSet(counts, Reason)
  BY <1>1, <1>5, <1>7, SumByElement
<1>10. SumFunctionOnSet(counts, Reason) = SumFunctionOnSet(some, Reason)
  <2>1. IntegersOn(some, Reason) /\ \A reason \in Reason : counts[reason] = some[reason]
    BY <1>4, <1>8 DEF IntegersOn
  <2> HIDE DEF some
  <2> QED BY <2>1, ReasonsAreFinite, SumOfSame
<1> QED BY <1>4, <1>6, <1>8, <1>9, <1>10

\* Every row that is scheduled is a fixture of one candidate.
LEMMA ScheduledAreWanted ==
  ASSUME UniqueRows
  PROVE  SumFunctionOnSet(Wanted, 1..Cardinality(Candidates)) = Cardinality(Scheduled)
<1> DEFINE n == Cardinality(Candidates)
           K == 1..n
           place == [row \in Scheduled |-> CHOOSE j \in K : Order[j] = CompOf[row.fixture]]
           counts == CountsByKey(Scheduled, place, K)
<1>1. CandidatesOK /\ Scheduled \subseteq Row /\ IsFiniteSet(Scheduled)
  BY ListsAreFinite DEF UniqueRows, CandidatesOK, Scheduled
<1>2. /\ n \in Nat
      /\ \A j \in K : Order[j] \in Candidates
      /\ \A i, j \in K : i # j => Order[i] # Order[j]
      /\ \A c \in Candidates : \E j \in K : Order[j] = c
  BY <1>1, OrderHasAll
<1>3. IsFiniteSet(K)
  BY <1>2, Interval
<1>4. ASSUME NEW row \in Scheduled
      PROVE  place[row] \in K /\ Order[place[row]] = CompOf[row.fixture]
  <2>1. row.fixture \in Fixtures /\ CompOf[row.fixture] \in Comps
    BY <1>1, DiscoveryAssumption DEF Row
  <2>2. row.fixture \in Candidate(CompOf[row.fixture])
    BY DEF Candidate, Scheduled
  <2>3. CompOf[row.fixture] \in Candidates
    BY <2>1, <2>2 DEF Candidates
  <2> QED BY <1>2, <2>3
<1> HIDE DEF n
<1>5. ASSUME NEW j \in K
      PROVE  counts[j] = Wanted[j]
  <2> DEFINE mine == Having(Scheduled, place, j)
             fixture == [row \in mine |-> row.fixture]
  <2>1. mine = {row \in Scheduled : CompOf[row.fixture] = Order[j]}
    BY <1>2, <1>4 DEF Having
  <2>2. {fixture[row] : row \in mine} = Candidate(Order[j])
    <3>1. {fixture[row] : row \in mine} = {row.fixture : row \in mine}
      OBVIOUS
    <3>2. mine = {r \in rows : Verdict(r) = "scheduled" /\ CompOf[r.fixture] = Order[j]}
      BY <2>1 DEF Scheduled
    <3> HIDE DEF mine
    <3> QED BY <3>1, <3>2 DEF Candidate
  <2>3. IsFiniteSet(mine)
    BY <1>1, <2>1, FS_Subset
  <2>4. \A a, b \in mine : fixture[a] = fixture[b] => a = b
    <3>1. \A a \in mine : a \in Usable
      BY <2>1 DEF Scheduled, Usable, Verdict
    <3> QED BY <3>1 DEF UniqueRows
  <2> HIDE DEF mine, fixture
  <2>5. Cardinality({fixture[row] : row \in mine}) = Cardinality(mine)
    BY <2>3, <2>4, ImageIsCounted
  <2> QED BY <2>2, <2>5 DEF CountsByKey, Wanted, n, mine
<1>6. SumFunctionOnSet(counts, K) = Cardinality(Scheduled)
  <2> HIDE DEF place, K
  <2> QED BY <1>1, <1>3, <1>4, CountedByKey
<1>7. SumFunctionOnSet(Wanted, K) = SumFunctionOnSet(counts, K)
  <2>1. IntegersOn(counts, K)
    <3> HIDE DEF place, K
    <3> QED BY <1>1, CountsAreNatural
  <2>2. \A j \in K : Wanted[j] = counts[j]
    BY <1>5
  <2> HIDE DEF counts, K
  <2> QED BY <1>3, <2>1, <2>2, SumOfSame
<1> QED BY <1>6, <1>7 DEF n

\* All rows are counted when the plan is made: ignored, or in the plan.
LEMMA PlanCounts ==
  ASSUME UniqueRows, ClientOK, NEW f \in [Reason -> Nat],
         NEW h, h = [reason \in Reason |->
           f[reason] + CountedFor(reason)
             + (CASE reason = "competition_limit" -> Chosen.limited
                  [] reason = "request_budget_competition_limit" -> Chosen.unaffordable
                  [] OTHER -> 0)]
  PROVE  /\ h \in [Reason -> Nat]
         /\ SumFunction(h) + SumFunction(SizesOf(Chosen.plan))
              = SumFunction(f) + Cardinality(rows)
<1> DEFINE counts == [reason \in Reason |-> CountedFor(reason)]
           limited == [reason \in Reason |->
                         IF reason = "competition_limit" THEN Chosen.limited ELSE 0]
           unaffordable == [reason \in Reason |->
                         IF reason = "request_budget_competition_limit"
                         THEN Chosen.unaffordable ELSE 0]
           out == [reason \in Reason |-> limited[reason] + unaffordable[reason]]
           added == [reason \in Reason |-> counts[reason] + out[reason]]
           S(q) == SumFunctionOnSet(q, Reason)
<1>1. /\ CandidatesOK /\ rows \subseteq Row
      /\ Chosen \in Selection
      /\ SelectionInv(Cardinality(Candidates), Chosen)
  BY ChosenIsSelected DEF UniqueRows, CandidatesOK
<1>2. /\ Chosen.limited \in Nat /\ Chosen.unaffordable \in Nat
      /\ Chosen.plan \in Seq(PlanEntry)
  BY <1>1 DEF Selection
<1>3. "competition_limit" \in Reason /\ "request_budget_competition_limit" \in Reason
  BY DEF Reason
<1>4. /\ \A reason \in Reason : counts[reason] \in Nat
      /\ Cardinality(rows) = Cardinality(Scheduled) + S(counts)
  BY <1>1, RowsByVerdict
<1>5. \A reason \in Reason : limited[reason] \in Nat /\ unaffordable[reason] \in Nat
  BY <1>2
<1>6. S(limited) = Chosen.limited /\ S(unaffordable) = Chosen.unaffordable
  <2>1. /\ limited["competition_limit"] = Chosen.limited
        /\ \A reason \in Reason : reason # "competition_limit" => limited[reason] = 0
        /\ unaffordable["request_budget_competition_limit"] = Chosen.unaffordable
        /\ \A reason \in Reason :
             reason # "request_budget_competition_limit" => unaffordable[reason] = 0
    BY <1>3
  <2> HIDE DEF limited, unaffordable
  <2>2. S(limited) = limited["competition_limit"]
    BY <1>2, <1>3, <2>1, ReasonsAreFinite, SumOfSingle
  <2>3. S(unaffordable) = unaffordable["request_budget_competition_limit"]
    BY <1>2, <1>3, <2>1, ReasonsAreFinite, SumOfSingle
  <2> QED BY <2>1, <2>2, <2>3
<1>7. \A reason \in Reason : out[reason] = limited[reason] + unaffordable[reason]
                             /\ out[reason] \in Nat
  BY <1>5
<1>8. \A reason \in Reason : added[reason] = counts[reason] + out[reason]
                             /\ added[reason] \in Nat
  BY <1>4, <1>7
<1>9. \A reason \in Reason : h[reason] = f[reason] + added[reason]
  <2> SUFFICES ASSUME NEW reason \in Reason
               PROVE  h[reason] = f[reason] + added[reason]
    OBVIOUS
  <2> DEFINE extra == CASE reason = "competition_limit" -> Chosen.limited
                        [] reason = "request_budget_competition_limit" -> Chosen.unaffordable
                        [] OTHER -> 0
  <2>1. extra = out[reason]
    BY <1>2
  <2>2. h[reason] = f[reason] + CountedFor(reason) + extra
    OBVIOUS
  <2>3. CountedFor(reason) = counts[reason] /\ f[reason] \in Nat
    OBVIOUS
  <2> HIDE DEF extra, counts, out, added
  <2> QED BY <1>4, <1>7, <1>8, <2>1, <2>2, <2>3
<1>10. h \in [Reason -> Nat] /\ DOMAIN h = Reason /\ DOMAIN f = Reason
  <2>1. \A reason \in Reason : f[reason] + added[reason] \in Nat
    BY <1>8
  <2> HIDE DEF added
  <2> QED BY <1>9, <2>1
<1> HIDE DEF counts, limited, unaffordable, out, added
<1>11. /\ IntegersOn(f, Reason) /\ IntegersOn(counts, Reason) /\ IntegersOn(limited, Reason)
       /\ IntegersOn(unaffordable, Reason) /\ IntegersOn(out, Reason)
       /\ IntegersOn(added, Reason)
  BY <1>4, <1>5, <1>7, <1>8 DEF IntegersOn
<1>12. S(out) = S(limited) + S(unaffordable)
  BY <1>7, <1>11, ReasonsAreFinite, SumOfBoth
<1>13. S(added) = S(counts) + S(out)
  BY <1>8, <1>11, ReasonsAreFinite, SumOfBoth
<1>14. S(h) = S(f) + S(added)
  BY <1>9, <1>11, ReasonsAreFinite, SumOfBoth
<1>15. Chosen.limited + Chosen.unaffordable + SumFunction(SizesOf(Chosen.plan))
         = Cardinality(Scheduled)
  BY <1>1, ScheduledAreWanted DEF SelectionInv
<1> DEFINE a == S(f)
           b == S(counts)
           l == Chosen.limited
           u == Chosen.unaffordable
           sizes == SumFunction(SizesOf(Chosen.plan))
           scheduled == Cardinality(Scheduled)
<1>16. a \in Int /\ b \in Int /\ l \in Int /\ u \in Int /\ sizes \in Int
  BY <1>2, <1>11, ReasonsAreFinite, SumIsInteger, EntriesAreNumbers, Interval DEF SumFunction
<1>17. S(h) = a + (b + (l + u)) /\ l + u + sizes = scheduled
       /\ Cardinality(rows) = scheduled + b
  BY <1>4, <1>6, <1>12, <1>13, <1>14, <1>15
<1>18. SumFunction(h) = S(h) /\ SumFunction(f) = a
  BY <1>10 DEF SumFunction
<1> HIDE DEF a, b, l, u, sizes, scheduled, S
<1>19. a + (b + (l + u)) + sizes = a + (scheduled + b)
  BY <1>16, <1>17
<1> QED BY <1>10, <1>17, <1>18, <1>19 DEF sizes

-----------------------------------------------------------------------------
(* Types.                                                                    *)

CallType ==
  /\ ClientOK
  /\ causes \subseteq Causes
  /\ codes \subseteq Codes
  /\ inserted \in Nat
  /\ pending \in Written
  /\ db \in Written
FunnelType ==
  /\ rows \subseteq Row
  /\ received \in Nat
  /\ ignored \in [Reason -> Nat]
  /\ plan \in Seq(PlanEntry)
  /\ valid \subseteq Fixtures
  /\ retained \subseteq Fixtures
CourseType ==
  /\ pc \in Phase
  /\ day \in 0..Days
  /\ catalogue \in BOOLEAN
  /\ left \in Nat
  /\ fatal \in BOOLEAN
  /\ record \in [status : {"none", "RUNNING", "SUCCEEDED", "PARTIAL", "FAILED"},
                 inserted : Nat]

LEMMA TypeParts == TypeOK <=> CallType /\ FunnelType /\ CourseType
BY DEF TypeOK, CallType, ClientOK, NothingAnnounced, FunnelType, PlanEntry, CourseType

LEMMA AnsweredType ==
  ASSUME ClientOK, Answered
  PROVE  ClientOK'
<1>1. PICK n \in 1..MaxAttempts : Spend(n) /\ quota' \in Quotas
  BY DEF Answered
<1>2. MaxAttempts \in Nat /\ MaxRequests \in Nat
  BY CallsAssumption
<1> QED BY <1>1, <1>2 DEF ClientOK, Spend

LEMMA FailsType ==
  ASSUME ClientOK, NEW cause \in Causes, Fails(cause)
  PROVE  ClientOK'
<1>1. MaxAttempts \in Nat /\ MaxRequests \in Nat
  BY CallsAssumption
<1>2. Refused \/ OutOfBudget \/ Unavailable \/ Answered
  BY DEF Fails
<1>3. CASE Refused
  BY <1>3 DEF Refused, client, ClientOK
<1>4. CASE OutOfBudget
  BY <1>1, <1>4 DEF OutOfBudget, ClientOK
<1>5. CASE Unavailable
  BY <1>1, <1>5 DEF Unavailable, Spend, ClientOK
<1>6. CASE Answered
  BY <1>6, AnsweredType
<1> QED BY <1>2, <1>3, <1>4, <1>5, <1>6

LEMMA WrittenTypes ==
  /\ Nothing \in Written
  /\ \A w \in Written : /\ w = [rows |-> w.rows, fixtures |-> w.fixtures, errors |-> w.errors]
                        /\ w.rows \in Nat /\ w.fixtures \subseteq Fixtures /\ w.errors \subseteq Codes
  /\ \A n \in Nat : \A f \in SUBSET Fixtures : \A e \in SUBSET Codes :
       [rows |-> n, fixtures |-> f, errors |-> e] \in Written
BY DEF Written, Nothing

LEMMA CommittedType ==
  ASSUME db \in Written, NEW w \in Written
  PROVE  Committed(w) \in Written
<1>1. /\ db.rows \in Nat /\ db.fixtures \subseteq Fixtures /\ db.errors \subseteq Codes
      /\ w.rows \in Nat /\ w.fixtures \subseteq Fixtures /\ w.errors \subseteq Codes
  BY DEF Written
<1> QED BY <1>1 DEF Committed, Written

LEMMA WithErrorsType ==
  ASSUME pending \in Written, NEW new, new \subseteq Codes
  PROVE  WithErrors(new) \in Written
BY DEF WithErrors, Written

LEMMA FailedCallType ==
  ASSUME CallType, NEW cause \in Causes, RequestFails(cause)
  PROVE  CallType'
<1>1. ClientOK'
  BY FailsType DEF CallType, RequestFails
<1>2. {cause} \subseteq Codes
  BY DEF Codes
<1>3. db' \in Written /\ pending' \in Written
  BY <1>2, CommittedType, WithErrorsType, WrittenTypes DEF CallType, RequestFails
<1> QED BY <1>1, <1>2, <1>3 DEF CallType, RequestFails

LEMMA AnsweredCallType ==
  ASSUME CallType, NEW unusable \in BOOLEAN, EnvelopeReceived(unusable)
  PROVE  CallType'
<1>1. ClientOK'
  BY AnsweredType DEF CallType, EnvelopeReceived
<1>2. {"invalid_row"} \subseteq Codes
  BY DEF Codes
<1>3. pending' \in Written
  BY <1>2, WithErrorsType DEF CallType, EnvelopeReceived
<1> QED BY <1>1, <1>2, <1>3 DEF CallType, EnvelopeReceived

LEMMA StoredCallType ==
  ASSUME CallType, NEW n \in {0, 1}, StoredAtOnce(n)
  PROVE  CallType'
<1>1. ClientOK'
  BY AnsweredType DEF CallType, StoredAtOnce
<1>2. {"invalid_row"} \subseteq Codes
  BY DEF Codes
<1>3. PICK unusable \in BOOLEAN :
        /\ codes' = IF unusable THEN codes \cup {"invalid_row"} ELSE codes
        /\ db' = [Committed(WithErrors(IF unusable THEN {"invalid_row"} ELSE {}))
                    EXCEPT !.rows = @ + n]
  BY DEF StoredAtOnce
<1> DEFINE new == IF unusable THEN {"invalid_row"} ELSE {}
           whole == Committed(WithErrors(new))
<1>4. whole \in Written
  <2>1. new \subseteq Codes
    BY <1>2
  <2> HIDE DEF new
  <2> QED BY <2>1, CommittedType, WithErrorsType DEF CallType
<1>5. db' = [whole EXCEPT !.rows = @ + n]
  BY <1>3
<1>6. db' \in Written
  <2> HIDE DEF whole
  <2> QED BY <1>4, <1>5 DEF Written
<1>7. inserted' \in Nat /\ pending' \in Written /\ causes' = causes
  BY WrittenTypes DEF CallType, StoredAtOnce
<1> QED BY <1>1, <1>2, <1>3, <1>6, <1>7 DEF CallType

LEMMA CallTypeStep ==
  ASSUME CallType, valid \subseteq Fixtures, Work \/ Stop
  PROVE  CallType'
<1>1. CASE \/ Start \/ Dedupe \/ Plan \/ Pairs \/ HeadToHeadEnds \/ StatisticsEnd
  <2>1. UNCHANGED <<client, causes, codes, tables>>
    BY <1>1 DEF Start, Dedupe, Plan, Pairs, HeadToHeadEnds, StatisticsEnd
  <2> QED BY <2>1 DEF CallType, ClientOK, client, tables
<1>2. CASE \/ DateReceived \/ LeaguesReceived \/ TeamsReceived \/ HistoryReceived
           \/ NoStatistics
  <2>1. \E unusable \in BOOLEAN : EnvelopeReceived(unusable)
    BY <1>2 DEF DateReceived, LeaguesReceived, TeamsReceived, HistoryReceived, NoStatistics
  <2> QED BY <2>1, AnsweredCallType
<1>3. CASE DateFails \/ LeaguesFail \/ TeamsFail \/ HistoryFails \/ StatisticsFail
  <2>1. \E cause \in Causes : RequestFails(cause)
    BY <1>3 DEF DateFails, LeaguesFail, TeamsFail, HistoryFails, StatisticsFail
  <2> QED BY <2>1, FailedCallType
<1>4. CASE StandingsRequest \/ HeadToHead \/ StatisticsReceived \/ EventsRequest
  <2>1. \/ \E unusable \in BOOLEAN : EnvelopeReceived(unusable)
        \/ \E cause \in Causes : RequestFails(cause)
        \/ \E n \in {0, 1} : StoredAtOnce(n)
    BY <1>4 DEF StandingsRequest, HeadToHead, StatisticsReceived, EventsRequest
  <2> QED BY <2>1, AnsweredCallType, FailedCallType, StoredCallType
<1>5. CASE Store
  <2>1. PICK n \in 0..(Cardinality(valid) + 1) : Insert(n, valid)
    BY <1>5 DEF Store
  <2>2. n \in Nat
    BY FixturesAreFinite
  <2>3. pending' = [[pending EXCEPT !.rows = @ + n] EXCEPT !.fixtures = @ \cup valid]
        /\ inserted' = inserted + n
    BY <2>1, Zenon DEF Insert
  <2>4. pending' \in Written
    <3>1. pending = [rows |-> pending.rows, fixtures |-> pending.fixtures,
                     errors |-> pending.errors]
          /\ pending.rows \in Nat /\ pending.fixtures \subseteq Fixtures
          /\ pending.errors \subseteq Codes
      BY WrittenTypes DEF CallType
    <3>2. pending' = [rows |-> pending.rows + n, fixtures |-> pending.fixtures \cup valid,
                      errors |-> pending.errors]
      BY <2>3, <3>1
    <3>3. /\ pending.rows + n \in Nat /\ pending.fixtures \cup valid \in SUBSET Fixtures
          /\ pending.errors \in SUBSET Codes
      BY <2>2, <3>1
    <3> QED BY <3>2, <3>3, WrittenTypes
  <2> QED BY <1>5, <2>2, <2>3, <2>4 DEF Store, CallType, ClientOK, client
<1>6. CASE Commit
  BY <1>6, CommittedType, WrittenTypes DEF Commit, CallType, ClientOK, client
<1>7. CASE Raise
  BY <1>7, WrittenTypes DEF Raise, CallType, ClientOK, client
<1>8. CASE RecordFailure
  <2>1. {"internal"} \subseteq Codes
    BY DEF Codes
  <2>2. db' \in Written /\ pending' \in Written
    BY <1>8, <2>1, CommittedType, WithErrorsType, WrittenTypes DEF RecordFailure, CallType
  <2> QED BY <1>8, <2>1, <2>2 DEF RecordFailure, CallType, ClientOK, client
<1>9. CASE Finish
  BY <1>9, CommittedType, WrittenTypes DEF Finish, CallType, ClientOK, client
<1>10. CASE Abort \/ Stop
  BY <1>10, WrittenTypes DEF Abort, Stop, CallType, ClientOK, client
<1> QED BY <1>1, <1>2, <1>3, <1>4, <1>5, <1>6, <1>7, <1>8, <1>9, <1>10 DEF Work

-----------------------------------------------------------------------------
(* The course of a synchronisation.                                          *)

Early == {"new", "dates", "dedupe", "leagues", "plan"}
Kept == {"history", "standings", "store", "commit"}
Enriching == {"teams"} \cup Kept
Late == {"pairs", "h2h", "statistics", "events"}
\* Every step was taken, and no internal error intervened.
Whole == pc \in Late \/ (pc \in {"finish", "done"} /\ ~fatal)

\* Where it is, what that means for the rows, the plan and its first entry.
CourseInv ==
  /\ pc \in {"new", "dates"} => day < Days
  /\ pc = "events" => left > 0
  /\ fatal => pc \in {"failed", "finish"} \cup Stopped
  /\ pc = "failed" => fatal
  /\ pc \in Early => plan = <<>> /\ valid = {} /\ retained = {}
  /\ pc \in Enriching => plan # <<>> /\ rows = {}
  /\ pc = "teams" => valid = {}
  /\ pc \in Kept => valid # {} /\ valid \subseteq Competition.fixtures
  /\ Whole => rows = {} /\ valid = {}

\* The steps that leave the rows and the funnel as they are.
Quiet ==
  \/ Start \/ DateFails \/ LeaguesReceived \/ LeaguesFail \/ StandingsRequest \/ Store
  \/ Pairs \/ HeadToHead \/ HeadToHeadEnds \/ NoStatistics \/ StatisticsReceived
  \/ StatisticsFail \/ EventsRequest \/ StatisticsEnd \/ RecordFailure \/ Finish
  \/ Abort \/ Stop

LEMMA QuietSteps ==
  ASSUME Quiet
  PROVE  UNCHANGED <<rows, received, ignored, plan, valid, retained, fatal>>
BY DEF Quiet, Start, DateFails, LeaguesReceived, LeaguesFail, StandingsRequest, Store,
       Pairs, HeadToHead, HeadToHeadEnds, NoStatistics, StatisticsReceived, StatisticsFail,
       EventsRequest, StatisticsEnd, RecordFailure, Finish, Abort, Stop, funnel

LEMMA LeftIsNatural ==
  ASSUME ClientOK, CourseType, CourseInv, Work \/ Stop
  PROVE  left' \in Nat
<1>1. CASE Pairs
  <2>1. left' \in 0..Least(Cardinality(retained), MaxH2H)
    BY <1>1 DEF Pairs
  <2> QED BY <2>1
<1>2. CASE HeadToHeadEnds
  <2>1. Remaining \in Nat
    BY RemainingIsNumber
  <2>2. StatisticsLimit \in Nat
    BY <2>1 DEF StatisticsLimit
  <2>3. PICK wanted \in Nat : left' = Least(wanted, StatisticsLimit)
    BY <1>2, DiscoveryAssumption DEF HeadToHeadEnds
  <2> QED BY <2>2, <2>3 DEF Least
<1>3. CASE HeadToHead \/ NoStatistics \/ StatisticsReceived \/ StatisticsFail
  BY <1>3 DEF HeadToHead, NoStatistics, StatisticsReceived, StatisticsFail, CourseType
<1>4. CASE EventsRequest
  BY <1>4 DEF EventsRequest, CourseInv, CourseType
<1>5. CASE ~(Pairs \/ HeadToHeadEnds \/ HeadToHead \/ NoStatistics \/ StatisticsReceived
             \/ StatisticsFail \/ EventsRequest)
  <2>1. left' = left
    BY <1>5 DEF Work, Start, DateReceived, DateFails, Dedupe, LeaguesReceived, LeaguesFail,
       Plan, TeamsReceived, TeamsFail, HistoryReceived, HistoryFails, StandingsRequest, Store,
       Commit, StatisticsEnd, Raise, RecordFailure, Finish, Abort, Stop
  <2> QED BY <2>1 DEF CourseType
<1> QED BY <1>1, <1>2, <1>3, <1>4, <1>5

LEMMA CourseTypeStep ==
  ASSUME CallType, CourseType, CourseInv, Work \/ Stop
  PROVE  CourseType'
<1>1. left' \in Nat
  BY LeftIsNatural DEF CallType
<1>8. CASE Start
  <2>1. [status |-> "RUNNING", inserted |-> 0]
          \in [status : {"none", "RUNNING", "SUCCEEDED", "PARTIAL", "FAILED"}, inserted : Nat]
    OBVIOUS
  <2>2. UNCHANGED <<day, catalogue, fatal>> /\ pc' = "dates"
        /\ record' = [status |-> "RUNNING", inserted |-> 0]
    BY <1>8 DEF Start
  <2> QED BY <1>1, <2>1, <2>2 DEF CourseType, Phase
<1>2. CASE Dedupe \/ LeaguesReceived \/ LeaguesFail \/ Plan
  <2>1. UNCHANGED <<day, fatal, record>> /\ pc' \in {"leagues", "plan", "pairs", "teams"}
        /\ catalogue' \in {catalogue, TRUE}
    BY <1>2 DEF Dedupe, LeaguesReceived, LeaguesFail, Plan
  <2> QED BY <1>1, <2>1 DEF CourseType, Phase
<1>7. CASE DateReceived \/ DateFails
  <2>1. /\ pc = "dates" /\ day' = day + 1 /\ pc' \in {"dates", "dedupe"}
        /\ UNCHANGED <<catalogue, fatal, record>>
    BY <1>7 DEF DateReceived, DateFails, AfterDate
  <2>2. day' \in 0..Days
    BY <2>1, DiscoveryAssumption DEF CourseType, CourseInv
  <2> QED BY <1>1, <2>1, <2>2 DEF CourseType, Phase
<1>3. CASE \/ TeamsReceived \/ TeamsFail \/ HistoryReceived \/ HistoryFails
           \/ StandingsRequest \/ Store \/ Commit
  BY <1>1, <1>3
     DEF TeamsReceived, TeamsFail, HistoryReceived, HistoryFails, StandingsRequest, Store,
         Commit, NextCompetition, GiveUp, CourseType, Phase
<1>4. CASE \/ Pairs \/ HeadToHead \/ HeadToHeadEnds \/ NoStatistics \/ StatisticsReceived
           \/ StatisticsFail \/ EventsRequest \/ StatisticsEnd
  BY <1>1, <1>4
     DEF Pairs, HeadToHead, HeadToHeadEnds, NoStatistics, StatisticsReceived, StatisticsFail,
         EventsRequest, StatisticsEnd, CourseType, Phase
<1>5. CASE Raise \/ RecordFailure \/ Abort \/ Stop
  BY <1>1, <1>5 DEF Raise, RecordFailure, Abort, Stop, CourseType, Phase
<1>6. CASE Finish
  <2>1. FinalStatus \in {"SUCCEEDED", "PARTIAL", "FAILED"}
    BY DEF FinalStatus
  <2> QED BY <1>1, <1>6, <2>1 DEF Finish, CourseType, CallType, Phase
<1> QED BY <1>2, <1>3, <1>4, <1>5, <1>6, <1>7, <1>8 DEF Work

LEMMA QuietCourse ==
  ASSUME CourseType, CourseInv, Quiet
  PROVE  CourseInv'
<1>1. UNCHANGED <<rows, plan, valid, retained, fatal>> /\ Competition' = Competition
  BY QuietSteps DEF Competition
<1>2. CASE Start \/ LeaguesReceived \/ LeaguesFail
  BY <1>1, <1>2, DiscoveryAssumption
     DEF Start, LeaguesReceived, LeaguesFail, CourseInv, Early, Enriching, Kept, Late,
         Whole, Stopped
<1>3. CASE DateFails
  BY <1>1, <1>3, DiscoveryAssumption
     DEF DateFails, AfterDate, CourseInv, CourseType, Early, Enriching, Kept, Late, Whole,
         Stopped
<1>4. CASE StandingsRequest \/ Store
  BY <1>1, <1>4
     DEF StandingsRequest, Store, CourseInv, Early, Enriching, Kept, Late, Whole, Stopped
<1>5. CASE \/ Pairs \/ HeadToHead \/ HeadToHeadEnds \/ NoStatistics
           \/ StatisticsReceived \/ StatisticsFail \/ EventsRequest \/ StatisticsEnd
  BY <1>1, <1>5
     DEF Pairs, HeadToHead, HeadToHeadEnds, NoStatistics, StatisticsReceived, StatisticsFail,
         EventsRequest, StatisticsEnd, CourseInv, Early, Enriching, Kept, Late, Whole, Stopped
<1>6. CASE RecordFailure \/ Finish \/ Abort \/ Stop
  BY <1>1, <1>6
     DEF RecordFailure, Finish, Abort, Stop, CourseInv, Early, Enriching, Kept, Late, Whole,
         Stopped
<1> QED BY <1>2, <1>3, <1>4, <1>5, <1>6 DEF Quiet

-----------------------------------------------------------------------------
(* The funnel.                                                               *)

RowsInv ==
  /\ pc \in {"new", "dates"} => \A row \in rows : row.day <= day
  /\ pc \in {"leagues", "plan"} => \A a, b \in Usable : a.fixture = b.fixture => a = b

PlanInv ==
  /\ \A i \in DOMAIN plan : \A f \in plan[i].fixtures : CompOf[f] = plan[i].comp
  /\ \A i, j \in DOMAIN plan : i # j => plan[i].comp # plan[j].comp
  /\ \A f \in retained : \A i \in DOMAIN plan : CompOf[f] # plan[i].comp

Accounted == Sum(ignored) + Cardinality(retained) + Cardinality(rows) + Unreached
Reconciled == IF fatal THEN Accounted <= received ELSE Accounted = received

FunnelInv == FunnelType /\ CourseType /\ CourseInv /\ RowsInv /\ PlanInv /\ Reconciled

LEMMA CountsOfFunnel ==
  ASSUME FunnelType
  PROVE  /\ Sum(ignored) \in Nat /\ Cardinality(retained) \in Nat
         /\ Cardinality(rows) \in Nat /\ Unreached \in Nat
         /\ IsFiniteSet(retained) /\ IsFiniteSet(rows)
BY IgnoredIsCounted, FixturesAreFinite, ListsAreFinite, UndecidedIsCounted, UnreachedIsSum
   DEF FunnelType, Sum

LEMMA QuietStep ==
  ASSUME FunnelInv, CourseType', Quiet
  PROVE  FunnelInv'
<1>1. UNCHANGED <<rows, received, ignored, plan, valid, retained, fatal>>
  BY QuietSteps
<1>2. FunnelType' /\ PlanInv'
  BY <1>1 DEF FunnelInv, FunnelType, PlanInv
<1>3. Reconciled'
  BY <1>1, UnreachedIsSum DEF FunnelInv, Reconciled, Accounted
<1>4. Usable' = Usable
  BY <1>1 DEF Usable
<1>5. RowsInv'
  <2>1. pc' \in {"leagues", "plan"} => pc = "leagues"
    BY DEF Quiet, Start, DateFails, AfterDate, LeaguesReceived, LeaguesFail, StandingsRequest,
           Store, Pairs, HeadToHead, HeadToHeadEnds, NoStatistics, StatisticsReceived,
           StatisticsFail, EventsRequest, StatisticsEnd, RecordFailure, Finish, Abort, Stop
  <2>2. pc' \in {"new", "dates"} => pc \in {"new", "dates"} /\ day' >= day
    BY DEF FunnelInv, CourseType, Quiet, Start, DateFails, AfterDate, LeaguesReceived,
           LeaguesFail, StandingsRequest, Store, Pairs, HeadToHead, HeadToHeadEnds,
           NoStatistics, StatisticsReceived, StatisticsFail, EventsRequest, StatisticsEnd,
           RecordFailure, Finish, Abort, Stop
  <2>3. day \in Int /\ day' \in Int /\ \A row \in rows : row.day \in Int
    BY DEF FunnelInv, CourseType, FunnelType, Row
  <2> QED BY <1>1, <1>4, <2>1, <2>2, <2>3 DEF FunnelInv, RowsInv
<1>6. CourseInv'
  BY QuietCourse DEF FunnelInv
<1> QED BY <1>2, <1>3, <1>5, <1>6 DEF FunnelInv

\* The rows of one more date are received and counted.
LEMMA DateStep ==
  ASSUME FunnelInv, CourseType', DateReceived
  PROVE  FunnelInv'
<1>1. /\ pc = "dates" /\ day' = day + 1 /\ pc' = AfterDate
      /\ UNCHANGED <<ignored, plan, valid, retained, fatal>>
  BY DEF DateReceived
<1>2. PICK list \in Answers(day + 1) :
        rows' = rows \cup list /\ received' = received + Cardinality(list)
  BY DEF DateReceived
<1>3. list \subseteq Row /\ \A row \in list : row.day = day + 1
  BY DEF Answers
<1>4. rows \cap list = {}
  <2>1. \A row \in rows : row.day <= day /\ row.day \in Int
    BY <1>1 DEF FunnelInv, RowsInv, FunnelType, Row
  <2>2. day \in Int
    BY DEF FunnelInv, CourseType
  <2> QED BY <1>3, <2>1, <2>2
<1>5. IsFiniteSet(rows) /\ IsFiniteSet(list) /\ rows \subseteq Row
      /\ Cardinality(rows) \in Nat /\ Cardinality(list) \in Nat
  BY <1>3, ListsAreFinite DEF FunnelInv, FunnelType
<1>6. Cardinality(rows') = Cardinality(rows) + Cardinality(list)
  <2>1. Cardinality(rows \cap list) = 0
    BY <1>4, FS_EmptySet
  <2>2. Cardinality(rows \cup list) = Cardinality(rows) + Cardinality(list) - Cardinality(rows \cap list)
    BY <1>5, FS_Union
  <2> QED BY <1>2, <1>5, <2>1, <2>2
<1>7. FunnelType' /\ PlanInv'
  BY <1>1, <1>2, <1>3, <1>5 DEF FunnelInv, FunnelType, PlanInv
<1>8. Unreached' = Unreached
  BY <1>1, UnreachedIsSum
<1>9. Reconciled'
  <2>1. /\ Sum(ignored) \in Nat /\ Cardinality(retained) \in Nat
        /\ Cardinality(rows) \in Nat /\ Unreached \in Nat /\ received \in Nat
    BY CountsOfFunnel DEF FunnelInv, FunnelType
  <2>2. ~fatal
    BY <1>1 DEF FunnelInv, CourseInv, Stopped
  <2>3. Accounted = received
    BY <2>2 DEF FunnelInv, Reconciled
  <2>4. Accounted' = Accounted + Cardinality(list)
    BY <1>1, <1>5, <1>6, <1>8, <2>1 DEF Accounted, Sum
  <2> QED BY <1>1, <1>2, <2>2, <2>3, <2>4 DEF Reconciled
<1>10. CourseInv'
  BY <1>1 DEF AfterDate, FunnelInv, CourseType, CourseInv, Early, Enriching, Kept, Late, Whole,
              Stopped
<1>11. RowsInv'
  <2>1. \A row \in rows' : row.day <= day'
    <3>1. \A row \in rows : row.day <= day /\ row.day \in Int
      BY <1>1 DEF FunnelInv, RowsInv, FunnelType, Row
    <3>2. day \in Int
      BY DEF FunnelInv, CourseType
    <3> QED BY <1>1, <1>2, <1>3, <3>1, <3>2
  <2> QED BY <1>1, <2>1 DEF RowsInv, AfterDate
<1> QED BY <1>7, <1>9, <1>10, <1>11 DEF FunnelInv

\* Of the rows of one fixture one is left, and the others are counted.
LEMMA DedupeStep ==
  ASSUME FunnelInv, CourseType', Dedupe
  PROVE  FunnelInv'
<1>1. /\ pc = "dedupe" /\ pc' \in {"plan", "leagues"}
      /\ UNCHANGED <<day, received, plan, valid, retained, fatal>>
  BY DEF Dedupe
<1>2. PICK unique \in SUBSET Usable :
        /\ \A row \in Usable : Cardinality({u \in unique : u.fixture = row.fixture}) = 1
        /\ rows' = unique \cup (rows \ Usable)
        /\ ignored' = Ignore("duplicate_fixture", Cardinality(Usable) - Cardinality(unique))
  BY DEF Dedupe
<1> DEFINE others == rows \ Usable
<1>3. /\ Usable \subseteq Row /\ unique \subseteq Row /\ others \subseteq Row
      /\ Usable \cap others = {} /\ Usable \cup others = rows /\ unique \cap others = {}
  BY DEF Usable, FunnelInv, FunnelType
<1>4. /\ IsFiniteSet(Usable) /\ IsFiniteSet(unique) /\ IsFiniteSet(others)
      /\ Cardinality(Usable) \in Nat /\ Cardinality(unique) \in Nat
      /\ Cardinality(others) \in Nat /\ Cardinality(unique) <= Cardinality(Usable)
  BY <1>3, ListsAreFinite, FS_Subset
<1>5. /\ Cardinality(rows) = Cardinality(Usable) + Cardinality(others)
      /\ Cardinality(rows') = Cardinality(unique) + Cardinality(others)
  <2>1. /\ Cardinality(Usable \cup others)
             = Cardinality(Usable) + Cardinality(others) - Cardinality(Usable \cap others)
        /\ Cardinality(unique \cup others)
             = Cardinality(unique) + Cardinality(others) - Cardinality(unique \cap others)
    BY <1>4, FS_Union
  <2>2. Cardinality(Usable \cap others) = 0 /\ Cardinality(unique \cap others) = 0
    BY <1>3, FS_EmptySet
  <2>3. Cardinality(Usable \cup others) = Cardinality(rows)
        /\ Cardinality(unique \cup others) = Cardinality(rows')
    BY <1>2, <1>3
  <2> HIDE DEF others
  <2> QED BY <1>4, <2>1, <2>2, <2>3
<1> DEFINE n == Cardinality(Usable) - Cardinality(unique)
<1>6. n \in Nat /\ "duplicate_fixture" \in Reason /\ ignored \in [Reason -> Nat]
  BY <1>4 DEF Reason, FunnelInv, FunnelType
<1>7. ignored' \in [Reason -> Nat] /\ Sum(ignored)' = Sum(ignored) + n
  <2>1. ignored' = [ignored EXCEPT !["duplicate_fixture"] = @ + n]
    BY <1>2 DEF Ignore
  <2> HIDE DEF n
  <2> QED BY <1>6, <2>1, IgnoringMore DEF Sum
<1>8. FunnelType' /\ PlanInv'
  BY <1>1, <1>2, <1>3, <1>7 DEF FunnelInv, FunnelType, PlanInv
<1>9. Reconciled'
  <2>1. Unreached' = Unreached
    BY <1>1, UnreachedIsSum
  <2>2. /\ Sum(ignored) \in Nat /\ Cardinality(retained) \in Nat
        /\ Cardinality(rows) \in Nat /\ Unreached \in Nat
    BY CountsOfFunnel DEF FunnelInv
  <2>3. ~fatal
    BY <1>1 DEF FunnelInv, CourseInv, Stopped
  <2>4. Cardinality(rows') + n = Cardinality(rows)
    <3> HIDE DEF others
    <3> QED BY <1>4, <1>5
  <2>5. Cardinality(rows') \in Nat
    BY <1>4, <1>5
  <2>6. Accounted' = Accounted
    <3> DEFINE a == Sum(ignored)
               b == Cardinality(retained)
               c == Cardinality(rows)
               d == Unreached
               e == Cardinality(rows')
    <3>1. a \in Nat /\ b \in Nat /\ c \in Nat /\ d \in Nat /\ e \in Nat /\ n \in Nat /\ e + n = c
      BY <1>6, <2>2, <2>4, <2>5
    <3>2. Accounted = a + b + c + d /\ Accounted' = (a + n) + b + e + d
      BY <1>1, <1>7, <2>1 DEF Accounted
    <3> HIDE DEF a, b, c, d, e, n
    <3> QED BY <3>1, <3>2
  <2> QED BY <1>1, <2>3, <2>6 DEF Reconciled, FunnelInv
<1>10. CourseInv'
  BY <1>1 DEF FunnelInv, CourseInv, Early, Enriching, Kept, Late, Whole, Stopped
<1>11. \A a, b \in Usable' : a.fixture = b.fixture => a = b
  <2>1. Usable' \subseteq unique
    BY <1>2 DEF Usable
  <2> SUFFICES ASSUME NEW a \in unique, NEW b \in unique, a.fixture = b.fixture
               PROVE  a = b
    BY <2>1
  <2> DEFINE same == {u \in unique : u.fixture = a.fixture}
  <2>2. Cardinality(same) = 1 /\ IsFiniteSet(same)
    BY <1>2, <1>4, FS_Subset
  <2>3. a \in same /\ b \in same
    OBVIOUS
  <2> HIDE DEF same
  <2> QED BY <2>2, <2>3, FS_Singleton
<1>12. RowsInv'
  BY <1>1, <1>11 DEF RowsInv
<1> QED BY <1>8, <1>9, <1>10, <1>12 DEF FunnelInv

\* Every row is ignored or in the plan.
LEMMA PlanStep ==
  ASSUME FunnelInv, ClientOK, CourseType', Plan
  PROVE  FunnelInv'
<1>1. /\ pc = "plan" /\ rows' = {} /\ plan' = Chosen.plan
      /\ pc' = (IF Chosen.plan = <<>> THEN "pairs" ELSE "teams")
      /\ UNCHANGED <<day, received, valid, retained, fatal>>
  BY DEF Plan
<1>2. UniqueRows /\ CandidatesOK
  BY <1>1 DEF FunnelInv, FunnelType, RowsInv, UniqueRows, CandidatesOK
<1>3. /\ plan = <<>> /\ valid = {} /\ retained = {} /\ ~fatal
  BY <1>1 DEF FunnelInv, CourseInv, Early, Stopped
<1>4. Chosen \in Selection /\ SelectionInv(Cardinality(Candidates), Chosen)
  BY <1>2, ChosenIsSelected
<1>5. /\ ignored' \in [Reason -> Nat]
      /\ SumFunction(ignored') + SumFunction(SizesOf(Chosen.plan))
           = SumFunction(ignored) + Cardinality(rows)
  <2>1. ignored \in [Reason -> Nat]
    BY DEF FunnelInv, FunnelType
  <2>2. ignored' = [reason \in Reason |->
           ignored[reason] + CountedFor(reason)
             + (CASE reason = "competition_limit" -> Chosen.limited
                  [] reason = "request_budget_competition_limit" -> Chosen.unaffordable
                  [] OTHER -> 0)]
    BY DEF Plan, CountedFor
  <2> QED BY <1>2, <2>1, <2>2, PlanCounts
<1>6. FunnelType'
  <2>1. plan' \in Seq(PlanEntry)
    BY <1>1, <1>4 DEF Selection
  <2>2. rows' \subseteq Row /\ received' \in Nat /\ valid' \subseteq Fixtures
        /\ retained' \subseteq Fixtures
    BY <1>1, <1>3 DEF FunnelInv, FunnelType
  <2> QED BY <1>5, <2>1, <2>2 DEF FunnelType
<1>7. PlanInv'
  <2>1. \A i \in DOMAIN plan' : \A f \in plan'[i].fixtures : CompOf[f] = plan'[i].comp
    <3>1. \A i \in DOMAIN plan' : plan'[i].fixtures = Candidate(plan'[i].comp)
      BY <1>1, <1>4 DEF SelectionInv
    <3> QED BY <1>2, <3>1, CandidateFacts
  <2> QED BY <1>1, <1>3, <1>4, <2>1 DEF PlanInv, SelectionInv
<1>8. Reconciled'
  <2>1. Unreached = 0
    <3>1. DOMAIN UndecidedIn(plan, valid) = {}
      BY <1>3 DEF UndecidedIn
    <3> QED BY <3>1, UnreachedIsSum, SumOfNone DEF SumFunction
  <2>2. Unreached' = SumFunction(SizesOf(Chosen.plan))
    <3>1. UndecidedIn(plan', valid') = SizesOf(plan')
      BY <1>1, <1>3, NoneDecided
    <3> QED BY <1>1, <3>1, UnreachedIsSum
  <2>3. Cardinality(rows') = 0 /\ Cardinality(retained) = 0 /\ Cardinality(retained') = 0
    BY <1>1, <1>3, FS_EmptySet
  <2>4. SumFunction(ignored') \in Nat /\ SumFunction(ignored) \in Nat /\ Cardinality(rows) \in Nat
    BY <1>5, IgnoredIsCounted, CountsOfFunnel DEF FunnelInv, FunnelType
  <2>5. SumFunction(SizesOf(Chosen.plan)) \in Nat
    BY <1>4, EntriesAreNumbers, Interval, SumIsNatural DEF Selection, SumFunction
  <2>6. Accounted = received
    BY <1>3 DEF FunnelInv, Reconciled
  <2> DEFINE a == SumFunction(ignored)
             b == SumFunction(ignored')
             c == Cardinality(rows)
             d == SumFunction(SizesOf(Chosen.plan))
  <2>7. Accounted = a + 0 + c + 0 /\ Accounted' = b + 0 + 0 + d
    BY <2>1, <2>2, <2>3 DEF Accounted, Sum
  <2>8. a \in Nat /\ b \in Nat /\ c \in Nat /\ d \in Nat /\ b + d = a + c
    BY <1>5, <2>4, <2>5
  <2> HIDE DEF a, b, c, d
  <2>9. Accounted' = Accounted
    BY <2>7, <2>8
  <2> QED BY <1>1, <1>3, <2>6, <2>9 DEF Reconciled
<1>9. CourseInv'
  BY <1>1, <1>3 DEF CourseInv, Early, Enriching, Kept, Late, Whole, Stopped
<1>10. RowsInv'
  BY <1>1 DEF RowsInv
<1> QED BY <1>6, <1>7, <1>8, <1>9, <1>10 DEF FunnelInv

-----------------------------------------------------------------------------
(* The competitions of the plan, one after the other.                        *)

\* What is undecided of the first competition.
First == IF valid # {} THEN valid ELSE Competition.fixtures

LEMMA FirstIsCounted ==
  ASSUME FunnelType, plan # <<>>
  PROVE  /\ First \subseteq Fixtures /\ IsFiniteSet(First) /\ Cardinality(First) \in Nat
         /\ Competition \in PlanEntry
         /\ Unreached = Cardinality(First) + SumFunction(SizesOf(Tail(plan)))
         /\ SumFunction(SizesOf(Tail(plan))) \in Nat
         /\ Tail(plan) \in Seq(PlanEntry)
<1>1. Competition \in PlanEntry /\ Tail(plan) \in Seq(PlanEntry)
  BY DEF FunnelType, Competition
<1>2. First \subseteq Fixtures
  BY <1>1 DEF First, FunnelType, PlanEntry
<1>3. Unreached = (IF valid # {} THEN Cardinality(valid) ELSE Cardinality(Head(plan).fixtures))
                    + SumFunction(SizesOf(Tail(plan)))
  BY UnreachedIsSum, FirstEntry DEF FunnelType
<1>4. SumFunction(SizesOf(Tail(plan))) \in Nat
  BY <1>1, EntriesAreNumbers, Interval, SumIsNatural DEF SumFunction
<1> QED BY <1>1, <1>2, <1>3, <1>4, FixturesAreFinite DEF First, Competition

\* The first competition is done, or only some of its fixtures are left.
Done == plan' = Tail(plan) /\ valid' = {}
OnlySome == plan' = plan /\ valid' # {} /\ valid' \subseteq First

LEMMA DecidedStep ==
  ASSUME FunnelType, plan # <<>>, Done \/ OnlySome
  PROVE  /\ plan' \in Seq(PlanEntry) /\ valid' \subseteq Fixtures
         /\ Unreached' = Unreached - Cardinality(First) + Cardinality(valid')
<1>1. /\ Unreached = Cardinality(First) + SumFunction(SizesOf(Tail(plan)))
      /\ Cardinality(First) \in Nat /\ SumFunction(SizesOf(Tail(plan))) \in Nat
  BY FirstIsCounted
<1>2. CASE Done
  <2>1. UndecidedIn(plan', valid') = SizesOf(Tail(plan)) /\ Cardinality(valid') = 0
    BY <1>2, NoneDecided, FS_EmptySet DEF Done
  <2> QED BY <1>1, <1>2, <2>1, FirstIsCounted, UnreachedIsSum DEF Done
<1>3. CASE OnlySome
  <2>1. /\ plan' = plan /\ valid' # {} /\ valid' \subseteq Fixtures
        /\ plan' \in Seq(PlanEntry)
    BY <1>3, FirstIsCounted DEF OnlySome, FunnelType
  <2>2. SumFunction(UndecidedIn(plan', valid'))
          = Cardinality(valid') + SumFunction(SizesOf(Tail(plan')))
    BY <2>1, FirstEntry
  <2>3. Cardinality(valid') \in Nat
    BY <2>1, FixturesAreFinite
  <2> QED BY <1>1, <2>1, <2>2, <2>3, UnreachedIsSum
<1> QED BY <1>2, <1>3

LEMMA RestOfPlan ==
  ASSUME FunnelType, PlanInv, plan # <<>>
  PROVE  /\ DOMAIN Tail(plan) = 1..(Len(plan) - 1)
         /\ \A i \in DOMAIN Tail(plan) :
              /\ i + 1 \in DOMAIN plan /\ i + 1 # 1
              /\ Tail(plan)[i] = plan[i + 1]
         /\ Competition = plan[1] /\ 1 \in DOMAIN plan
BY DEF FunnelType, Competition

LEMMA PlanOfDecided ==
  ASSUME FunnelType, PlanInv, plan # <<>>, Done \/ OnlySome,
         \/ retained' = retained
         \/ Done /\ retained' = retained \cup First /\ First \subseteq Competition.fixtures
  PROVE  PlanInv'
<1>1. CASE OnlySome
  BY <1>1 DEF OnlySome, PlanInv, Done
<1>2. CASE Done
  <2>1. \A i \in DOMAIN plan' : \A f \in plan'[i].fixtures : CompOf[f] = plan'[i].comp
    BY <1>2, RestOfPlan DEF PlanInv, Done
  <2>2. \A i, j \in DOMAIN plan' : i # j => plan'[i].comp # plan'[j].comp
    <3>1. \A i, j \in DOMAIN Tail(plan) : i # j => i + 1 # j + 1
      BY RestOfPlan
    <3> QED BY <1>2, <3>1, RestOfPlan DEF PlanInv, Done
  <2>3. \A f \in retained' : \A i \in DOMAIN plan' : CompOf[f] # plan'[i].comp
    <3> SUFFICES ASSUME NEW f \in retained', NEW i \in DOMAIN plan'
                 PROVE  CompOf[f] # plan'[i].comp
      OBVIOUS
    <3>1. plan'[i] = plan[i + 1] /\ i + 1 \in DOMAIN plan /\ i + 1 # 1
      BY <1>2, RestOfPlan DEF Done
    <3>2. CASE f \in retained
      BY <3>1, <3>2 DEF PlanInv
    <3>3. CASE f \notin retained
      <4>1. f \in Competition.fixtures
        BY <3>3
      <4>2. CompOf[f] = plan[1].comp /\ 1 \in DOMAIN plan
        BY <4>1, RestOfPlan DEF PlanInv
      <4> QED BY <3>1, <4>2 DEF PlanInv
    <3> QED BY <3>2, <3>3
  <2> QED BY <2>1, <2>2, <2>3 DEF PlanInv
<1> QED BY <1>1, <1>2

\* Teams and recent results: the fixtures that go are ignored for one reason.
LEMMA IgnoredStep ==
  ASSUME FunnelInv, pc \in Enriching, CourseType', CourseInv',
         Done \/ OnlySome,
         NEW reason \in Reason, NEW gone, gone \subseteq First, valid' = First \ gone,
         ignored' = Ignore(reason, Cardinality(gone)),
         pc' \notin {"leagues", "plan", "new", "dates"},
         UNCHANGED <<rows, received, retained, fatal>>
  PROVE  FunnelInv'
<1>1. /\ FunnelType /\ PlanInv /\ CourseInv /\ plan # <<>> /\ ~fatal
      /\ ignored \in [Reason -> Nat]
  BY DEF FunnelInv, FunnelType, CourseInv, Enriching, Kept, Stopped
<1>2. /\ plan' \in Seq(PlanEntry) /\ valid' \subseteq Fixtures
      /\ Unreached' = Unreached - Cardinality(First) + Cardinality(valid')
  BY <1>1, DecidedStep
<1>3. /\ IsFiniteSet(First) /\ Cardinality(First) \in Nat
      /\ Unreached \in Nat /\ Cardinality(First) <= Unreached
  <2>1. /\ Unreached = Cardinality(First) + SumFunction(SizesOf(Tail(plan)))
        /\ SumFunction(SizesOf(Tail(plan))) \in Nat
        /\ IsFiniteSet(First) /\ Cardinality(First) \in Nat
    BY <1>1, FirstIsCounted
  <2> QED BY <2>1
<1>4. /\ Cardinality(gone) \in Nat /\ Cardinality(valid') \in Nat
      /\ Cardinality(gone) + Cardinality(valid') = Cardinality(First)
  <2>1. /\ IsFiniteSet(gone) /\ IsFiniteSet(First \ gone)
        /\ gone \cap (First \ gone) = {} /\ gone \cup (First \ gone) = First
    BY <1>3, FS_Subset
  <2>2. /\ Cardinality(gone \cup (First \ gone))
             = Cardinality(gone) + Cardinality(First \ gone)
                 - Cardinality(gone \cap (First \ gone))
    BY <2>1, FS_Union
  <2>3. /\ Cardinality(gone) \in Nat /\ Cardinality(First \ gone) \in Nat
        /\ Cardinality(gone \cap (First \ gone)) = 0
    BY <2>1, FS_CardinalityType, FS_EmptySet
  <2> DEFINE there == First \ gone
             g == Cardinality(gone)
             h == Cardinality(there)
             all == Cardinality(First)
  <2>4. Cardinality(gone \cup there) = all /\ valid' = there
    BY <2>1
  <2>5. g \in Nat /\ h \in Nat /\ all = g + h - 0
    BY <2>2, <2>3, <2>4
  <2>6. Cardinality(gone) = g /\ Cardinality(valid') = h /\ Cardinality(First) = all
    BY <2>4
  <2> HIDE DEF there, g, h, all
  <2> QED BY <2>5, <2>6
<1>5. ignored' \in [Reason -> Nat] /\ Sum(ignored)' = Sum(ignored) + Cardinality(gone)
  <2>1. ignored' = [ignored EXCEPT ![reason] = @ + Cardinality(gone)]
    BY DEF Ignore
  <2> DEFINE n == Cardinality(gone)
  <2>2. n \in Nat /\ ignored' = [ignored EXCEPT ![reason] = @ + n]
    BY <1>4, <2>1
  <2> HIDE DEF n
  <2>3. /\ [ignored EXCEPT ![reason] = @ + n] \in [Reason -> Nat]
        /\ SumFunction([ignored EXCEPT ![reason] = @ + n]) = SumFunction(ignored) + n
    BY <1>1, <2>2, IgnoringMore
  <2> QED BY <2>2, <2>3 DEF Sum, n
<1>6. FunnelType'
  BY <1>1, <1>2, <1>5 DEF FunnelType
<1>7. PlanInv'
  BY <1>1, PlanOfDecided
<1>8. Reconciled'
  <2>1. Sum(ignored) \in Nat /\ Cardinality(retained) \in Nat /\ Cardinality(rows) \in Nat
    BY <1>1, CountsOfFunnel
  <2> DEFINE a == Sum(ignored)
             b == Cardinality(retained)
             c == Cardinality(rows)
             d == Unreached
             e == Cardinality(gone)
             f == Cardinality(valid')
             g == Cardinality(First)
  <2>2. Accounted = a + b + c + d /\ Accounted' = (a + e) + b + c + (d - g + f)
    BY <1>2, <1>5 DEF Accounted
  <2>3. /\ a \in Nat /\ b \in Nat /\ c \in Nat /\ d \in Nat /\ e \in Nat /\ f \in Nat
        /\ g \in Nat /\ e + f = g
    BY <1>3, <1>4, <2>1
  <2> HIDE DEF a, b, c, d, e, f, g
  <2>4. Accounted' = Accounted
    BY <2>2, <2>3
  <2> QED BY <1>1, <2>4 DEF Reconciled, FunnelInv
<1>9. RowsInv'
  BY DEF RowsInv
<1> QED BY <1>6, <1>7, <1>8, <1>9 DEF FunnelInv

LEMMA NextCourse ==
  ASSUME FunnelInv, pc \in Enriching, NextCompetition,
         UNCHANGED <<rows, fatal>>
  PROVE  CourseInv' /\ Done /\ pc' \in {"pairs", "teams"}
<1>1. plan \in Seq(PlanEntry) /\ plan # <<>> /\ rows = {} /\ ~fatal
  BY DEF FunnelInv, FunnelType, CourseInv, Enriching, Kept, Stopped
<1>2. Len(plan) # 1 => Tail(plan) # <<>>
  <2>1. Len(plan) \in Nat /\ Len(plan) # 0 /\ Len(Tail(plan)) = Len(plan) - 1
    BY <1>1
  <2>2. Len(plan) # 1 => Len(Tail(plan)) # 0
    BY <2>1
  <2>3. Len(<<>>) = 0
    OBVIOUS
  <2> QED BY <2>2, <2>3
<1> QED BY <1>1, <1>2 DEF NextCompetition, Done, CourseInv, Early, Enriching, Kept, Late, Whole,
                     Stopped

LEMMA GiveUpCourse ==
  ASSUME FunnelInv, pc \in Enriching, NEW cause, GiveUp(cause), UNCHANGED <<rows, fatal>>
  PROVE  CourseInv' /\ Done /\ pc' \in {"pairs", "teams"}
<1>1. CASE NextCompetition
  BY <1>1, NextCourse
<1>2. CASE plan' = Tail(plan) /\ valid' = {} /\ pc' = "pairs"
  <2>1. rows = {} /\ ~fatal
    BY DEF FunnelInv, CourseInv, Enriching, Kept, Stopped
  <2> QED BY <1>2, <2>1 DEF Done, CourseInv, Early, Enriching, Kept, Late, Whole, Stopped
<1> QED BY <1>1, <1>2 DEF GiveUp

LEMMA KeptCourse ==
  ASSUME FunnelInv, pc \in {"teams", "history"}, OnlySome,
         pc' \in {"history", "standings", "store"}, UNCHANGED <<rows, fatal>>
  PROVE  CourseInv'
<1>1. plan # <<>> /\ rows = {} /\ ~fatal /\ First \subseteq Competition.fixtures
  BY DEF FunnelInv, CourseInv, Enriching, Kept, Stopped, First
<1>2. Competition' = Competition
  BY DEF OnlySome, Competition
<1> QED BY <1>1, <1>2 DEF OnlySome, CourseInv, Early, Enriching, Kept, Late, Whole, Stopped

LEMMA TeamsAndHistory ==
  ASSUME FunnelInv, CourseType',
         TeamsReceived \/ TeamsFail \/ HistoryReceived \/ HistoryFails
  PROVE  FunnelInv'
<1>1. /\ pc \in {"teams", "history"} /\ pc \in Enriching
      /\ UNCHANGED <<rows, received, retained, fatal>>
  BY DEF TeamsReceived, TeamsFail, HistoryReceived, HistoryFails, Enriching, Kept
<1>2. /\ "team_metadata_unavailable" \in Reason /\ "insufficient_recent_results" \in Reason
      /\ "recent_results_unavailable" \in Reason
  BY DEF Reason
<1>3. /\ pc = "teams" => First = Competition.fixtures
      /\ pc = "history" => First = valid
  BY DEF FunnelInv, CourseInv, Kept, First
<1>4. CASE TeamsReceived
  <2>1. PICK known \in SUBSET First :
          /\ ignored' = Ignore("team_metadata_unavailable", Cardinality(First \ known))
          /\ IF known = {} THEN NextCompetition
             ELSE valid' = known /\ pc' = "history" /\ UNCHANGED plan
    BY <1>3, <1>4 DEF TeamsReceived
  <2>2. CASE known = {}
    <3>1. NextCompetition
      BY <2>1, <2>2
    <3>2. CourseInv' /\ Done /\ pc' \in {"pairs", "teams"}
      BY <1>1, <3>1, NextCourse
    <3>3. valid' = First \ (First \ known)
      BY <2>2, <3>2 DEF Done
    <3> QED BY <1>1, <1>2, <2>1, <3>2, <3>3, IgnoredStep
  <2>3. CASE known # {}
    <3>1. valid' = known /\ pc' = "history" /\ plan' = plan
      BY <2>1, <2>3
    <3>2. OnlySome /\ valid' = First \ (First \ known)
      BY <2>3, <3>1 DEF OnlySome
    <3>3. CourseInv'
      BY <1>1, <3>1, <3>2, KeptCourse
    <3> QED BY <1>1, <1>2, <2>1, <3>1, <3>2, <3>3, IgnoredStep
  <2> QED BY <2>2, <2>3
<1>5. CASE HistoryReceived
  <2>1. PICK enough \in SUBSET First :
          /\ ignored' = Ignore("insufficient_recent_results", Cardinality(First \ enough))
          /\ IF enough = {} THEN NextCompetition
             ELSE /\ valid' = enough /\ UNCHANGED plan
                  /\ pc' = IF Standings(Competition.comp) THEN "standings" ELSE "store"
    BY <1>3, <1>5 DEF HistoryReceived
  <2>2. CASE enough = {}
    <3>1. NextCompetition
      BY <2>1, <2>2
    <3>2. CourseInv' /\ Done /\ pc' \in {"pairs", "teams"}
      BY <1>1, <3>1, NextCourse
    <3>3. valid' = First \ (First \ enough)
      BY <2>2, <3>2 DEF Done
    <3> QED BY <1>1, <1>2, <2>1, <3>2, <3>3, IgnoredStep
  <2>3. CASE enough # {}
    <3>1. valid' = enough /\ pc' \in {"standings", "store"} /\ plan' = plan
      BY <2>1, <2>3
    <3>2. OnlySome /\ valid' = First \ (First \ enough)
      BY <2>3, <3>1 DEF OnlySome
    <3>3. CourseInv'
      BY <1>1, <3>1, <3>2, KeptCourse
    <3> QED BY <1>1, <1>2, <2>1, <3>1, <3>2, <3>3, IgnoredStep
  <2> QED BY <2>2, <2>3
<1>6. CASE TeamsFail \/ HistoryFails
  <2>1. PICK cause \in Causes, reason \in Reason :
          GiveUp(cause) /\ ignored' = Ignore(reason, Cardinality(First))
    BY <1>2, <1>3, <1>6 DEF TeamsFail, HistoryFails, WithoutHistory
  <2>2. CourseInv' /\ Done /\ pc' \in {"pairs", "teams"}
    BY <1>1, <2>1, GiveUpCourse
  <2>3. valid' = First \ First
    BY <2>2 DEF Done
  <2> QED BY <1>1, <2>1, <2>2, <2>3, IgnoredStep
<1> QED BY <1>4, <1>5, <1>6

\* The fixtures committed are retained.
LEMMA RetainedStep ==
  ASSUME FunnelInv, CourseType', Commit
  PROVE  FunnelInv'
<1>1. /\ pc = "commit" /\ pc \in Enriching /\ NextCompetition /\ retained' = retained \cup valid
      /\ UNCHANGED <<rows, received, ignored, fatal>>
  BY DEF Commit, Enriching, Kept
<1>2. CourseInv' /\ Done /\ pc' \in {"pairs", "teams"}
  BY <1>1, NextCourse
<1>3. /\ FunnelType /\ PlanInv /\ plan # <<>> /\ ~fatal
      /\ First = valid /\ First \subseteq Competition.fixtures
  BY <1>1 DEF FunnelInv, CourseInv, Enriching, Kept, First, Stopped
<1>4. PlanInv'
  BY <1>1, <1>2, <1>3, PlanOfDecided
<1>5. /\ plan' \in Seq(PlanEntry) /\ valid' \subseteq Fixtures
      /\ Unreached' = Unreached - Cardinality(First) + Cardinality(valid')
  BY <1>2, <1>3, DecidedStep
<1>6. FunnelType'
  BY <1>1, <1>3, <1>5 DEF FunnelType
<1>7. retained \cap valid = {}
  BY <1>3, RestOfPlan DEF PlanInv
<1>8. /\ Cardinality(retained') = Cardinality(retained) + Cardinality(First)
      /\ Cardinality(retained) \in Nat /\ Cardinality(First) \in Nat /\ Cardinality(valid') = 0
  <2>1. /\ IsFiniteSet(retained) /\ IsFiniteSet(First)
        /\ Cardinality(retained) \in Nat /\ Cardinality(First) \in Nat
    BY <1>3, FirstIsCounted, CountsOfFunnel
  <2>2. Cardinality(retained \cup First)
          = Cardinality(retained) + Cardinality(First) - Cardinality(retained \cap First)
    BY <2>1, FS_Union
  <2>3. Cardinality(retained \cap First) = 0 /\ Cardinality(valid') = 0
    BY <1>2, <1>3, <1>7, FS_EmptySet DEF Done
  <2> QED BY <1>1, <1>3, <2>1, <2>2, <2>3
<1>9. Reconciled'
  <2>1. Sum(ignored) \in Nat /\ Cardinality(rows) \in Nat /\ Unreached \in Nat
    BY <1>3, CountsOfFunnel
  <2>2. Accounted' = Accounted
    BY <1>1, <1>5, <1>8, <2>1 DEF Accounted
  <2> QED BY <1>1, <1>3, <2>2 DEF Reconciled, FunnelInv
<1>10. RowsInv'
  BY <1>2 DEF RowsInv
<1> QED BY <1>2, <1>4, <1>6, <1>9, <1>10 DEF FunnelInv

\* An internal error may leave rows of a date uncounted.
LEMMA RaisedStep ==
  ASSUME FunnelInv, CourseType', Raise
  PROVE  FunnelInv'
<1>1. /\ fatal' = TRUE /\ pc' = "failed"
      /\ received' \in {received, received + MaxRows}
      /\ UNCHANGED <<rows, ignored, plan, valid, retained>>
  BY DEF Raise
<1>2. received \in Nat /\ received' \in Nat /\ received <= received'
  BY <1>1, DiscoveryAssumption DEF FunnelInv, FunnelType
<1>3. FunnelType' /\ PlanInv'
  BY <1>1, <1>2 DEF FunnelInv, FunnelType, PlanInv
<1>4. Accounted' = Accounted /\ Accounted \in Nat
  <2>1. FunnelType
    BY DEF FunnelInv
  <2> QED BY <1>1, <2>1, UnreachedIsSum, CountsOfFunnel DEF Accounted
<1>5. Reconciled'
  BY <1>1, <1>2, <1>4 DEF FunnelInv, Reconciled
<1>6. CourseInv' /\ RowsInv'
  BY <1>1 DEF CourseInv, RowsInv, Early, Enriching, Kept, Late, Whole, Stopped
<1> QED BY <1>3, <1>5, <1>6 DEF FunnelInv

LEMMA FunnelStep ==
  ASSUME CallType, FunnelInv, Work \/ Stop
  PROVE  FunnelInv'
<1>1. CourseType'
  BY CourseTypeStep DEF FunnelInv
<1>2. CASE Quiet
  BY <1>1, <1>2, QuietStep
<1>3. CASE ~Quiet
  BY <1>1, <1>3, DateStep, DedupeStep, PlanStep, TeamsAndHistory, RetainedStep, RaisedStep
     DEF Work, Quiet, CallType
<1> QED BY <1>2, <1>3

-----------------------------------------------------------------------------
(* Success.                                                                  *)

HasUnusableRow == \E row \in rows : row.fate = "invalid_fixture"

\* What the errors say of the dates, of the plan and of the rows.
SuccessInv ==
  /\ causes \subseteq codes
  /\ HasUnusableRow \/ ignored["invalid_fixture"] > 0 => "invalid_row" \in codes
  /\ causes = {} /\ pc \in {"dedupe", "leagues", "plan"} \cup Enriching => day = Days
  /\ causes = {} /\ Whole => day = Days /\ plan = <<>>
  /\ record.status = "SUCCEEDED" => pc = "done" /\ ~fatal /\ codes = {}

LEMMA ErrorsAreKept ==
  ASSUME causes \subseteq codes, Work \/ Stop
  PROVE  causes \subseteq causes' /\ codes \subseteq codes' /\ causes' \subseteq codes'
<1>1. CASE \/ Start \/ Dedupe \/ Plan \/ Store \/ Commit \/ Pairs \/ HeadToHeadEnds
           \/ StatisticsEnd \/ Raise \/ RecordFailure \/ Finish \/ Abort \/ Stop
  BY <1>1 DEF Start, Dedupe, Plan, Store, Commit, Pairs, HeadToHeadEnds, StatisticsEnd, Raise,
              RecordFailure, Finish, Abort, Stop
<1>2. CASE ~(\/ Start \/ Dedupe \/ Plan \/ Store \/ Commit \/ Pairs \/ HeadToHeadEnds
             \/ StatisticsEnd \/ Raise \/ RecordFailure \/ Finish \/ Abort \/ Stop)
  <2>1. \/ \E unusable \in BOOLEAN : EnvelopeReceived(unusable)
        \/ \E unusable : EnvelopeReceived(unusable)
        \/ \E cause \in Causes : RequestFails(cause)
        \/ \E n \in {0, 1} : StoredAtOnce(n)
    BY <1>2 DEF Work, DateReceived, DateFails, LeaguesReceived, LeaguesFail, TeamsReceived,
                TeamsFail, HistoryReceived, HistoryFails, StandingsRequest, HeadToHead,
                NoStatistics, StatisticsReceived, StatisticsFail, EventsRequest
  <2> QED BY <2>1 DEF EnvelopeReceived, RequestFails, StoredAtOnce
<1> QED BY <1>1, <1>2

LEMMA RunsToItsEnd ==
  ASSUME Work \/ Stop
  PROVE  pc \notin Stopped
BY DEF Work, Start, DateReceived, DateFails, Dedupe, LeaguesReceived, LeaguesFail, Plan,
       TeamsReceived, TeamsFail, HistoryReceived, HistoryFails, StandingsRequest, Store, Commit,
       Pairs, HeadToHead, HeadToHeadEnds, NoStatistics, StatisticsReceived, StatisticsFail,
       EventsRequest, StatisticsEnd, Raise, InTry, RecordFailure, Finish, Abort, Stop, Stopped

\* Rows that are not usable are noted as errors when they are received.
LEMMA UnusableIsNoted ==
  ASSUME FunnelInv, SuccessInv, Work \/ Stop
  PROVE  HasUnusableRow' \/ ignored'["invalid_fixture"] > 0 => "invalid_row" \in codes'
<1>1. codes \subseteq codes'
  BY ErrorsAreKept DEF SuccessInv
<1>2. ignored \in [Reason -> Nat] /\ "invalid_fixture" \in Reason
  BY DEF FunnelInv, FunnelType, Reason, RowFates
<1>3. CASE Quiet \/ Commit \/ Raise
  <2>1. UNCHANGED <<rows, ignored>>
    BY <1>3, QuietSteps DEF Commit, Raise
  <2> QED BY <1>1, <2>1 DEF SuccessInv, HasUnusableRow
<1>4. CASE DateReceived
  <2>1. PICK list \in Answers(day + 1) :
          /\ EnvelopeReceived(\E row \in list : row.fate = "invalid_fixture")
          /\ rows' = rows \cup list
    BY <1>4 DEF DateReceived
  <2>2. (\E row \in list : row.fate = "invalid_fixture") => "invalid_row" \in codes'
    BY <2>1 DEF EnvelopeReceived
  <2>3. ignored' = ignored
    BY <1>4 DEF DateReceived
  <2> QED BY <1>1, <2>1, <2>2, <2>3 DEF SuccessInv, HasUnusableRow
<1>5. CASE Dedupe
  <2>1. rows' \subseteq rows
    BY <1>5 DEF Dedupe, Usable
  <2>2. ignored'["invalid_fixture"] = ignored["invalid_fixture"]
    BY <1>2, <1>5 DEF Dedupe, Ignore
  <2> QED BY <1>1, <2>1, <2>2 DEF SuccessInv, HasUnusableRow
<1>6. CASE Plan
  <2>1. rows' = {}
    BY <1>6 DEF Plan
  <2>2. ignored'["invalid_fixture"]
          = ignored["invalid_fixture"] + Cardinality({row \in rows : Verdict(row) = "invalid_fixture"}) + 0
    BY <1>2, <1>6 DEF Plan
  <2>3. CASE HasUnusableRow
    BY <1>1, <2>3 DEF SuccessInv
  <2>4. CASE ~HasUnusableRow
    <3>1. \A row \in rows : Verdict(row) # "invalid_fixture"
      BY <2>4 DEF Verdict, HasUnusableRow
    <3>2. Cardinality({row \in rows : Verdict(row) = "invalid_fixture"}) = 0
      <4>1. {row \in rows : Verdict(row) = "invalid_fixture"} = {}
        BY <3>1
      <4> QED BY <4>1, FS_EmptySet
    <3> QED BY <1>1, <1>2, <2>1, <2>2, <3>2 DEF SuccessInv, HasUnusableRow
  <2> QED BY <2>3, <2>4
<1>7. CASE TeamsReceived \/ TeamsFail \/ HistoryReceived \/ HistoryFails
  <2>1. rows' = rows
    BY <1>7 DEF TeamsReceived, TeamsFail, HistoryReceived, HistoryFails
  <2>2. ignored'["invalid_fixture"] = ignored["invalid_fixture"]
    BY <1>2, <1>7 DEF TeamsReceived, TeamsFail, HistoryReceived, HistoryFails, Ignore
  <2> QED BY <1>1, <2>1, <2>2 DEF SuccessInv, HasUnusableRow
<1> QED BY <1>3, <1>4, <1>5, <1>6, <1>7 DEF Work, Quiet

\* Where it is says how far the dates and the plan are, unless a call failed.
Complete ==
  /\ causes = {} /\ pc \in {"dedupe", "leagues", "plan"} \cup Enriching => day = Days
  /\ causes = {} /\ Whole => day = Days /\ plan = <<>>

LEMMA FailureIsNoCompletion ==
  ASSUME NEW cause \in Causes, RequestFails(cause)
  PROVE  Complete'
BY DEF Complete, RequestFails

LEMMA NextIsComplete ==
  ASSUME FunnelInv, SuccessInv, pc \in Enriching, NextCompetition,
         day' = day, causes' = causes
  PROVE  Complete'
<1>1. plan \in Seq(PlanEntry) /\ plan # <<>>
  BY DEF FunnelInv, FunnelType, CourseInv
<1>2. Len(plan) = 1 => Tail(plan) = <<>>
  <2>1. Tail(plan) \in Seq(PlanEntry) /\ Len(Tail(plan)) = Len(plan) - 1 /\ Len(plan) \in Nat
    BY <1>1
  <2>2. \A s \in Seq(PlanEntry) : Len(s) = 0 => s = <<>>
    OBVIOUS
  <2> DEFINE t == Tail(plan)
             n == Len(plan)
  <2>3. t \in Seq(PlanEntry) /\ Len(t) = n - 1 /\ n \in Nat
    BY <2>1
  <2> HIDE DEF t, n
  <2>4. n = 1 => t = <<>>
    BY <2>2, <2>3
  <2> QED BY <2>4 DEF t, n
<1>3. causes = {} => day = Days
  BY DEF SuccessInv
<1> QED BY <1>1, <1>2, <1>3 DEF NextCompetition, Complete, Enriching, Kept, Whole, Late

LEMMA CompleteStep ==
  ASSUME FunnelInv, SuccessInv, Work \/ Stop
  PROVE  Complete'
<1>1. CASE DateFails \/ LeaguesFail \/ TeamsFail \/ HistoryFails \/ StatisticsFail
  <2>1. \E cause \in Causes : RequestFails(cause)
    BY <1>1 DEF DateFails, LeaguesFail, TeamsFail, HistoryFails, StatisticsFail
  <2> QED BY <2>1, FailureIsNoCompletion
<1>2. CASE Start \/ DateReceived
  <2>1. CASE Start
    BY <2>1 DEF Start, Complete, Enriching, Kept, Late, Whole
  <2>2. CASE DateReceived
    <3>1. /\ pc = "dates" /\ day' = day + 1
          /\ pc' = (IF day + 1 < Days THEN "dates" ELSE "dedupe")
      BY <2>2 DEF DateReceived, AfterDate
    <3>2. day < Days /\ day \in Int /\ Days \in Int
      BY <3>1, DiscoveryAssumption DEF FunnelInv, CourseInv, CourseType
    <3>3. pc' = "dedupe" => day' = Days
      BY <3>1, <3>2
    <3> QED BY <3>1, <3>3 DEF Complete, Enriching, Kept, Late, Whole
  <2> QED BY <1>2, <2>1, <2>2
<1>3. CASE Dedupe \/ LeaguesReceived
  BY <1>3 DEF Dedupe, LeaguesReceived, EnvelopeReceived, SuccessInv, Complete, Enriching, Kept,
              Late, Whole
<1>4. CASE Plan
  <2>1. /\ pc = "plan" /\ plan' = Chosen.plan /\ day' = day /\ causes' = causes
        /\ pc' = (IF Chosen.plan = <<>> THEN "pairs" ELSE "teams")
    BY <1>4 DEF Plan
  <2> QED BY <2>1 DEF SuccessInv, Complete, Enriching, Kept, Late, Whole
<1>5. CASE TeamsReceived \/ HistoryReceived \/ Commit
  <2>1. pc \in Enriching /\ day' = day /\ causes' = causes
    BY <1>5 DEF TeamsReceived, HistoryReceived, Commit, EnvelopeReceived, Enriching, Kept
  <2>2. CASE NextCompetition
    BY <2>1, <2>2, NextIsComplete
  <2>3. CASE pc' \in {"history", "standings", "store"}
    BY <2>1, <2>3 DEF SuccessInv, Complete, Enriching, Kept, Late, Whole
  <2>4. NextCompetition \/ pc' \in {"history", "standings", "store"}
    BY <1>5 DEF TeamsReceived, HistoryReceived, Commit
  <2> QED BY <2>2, <2>3, <2>4
<1>6. CASE StandingsRequest \/ Store
  <2>1. /\ pc \in Enriching /\ pc' \in {"store", "commit"} /\ day' = day
        /\ causes \subseteq causes'
    BY <1>6, ErrorsAreKept DEF StandingsRequest, Store, Enriching, Kept, SuccessInv
  <2> QED BY <2>1 DEF SuccessInv, Complete, Enriching, Kept, Late, Whole
<1>7. CASE \/ Pairs \/ HeadToHead \/ HeadToHeadEnds \/ NoStatistics \/ StatisticsReceived
           \/ EventsRequest \/ StatisticsEnd
  <2>1. pc \in Late /\ pc' \in Late \cup {"finish"} /\ UNCHANGED <<day, plan>>
    BY <1>7 DEF Pairs, HeadToHead, HeadToHeadEnds, NoStatistics, StatisticsReceived,
                EventsRequest, StatisticsEnd, Late, funnel
  <2>2. causes \subseteq causes'
    BY ErrorsAreKept DEF SuccessInv
  <2> QED BY <2>1, <2>2 DEF SuccessInv, Complete, Enriching, Kept, Late, Whole
<1>8. CASE Finish
  BY <1>8 DEF Finish, funnel, SuccessInv, Complete, Enriching, Kept, Late, Whole
<1>9. CASE Raise \/ RecordFailure \/ Abort \/ Stop
  <2>1. pc' \in {"failed", "aborted", "stopped"} \/ (pc' = "finish" /\ fatal')
    BY <1>9 DEF Raise, RecordFailure, Abort, Stop, FunnelInv, CourseInv
  <2> QED BY <2>1 DEF Complete, Enriching, Kept, Late, Whole
<1> QED BY <1>1, <1>2, <1>3, <1>4, <1>5, <1>6, <1>7, <1>8, <1>9 DEF Work

LEMMA SuccessStep ==
  ASSUME FunnelInv, SuccessInv, Work \/ Stop
  PROVE  SuccessInv'
<1>1. causes' \subseteq codes'
  BY ErrorsAreKept DEF SuccessInv
<1>2. Complete' /\ (HasUnusableRow' \/ ignored'["invalid_fixture"] > 0 => "invalid_row" \in codes')
  BY CompleteStep, UnusableIsNoted
<1>3. record'.status = "SUCCEEDED" => pc' = "done" /\ ~fatal' /\ codes' = {}
  <2>1. CASE Finish
    <3>1. record'.status = FinalStatus /\ pc' = "done" /\ UNCHANGED <<fatal, codes>>
      BY <2>1 DEF Finish
    <3> QED BY <3>1 DEF FinalStatus
  <2>2. CASE Start
    BY <2>2 DEF Start
  <2>3. CASE ~Finish /\ ~Start
    <3>1. record' = record
      BY <2>3 DEF Work, DateReceived, DateFails, Dedupe, LeaguesReceived, LeaguesFail, Plan,
         TeamsReceived, TeamsFail, HistoryReceived, HistoryFails, StandingsRequest, Store, Commit,
         Pairs, HeadToHead, HeadToHeadEnds, NoStatistics, StatisticsReceived, StatisticsFail,
         EventsRequest, StatisticsEnd, Raise, RecordFailure, Abort, Stop
    <3> QED BY <3>1, RunsToItsEnd DEF SuccessInv, Stopped
  <2> QED BY <2>1, <2>2, <2>3
<1> QED BY <1>1, <1>2, <1>3 DEF SuccessInv, Complete

-----------------------------------------------------------------------------
(* The invariant of a synchronisation.                                       *)

DiscoveryInv == CallType /\ FunnelInv /\ SuccessInv

LEMMA DiscoveryInit == Init => DiscoveryInv
<1> SUFFICES ASSUME Init
             PROVE  DiscoveryInv
  OBVIOUS
<1> USE DEF Init
<1>1. CallType
  BY CallsAssumption, WrittenTypes DEF CallType, ClientOK, NewClient, NothingAnnounced
<1>2. FunnelType
  <2>1. <<>> \in Seq(PlanEntry)
    OBVIOUS
  <2> QED BY <2>1 DEF FunnelType
<1>3. CourseType /\ CourseInv
  <2>1. Days \in Nat \ {0}
    BY DiscoveryAssumption
  <2>2. 0 \in 0..Days /\ 0 < Days
    BY <2>1
  <2>3. NoRecord \in [status : {"none", "RUNNING", "SUCCEEDED", "PARTIAL", "FAILED"},
                      inserted : Nat]
    BY DEF NoRecord
  <2>4. CourseType
    BY <2>2, <2>3 DEF CourseType, Phase
  <2> QED BY <2>2, <2>4 DEF CourseInv, Early, Enriching, Kept, Late, Whole, Stopped
<1>4. RowsInv /\ PlanInv
  <2>1. DOMAIN plan = {}
    OBVIOUS
  <2> QED BY <2>1 DEF RowsInv, PlanInv
<1>5. Reconciled
  <2>1. Sum(ignored) = 0
    <3>1. DOMAIN ignored = Reason /\ \A r \in Reason : ignored[r] = 0
      OBVIOUS
    <3> QED BY <3>1, ReasonsAreFinite, SumOfZero DEF Sum, SumFunction
  <2>2. Unreached = 0
    <3>1. DOMAIN UndecidedIn(plan, valid) = {}
      BY DEF UndecidedIn
    <3> QED BY <3>1, UnreachedIsSum, SumOfNone DEF SumFunction
  <2>3. Cardinality(retained) = 0 /\ Cardinality(rows) = 0
    BY FS_EmptySet
  <2> QED BY <2>1, <2>2, <2>3 DEF Reconciled, Accounted
<1>6. SuccessInv
  <2>1. record.status = "none"
    BY DEF NoRecord
  <2>2. ~HasUnusableRow
    BY DEF HasUnusableRow
  <2>3. "invalid_fixture" \in Reason
    BY DEF Reason, RowFates
  <2>4. ignored["invalid_fixture"] = 0
    BY <2>3
  <2> QED BY <2>1, <2>2, <2>4 DEF SuccessInv, Enriching, Kept, Late, Whole
<1> QED BY <1>1, <1>2, <1>3, <1>4, <1>5, <1>6 DEF DiscoveryInv, FunnelInv

\* The client has no part in what is proved of the rest.
LEMMA ClientAside ==
  ASSUME DiscoveryInv, ClientOK',
         UNCHANGED <<pc, day, rows, catalogue, funnel, left, causes, codes, tables, fatal, record>>
  PROVE  DiscoveryInv'
<1> USE DEF funnel, tables
<1>1. CallType'
  BY DEF DiscoveryInv, CallType
<1>2. /\ FunnelType' /\ CourseType' /\ PlanInv' /\ CourseInv'
  BY DEF DiscoveryInv, FunnelInv, FunnelType, CourseType, PlanInv, CourseInv, Whole, Competition
<1>3. RowsInv'
  BY DEF DiscoveryInv, FunnelInv, RowsInv, Usable
<1>4. Reconciled'
  BY UnreachedIsSum DEF DiscoveryInv, FunnelInv, Reconciled, Accounted
<1>5. SuccessInv'
  BY DEF DiscoveryInv, SuccessInv, HasUnusableRow, Whole
<1> QED BY <1>1, <1>2, <1>3, <1>4, <1>5 DEF DiscoveryInv, FunnelInv

LEMMA DiscoveryStep == DiscoveryInv /\ [Next]_vars => DiscoveryInv'
<1> SUFFICES ASSUME DiscoveryInv, [Next]_vars
             PROVE  DiscoveryInv'
  OBVIOUS
<1>1. CASE Work \/ Stop
  <2>1. CallType'
    BY <1>1, CallTypeStep DEF DiscoveryInv, FunnelInv, FunnelType
  <2>2. FunnelInv'
    BY <1>1, FunnelStep DEF DiscoveryInv
  <2>3. SuccessInv'
    BY <1>1, SuccessStep DEF DiscoveryInv
  <2> QED BY <2>1, <2>2, <2>3 DEF DiscoveryInv
<1>2. CASE UNCHANGED vars
  <2>1. ClientOK'
    BY <1>2 DEF DiscoveryInv, CallType, ClientOK, vars
  <2> QED BY <1>2, <2>1, ClientAside DEF vars, funnel, tables
<1> QED BY <1>1, <1>2 DEF Next, Stay

LEMMA DiscoveryInvariant == Spec => []DiscoveryInv
BY DiscoveryInit, DiscoveryStep, PTL DEF Spec

-----------------------------------------------------------------------------
(* The funnel of a run.                                                      *)

FunnelSets == 1..7
AskedFor(i) == IgnoredFor(UNION {FunnelReasons[j] : j \in 1..i})

LEMMA FunnelOfReasons ==
  /\ DOMAIN FunnelReasons = FunnelSets
  /\ \A i \in FunnelSets : FunnelReasons[i] \subseteq Reason \ {"invalid_fixture"}
  /\ \A r \in Reason \ {"invalid_fixture"} : \E i \in FunnelSets : r \in FunnelReasons[i]
  /\ \A i, j \in FunnelSets : i # j => FunnelReasons[i] \cap FunnelReasons[j] = {}
<1>1. DOMAIN FunnelReasons = FunnelSets
  BY DEF FunnelReasons, FunnelSets
<1>2. /\ FunnelReasons[1] = {"competition_metadata_unavailable", "competition_type_unsupported",
                             "competition_limit", "request_budget_competition_limit"}
      /\ FunnelReasons[2] = {"season_metadata_unavailable"}
      /\ FunnelReasons[3] = {"fixture_status_not_scheduled"}
      /\ FunnelReasons[4] = {"fixture_not_future"}
      /\ FunnelReasons[5] = {"team_metadata_unavailable"}
      /\ FunnelReasons[6] = {"insufficient_data_coverage", "recent_results_unavailable",
                             "insufficient_recent_results"}
      /\ FunnelReasons[7] = {"duplicate_fixture"}
  BY DEF FunnelReasons
<1>3. \A i \in FunnelSets : i = 1 \/ i = 2 \/ i = 3 \/ i = 4 \/ i = 5 \/ i = 6 \/ i = 7
  BY DEF FunnelSets
<1>4. \A i \in FunnelSets : FunnelReasons[i] \subseteq Reason \ {"invalid_fixture"}
  BY <1>2, <1>3 DEF Reason, RowFates
<1>5. \A r \in Reason \ {"invalid_fixture"} : \E i \in FunnelSets : r \in FunnelReasons[i]
  <2>1. /\ 1 \in FunnelSets /\ 2 \in FunnelSets /\ 3 \in FunnelSets /\ 4 \in FunnelSets
        /\ 5 \in FunnelSets /\ 6 \in FunnelSets /\ 7 \in FunnelSets
    BY DEF FunnelSets
  <2>2. Reason \ {"invalid_fixture"} \subseteq
          FunnelReasons[1] \cup FunnelReasons[2] \cup FunnelReasons[3] \cup FunnelReasons[4]
            \cup FunnelReasons[5] \cup FunnelReasons[6] \cup FunnelReasons[7]
    BY <1>2 DEF Reason, RowFates
  <2> QED BY <2>1, <2>2
<1>6. \A i, j \in FunnelSets : i # j => FunnelReasons[i] \cap FunnelReasons[j] = {}
  BY <1>2, <1>3
<1> QED BY <1>1, <1>4, <1>5, <1>6

LEMMA AskedForParts ==
  ASSUME ignored \in [Reason -> Nat]
  PROVE  /\ \A i \in 0..7 : AskedFor(i) \in Nat /\ AskedFor(i) <= Sum(ignored)
         /\ \A i \in FunnelSets : /\ IgnoredFor(FunnelReasons[i]) \in Nat
                                  /\ AskedFor(i) = AskedFor(i - 1) + IgnoredFor(FunnelReasons[i])
         /\ Sum(ignored) = AskedFor(7) + ignored["invalid_fixture"]
<1> DEFINE Upto(i) == UNION {FunnelReasons[j] : j \in 1..i}
<1>1. NaturalsOn(ignored, Reason) /\ DOMAIN ignored = Reason
  BY DEF NaturalsOn
<1>2. \A i \in 0..7 : Upto(i) \in SUBSET Reason
  BY FunnelOfReasons DEF FunnelSets
<1>3. \A i \in 0..7 : AskedFor(i) \in Nat /\ AskedFor(i) <= Sum(ignored)
  <2> SUFFICES ASSUME NEW i \in 0..7
               PROVE  AskedFor(i) \in Nat /\ AskedFor(i) <= Sum(ignored)
    OBVIOUS
  <2> DEFINE B == Upto(i)
  <2>1. B \in SUBSET Reason
    BY <1>2
  <2>2. AskedFor(i) = SumFunctionOnSet(ignored, B) /\ Sum(ignored) = SumFunctionOnSet(ignored, Reason)
    BY <1>1 DEF AskedFor, IgnoredFor, Sum, SumFunction
  <2> HIDE DEF B
  <2> QED BY <1>1, <2>1, <2>2, ReasonsAreFinite, SumOfPart
<1>4. ASSUME NEW i \in FunnelSets
      PROVE  /\ IgnoredFor(FunnelReasons[i]) \in Nat
             /\ AskedFor(i) = AskedFor(i - 1) + IgnoredFor(FunnelReasons[i])
  <2> DEFINE B == Upto(i - 1)
             F == FunnelReasons[i]
  <2>1. B \in SUBSET Reason /\ F \in SUBSET Reason
    BY <1>2, FunnelOfReasons DEF FunnelSets
  <2>2. Upto(i) = B \cup F
    <3>1. 1..i = (1..(i - 1)) \cup {i}
      BY DEF FunnelSets
    <3> QED BY <3>1
  <2>3. B \cap F = {}
    <3>1. \A j \in 1..(i - 1) : j \in FunnelSets /\ j # i
      BY DEF FunnelSets
    <3> QED BY <3>1, FunnelOfReasons
  <2>4. AskedFor(i) = SumFunctionOnSet(ignored, Upto(i))
        /\ AskedFor(i - 1) = SumFunctionOnSet(ignored, B)
        /\ IgnoredFor(FunnelReasons[i]) = SumFunctionOnSet(ignored, F)
    BY DEF AskedFor, IgnoredFor
  <2> HIDE DEF Upto, B, F
  <2>5. IsFiniteSet(B) /\ IsFiniteSet(F)
    BY <2>1, ReasonsAreFinite, FS_Subset
  <2>6. IntegersOn(ignored, B \cup F)
    BY <1>1, <2>1 DEF NaturalsOn, IntegersOn
  <2>7. SumFunctionOnSet(ignored, F) \in Nat
    BY <1>1, <2>1, ReasonsAreFinite, SumOfPart
  <2>8. SumFunctionOnSet(ignored, B \cup F)
          = SumFunctionOnSet(ignored, B) + SumFunctionOnSet(ignored, F)
    BY <2>3, <2>5, <2>6, SumOfUnion
  <2> QED BY <2>2, <2>4, <2>7, <2>8
<1>5. Sum(ignored) = AskedFor(7) + ignored["invalid_fixture"]
  <2> DEFINE B == Upto(7)
  <2>1. B = Reason \ {"invalid_fixture"} /\ "invalid_fixture" \in Reason
    <3>1. 1..7 = FunnelSets
      BY DEF FunnelSets
    <3>2. B \subseteq Reason \ {"invalid_fixture"}
      BY <3>1, FunnelOfReasons
    <3>3. Reason \ {"invalid_fixture"} \subseteq B
      BY <3>1, FunnelOfReasons
    <3> QED BY <3>2, <3>3 DEF Reason, RowFates
  <2>2. AskedFor(7) = SumFunctionOnSet(ignored, B) /\ Sum(ignored) = SumFunctionOnSet(ignored, Reason)
    BY <1>1 DEF AskedFor, IgnoredFor, Sum, SumFunction
  <2> HIDE DEF B
  <2>3. IntegersOn(ignored, Reason)
    BY <1>1 DEF NaturalsOn, IntegersOn
  <2>4. SumFunctionOnSet(ignored, Reason)
          = ignored["invalid_fixture"] + SumFunctionOnSet(ignored, Reason \ {"invalid_fixture"})
    BY <2>1, <2>3, ReasonsAreFinite, SumByElement
  <2>5. ignored["invalid_fixture"] \in Nat /\ AskedFor(7) \in Nat
    BY <1>3, <2>1
  <2> QED BY <2>1, <2>2, <2>4, <2>5
<1> QED BY <1>3, <1>4, <1>5

\* No count is cut: each is asked for less than there is.
LEMMA FunnelIsExact ==
  ASSUME FunnelInv
  PROVE  /\ \A i \in FunnelSets : RetentionFunnel.rejected[i] = IgnoredFor(FunnelReasons[i])
         /\ DOMAIN RetentionFunnel.rejected = FunnelSets
         /\ RetentionFunnel.other = received - Cardinality(retained) - AskedFor(7)
<1> DEFINE remaining == received - Cardinality(retained)
           taken(i) == IF AskedFor(i) < remaining THEN AskedFor(i) ELSE remaining
<1>1. DOMAIN FunnelReasons = FunnelSets /\ Len(FunnelReasons) = 7
  BY FunnelOfReasons DEF FunnelReasons
<1>2. /\ RetentionFunnel.rejected = [i \in FunnelSets |-> taken(i) - taken(i - 1)]
      /\ RetentionFunnel.other = remaining - taken(7)
  BY <1>1, Zenon DEF RetentionFunnel, AskedFor
<1>3. ignored \in [Reason -> Nat]
  BY DEF FunnelInv, FunnelType
<1>4. Sum(ignored) <= remaining /\ remaining \in Int /\ Sum(ignored) \in Nat
  <2>1. /\ Sum(ignored) \in Nat /\ Cardinality(retained) \in Nat
        /\ Cardinality(rows) \in Nat /\ Unreached \in Nat /\ received \in Nat
    BY CountsOfFunnel DEF FunnelInv, FunnelType
  <2>2. Accounted <= received
    BY <2>1 DEF FunnelInv, Reconciled, Accounted
  <2> QED BY <2>1, <2>2 DEF Accounted
<1> HIDE DEF remaining
<1>5. \A i \in 0..7 : taken(i) = AskedFor(i)
  <2> SUFFICES ASSUME NEW i \in 0..7
               PROVE  taken(i) = AskedFor(i)
    OBVIOUS
  <2>1. AskedFor(i) \in Nat /\ AskedFor(i) <= Sum(ignored)
    BY <1>3, AskedForParts
  <2> QED BY <1>4, <2>1
<1> HIDE DEF taken
<1>6. \A i \in FunnelSets : RetentionFunnel.rejected[i] = IgnoredFor(FunnelReasons[i])
  <2> SUFFICES ASSUME NEW i \in FunnelSets
               PROVE  RetentionFunnel.rejected[i] = IgnoredFor(FunnelReasons[i])
    OBVIOUS
  <2>1. i \in 0..7 /\ i - 1 \in 0..7
    BY DEF FunnelSets
  <2>2. RetentionFunnel.rejected[i] = AskedFor(i) - AskedFor(i - 1)
    BY <1>2, <1>5, <2>1
  <2>3. /\ AskedFor(i) \in Nat /\ AskedFor(i - 1) \in Nat
        /\ IgnoredFor(FunnelReasons[i]) \in Nat
        /\ AskedFor(i) = AskedFor(i - 1) + IgnoredFor(FunnelReasons[i])
    BY <1>3, <2>1, AskedForParts
  <2> QED BY <2>2, <2>3
<1>7. RetentionFunnel.other = remaining - AskedFor(7)
  <2>1. 7 \in 0..7
    OBVIOUS
  <2> QED BY <1>2, <1>5, <2>1
<1> QED BY <1>2, <1>6, <1>7 DEF remaining

-----------------------------------------------------------------------------
(* What the invariant says of the properties.                                *)

LEMMA InvAccounts == DiscoveryInv => EveryFixtureAccounted
<1> SUFFICES ASSUME DiscoveryInv
             PROVE  EveryFixtureAccounted
  OBVIOUS
<1>1. IF fatal THEN Accounted <= received ELSE Accounted = received
  BY DEF DiscoveryInv, FunnelInv, Reconciled
<1>2. \A i \in DOMAIN RetentionFunnel.rejected :
        RetentionFunnel.rejected[i] = IgnoredFor(FunnelReasons[i])
  BY FunnelIsExact DEF DiscoveryInv
<1> QED BY <1>1, <1>2 DEF EveryFixtureAccounted, Accounted

LEMMA InvCompletes == DiscoveryInv => SuccessMeansComplete
<1> SUFFICES ASSUME DiscoveryInv, record.status = "SUCCEEDED"
             PROVE  day = Days /\ causes = {} /\ RetentionFunnel.other = 0
  BY DEF SuccessMeansComplete
<1>1. pc = "done" /\ ~fatal /\ codes = {} /\ causes = {} /\ Whole
  BY DEF DiscoveryInv, SuccessInv, Whole
<1>2. day = Days /\ plan = <<>> /\ rows = {} /\ valid = {}
  BY <1>1 DEF DiscoveryInv, SuccessInv, FunnelInv, CourseInv
<1>3. ignored["invalid_fixture"] = 0 /\ ignored \in [Reason -> Nat]
  <2>1. ignored \in [Reason -> Nat] /\ "invalid_fixture" \in Reason
    BY DEF DiscoveryInv, FunnelInv, FunnelType, Reason, RowFates
  <2> QED BY <1>1, <2>1 DEF DiscoveryInv, SuccessInv
<1>4. Unreached = 0
  <2>1. DOMAIN UndecidedIn(plan, valid) = {}
    BY <1>2 DEF UndecidedIn
  <2> QED BY <2>1, UnreachedIsSum, SumOfNone DEF SumFunction
<1>5. Cardinality(rows) = 0
  BY <1>2, FS_EmptySet
<1>6. Accounted = received
  BY <1>1 DEF DiscoveryInv, FunnelInv, Reconciled
<1>7. Sum(ignored) \in Nat /\ Cardinality(retained) \in Nat /\ received \in Nat
  BY CountsOfFunnel DEF DiscoveryInv, FunnelInv, FunnelType
<1>8. 7 \in 0..7 /\ Sum(ignored) = AskedFor(7) + ignored["invalid_fixture"]
      /\ AskedFor(7) \in Nat
  BY <1>3, AskedForParts
<1>9. RetentionFunnel.other = received - Cardinality(retained) - AskedFor(7)
  BY FunnelIsExact DEF DiscoveryInv
<1>10. RetentionFunnel.other = 0
  BY <1>3, <1>4, <1>5, <1>6, <1>7, <1>8, <1>9 DEF Accounted
<1> QED BY <1>1, <1>2, <1>10

Fits ==
  pc = "plan" /\ plan' # <<>> =>
    SumFunction(CostsOf(plan')) + (IF Len(plan') > 1 THEN 1 ELSE 0) <= Remaining

LEMMA InvFits == DiscoveryInv /\ Next => Fits
<1> SUFFICES ASSUME DiscoveryInv, Next, pc = "plan", plan' # <<>>
             PROVE  SumFunction(CostsOf(plan')) + (IF Len(plan') > 1 THEN 1 ELSE 0) <= Remaining
  BY DEF Fits
<1>1. plan = <<>>
  BY DEF DiscoveryInv, FunnelInv, CourseInv, Early
<1>2. Plan
  BY <1>1 DEF Next, Work, Start, DateReceived, DateFails, Dedupe, LeaguesReceived, LeaguesFail,
     TeamsReceived, TeamsFail, HistoryReceived, HistoryFails, StandingsRequest, Store, Commit,
     Pairs, HeadToHead, HeadToHeadEnds, NoStatistics, StatisticsReceived, StatisticsFail,
     EventsRequest, StatisticsEnd, Raise, RecordFailure, Finish, Abort, Stop, Stay, Stopped,
     funnel
<1>3. CandidatesOK /\ ClientOK
  BY <1>2 DEF DiscoveryInv, CallType, FunnelInv, FunnelType, CandidatesOK
<1>4. plan' = Chosen.plan
  BY <1>2 DEF Plan
<1> DEFINE cost == SumFunction(CostsOf(Chosen.plan))
           n == Len(Chosen.plan)
           budget == Chosen.budget
<1>5. /\ Chosen \in Selection /\ budget + cost = Remaining
      /\ budget >= 0 /\ (n > 1 => budget >= 1)
  BY <1>3, <1>4, ChosenIsSelected DEF SelectionInv
<1>6. budget \in Int /\ cost \in Int /\ n \in Nat
  <2>1. Chosen.plan \in Seq(PlanEntry) /\ budget \in Int
    BY <1>5 DEF Selection
  <2>2. /\ n \in Nat /\ DOMAIN CostsOf(Chosen.plan) = 1..n
        /\ IntegersOn(CostsOf(Chosen.plan), 1..n)
    BY <2>1, EntriesAreNumbers
  <2>3. IsFiniteSet(1..n)
    BY <2>2, Interval
  <2> HIDE DEF n
  <2> QED BY <2>1, <2>2, <2>3, SumIsInteger DEF SumFunction
<1>7. SumFunction(CostsOf(plan')) = cost /\ Len(plan') = n
  BY <1>4
<1> HIDE DEF cost, n, budget
<1> QED BY <1>5, <1>6, <1>7

LEMMA FitsSaysIt ==
  Fits <=> (pc = "plan" /\ plan' # <<>> =>
              Sum([i \in DOMAIN plan' |-> Cost(plan'[i].comp)])
                + (IF Len(plan') > 1 THEN 1 ELSE 0) <= Remaining)
BY DEF Fits, CostsOf, Sum

-----------------------------------------------------------------------------
(* The theorems.                                                             *)

\* The counters, the plan, the funnel, what the transaction and the tables hold and the
\* record have the types of the code at every step.
THEOREM DiscoveryHasItsTypes == Spec => []TypeOK
<1>1. DiscoveryInv => TypeOK
  BY TypeParts DEF DiscoveryInv, FunnelInv
<1> QED BY <1>1, DiscoveryInvariant, PTL

\* The funnel reconciles: whatever the provider answers and whatever fails, each fixture
\* received is retained, ignored for one reason, or not reached, and the funnel that
\* build_retention_funnel derives never cuts a count.
THEOREM TheFunnelReconciles == Spec => []EveryFixtureAccounted
BY InvAccounts, DiscoveryInvariant, PTL

\* A run recorded as a success received every date, met no failure, reached every
\* competition of its plan and has a reason for every fixture it did not retain.
THEOREM SuccessIsComplete == Spec => []SuccessMeansComplete
BY InvCompletes, DiscoveryInvariant, PTL

\* What the plan selects can be asked for with what the budget and the quotas have left,
\* and a plan of several competitions leaves a request.
THEOREM ThePlanFitsTheBudget == Spec => PlanFitsBudget
<1>1. DiscoveryInv /\ [Next]_vars =>
        [pc = "plan" /\ plan' # <<>> =>
           Sum([i \in DOMAIN plan' |-> Cost(plan'[i].comp)])
             + (IF Len(plan') > 1 THEN 1 ELSE 0) <= Remaining]_vars
  BY InvFits, FitsSaysIt
<1> QED BY <1>1, DiscoveryInvariant, PTL DEF Spec, PlanFitsBudget
=============================================================================
