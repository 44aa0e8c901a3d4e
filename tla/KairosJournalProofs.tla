-------------------------- MODULE KairosJournalProofs --------------------------
(***************************************************************************)
(* Proofs about KairosJournal and KairosReport: the statuses of the        *)
(* journal, one row for each key, what the commands report of it, the      *)
(* ledger that the journal implements, and the counts of a report, which   *)
(* add up whatever is committed while they are made.                       *)
(***************************************************************************)
EXTENDS KairosReport, FiniteSetTheorems, TLAPS

\* The markets of the constraint on the journal.
AllMarkets == HalfTime \cup DoubleChance

\* The outcome that evaluate_market_outcome gives is the one the trigger of the
\* resolutions expects, for every market and every score.
THEOREM OutcomesAgree ==
  ASSUME NEW market \in AllMarkets, NEW s \in Score, MarketOutcome(market, s) # "VOID"
  PROVE  MarketOutcome(market, s) = Expected(market, s)
<1>1. ~Undecided(market, s)
  BY Zenon DEF MarketOutcome
<1>2. /\ s.fullHome \in 0..100 /\ s.fullAway \in 0..100
      /\ Missing \notin {s.fullHome, s.fullAway}
  BY <1>1, JournalAssumption DEF Undecided, InRange, Score
<1>3. market \in HalfTime =>
        /\ s.halfHome \in 0..100 /\ s.halfAway \in 0..100
        /\ Missing \notin {s.halfHome, s.halfAway}
        /\ s.halfHome + s.halfAway <= s.fullHome + s.fullAway
  BY <1>1, <1>2, JournalAssumption DEF Undecided, InRange, Score
<1>4. Decidable(market, s)
  BY <1>2, <1>3 DEF Decidable, Readable, AllMarkets
<1>5. Won(market, s) <=> Expects(market, s)
  <2>1. CASE market \in DoubleChance
    BY <2>1, <1>2 DEF Won, Expects, DoubleChance
  <2>2. CASE market \in HalfTime
    <3> DEFINE first == s.halfHome + s.halfAway
               second == s.fullHome + s.fullAway - first
    <3>1. /\ s.halfHome \in Int /\ s.halfAway \in Int
          /\ s.fullHome \in Int /\ s.fullAway \in Int
          /\ FirstHalf(s) = first /\ SecondHalf(s) = second
      BY <1>2, <1>3, <2>2 DEF FirstHalf, SecondHalf
    <3>2. CASE market = "FIRST_HALF_MORE_GOALS"
      BY <3>1, <3>2 DEF Won, Expects
    <3>3. CASE market = "SECOND_HALF_MORE_GOALS"
      BY <3>1, <3>3 DEF Won, Expects
    <3>4. CASE market = "EQUAL_HALF_GOALS"
      BY <3>1, <3>4 DEF Won, Expects
    <3>5. CASE market = "FIRST_HALF_OVER_0_5"
      BY <3>1, <3>5 DEF Won, Expects
    <3>6. CASE market = "SECOND_HALF_OVER_0_5"
      BY <3>1, <3>6 DEF Won, Expects
    <3>7. CASE market = "SECOND_HALF_OVER_1_5"
      BY <3>1, <3>7 DEF Won, Expects
    <3> QED BY <2>2, <3>2, <3>3, <3>4, <3>5, <3>6, <3>7 DEF HalfTime
  <2> QED BY <2>1, <2>2 DEF AllMarkets
<1> QED BY <1>1, <1>4, <1>5, Zenon DEF MarketOutcome, Expected

-----------------------------------------------------------------------------
(* Types.  The tables are finite, so that the counters are natural numbers.  *)

\* The tables and sets that the writer fills.
StoreTyped ==
  /\ StoreTypeOK
  /\ IsFiniteSet(answers) /\ IsFiniteSet(written) /\ IsFiniteSet(observations)

\* The commands, and what their transactions hold.
CommandsTyped ==
  /\ pc \in [Commands -> {"idle", "snapshot", "analyse", "resolve", "insert", "commit"}]
  /\ now \in [Commands -> Time]
  /\ began \in [Commands -> Time]
  /\ window \in [Commands -> Windows \cup {{}}]
  /\ targets \in [Commands -> SUBSET Observation]
  /\ due \in [Commands -> SUBSET Resolution]
  /\ drafts \in [Commands -> SUBSET Entry]
  /\ settling \in [Commands -> SUBSET Resolution]
  /\ inserted \in [Commands -> Nat]
  /\ \A c \in Commands : /\ IsFiniteSet(drafts[c])
                         /\ IsFiniteSet(due[c])
                         /\ IsFiniteSet(settling[c])

\* What the commands have committed.
ResultsTyped ==
  /\ reported \in Nat
  /\ journal \subseteq Entry /\ IsFiniteSet(journal)
  /\ resolutions \subseteq Resolution /\ IsFiniteSet(resolutions)

Typed == StoreTyped /\ CommandsTyped /\ ResultsTyped

commands == <<pc, now, began, window, targets, due, drafts, settling, inserted>>

LEMMA BeganIsTime ==
  ASSUME StoreTypeOK  PROVE Began \in Time
BY DEF StoreTypeOK, Began, Closed

\* The image of a finite set is finite.
LEMMA FiniteImage ==
  ASSUME NEW S, IsFiniteSet(S), NEW f, f = [x \in S |-> f[x]]
  PROVE  IsFiniteSet({f[x] : x \in S})
<1>1. f \in Surjection(S, {f[x] : x \in S})
  BY DEF Surjection
<1> QED BY <1>1, FS_Surjection

\* A step of the writer.
LEMMA WriterKeepsTypes ==
  ASSUME StoreTyped, StoreNext  PROVE StoreTyped'
<1>1. CASE Receive
  <2>1. PICK match \in Matches, report \in Reports :
          answers' = answers \cup {[match |-> match, report |-> report, fetched |-> clock]}
    BY <1>1 DEF Receive
  <2>2. [match |-> match, report |-> report, fetched |-> clock] \in Answer
    BY StoreAssumption DEF Answer, StoreTyped, StoreTypeOK
  <2>3. IsFiniteSet(answers')
    BY <2>1, FS_AddElement DEF StoreTyped
  <2> QED BY <1>1, <2>1, <2>2, <2>3 DEF Receive, StoreTyped, StoreTypeOK
<1>2. CASE NoteRejected
  BY <1>2, BeganIsTime DEF NoteRejected, StoreTyped, StoreTypeOK
<1>3. CASE Insert
  <2>1. PICK batch \in SUBSET answers, duplicate \in SUBSET answers :
          /\ written' = written \cup {Stamped(a) : a \in batch \ duplicate}
          /\ answers' = answers \ batch
          /\ opened' = Began
          /\ UNCHANGED <<clock, observations>>
    <3>1. PICK batch \in SUBSET answers :
            /\ \E duplicate \in SUBSET {a \in batch : \E o \in observations \cup written :
                                          o.match = a.match /\ o.report = a.report} :
                 written' = written \cup {Stamped(a) : a \in batch \ duplicate}
            /\ answers' = answers \ batch
            /\ opened' = Began
            /\ UNCHANGED <<clock, observations>>
      BY <1>3 DEF Insert
    <3> QED BY <3>1
  <2> DEFINE stamp == [a \in batch \ duplicate |-> Stamped(a)]
  <2>2. \A a \in answers : Stamped(a) \in Observation
    BY BeganIsTime DEF Stamped, Answer, Observation, StoreTyped, StoreTypeOK
  <2>3. IsFiniteSet(batch \ duplicate)
    BY <2>1, FS_Subset DEF StoreTyped
  <2>4. IsFiniteSet({stamp[a] : a \in batch \ duplicate})
    BY <2>3, FiniteImage
  <2>5. {stamp[a] : a \in batch \ duplicate} = {Stamped(a) : a \in batch \ duplicate}
    OBVIOUS
  <2>6. IsFiniteSet(written')
    BY <2>1, <2>4, <2>5, FS_Union DEF StoreTyped
  <2>7. IsFiniteSet(answers')
    BY <2>1, FS_Subset DEF StoreTyped
  <2>8. written' \subseteq Observation /\ answers' \subseteq Answer
    BY <2>1, <2>2 DEF StoreTyped, StoreTypeOK
  <2> QED BY <2>1, <2>6, <2>7, <2>8, BeganIsTime DEF StoreTyped, StoreTypeOK
<1>4. CASE CommitRows
  <2>1. IsFiniteSet(observations') /\ IsFiniteSet(written')
    BY <1>4, FS_Union, FS_EmptySet DEF CommitRows, StoreTyped
  <2> QED BY <1>4, <2>1 DEF CommitRows, StoreTyped, StoreTypeOK
<1>5. CASE Rollback
  BY <1>5, FS_EmptySet DEF Rollback, StoreTyped, StoreTypeOK
<1>6. CASE Tick
  BY <1>6, StoreAssumption DEF Tick, writer, StoreTyped, StoreTypeOK, Time
<1> QED BY <1>1, <1>2, <1>3, <1>4, <1>5, <1>6 DEF StoreNext

LEMMA MarketsAreFinite == IsFiniteSet(Markets)
<1>1. \A S, x : IsFiniteSet(S) => IsFiniteSet(S \cup {x})
  BY FS_AddElement
<1>2. IsFiniteSet({"FIRST_HALF_MORE_GOALS"} \cup {"SECOND_HALF_MORE_GOALS"}
        \cup {"EQUAL_HALF_GOALS"} \cup {"FIRST_HALF_OVER_0_5"}
        \cup {"SECOND_HALF_OVER_0_5"} \cup {"SECOND_HALF_OVER_1_5"}
        \cup {"HOME_OR_DRAW"} \cup {"AWAY_OR_DRAW"} \cup {"HOME_OR_AWAY"})
  <2>1. IsFiniteSet({"FIRST_HALF_MORE_GOALS"})
    BY FS_Singleton
  <2> QED BY <1>1, <2>1, ZenonT(60)
<1>3. Markets \subseteq {"FIRST_HALF_MORE_GOALS"} \cup {"SECOND_HALF_MORE_GOALS"}
        \cup {"EQUAL_HALF_GOALS"} \cup {"FIRST_HALF_OVER_0_5"}
        \cup {"SECOND_HALF_OVER_0_5"} \cup {"SECOND_HALF_OVER_1_5"}
        \cup {"HOME_OR_DRAW"} \cup {"AWAY_OR_DRAW"} \cup {"HOME_OR_AWAY"}
  BY JournalAssumption DEF HalfTime, DoubleChance
<1> QED BY <1>2, <1>3, FS_Subset

\* The end of a command.
LEMMA EndKeepsTypes ==
  ASSUME CommandsTyped, NEW c \in Commands, End(c)
  PROVE  CommandsTyped'
<1>1. 0 \in Time
  BY StoreAssumption DEF Time
<1>2. /\ pc' \in [Commands -> {"idle", "snapshot", "analyse", "resolve", "insert", "commit"}]
      /\ now' \in [Commands -> Time] /\ began' \in [Commands -> Time]
      /\ window' \in [Commands -> Windows \cup {{}}]
      /\ inserted' \in [Commands -> Nat]
  BY <1>1 DEF CommandsTyped, End
<1>3. /\ targets' \in [Commands -> SUBSET Observation]
      /\ due' \in [Commands -> SUBSET Resolution]
      /\ drafts' \in [Commands -> SUBSET Entry]
      /\ settling' \in [Commands -> SUBSET Resolution]
  BY DEF CommandsTyped, End
<1>4. ASSUME NEW d \in Commands
      PROVE  IsFiniteSet(drafts'[d]) /\ IsFiniteSet(due'[d]) /\ IsFiniteSet(settling'[d])
  <2>1. CASE d = c
    BY <2>1, FS_EmptySet DEF CommandsTyped, End
  <2>2. CASE d # c
    BY <2>2 DEF CommandsTyped, End
  <2> QED BY <2>1, <2>2
<1> QED BY <1>2, <1>3, <1>4 DEF CommandsTyped
LEMMA FreshIsSubset ==
  ASSUME NEW new, NEW used  PROVE Fresh(new, used) \subseteq new
BY DEF Fresh

\* The entries that Append makes.
LEMMA EntriesAreTyped ==
  ASSUME Typed, NEW c \in Commands, NEW o \in Observation, NEW chosen \in SUBSET Markets
  PROVE  LET new == {EntryOf(c, o, market) : market \in chosen}
         IN  new \subseteq Entry /\ IsFiniteSet(new)
<1> DEFINE make == [market \in chosen |-> EntryOf(c, o, market)]
<1>1. \A market \in chosen : EntryOf(c, o, market) \in Entry
  BY DEF Typed, CommandsTyped, EntryOf, Entry, Analysis
<1>2. IsFiniteSet(chosen)
  BY MarketsAreFinite, FS_Subset
<1>3. IsFiniteSet({make[market] : market \in chosen})
  <2> HIDE DEF make
  <2>1. make = [x \in chosen |-> make[x]]
    BY DEF make
  <2> QED BY <1>2, <2>1, FiniteImage
<1>4. {make[market] : market \in chosen} = {EntryOf(c, o, market) : market \in chosen}
  OBVIOUS
<1> QED BY <1>1, <1>3, <1>4

LEMMA OutcomeIsTyped ==
  ASSUME NEW analysis, NEW o  PROVE OutcomeOf(analysis, o) \in Outcomes
BY DEF OutcomeOf, MarketOutcome, Outcomes

\* The resolutions that SelectCompleted makes.
LEMMA ResolutionsAreTyped ==
  ASSUME Typed, NEW c \in Commands, NEW latest \in SUBSET observations,
         NEW rows \in SUBSET Completed(c, latest)
  PROVE  LET new == {[analysis |-> p[1].analysis, outcome |-> OutcomeOf(p[1].analysis, p[2]),
                      observation |-> p[2], resolvedAt |-> now[c], created |-> clock]
                     : p \in rows}
         IN  new \subseteq Resolution /\ IsFiniteSet(new)
<1> DEFINE value(p) ==
      [analysis |-> p[1].analysis, outcome |-> OutcomeOf(p[1].analysis, p[2]),
       observation |-> p[2], resolvedAt |-> now[c], created |-> clock]
<1> DEFINE make == [p \in rows |-> value(p)]
<1>1. \A p \in rows : p[1] \in journal /\ p[2] \in observations
  BY DEF Completed
<1>2. \A p \in rows : value(p) \in Resolution
  BY <1>1, OutcomeIsTyped
     DEF Typed, CommandsTyped, ResultsTyped, StoreTyped, StoreTypeOK, Entry, Resolution
<1>3. IsFiniteSet(rows)
  <2>1. rows \subseteq journal \X observations
    BY DEF Completed
  <2>2. IsFiniteSet(journal \X observations)
    BY FS_Product DEF Typed, ResultsTyped, StoreTyped
  <2> QED BY <2>1, <2>2, FS_Subset
<1>4. IsFiniteSet({make[p] : p \in rows})
  <2> HIDE DEF make
  <2>1. make = [x \in rows |-> make[x]]
    BY DEF make
  <2> QED BY <1>3, <2>1, FiniteImage
<1>5. {make[p] : p \in rows} = {value(p) : p \in rows}
  OBVIOUS
<1> QED BY <1>2, <1>4, <1>5

\* A step of a command.
LEMMA CommandKeepsTypes ==
  ASSUME Typed, NEW c \in Commands, Command(c)  PROVE Typed'
<1> USE DEF Typed
<1>0. UNCHANGED store => StoreTyped'
  BY DEF store, StoreTyped, StoreTypeOK
<1>00. UNCHANGED results => ResultsTyped'
  BY DEF results, ResultsTyped
<1>1. CASE Start(c)
  <2>1. clock \in Time
    BY DEF StoreTyped, StoreTypeOK
  <2> QED BY <1>1, <1>0, <1>00, <2>1 DEF Start, CommandsTyped
<1>2. CASE ListTargets(c)
  <2>1. PICK latest \in Latest({o \in Known(now[c]) : o.report.kickoff \in window[c]}) :
        \E top \in SUBSET latest : targets' = [targets EXCEPT ![c] = top]
    BY <1>2 DEF ListTargets, FirstTargets
  <2>2. latest \subseteq Observation
    BY DEF Latest, Known, StoreTyped, StoreTypeOK
  <2>3. targets' \in [Commands -> SUBSET Observation]
    BY <2>1, <2>2 DEF CommandsTyped
  <2>4. clock \in Time
    BY DEF StoreTyped, StoreTypeOK
  <2> QED BY <1>2, <1>0, <1>00, <2>3, <2>4 DEF ListTargets, CommandsTyped
<1>3. CASE Pass(c)
  BY <1>3, <1>0, <1>00 DEF Pass, CommandsTyped
<1>4. CASE Append(c)
  <2>1. PICK o \in targets[c], chosen \in Candidates :
          LET new   == {EntryOf(c, o, market) : market \in chosen}
              fresh == Fresh(new, journal \cup drafts[c])
          IN /\ targets' = [targets EXCEPT ![c] = @ \ {o}]
             /\ drafts' = [drafts EXCEPT ![c] = @ \cup fresh]
             /\ inserted' = [inserted EXCEPT ![c] = @ + Cardinality(fresh)]
    BY <1>4, Zenon DEF Append
  <2> DEFINE fresh == Fresh({EntryOf(c, o, market) : market \in chosen},
                            journal \cup drafts[c])
  <2>2. fresh \subseteq Entry /\ IsFiniteSet(fresh)
    <3>1. o \in Observation /\ chosen \in SUBSET Markets
      BY DEF CommandsTyped, Candidates
    <3> DEFINE new == {EntryOf(c, o, market) : market \in chosen}
    <3>2. new \subseteq Entry /\ IsFiniteSet(new)
      BY <3>1, EntriesAreTyped
    <3> HIDE DEF new
    <3>3. Fresh(new, journal \cup drafts[c]) \in SUBSET new
      BY FreshIsSubset
    <3>4. Fresh(new, journal \cup drafts[c]) \subseteq Entry
          /\ IsFiniteSet(Fresh(new, journal \cup drafts[c]))
      BY <3>2, <3>3, FS_Subset
    <3> QED BY <3>4 DEF new
  <2>3. Cardinality(fresh) \in Nat
    BY <2>2, FS_CardinalityType
  <2> HIDE DEF fresh
  <2>4. /\ targets' = [targets EXCEPT ![c] = @ \ {o}]
        /\ drafts' = [drafts EXCEPT ![c] = @ \cup fresh]
        /\ inserted' = [inserted EXCEPT ![c] = @ + Cardinality(fresh)]
        /\ UNCHANGED <<pc, now, began, window, due, settling>>
    <3>1. UNCHANGED <<pc, now, began, window, due, settling>>
      BY <1>4 DEF Append
    <3> QED BY <2>1, <3>1 DEF fresh
  <2>5. /\ targets' \in [Commands -> SUBSET Observation]
        /\ drafts' \in [Commands -> SUBSET Entry]
        /\ inserted' \in [Commands -> Nat]
    BY <2>2, <2>3, <2>4 DEF CommandsTyped
  <2>6. ASSUME NEW d \in Commands  PROVE IsFiniteSet(drafts'[d])
    <3>1. CASE d = c
      BY <2>2, <2>4, <3>1, FS_Union DEF CommandsTyped
    <3>2. CASE d # c
      BY <2>4, <3>2 DEF CommandsTyped
    <3> QED BY <3>1, <3>2
  <2> QED BY <1>4, <1>0, <1>00, <2>4, <2>5, <2>6 DEF CommandsTyped, Append
<1>5. CASE AppendRefused(c)
  BY <1>5, <1>0, <1>00, EndKeepsTypes DEF AppendRefused, End
<1>6. CASE CommitSnapshot(c)
  <2>1. ResultsTyped'
    <3>1. drafts[c] \subseteq Entry /\ IsFiniteSet(drafts[c]) /\ inserted[c] \in Nat
      BY DEF CommandsTyped
    <3>2. IsFiniteSet(journal \cup drafts[c])
      BY <3>1, FS_Union DEF ResultsTyped
    <3> QED BY <1>6, <3>1, <3>2 DEF CommitSnapshot, ResultsTyped
  <2> QED BY <1>6, <1>0, <2>1, EndKeepsTypes DEF CommitSnapshot, End
<1>7. CASE SelectCompleted(c)
  <2>1. PICK latest \in Latest(Known(now[c])) :
        \E rows \in SUBSET Completed(c, latest) :
          due' = [due EXCEPT ![c] =
            {[analysis |-> p[1].analysis, outcome |-> OutcomeOf(p[1].analysis, p[2]),
              observation |-> p[2], resolvedAt |-> now[c], created |-> clock] : p \in rows}]
    BY <1>7 DEF SelectCompleted, FirstDue
  <2>2. PICK rows \in SUBSET Completed(c, latest) :
          due' = [due EXCEPT ![c] =
            {[analysis |-> p[1].analysis, outcome |-> OutcomeOf(p[1].analysis, p[2]),
              observation |-> p[2], resolvedAt |-> now[c], created |-> clock] : p \in rows}]
    BY <2>1
  <2> DEFINE new ==
        {[analysis |-> p[1].analysis, outcome |-> OutcomeOf(p[1].analysis, p[2]),
          observation |-> p[2], resolvedAt |-> now[c], created |-> clock] : p \in rows}
  <2>3. new \subseteq Resolution /\ IsFiniteSet(new)
    <3>1. latest \in SUBSET observations
      BY DEF Latest, Known
    <3> QED BY <3>1, ResolutionsAreTyped
  <2> HIDE DEF new
  <2>4. due' = [due EXCEPT ![c] = new]
    BY <2>2 DEF new
  <2>5. \A d \in Commands : IsFiniteSet(due'[d])
    BY <2>3, <2>4 DEF CommandsTyped
  <2>6. clock \in Time
    BY DEF StoreTyped, StoreTypeOK
  <2> QED BY <1>7, <1>0, <1>00, <2>3, <2>4, <2>5, <2>6 DEF SelectCompleted, CommandsTyped
<1>8. CASE InsertResolutions(c)
  <2> DEFINE fresh == Fresh(due[c], resolutions)
  <2>1. fresh \subseteq Resolution /\ IsFiniteSet(fresh)
    BY FreshIsSubset, FS_Subset DEF CommandsTyped
  <2>2. Cardinality(fresh) \in Nat
    BY <2>1, FS_CardinalityType
  <2> HIDE DEF fresh
  <2>3. /\ settling' = [settling EXCEPT ![c] = fresh]
        /\ inserted' = [inserted EXCEPT ![c] = Cardinality(fresh)]
        /\ pc' = [pc EXCEPT ![c] = "commit"]
        /\ UNCHANGED <<store, now, began, window, targets, due, drafts, results>>
    BY <1>8 DEF fresh, InsertResolutions
  <2>4. \A d \in Commands : IsFiniteSet(settling'[d])
    BY <2>1, <2>3 DEF CommandsTyped
  <2> QED BY <1>0, <1>00, <2>1, <2>2, <2>3, <2>4 DEF CommandsTyped
<1>9. CASE CommitResolve(c)
  <2>1. ResultsTyped'
    <3>1. settling[c] \subseteq Resolution /\ IsFiniteSet(settling[c]) /\ inserted[c] \in Nat
      BY DEF CommandsTyped
    <3>2. IsFiniteSet(resolutions \cup settling[c])
      BY <3>1, FS_Union DEF ResultsTyped
    <3> QED BY <1>9, <3>1, <3>2 DEF CommitResolve, ResultsTyped
  <2> QED BY <1>9, <1>0, <2>1, EndKeepsTypes DEF CommitResolve, End
<1>10. CASE Fail(c)
  BY <1>10, <1>0, <1>00, EndKeepsTypes DEF Fail, End
<1> QED BY <1>1, <1>2, <1>3, <1>4, <1>5, <1>6, <1>7, <1>8, <1>9, <1>10 DEF Command

LEMMA TypedInit == Init => Typed
<1> SUFFICES ASSUME Init PROVE Typed
  OBVIOUS
<1>1. 0 \in Time /\ 0 \in Nat
  BY StoreAssumption DEF Time
<1>2. IsFiniteSet({})
  BY FS_EmptySet
<1>3. StoreTyped
  BY <1>1, <1>2 DEF Init, StoreInit, StoreTyped, StoreTypeOK
<1>4. CommandsTyped
  BY <1>1, <1>2 DEF Init, CommandsTyped
<1>5. ResultsTyped
  BY <1>2 DEF Init, ResultsTyped
<1> QED BY <1>3, <1>4, <1>5 DEF Typed

LEMMA TypedStep == Typed /\ [Next]_vars => Typed'
<1> SUFFICES ASSUME Typed, [Next]_vars PROVE Typed'
  OBVIOUS
<1>1. CASE StoreStep
  <2>1. StoreTyped'
    BY <1>1, WriterKeepsTypes DEF StoreStep, Typed
  <2> QED BY <1>1, <2>1 DEF StoreStep, Typed, CommandsTyped, ResultsTyped, results
<1>2. ASSUME NEW c \in Commands, Command(c) PROVE Typed'
  BY <1>2, CommandKeepsTypes
<1>3. CASE UNCHANGED vars
  BY <1>3 DEF vars, store, results, Typed, StoreTyped, StoreTypeOK, CommandsTyped, ResultsTyped
<1> QED BY <1>1, <1>2, <1>3 DEF Next

LEMMA AlwaysTyped == Spec => []Typed
BY TypedInit, TypedStep, PTL DEF Spec

\* The tables and the commands have the types of the code, whatever the markets, the
\* reports and the number of commands.
THEOREM JournalTypes == Spec => []TypeOK
<1>1. Typed => TypeOK
  BY DEF Typed, StoreTyped, CommandsTyped, ResultsTyped, TypeOK
<1> QED BY <1>1, AlwaysTyped, PTL

-----------------------------------------------------------------------------
(* What the tables hold is founded.                                          *)

\* The entry rests on an observation that was there when it was analysed.
Founded(e) ==
  LET o == e.analysis.source IN
  /\ o \in observations
  /\ o.fetched <= o.created
  /\ o.created <= e.analysis.asOf
  /\ e.analysis.asOf <= e.created
  /\ e.created < o.report.kickoff

\* The resolution rests on an observation that justifies its outcome.
Justified(r) ==
  LET o == r.observation IN
  /\ \E e \in journal : e.analysis = r.analysis
  /\ o \in observations
  /\ o.match = r.analysis.source.match
  /\ o.report.status = "completed"
  /\ o.fetched <= r.resolvedAt /\ o.created <= r.resolvedAt
  /\ r.outcome # "VOID" =>
       /\ r.analysis.asOf < o.report.kickoff
       /\ Kickoff(r.analysis) <= o.fetched
       /\ r.outcome = Expected(r.analysis.market, o.report.score)

\* What a command has prepared is as good as what is in the tables.
Sound(c) ==
  /\ now[c] <= clock
  /\ targets[c] \subseteq observations
  /\ \A e \in drafts[c] : Founded(e)
  /\ \A r \in due[c] : ResolutionAdmitted(r) /\ Justified(r)
  /\ \A r \in settling[c] : Justified(r)

IInv ==
  /\ Typed
  /\ \A c \in Commands : Sound(c)
  /\ \A e \in journal : Founded(e)
  /\ \A r \in resolutions : Justified(r)

Grows == observations \subseteq observations' /\ journal \subseteq journal' /\ clock <= clock'

LEMMA FoundedStays ==
  ASSUME Grows, NEW e, Founded(e)  PROVE Founded(e)'
BY DEF Grows, Founded

LEMMA JustifiedStays ==
  ASSUME Grows, NEW r, Justified(r)  PROVE Justified(r)'
BY DEF Grows, Justified

LEMMA AdmittedStays ==
  ASSUME Grows, NEW r, ResolutionAdmitted(r)  PROVE ResolutionAdmitted(r)'
BY DEF Grows, ResolutionAdmitted

\* No row is ever lost.
LEMMA TablesGrow ==
  ASSUME Typed, [Next]_vars  PROVE Grows
<1>1. clock \in Int
  BY DEF Typed, StoreTyped, StoreTypeOK, Time
<1>2. CASE StoreStep
  BY <1>1, <1>2 DEF StoreStep, StoreNext, Receive, NoteRejected, Insert, CommitRows, Rollback,
                    Tick, results, writer, Grows
<1>3. ASSUME NEW c \in Commands, Command(c)  PROVE Grows
  BY <1>1, <1>3 DEF Command, Start, ListTargets, Pass, Append, AppendRefused, CommitSnapshot,
        SelectCompleted, InsertResolutions, CommitResolve, Fail, End,
        results, store, Grows
<1>4. CASE UNCHANGED vars
  BY <1>1, <1>4 DEF vars, store, results, Grows
<1> QED BY <1>2, <1>3, <1>4 DEF Next

\* A command that did nothing stays sound.
LEMMA SoundStays ==
  ASSUME Typed, Grows, NEW d \in Commands, Sound(d), now'[d] = now[d],
         targets'[d] \subseteq targets[d], drafts'[d] = drafts[d], due'[d] = due[d],
         settling'[d] = settling[d], clock' \in Time
  PROVE  Sound(d)'
<1>1. now[d] \in Int /\ clock \in Int /\ clock' \in Int
  BY DEF Typed, CommandsTyped, StoreTyped, StoreTypeOK, Time
<1>2. now'[d] <= clock'
  BY <1>1 DEF Sound, Grows
<1>3. targets'[d] \subseteq observations'
  BY DEF Sound, Grows
<1>4. \A e \in drafts'[d] : Founded(e)'
  BY FoundedStays DEF Sound
<1>5. \A r \in due'[d] : ResolutionAdmitted(r)' /\ Justified(r)'
  BY AdmittedStays, JustifiedStays DEF Sound
<1>6. \A r \in settling'[d] : Justified(r)'
  BY JustifiedStays DEF Sound
<1> QED BY <1>2, <1>3, <1>4, <1>5, <1>6 DEF Sound

\* A command that has ended is sound.
LEMMA EndedIsSound ==
  ASSUME Typed, NEW c \in Commands, End(c)  PROVE Sound(c)'
<1>1. /\ now'[c] = 0 /\ targets'[c] = {} /\ drafts'[c] = {}
      /\ due'[c] = {} /\ settling'[c] = {} /\ clock' = clock
  BY DEF End, Typed, CommandsTyped, store
<1>2. 0 <= clock
  BY StoreAssumption DEF Typed, StoreTyped, StoreTypeOK, Time
<1> QED BY <1>1, <1>2 DEF Sound

\* What a step of c leaves alone.
LEMMA OthersStay ==
  ASSUME Typed, NEW c \in Commands, Command(c), NEW d \in Commands \ {c}
  PROVE  /\ now'[d] = now[d] /\ targets'[d] = targets[d]
         /\ drafts'[d] = drafts[d] /\ due'[d] = due[d] /\ settling'[d] = settling[d]
<1> USE DEF Typed, CommandsTyped
<1>1. CASE Start(c) BY <1>1 DEF Start
<1>2. CASE ListTargets(c) BY <1>2 DEF ListTargets
<1>3. CASE Pass(c) BY <1>3 DEF Pass
<1>4. CASE Append(c) BY <1>4 DEF Append
<1>5. CASE AppendRefused(c) BY <1>5 DEF AppendRefused, End
<1>6. CASE CommitSnapshot(c) BY <1>6 DEF CommitSnapshot, End
<1>7. CASE SelectCompleted(c) BY <1>7 DEF SelectCompleted
<1>8. CASE InsertResolutions(c) BY <1>8 DEF InsertResolutions
<1>9. CASE CommitResolve(c) BY <1>9 DEF CommitResolve, End
<1>10. CASE Fail(c) BY <1>10 DEF Fail, End
<1> QED BY <1>1, <1>2, <1>3, <1>4, <1>5, <1>6, <1>7, <1>8, <1>9, <1>10 DEF Command

\* The resolutions that SelectCompleted makes are admitted and justified: the trigger
\* asks for nothing that the query and _resolution_value do not ensure.
LEMMA SelectedAreSound ==
  ASSUME Typed, NEW c \in Commands, now[c] <= clock, NEW e \in journal,
         NEW o \in Known(now[c]), IsOver(c, e, o)
  PROVE  LET r == [analysis |-> e.analysis, outcome |-> OutcomeOf(e.analysis, o),
                   observation |-> o, resolvedAt |-> now[c], created |-> clock]
         IN  ResolutionAdmitted(r) /\ Justified(r)
<1> DEFINE r == [analysis |-> e.analysis, outcome |-> OutcomeOf(e.analysis, o),
                 observation |-> o, resolvedAt |-> now[c], created |-> clock]
<1>1. e \in Entry /\ o \in Observation /\ o \in observations
  BY DEF Typed, ResultsTyped, StoreTyped, StoreTypeOK, Known
<1>2. /\ now[c] \in Int /\ clock \in Int
      /\ o.fetched \in Int /\ o.created \in Int /\ o.report.kickoff \in Int
      /\ e.analysis.asOf \in Int /\ Kickoff(e.analysis) \in Int
  BY <1>1 DEF Typed, CommandsTyped, StoreTyped, StoreTypeOK, Time, Entry, Analysis, Kickoff,
              Observation, Report
<1>3. ASSUME r.outcome # "VOID"
      PROVE  /\ e.analysis.asOf < o.report.kickoff
             /\ Kickoff(e.analysis) <= o.fetched
             /\ r.outcome = Expected(e.analysis.market, o.report.score)
  <2>1. ~TemporalMismatch(e.analysis, o)
    BY <1>3 DEF OutcomeOf
  <2>2. e.analysis.market \in AllMarkets /\ o.report.score \in Score
    BY <1>1, JournalAssumption DEF Entry, Analysis, Observation, Report, AllMarkets
  <2>3. r.outcome = MarketOutcome(e.analysis.market, o.report.score)
    BY <2>1 DEF OutcomeOf
  <2>4. r.outcome = Expected(e.analysis.market, o.report.score)
    BY <1>3, <2>2, <2>3, OutcomesAgree
  <2> QED BY <1>2, <2>1, <2>4 DEF TemporalMismatch
<1>4. /\ Kickoff(e.analysis) < now[c] /\ o.fetched <= now[c] /\ o.created <= now[c]
      /\ o.match = e.analysis.source.match /\ o.report.status = "completed"
  BY DEF IsOver, Known
<1>5. ResolutionAdmitted(r)
  BY <1>2, <1>3, <1>4 DEF ResolutionAdmitted
<1>6. Justified(r)
  BY <1>1, <1>3, <1>4 DEF Justified
<1> QED BY <1>5, <1>6

\* A step of c keeps c sound, and what it commits is founded.
LEMMA CommandKeepsSound ==
  ASSUME IInv, Typed', Grows, NEW c \in Commands, Command(c)
  PROVE  /\ Sound(c)'
         /\ journal' \subseteq journal \cup drafts[c]
         /\ resolutions' \subseteq resolutions \cup settling[c]
<1>1. /\ Typed /\ CommandsTyped /\ CommandsTyped' /\ Sound(c)
      /\ clock \in Time /\ clock' \in Time
  BY DEF IInv, Typed, StoreTyped, StoreTypeOK
<1>2. CASE Start(c)
  <2>1. /\ now'[c] = clock
        /\ UNCHANGED <<clock, targets, drafts, due, settling, results>>
    BY <1>1, <1>2 DEF Start, CommandsTyped, store
  <2>2. clock <= clock
    BY <1>1 DEF Time
  <2>3. \A d \in Commands : \A e \in drafts[d] : Founded(e) => Founded(e)'
    BY FoundedStays
  <2>4. \A r : ResolutionAdmitted(r) => ResolutionAdmitted(r)'
    BY AdmittedStays
  <2>5. \A r : Justified(r) => Justified(r)'
    BY JustifiedStays
  <2> QED BY <1>1, <2>1, <2>2, <2>3, <2>4, <2>5 DEF Sound, results, Grows
<1>3. CASE ListTargets(c)
  <2>1. PICK latest \in Latest({o \in Known(now[c]) : o.report.kickoff \in window[c]}) :
        \E top \in SUBSET latest : targets' = [targets EXCEPT ![c] = top]
    BY <1>3 DEF ListTargets, FirstTargets
  <2>2. latest \subseteq observations
    BY DEF Latest, Known
  <2>3. targets'[c] \subseteq observations'
    BY <1>1, <2>1, <2>2 DEF Grows, CommandsTyped
  <2>4. UNCHANGED <<clock, now, drafts, due, settling, results>>
    BY <1>1, <1>3 DEF ListTargets, CommandsTyped, store
  <2> QED BY <1>1, <2>3, <2>4, FoundedStays, AdmittedStays, JustifiedStays DEF Sound, results
<1>4. CASE Pass(c)
  <2>1. /\ targets'[c] \subseteq targets[c]
        /\ UNCHANGED <<pc, now, drafts, due, settling, results>>
    BY <1>1, <1>4 DEF Pass, CommandsTyped
  <2> QED BY <1>1, <2>1, SoundStays DEF results
<1>5. CASE Append(c)
  <2>1. PICK o \in targets[c], chosen \in Candidates :
          LET new   == {EntryOf(c, o, market) : market \in chosen}
              fresh == Fresh(new, journal \cup drafts[c])
          IN /\ Valid(o, now[c])
             /\ \A e \in new : EntryAdmitted(e)
             /\ targets' = [targets EXCEPT ![c] = @ \ {o}]
             /\ drafts' = [drafts EXCEPT ![c] = @ \cup fresh]
    BY <1>5, Zenon DEF Append
  <2> DEFINE new == {EntryOf(c, o, market) : market \in chosen}
  <2>2. o \in observations
    BY <1>1 DEF Sound
  <2>3. \A e \in new : e.analysis.source = o /\ e.analysis.asOf = now[c]
    BY DEF EntryOf
  <2>4. \A e \in new : Founded(e)
    BY <2>1, <2>2, <2>3 DEF Founded, Valid, EntryAdmitted, Kickoff
  <2>5. drafts'[c] \subseteq drafts[c] \cup new
    BY <1>1, <2>1, FreshIsSubset DEF CommandsTyped
  <2>6. \A e \in drafts'[c] : Founded(e)'
    BY <1>1, <2>4, <2>5, FoundedStays DEF Sound
  <2>7. targets'[c] \subseteq targets[c]
    BY <1>1, <2>1 DEF CommandsTyped
  <2>8. UNCHANGED <<clock, pc, now, due, settling, results>>
    BY <1>5 DEF Append, store
  <2> QED BY <1>1, <2>6, <2>7, <2>8, AdmittedStays, JustifiedStays DEF Sound, Grows, results
<1>6. CASE AppendRefused(c)
  BY <1>1, <1>6, EndedIsSound DEF AppendRefused, results
<1>7. CASE CommitSnapshot(c)
  BY <1>1, <1>7, EndedIsSound DEF CommitSnapshot
<1>8. CASE SelectCompleted(c)
  <2>1. PICK latest \in Latest(Known(now[c])) :
        \E rows \in SUBSET Completed(c, latest) :
          due' = [due EXCEPT ![c] =
            {[analysis |-> p[1].analysis, outcome |-> OutcomeOf(p[1].analysis, p[2]),
              observation |-> p[2], resolvedAt |-> now[c], created |-> clock] : p \in rows}]
    BY <1>8 DEF SelectCompleted, FirstDue
  <2>2. \A r \in due'[c] : \E e \in journal, o \in Known(now[c]) :
          /\ IsOver(c, e, o)
          /\ r = [analysis |-> e.analysis, outcome |-> OutcomeOf(e.analysis, o),
                  observation |-> o, resolvedAt |-> now[c], created |-> clock]
    BY <1>1, <2>1 DEF Completed, Latest, CommandsTyped
  <2>3. \A r \in due'[c] : ResolutionAdmitted(r)' /\ Justified(r)'
    BY <1>1, <2>2, SelectedAreSound, AdmittedStays, JustifiedStays DEF Sound
  <2>4. UNCHANGED <<clock, now, targets, drafts, settling, results>>
    BY <1>1, <1>8 DEF SelectCompleted, CommandsTyped, store
  <2> QED BY <1>1, <2>3, <2>4, FoundedStays, JustifiedStays DEF Sound, Grows, results
<1>9. CASE InsertResolutions(c)
  <2>1. /\ settling'[c] \subseteq due[c]
        /\ UNCHANGED <<clock, now, targets, drafts, due, results>>
    BY <1>1, <1>9, FreshIsSubset DEF InsertResolutions, CommandsTyped, store
  <2> QED BY <1>1, <2>1, FoundedStays, AdmittedStays, JustifiedStays DEF Sound, Grows, results
<1>10. CASE CommitResolve(c)
  BY <1>1, <1>10, EndedIsSound DEF CommitResolve
<1>11. CASE Fail(c)
  BY <1>1, <1>11, EndedIsSound DEF Fail, results
<1> QED BY <1>2, <1>3, <1>4, <1>5, <1>6, <1>7, <1>8, <1>9, <1>10, <1>11 DEF Command

LEMMA IInvInit == Init => IInv
<1> SUFFICES ASSUME Init PROVE IInv
  OBVIOUS
<1>1. Typed
  BY TypedInit
<1>2. ASSUME NEW c \in Commands  PROVE Sound(c)
  BY <1>2 DEF Init, StoreInit, Sound
<1> QED BY <1>1, <1>2 DEF Init, IInv

LEMMA IInvStep == IInv /\ [Next]_vars => IInv'
<1> SUFFICES ASSUME IInv, [Next]_vars PROVE IInv'
  OBVIOUS
<1>1. Typed /\ Typed' /\ Grows /\ clock' \in Time
  <2>1. Typed /\ Typed' /\ Grows
    BY TypedStep, TablesGrow DEF IInv
  <2> QED BY <2>1 DEF Typed, StoreTyped, StoreTypeOK
<1>2. CASE StoreStep \/ UNCHANGED vars
  <2>1. UNCHANGED <<pc, now, targets, drafts, due, settling, journal, resolutions>>
    BY <1>2 DEF StoreStep, vars, results
  <2>2. \A c \in Commands : Sound(c)'
    BY <1>1, <2>1, SoundStays DEF IInv
  <2> QED BY <1>1, <2>1, <2>2, FoundedStays, JustifiedStays DEF IInv
<1>3. ASSUME NEW c \in Commands, Command(c)  PROVE IInv'
  <2>1. ASSUME NEW d \in Commands \ {c}  PROVE Sound(d)'
    BY <1>1, <1>3, OthersStay, SoundStays DEF IInv
  <2>2. /\ Sound(c)'
        /\ journal' \subseteq journal \cup drafts[c]
        /\ resolutions' \subseteq resolutions \cup settling[c]
    BY <1>1, <1>3, CommandKeepsSound
  <2>3. \A e \in journal' : Founded(e)'
    BY <1>1, <2>2, FoundedStays DEF IInv, Sound
  <2>4. \A r \in resolutions' : Justified(r)'
    BY <1>1, <2>2, JustifiedStays DEF IInv, Sound
  <2> QED BY <1>1, <2>1, <2>2, <2>3, <2>4 DEF IInv
<1> QED BY <1>2, <1>3 DEF Next

LEMMA AlwaysIInv == Spec => []IInv
BY IInvInit, IInvStep, PTL DEF Spec

\* Nothing in the journal was analysed with a look at the future, however many commands
\* run beside the writer and however long transactions stay open.
THEOREM JournalIsPreMatch == Spec => []NoLookAhead
<1>1. IInv => NoLookAhead
  BY DEF IInv, Founded, NoLookAhead
<1> QED BY <1>1, AlwaysIInv, PTL

\* The trigger and the constraints never refuse a resolution that the code computes, for
\* any scores the provider reports.
THEOREM NoResolutionIsRefused == Spec => []ResolutionsAreAdmitted
<1>1. IInv => ResolutionsAreAdmitted
  BY DEF IInv, Sound, ResolutionsAreAdmitted
<1> QED BY <1>1, AlwaysIInv, PTL

\* Every outcome rests on a result of the match that was known when it was declared.
THEOREM OutcomesRestOnResults == Spec => []OutcomesAreFounded
<1>1. IInv => OutcomesAreFounded
  BY DEF IInv, Justified, OutcomesAreFounded
<1> QED BY <1>1, AlwaysIInv, PTL

-----------------------------------------------------------------------------
(* Rows and their keys.                                                      *)

Keys(rows) == {row.analysis : row \in rows}
Distinct(rows) == \A a, b \in rows : a.analysis = b.analysis => a = b
Apart(rows, others) == \A a \in rows, b \in others : a.analysis # b.analysis

\* There are as many keys as rows.
LEMMA KeysOfRows ==
  ASSUME NEW rows, IsFiniteSet(rows), Distinct(rows)
  PROVE  IsFiniteSet(Keys(rows)) /\ Cardinality(Keys(rows)) = Cardinality(rows)
<1> DEFINE key == [row \in rows |-> row.analysis]
           found == [k \in Keys(rows) |-> CHOOSE row \in rows : row.analysis = k]
<1>1. key \in Surjection(rows, Keys(rows))
  BY DEF Surjection, Keys
<1>2. found \in Surjection(Keys(rows), rows)
  <2>1. \A k \in Keys(rows) : found[k] \in rows /\ found[k].analysis = k
    BY DEF Keys
  <2>2. \A row \in rows : row.analysis \in Keys(rows) /\ found[row.analysis] = row
    BY <2>1 DEF Keys, Distinct
  <2>3. found \in [Keys(rows) -> rows]
    BY <2>1
  <2> HIDE DEF found
  <2> QED BY <2>2, <2>3 DEF Surjection
<1> HIDE DEF key, found
<1>3. IsFiniteSet(Keys(rows)) /\ Cardinality(Keys(rows)) <= Cardinality(rows)
  BY <1>1, FS_Surjection
<1>4. Cardinality(rows) <= Cardinality(Keys(rows))
  BY <1>2, <1>3, FS_Surjection
<1>5. Cardinality(rows) \in Nat /\ Cardinality(Keys(rows)) \in Nat
  BY <1>3, FS_CardinalityType
<1> QED BY <1>3, <1>4, <1>5

\* Rows that are apart from others are added to them.
LEMMA RowsAdded ==
  ASSUME NEW rows, IsFiniteSet(rows), Distinct(rows),
         NEW more, IsFiniteSet(more), Distinct(more), Apart(more, rows)
  PROVE  /\ Distinct(rows \cup more)
         /\ IsFiniteSet(rows \cup more)
         /\ Cardinality(rows \cup more) = Cardinality(rows) + Cardinality(more)
         /\ Cardinality(Keys(rows \cup more)) = Cardinality(Keys(rows)) + Cardinality(more)
<1>1. Distinct(rows \cup more)
  BY DEF Distinct, Apart
<1>2. rows \cap more = {}
  BY DEF Apart
<1>3. /\ IsFiniteSet(rows \cup more)
      /\ Cardinality(rows \cup more) =
           Cardinality(rows) + Cardinality(more) - Cardinality(rows \cap more)
  BY FS_Union
<1>4. Cardinality(rows \cap more) = 0
  BY <1>2, FS_EmptySet
<1>5. Cardinality(rows) \in Nat /\ Cardinality(more) \in Nat
  BY FS_CardinalityType
<1>6. Cardinality(rows \cup more) = Cardinality(rows) + Cardinality(more)
  BY <1>3, <1>4, <1>5
<1>7. /\ Cardinality(Keys(rows \cup more)) = Cardinality(rows \cup more)
      /\ Cardinality(Keys(rows)) = Cardinality(rows)
  BY <1>1, <1>3, KeysOfRows
<1> QED BY <1>1, <1>3, <1>6, <1>7

\* What ON CONFLICT DO NOTHING leaves.
LEMMA FreshRows ==
  ASSUME NEW new, Distinct(new), NEW used
  PROVE  Fresh(new, used) \subseteq new /\ Distinct(Fresh(new, used)) /\ Apart(Fresh(new, used), used)
BY DEF Fresh, Distinct, Apart

-----------------------------------------------------------------------------
(* One row for each key.                                                     *)

\* What a command has inserted, and what it counts.
Tidy(c) ==
  /\ Distinct(drafts[c]) /\ Distinct(due[c]) /\ Distinct(settling[c])
  /\ pc[c] # "analyse" => drafts[c] = {}
  /\ pc[c] # "commit" => settling[c] = {}
  /\ inserted[c] = Cardinality(drafts[c]) + Cardinality(settling[c])

\* It has inserted nothing that is there already, and nothing that another has inserted.
Alone(c) ==
  /\ Apart(drafts[c], journal) /\ Apart(settling[c], resolutions)
  /\ \A d \in Commands \ {c} : Apart(drafts[c], drafts[d]) /\ Apart(settling[c], settling[d])

TablesTidy == Distinct(journal) /\ Distinct(resolutions) /\ ReportsAddUp

KInv == IInv /\ TablesTidy /\ \A c \in Commands : Tidy(c) /\ Alone(c)

\* A command that has ended has nothing.
LEMMA EndedIsTidy ==
  ASSUME Typed, NEW c \in Commands, End(c)
  PROVE  Tidy(c)' /\ drafts'[c] = {} /\ settling'[c] = {}
<1>1. /\ pc'[c] = "idle" /\ drafts'[c] = {} /\ due'[c] = {} /\ settling'[c] = {}
      /\ inserted'[c] = 0
  BY DEF End, Typed, CommandsTyped
<1>2. Cardinality({}) = 0
  BY FS_EmptySet
<1> QED BY <1>1, <1>2 DEF Tidy, Distinct

\* What a step of c leaves of the others.
LEMMA OthersCount ==
  ASSUME Typed, NEW c \in Commands, Command(c), NEW d \in Commands \ {c}
  PROVE  pc'[d] = pc[d] /\ inserted'[d] = inserted[d]
<1> USE DEF Typed, CommandsTyped
<1>1. CASE Start(c) BY <1>1 DEF Start
<1>2. CASE ListTargets(c) BY <1>2 DEF ListTargets
<1>3. CASE Pass(c) BY <1>3 DEF Pass
<1>4. CASE Append(c) BY <1>4 DEF Append
<1>5. CASE AppendRefused(c) BY <1>5 DEF AppendRefused, End
<1>6. CASE CommitSnapshot(c) BY <1>6 DEF CommitSnapshot, End
<1>7. CASE SelectCompleted(c) BY <1>7 DEF SelectCompleted
<1>8. CASE InsertResolutions(c) BY <1>8 DEF InsertResolutions
<1>9. CASE CommitResolve(c) BY <1>9 DEF CommitResolve, End
<1>10. CASE Fail(c) BY <1>10 DEF Fail, End
<1> QED BY <1>1, <1>2, <1>3, <1>4, <1>5, <1>6, <1>7, <1>8, <1>9, <1>10 DEF Command

\* The resolutions made from the rows of one statement have different keys: an entry has one
\* latest observation.
LEMMA SelectedAreDistinct ==
  ASSUME Typed, Distinct(journal), NEW c \in Commands, NEW latest \in Latest(Known(now[c])),
         NEW rows \in SUBSET Completed(c, latest)
  PROVE  Distinct({[analysis |-> p[1].analysis, outcome |-> OutcomeOf(p[1].analysis, p[2]),
                    observation |-> p[2], resolvedAt |-> now[c], created |-> clock] : p \in rows})
<1> SUFFICES ASSUME NEW p \in rows, NEW q \in rows, p[1].analysis = q[1].analysis
             PROVE  p[1] = q[1] /\ p[2] = q[2]
  BY DEF Distinct
<1>1. /\ p[1] \in journal /\ p[2] \in latest /\ IsOver(c, p[1], p[2])
      /\ q[1] \in journal /\ q[2] \in latest /\ IsOver(c, q[1], q[2])
  BY DEF Completed
<1>2. p[1] = q[1]
  BY <1>1 DEF Distinct
<1>3. p[2].match = q[2].match
  BY <1>1, <1>2 DEF IsOver
<1>4. /\ latest \subseteq Known(now[c]) /\ Known(now[c]) \subseteq observations
      /\ \A o \in Known(now[c]) : Cardinality({l \in latest : l.match = o.match}) = 1
  BY DEF Latest, Known
<1> DEFINE same == {l \in latest : l.match = p[2].match}
<1>5. IsFiniteSet(same)
  BY <1>4, FS_Subset DEF Typed, StoreTyped
<1>6. Cardinality(same) = 1 /\ p[2] \in same /\ q[2] \in same
  BY <1>1, <1>3, <1>4
<1> HIDE DEF same
<1>7. PICK x : same = {x}
  BY <1>5, <1>6, FS_Singleton
<1> QED BY <1>2, <1>6, <1>7

\* What a step of c leaves of c.
Kept(c) ==
  /\ Tidy(c)'
  /\ Apart(drafts'[c], journal') /\ Apart(settling'[c], resolutions')
  /\ \A d \in Commands \ {c} : Apart(drafts'[c], drafts[d]) /\ Apart(settling'[c], settling[d])
  /\ TablesTidy'

\* Steps that insert nothing.
LEMMA QuietIsKept ==
  ASSUME KInv, NEW c \in Commands,
         drafts'[c] = drafts[c], settling'[c] = settling[c], inserted'[c] = inserted[c],
         UNCHANGED results, Distinct(due'[c]),
         pc'[c] # "analyse" => drafts[c] = {}, pc'[c] # "commit" => settling[c] = {}
  PROVE  Kept(c)
<1>1. TablesTidy'
  BY DEF KInv, TablesTidy, ReportsAddUp, results
<1>2. Tidy(c)'
  BY DEF KInv, Tidy
<1>3. Alone(c)
  BY DEF KInv
<1> QED BY <1>1, <1>2, <1>3 DEF Kept, Alone, results

\* Steps that end without a commit.
LEMMA LostIsKept ==
  ASSUME KInv, NEW c \in Commands, End(c), UNCHANGED results
  PROVE  Kept(c)
<1>1. TablesTidy'
  BY DEF KInv, TablesTidy, ReportsAddUp, results
<1>2. Tidy(c)' /\ drafts'[c] = {} /\ settling'[c] = {}
  BY EndedIsTidy DEF KInv, IInv
<1> QED BY <1>1, <1>2 DEF Kept, Apart

LEMMA AppendIsKept ==
  ASSUME KInv, NEW c \in Commands, Append(c)
  PROVE  Kept(c)
<1>1. PICK o \in targets[c], chosen \in Candidates :
        LET new   == {EntryOf(c, o, market) : market \in chosen}
            fresh == Fresh(new, journal \cup drafts[c])
        IN /\ IsNext(c, o)
           /\ ~Waits(c, new, drafts)
           /\ drafts' = [drafts EXCEPT ![c] = @ \cup fresh]
           /\ inserted' = [inserted EXCEPT ![c] = @ + Cardinality(fresh)]
  BY Zenon DEF Append
<1> DEFINE new == {EntryOf(c, o, market) : market \in chosen}
           fresh == Fresh(new, journal \cup drafts[c])
<1>2. Distinct(new) /\ IsFiniteSet(new)
  <2>1. Distinct(new)
    BY DEF Distinct, EntryOf
  <2>2. o \in Observation /\ chosen \in SUBSET Markets
    BY DEF KInv, IInv, Typed, CommandsTyped, Candidates
  <2> QED BY <2>1, <2>2, EntriesAreTyped DEF KInv, IInv
<1>3. /\ pc[c] = "analyse"
      /\ ~Waits(c, new, drafts)
      /\ drafts' = [drafts EXCEPT ![c] = @ \cup fresh]
      /\ inserted' = [inserted EXCEPT ![c] = @ + Cardinality(fresh)]
      /\ UNCHANGED <<pc, due, settling, results>>
  <2>1. UNCHANGED <<pc, due, settling, results>>
    BY DEF Append
  <2> QED BY <1>1, <2>1 DEF IsNext
<1> HIDE DEF new
<1>4. /\ fresh \subseteq new /\ Distinct(fresh)
      /\ Apart(fresh, journal) /\ Apart(fresh, drafts[c])
  <2>1. fresh \subseteq new /\ Distinct(fresh) /\ Apart(fresh, journal \cup drafts[c])
    BY <1>2, FreshRows
  <2> QED BY <2>1 DEF Apart
<1>5. IsFiniteSet(fresh)
  BY <1>2, <1>4, FS_Subset
<1> HIDE DEF fresh
<1>6. Tidy(c) /\ Alone(c) /\ TablesTidy /\ Typed
  BY DEF KInv, IInv
<1>7. /\ drafts'[c] = drafts[c] \cup fresh
      /\ inserted'[c] = inserted[c] + Cardinality(fresh)
      /\ IsFiniteSet(drafts[c]) /\ settling[c] = {}
  BY <1>3, <1>6 DEF Typed, CommandsTyped, Tidy
<1>8. /\ Distinct(drafts'[c])
      /\ Cardinality(drafts'[c]) = Cardinality(drafts[c]) + Cardinality(fresh)
  BY <1>4, <1>5, <1>6, <1>7, RowsAdded DEF Tidy
<1>9. inserted'[c] = Cardinality(drafts'[c]) + Cardinality(settling'[c])
  <2>1. Cardinality(drafts[c]) \in Nat /\ Cardinality(fresh) \in Nat
    BY <1>5, <1>7, FS_CardinalityType
  <2>2. Cardinality(settling[c]) = 0
    BY <1>7, FS_EmptySet
  <2>3. inserted[c] = Cardinality(drafts[c]) + 0
    BY <1>6, <2>2 DEF Tidy
  <2> QED BY <1>3, <1>7, <1>8, <2>1, <2>2, <2>3
<1>10. Tidy(c)'
  BY <1>3, <1>6, <1>8, <1>9 DEF Tidy
<1>11. Apart(drafts'[c], journal') /\ Apart(settling'[c], resolutions')
  BY <1>3, <1>4, <1>6, <1>7 DEF Apart, Alone, results
<1>12. ASSUME NEW d \in Commands \ {c}
       PROVE  Apart(drafts'[c], drafts[d]) /\ Apart(settling'[c], settling[d])
  <2>1. Apart(fresh, drafts[d])
    BY <1>3, <1>4 DEF Waits, Apart
  <2> QED BY <1>3, <1>6, <1>7, <2>1 DEF Apart, Alone
<1>13. TablesTidy'
  BY <1>3, <1>6 DEF TablesTidy, ReportsAddUp, results
<1> QED BY <1>10, <1>11, <1>12, <1>13 DEF Kept

LEMMA InsertIsKept ==
  ASSUME KInv, NEW c \in Commands, InsertResolutions(c)
  PROVE  Kept(c)
<1> DEFINE fresh == Fresh(due[c], resolutions)
<1>1. /\ pc[c] = "insert" /\ pc' = [pc EXCEPT ![c] = "commit"]
      /\ ~Waits(c, due[c], settling)
      /\ settling' = [settling EXCEPT ![c] = fresh]
      /\ inserted' = [inserted EXCEPT ![c] = Cardinality(fresh)]
      /\ UNCHANGED <<due, drafts, results>>
  BY DEF InsertResolutions
<1>2. Tidy(c) /\ Alone(c) /\ TablesTidy /\ Typed
  BY DEF KInv, IInv
<1>3. fresh \subseteq due[c] /\ Distinct(fresh) /\ Apart(fresh, resolutions)
  BY <1>2, FreshRows DEF Tidy
<1>4. IsFiniteSet(fresh)
  BY <1>2, <1>3, FS_Subset DEF Typed, CommandsTyped
<1> HIDE DEF fresh
<1>5. /\ pc'[c] = "commit" /\ settling'[c] = fresh /\ inserted'[c] = Cardinality(fresh)
      /\ drafts'[c] = {} /\ drafts[c] = {}
  BY <1>1, <1>2 DEF Tidy, Typed, CommandsTyped
<1>6. inserted'[c] = Cardinality(drafts'[c]) + Cardinality(settling'[c])
  BY <1>4, <1>5, FS_EmptySet, FS_CardinalityType
<1>7. Tidy(c)'
  BY <1>1, <1>2, <1>3, <1>5, <1>6 DEF Tidy
<1>8. Apart(drafts'[c], journal') /\ Apart(settling'[c], resolutions')
  BY <1>1, <1>3, <1>5 DEF Apart, results
<1>9. ASSUME NEW d \in Commands \ {c}
      PROVE  Apart(drafts'[c], drafts[d]) /\ Apart(settling'[c], settling[d])
  BY <1>1, <1>3, <1>5 DEF Waits, Apart
<1>10. TablesTidy'
  BY <1>1, <1>2 DEF TablesTidy, ReportsAddUp, results
<1> QED BY <1>7, <1>8, <1>9, <1>10 DEF Kept

LEMMA CommitIsKept ==
  ASSUME KInv, NEW c \in Commands, CommitSnapshot(c) \/ CommitResolve(c)
  PROVE  Kept(c)
<1>1. Tidy(c) /\ Alone(c) /\ TablesTidy /\ Typed
  BY DEF KInv, IInv
<1>2. End(c)
  BY DEF CommitSnapshot, CommitResolve
<1>3. Tidy(c)' /\ drafts'[c] = {} /\ settling'[c] = {}
  BY <1>1, <1>2, EndedIsTidy
<1>4. /\ IsFiniteSet(drafts[c]) /\ IsFiniteSet(settling[c])
      /\ IsFiniteSet(journal) /\ IsFiniteSet(resolutions)
  BY <1>1 DEF Typed, CommandsTyped, ResultsTyped
<1>5. /\ Cardinality(drafts[c]) \in Nat /\ Cardinality(settling[c]) \in Nat
      /\ Cardinality(Keys(journal)) \in Nat /\ Cardinality(Keys(resolutions)) \in Nat
      /\ Cardinality({}) = 0
  BY <1>1, <1>4, KeysOfRows, FS_CardinalityType, FS_EmptySet DEF TablesTidy
<1>6. reported = Cardinality(Keys(journal)) + Cardinality(Keys(resolutions))
  BY <1>1 DEF TablesTidy, ReportsAddUp, Keys
<1>7. CASE CommitSnapshot(c)
  <2>1. /\ journal' = journal \cup drafts[c] /\ resolutions' = resolutions
        /\ reported' = reported + inserted[c]
        /\ inserted[c] = Cardinality(drafts[c]) + Cardinality(settling[c])
        /\ settling[c] = {}
    BY <1>1, <1>7 DEF CommitSnapshot, Tidy
  <2>2. /\ Distinct(journal')
        /\ Cardinality(Keys(journal')) = Cardinality(Keys(journal)) + Cardinality(drafts[c])
    BY <1>1, <1>4, <2>1, RowsAdded DEF TablesTidy, Tidy, Alone
  <2>3. reported' = Cardinality(Keys(journal')) + Cardinality(Keys(resolutions'))
    BY <1>5, <1>6, <2>1, <2>2
  <2> QED BY <1>1, <2>1, <2>2, <2>3 , <1>3 DEF TablesTidy, ReportsAddUp, Keys, Kept, Apart
<1>8. CASE CommitResolve(c)
  <2>1. /\ resolutions' = resolutions \cup settling[c] /\ journal' = journal
        /\ reported' = reported + inserted[c]
        /\ inserted[c] = Cardinality(drafts[c]) + Cardinality(settling[c])
        /\ drafts[c] = {}
    BY <1>1, <1>8 DEF CommitResolve, Tidy
  <2>2. /\ Distinct(resolutions')
        /\ Cardinality(Keys(resolutions')) =
             Cardinality(Keys(resolutions)) + Cardinality(settling[c])
    BY <1>1, <1>4, <2>1, RowsAdded DEF TablesTidy, Tidy, Alone
  <2>3. reported' = Cardinality(Keys(journal')) + Cardinality(Keys(resolutions'))
    BY <1>5, <1>6, <2>1, <2>2
  <2> QED BY <1>1, <2>1, <2>2, <2>3, <1>3 DEF TablesTidy, ReportsAddUp, Keys, Kept, Apart
<1> QED BY <1>7, <1>8

LEMMA StepIsKept ==
  ASSUME KInv, NEW c \in Commands, Command(c)
  PROVE  Kept(c)
<1>1. Tidy(c) /\ Typed /\ CommandsTyped
  BY DEF KInv, IInv, Typed
<1>2. CASE Start(c)
  <2>1. /\ pc[c] = "idle"
        /\ UNCHANGED <<drafts, settling, inserted, due, results>>
    BY <1>2 DEF Start
  <2> QED BY <1>1, <2>1, QuietIsKept DEF Tidy
<1>3. CASE ListTargets(c)
  <2>1. /\ pc[c] = "snapshot" /\ pc'[c] = "analyse"
        /\ UNCHANGED <<drafts, settling, inserted, due, results>>
    BY <1>1, <1>3 DEF ListTargets, CommandsTyped
  <2> QED BY <1>1, <2>1, QuietIsKept DEF Tidy
<1>4. CASE Pass(c)
  <2>1. UNCHANGED <<pc, drafts, settling, inserted, due, results>>
    BY <1>4 DEF Pass
  <2> QED BY <1>1, <2>1, QuietIsKept DEF Tidy
<1>5. CASE SelectCompleted(c)
  <2>1. /\ pc[c] = "resolve" /\ pc'[c] = "insert"
        /\ UNCHANGED <<drafts, settling, inserted, results>>
    BY <1>1, <1>5 DEF SelectCompleted, CommandsTyped
  <2>2. PICK latest \in Latest(Known(now[c])) :
        \E rows \in SUBSET Completed(c, latest) :
          due' = [due EXCEPT ![c] =
            {[analysis |-> p[1].analysis, outcome |-> OutcomeOf(p[1].analysis, p[2]),
              observation |-> p[2], resolvedAt |-> now[c], created |-> clock] : p \in rows}]
    BY <1>5 DEF SelectCompleted, FirstDue
  <2>3. PICK rows \in SUBSET Completed(c, latest) :
          due' = [due EXCEPT ![c] =
            {[analysis |-> p[1].analysis, outcome |-> OutcomeOf(p[1].analysis, p[2]),
              observation |-> p[2], resolvedAt |-> now[c], created |-> clock] : p \in rows}]
    BY <2>2
  <2> DEFINE new ==
        {[analysis |-> p[1].analysis, outcome |-> OutcomeOf(p[1].analysis, p[2]),
          observation |-> p[2], resolvedAt |-> now[c], created |-> clock] : p \in rows}
  <2>4. Distinct(new)
    BY <1>1, SelectedAreDistinct DEF KInv, TablesTidy
  <2>5. due' = [due EXCEPT ![c] = new]
    BY <2>3
  <2> HIDE DEF new
  <2>6. Distinct(due'[c])
    BY <1>1, <2>4, <2>5 DEF CommandsTyped
  <2> QED BY <1>1, <2>1, <2>6, QuietIsKept DEF Tidy
<1>6. CASE AppendRefused(c) \/ Fail(c)
  BY <1>6, LostIsKept DEF AppendRefused, Fail
<1> QED BY <1>2, <1>3, <1>4, <1>5, <1>6, AppendIsKept, InsertIsKept, CommitIsKept DEF Command

LEMMA KInvInit == Init => KInv
<1> SUFFICES ASSUME Init PROVE KInv
  OBVIOUS
<1>1. Cardinality({}) = 0
  BY FS_EmptySet
<1>2. ASSUME NEW c \in Commands  PROVE Tidy(c) /\ Alone(c)
  BY <1>1, <1>2 DEF Init, Tidy, Alone, Distinct, Apart
<1>3. TablesTidy
  BY <1>1 DEF Init, TablesTidy, Distinct, ReportsAddUp
<1> QED BY <1>2, <1>3, IInvInit DEF KInv

LEMMA KInvStep == KInv /\ [Next]_vars => KInv'
<1> SUFFICES ASSUME KInv, [Next]_vars PROVE KInv'
  OBVIOUS
<1>1. IInv' /\ IInv /\ Typed /\ Typed' /\ Grows
  <2>1. IInv' /\ IInv
    BY IInvStep DEF KInv
  <2> QED BY <2>1, TablesGrow DEF IInv
<1>2. CASE StoreStep \/ UNCHANGED vars
  <2>1. UNCHANGED <<pc, drafts, due, settling, inserted, reported, journal, resolutions>>
    BY <1>2 DEF StoreStep, vars, results
  <2> QED BY <1>1, <2>1 DEF KInv, Tidy, Alone, TablesTidy, ReportsAddUp
<1>3. ASSUME NEW c \in Commands, Command(c)  PROVE KInv'
  <2>1. Kept(c)
    BY <1>3, StepIsKept
  <2>2. journal' \subseteq journal \cup drafts[c] /\ resolutions' \subseteq resolutions \cup settling[c]
    BY <1>1, <1>3, CommandKeepsSound
  <2>3. ASSUME NEW d \in Commands \ {c}  PROVE Tidy(d)' /\ Alone(d)'
    <3>1. /\ drafts'[d] = drafts[d] /\ due'[d] = due[d] /\ settling'[d] = settling[d]
          /\ pc'[d] = pc[d] /\ inserted'[d] = inserted[d]
      BY <1>1, <1>3, OthersStay, OthersCount
    <3>2. Tidy(d) /\ Alone(d)
      BY DEF KInv
    <3>3. Tidy(d)'
      BY <3>1, <3>2 DEF Tidy
    <3>4. Apart(drafts'[d], journal') /\ Apart(settling'[d], resolutions')
      BY <2>2, <3>1, <3>2 DEF Alone, Apart
    <3>5. ASSUME NEW e \in Commands \ {d}
          PROVE  Apart(drafts'[d], drafts'[e]) /\ Apart(settling'[d], settling'[e])
      <4>1. CASE e = c
        BY <2>1, <3>1, <4>1 DEF Kept, Apart
      <4>2. CASE e # c
        BY <1>1, <1>3, <3>1, <3>2, <4>2, OthersStay DEF Alone
      <4> QED BY <4>1, <4>2
    <3> QED BY <3>3, <3>4, <3>5 DEF Alone
  <2>4. Tidy(c)' /\ Alone(c)'
    <3>1. \A d \in Commands \ {c} : drafts'[d] = drafts[d] /\ settling'[d] = settling[d]
      BY <1>1, <1>3, OthersStay
    <3> QED BY <2>1, <3>1 DEF Kept, Alone
  <2>5. TablesTidy'
    BY <2>1 DEF Kept
  <2> QED BY <1>1, <2>3, <2>4, <2>5 DEF KInv
<1> QED BY <1>2, <1>3 DEF Next

LEMMA AlwaysKInv == Spec => []KInv
BY KInvInit, KInvStep, PTL DEF Spec

\* However many commands run at once and wherever they are killed, what they report as
\* inserted is what the tables hold, with one row for each key.
THEOREM ReportsCountOnce == Spec => []ReportsAddUp
<1>1. KInv => ReportsAddUp
  BY DEF KInv, TablesTidy
<1> QED BY <1>1, AlwaysKInv, PTL

-----------------------------------------------------------------------------
(* The ledger.                                                               *)

\* A snapshot publishes.
LEMMA SnapshotPublishes ==
  ASSUME KInv, NEW c \in Commands, CommitSnapshot(c)
  PROVE  Ledger!Publish
<1>1. journal \subseteq journal' /\ resolutions' = resolutions
  BY DEF CommitSnapshot
<1> QED BY <1>1 DEF Ledger!Publish, Ledger!Settled

\* A resolution settles, each analysis with one outcome.
LEMMA ResolutionSettles ==
  ASSUME KInv, NEW c \in Commands, CommitResolve(c)
  PROVE  Ledger!Settle
<1> DEFINE new == settling[c]
           open == {e.analysis : e \in journal} \ {r.analysis : r \in resolutions}
           after == {e.analysis : e \in journal'} \ {r.analysis : r \in resolutions'}
           settled == {<<r.analysis, r.outcome>> : r \in resolutions}
           outcome == [a \in open \ after |-> (CHOOSE r \in new : r.analysis = a).outcome]
<1>1. journal' = journal /\ resolutions' = resolutions \cup new
  BY DEF CommitResolve
<1>2. /\ Distinct(new) /\ Apart(new, resolutions) /\ new \subseteq Resolution
      /\ \A r \in new : \E e \in journal : e.analysis = r.analysis
  BY DEF KInv, IInv, Tidy, Alone, Sound, Justified, Typed, CommandsTyped
<1> HIDE DEF new
<1>3. open \ after = {r.analysis : r \in new} /\ after \subseteq open
  BY <1>1, <1>2 DEF Apart
<1> HIDE DEF open, after
<1>4. \A a \in open \ after : /\ (CHOOSE r \in new : r.analysis = a) \in new
                              /\ (CHOOSE r \in new : r.analysis = a).analysis = a
  BY <1>3
<1>5. \A r \in new : /\ r.analysis \in open \ after
                    /\ (CHOOSE q \in new : q.analysis = r.analysis) = r
  BY <1>2, <1>3, <1>4 DEF Distinct
<1>6. outcome \in [open \ after -> Outcomes]
  BY <1>2, <1>4 DEF Resolution
<1>7. {<<a, outcome[a]>> : a \in open \ after} = {<<r.analysis, r.outcome>> : r \in new}
  <2>1. ASSUME NEW a \in open \ after
        PROVE  \E r \in new : <<a, outcome[a]>> = <<r.analysis, r.outcome>>
    BY <1>4
  <2>2. ASSUME NEW r \in new
        PROVE  \E a \in open \ after : <<a, outcome[a]>> = <<r.analysis, r.outcome>>
    BY <1>5
  <2> HIDE DEF outcome
  <2> QED BY <2>1, <2>2
<1>8. {<<r.analysis, r.outcome>> : r \in resolutions'} =
        settled \cup {<<a, outcome[a]>> : a \in open \ after}
  <2> HIDE DEF outcome
  <2> QED BY <1>1, <1>7
<1> HIDE DEF outcome
<1> QED BY <1>3, <1>6, <1>8 DEF Ledger!Settle, open, after, settled, Outcomes

LEMMA StepKeepsLedger ==
  ASSUME KInv, [Next]_vars
  PROVE  [Ledger!Next]_<<{e.analysis : e \in journal} \ {r.analysis : r \in resolutions},
                         {<<r.analysis, r.outcome>> : r \in resolutions}>>
<1>1. CASE UNCHANGED <<journal, resolutions>>
  BY <1>1
<1>2. ASSUME NEW c \in Commands, Command(c), ~UNCHANGED <<journal, resolutions>>
      PROVE  CommitSnapshot(c) \/ CommitResolve(c)
  BY <1>2 DEF Command, Start, ListTargets, Pass, Append, AppendRefused, SelectCompleted,
              InsertResolutions, Fail, results
<1>3. CASE StoreStep \/ UNCHANGED vars
  BY <1>1, <1>3 DEF StoreStep, vars, results
<1> QED BY <1>1, <1>2, <1>3, SnapshotPublishes, ResolutionSettles DEF Next, Ledger!Next

\* The journal implements the ledger: what is published stays, is settled at most once and
\* for good, and nothing is settled that was not published.
THEOREM JournalImplementsLedger == Spec => ImplementsLedger
<1>1. Init => Ledger!Init
  BY DEF Init, Ledger!Init
<1>2. KInv /\ [Next]_vars
        => [Ledger!Next]_<<{e.analysis : e \in journal} \ {r.analysis : r \in resolutions},
                           {<<r.analysis, r.outcome>> : r \in resolutions}>>
  BY StepKeepsLedger
<1> QED BY <1>1, <1>2, AlwaysKInv, PTL DEF Spec, ImplementsLedger, Ledger!Spec

-----------------------------------------------------------------------------
(* What the statements count.                                                *)

Columns == {"total", "resolved", "successes", "void"}

\* The rows that a column counts.
Rows(entries, column) ==
  IF column = "total" THEN entries
  ELSE IF column = "resolved" THEN With(entries, {"SUCCESS", "FAILURE"})
  ELSE IF column = "successes" THEN With(entries, {"SUCCESS"})
  ELSE With(entries, {"VOID"})

LEMMA ColumnsCountRows ==
  ASSUME NEW entries, NEW column \in Columns
  PROVE  Counts(entries)[column] = Cardinality(Rows(entries, column))
<1>1. CASE column = "total" BY <1>1 DEF Counts, Rows
<1>2. CASE column = "resolved" BY <1>2 DEF Counts, Rows
<1>3. CASE column = "successes" BY <1>3 DEF Counts, Rows
<1>4. CASE column = "void" BY <1>4 DEF Counts, Rows
<1> QED BY <1>1, <1>2, <1>3, <1>4 DEF Columns

LEMMA RowsOfEntries ==
  ASSUME NEW entries, NEW column
  PROVE  Rows(entries, column) \subseteq entries
BY DEF Rows, With

-----------------------------------------------------------------------------
(* A statement adds up.                                                      *)

\* An entry has an outcome that decides it, or VOID, or none, and no two of them: it has one
\* resolution at most.
LEMMA EntriesAreParted ==
  ASSUME KInv, NEW entries \in SUBSET journal
  PROVE  LET decided == With(entries, {"SUCCESS", "FAILURE"})
             void    == With(entries, {"VOID"})
             open    == {e \in entries : Unresolved(e)}
         IN  /\ decided \cap void = {} /\ (decided \cup void) \cap open = {}
             /\ (decided \cup void) \cup open = entries
<1>1. Distinct(resolutions) /\ \A r \in resolutions : r.outcome \in {"SUCCESS", "FAILURE", "VOID"}
  BY DEF KInv, IInv, TablesTidy, Typed, ResultsTyped, Resolution, Outcomes
<1>2. ASSUME NEW e \in With(entries, {"SUCCESS", "FAILURE"}), e \in With(entries, {"VOID"})
      PROVE  FALSE
  <2>1. PICK r \in resolutions : r.analysis = e.analysis /\ r.outcome \in {"SUCCESS", "FAILURE"}
    BY DEF With
  <2>2. PICK q \in resolutions : q.analysis = e.analysis /\ q.outcome \in {"VOID"}
    BY <1>2 DEF With
  <2>3. r = q
    BY <1>1, <2>1, <2>2 DEF Distinct
  <2> QED BY <2>1, <2>2, <2>3
<1>3. \A e \in entries : \/ e \in With(entries, {"SUCCESS", "FAILURE"})
                         \/ e \in With(entries, {"VOID"})
                         \/ Unresolved(e)
  BY <1>1 DEF With, Unresolved
<1>4. \A outcomes : \A e \in With(entries, outcomes) : e \in entries /\ ~Unresolved(e)
  BY DEF With, Unresolved
<1> QED BY <1>2, <1>3, <1>4

LEMMA DisjointUnion ==
  ASSUME NEW S, NEW T, IsFiniteSet(S), IsFiniteSet(T), S \cap T = {}
  PROVE  /\ IsFiniteSet(S \cup T)
         /\ Cardinality(S \cup T) = Cardinality(S) + Cardinality(T)
         /\ Cardinality(S) \in Nat /\ Cardinality(T) \in Nat
<1>1. Cardinality(S \cap T) = 0 /\ Cardinality(S) \in Nat /\ Cardinality(T) \in Nat
  BY FS_EmptySet, FS_CardinalityType
<1>2. /\ IsFiniteSet(S \cup T)
      /\ Cardinality(S \cup T) = Cardinality(S) + Cardinality(T) - Cardinality(S \cap T)
  BY FS_Union
<1> QED BY <1>1, <1>2

LEMMA StatementsAddUp ==
  ASSUME KInv, NEW entries \in SUBSET journal
  PROVE  AddsUp(Counts(entries))
<1> DEFINE decided == With(entries, {"SUCCESS", "FAILURE"})
           won     == With(entries, {"SUCCESS"})
           void    == With(entries, {"VOID"})
           open    == {e \in entries : Unresolved(e)}
<1>1. IsFiniteSet(entries)
  BY FS_Subset DEF KInv, IInv, Typed, ResultsTyped
<1>2. decided \subseteq entries /\ void \subseteq entries /\ open \subseteq entries
      /\ won \subseteq decided
  BY DEF With
<1>3. /\ decided \cap void = {} /\ (decided \cup void) \cap open = {}
      /\ (decided \cup void) \cup open = entries
  BY EntriesAreParted
<1>4. Counts(entries) =
        [total      |-> Cardinality(entries),
         resolved   |-> Cardinality(decided),
         successes  |-> Cardinality(won),
         void       |-> Cardinality(void),
         unresolved |-> Cardinality(open),
         sample     |-> SampleStatus(Cardinality(decided))]
  BY DEF Counts
<1> HIDE DEF decided, won, void, open
<1>5. IsFiniteSet(decided) /\ IsFiniteSet(void) /\ IsFiniteSet(open)
  BY <1>1, <1>2, FS_Subset
<1>6. Cardinality(won) <= Cardinality(decided)
  BY <1>2, <1>5, FS_Subset
<1>7. /\ IsFiniteSet(decided \cup void)
      /\ Cardinality(decided \cup void) = Cardinality(decided) + Cardinality(void)
      /\ Cardinality(decided) \in Nat
  BY <1>3, <1>5, DisjointUnion
<1>8. Cardinality(entries) = Cardinality(decided) + Cardinality(void) + Cardinality(open)
  <2>1. Cardinality((decided \cup void) \cup open) = Cardinality(decided \cup void) + Cardinality(open)
    BY <1>3, <1>5, <1>7, DisjointUnion
  <2> QED BY <1>3, <1>7, <2>1
<1>9. SampleStatus(Cardinality(decided)) = "no_sample" <=> Cardinality(decided) = 0
  BY DEF SampleStatus
<1> QED BY <1>4, <1>6, <1>8, <1>9 DEF AddsUp

LEMMA ReportsPass == KInv => PassesValidation
<1> SUFFICES ASSUME KInv PROVE PassesValidation
  OBVIOUS
<1>1. AddsUp(Counts(journal))
  BY StatementsAddUp
<1>2. ASSUME NEW market \in Markets
      PROVE  AddsUp(ByMarket[market])
  BY StatementsAddUp DEF ByMarket
<1>3. ASSUME NEW counts \in ByBand
      PROVE  AddsUp(counts)
  BY StatementsAddUp DEF ByBand
<1>4. ASSUME NEW matches \in SUBSET Matches, NEW match \in matches
      PROVE  AddsUp(ByCompetition(matches)[match])
  <2>1. AddsUp(Counts(InMatch(match)))
    BY StatementsAddUp DEF InMatch
  <2> QED BY <2>1 DEF ByCompetition
<1> QED BY <1>1, <1>2, <1>3, <1>4 DEF PassesValidation

-----------------------------------------------------------------------------
(* The segments of the markets count what the totals count.                  *)

OfMarket(market) == {e \in journal : e.analysis.market = market}

\* What the totals of a column count, and that the segments count as many.
Covered(column) ==
  /\ IsFiniteSet(Rows(journal, column))
  /\ Counts(journal)[column] = Cardinality(Rows(journal, column))
  /\ TotalOf(ByMarket, column) \in Nat
  /\ TotalOf(ByMarket, column) >= Cardinality(Rows(journal, column))

AllCovered == \A column \in Columns : Covered(column)

LEMMA SegmentsCountAll ==
  ASSUME KInv, NEW column \in Columns
  PROVE  Covered(column)
<1> DEFINE rows(market) == Rows(OfMarket(market), column)
           size == [market \in Markets |-> Cardinality(rows(market))]
           list == [market \in Markets |->
                      CHOOSE f : f \in Surjection(1..size[market], rows(market))]
           pairs == UNION {{market} \X (1..size[market]) : market \in Markets}
           row == [p \in pairs |-> list[p[1]][p[2]]]
<1>1. /\ IsFiniteSet(journal) /\ IsFiniteSet(Markets)
      /\ \A e \in journal : e.analysis.market \in Markets
  BY MarketsAreFinite DEF KInv, IInv, Typed, ResultsTyped, Entry, Analysis
<1>2. ASSUME NEW market \in Markets
      PROVE  /\ size[market] \in Nat /\ size[market] <= Cardinality(journal)
             /\ list[market] \in Surjection(1..size[market], rows(market))
  <2>1. rows(market) \subseteq journal
    BY RowsOfEntries DEF OfMarket
  <2>2. IsFiniteSet(rows(market)) /\ Cardinality(rows(market)) <= Cardinality(journal)
    BY <1>1, <2>1, FS_Subset
  <2>3. /\ size[market] \in Nat
        /\ ExistsBijection(1..size[market], rows(market))
    BY <2>2, FS_CardinalityType
  <2>4. \E f : f \in Surjection(1..size[market], rows(market))
    BY <2>3 DEF ExistsBijection, Bijection
  <2> QED BY <2>2, <2>3, <2>4
<1>3. TotalOf(ByMarket, column) = Cardinality(pairs)
  <2>1. DOMAIN ByMarket = Markets
    BY DEF ByMarket
  <2>2. \A market \in Markets : ByMarket[market][column] = size[market]
    BY ColumnsCountRows DEF ByMarket, OfMarket
  <2>3. {{market} \X (1..ByMarket[market][column]) : market \in DOMAIN ByMarket}
          = {{market} \X (1..size[market]) : market \in Markets}
    <3> HIDE DEF size
    <3> QED BY <2>1, <2>2
  <2> QED BY <2>3 DEF TotalOf
<1>4. IsFiniteSet(pairs)
  <2>1. Cardinality(journal) \in Nat
    BY <1>1, FS_CardinalityType
  <2>2. pairs \subseteq Markets \X (1..Cardinality(journal))
    <3> SUFFICES ASSUME NEW market \in Markets, NEW i \in 1..size[market]
                 PROVE  i \in 1..Cardinality(journal)
      OBVIOUS
    <3>1. size[market] \in Nat /\ size[market] <= Cardinality(journal)
      BY <1>2
    <3> HIDE DEF size
    <3> QED BY <2>1, <3>1
  <2>3. IsFiniteSet(1..Cardinality(journal))
    BY <2>1, FS_Interval
  <2>4. IsFiniteSet(Markets \X (1..Cardinality(journal)))
    BY <1>1, <2>3, FS_Product
  <2> QED BY <2>2, <2>4, FS_Subset
<1>5. row \in Surjection(pairs, Rows(journal, column))
  <2>1. \A market \in Markets :
          rows(market) = {e \in Rows(journal, column) : e.analysis.market = market}
    BY DEF OfMarket, Rows, With
  <2> HIDE DEF rows, size, list
  <2>2. ASSUME NEW p \in pairs
        PROVE  row[p] \in Rows(journal, column)
    <3>1. p[1] \in Markets /\ p[2] \in 1..size[p[1]]
      OBVIOUS
    <3>2. list[p[1]][p[2]] \in rows(p[1])
      BY <1>2, <3>1 DEF Surjection
    <3> QED BY <2>1, <3>1, <3>2
  <2>3. ASSUME NEW e \in Rows(journal, column)
        PROVE  \E p \in pairs : row[p] = e
    <3> DEFINE market == e.analysis.market
    <3>1. market \in Markets /\ e \in rows(market)
      BY <1>1, <2>1, RowsOfEntries
    <3>2. PICK i \in 1..size[market] : list[market][i] = e
      BY <1>2, <3>1 DEF Surjection
    <3>3. <<market, i>> \in pairs
      BY <3>1
    <3> QED BY <3>2, <3>3
  <2> HIDE DEF pairs
  <2>4. row \in [pairs -> Rows(journal, column)]
    BY <2>2
  <2> QED BY <2>3, <2>4 DEF Surjection
<1>6. Counts(journal)[column] = Cardinality(Rows(journal, column))
  BY ColumnsCountRows
<1> HIDE DEF pairs, row
<1>7. /\ IsFiniteSet(Rows(journal, column))
      /\ Cardinality(Rows(journal, column)) <= Cardinality(pairs)
  BY <1>4, <1>5, FS_Surjection
<1>8. Cardinality(Rows(journal, column)) \in Nat /\ Cardinality(pairs) \in Nat
  BY <1>4, <1>7, FS_CardinalityType
<1> QED BY <1>3, <1>6, <1>7, <1>8 DEF Covered

\* What is committed takes nothing back from a column.
LEMMA CountsGrow ==
  ASSUME Typed, [Next]_vars, AllCovered, AllCovered', NEW column \in Columns
  PROVE  TotalOf(ByMarket, column)' >= Counts(journal)[column]
<1>1. journal \subseteq journal' /\ resolutions \subseteq resolutions'
  <2>1. resolutions \subseteq resolutions'
    BY DEF Next, StoreStep, vars, Command, Start, ListTargets, Pass, Append, AppendRefused,
           CommitSnapshot, SelectCompleted, InsertResolutions, CommitResolve, Fail, results
  <2> QED BY <2>1, TablesGrow DEF Grows
<1>2. Rows(journal, column) \subseteq Rows(journal, column)'
  BY <1>1 DEF Rows, With
<1>3. Covered(column) /\ Covered(column)'
  BY DEF AllCovered
<1>4. Cardinality(Rows(journal, column)) <= Cardinality(Rows(journal, column)')
  BY <1>2, <1>3, FS_Subset DEF Covered
<1>5. Cardinality(Rows(journal, column)) \in Nat /\ Cardinality(Rows(journal, column)') \in Nat
  BY <1>3, FS_CardinalityType DEF Covered
<1> QED BY <1>3, <1>4, <1>5 DEF Covered

\* Whatever commands, kills and observations come between its statements, a report passes
\* the validators of its answer, and its segments count all that its totals count.
THEOREM ReportsAreCoherent == Spec => ReportIsCoherent
<1>1. KInv => AllCovered
  BY SegmentsCountAll DEF AllCovered
<1>2. KInv /\ AllCovered /\ AllCovered' /\ PassesValidation' /\ [Next]_vars
        => [\/ UNCHANGED <<journal, resolutions>>
            \/ /\ PassesValidation'
               /\ \A column \in {"total", "resolved", "successes", "void"} :
                    TotalOf(ByMarket, column)' >= Counts(journal)[column]]_vars
  BY CountsGrow DEF KInv, IInv, Columns
<1> QED BY <1>1, <1>2, ReportsPass, AlwaysKInv, PTL DEF Spec, ReportIsCoherent
=============================================================================
