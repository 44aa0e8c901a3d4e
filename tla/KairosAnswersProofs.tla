-------------------------- MODULE KairosAnswersProofs --------------------------
(***************************************************************************)
(* Proofs about KairosAnswers: what a selection of the opportunities rests *)
(* on, what a suggestion says of its refusal, and that the validators      *)
(* accept what the services build, for any datasets, thresholds and        *)
(* freshness.                                                              *)
(***************************************************************************)
EXTENDS KairosAnswers, CountingTheorems

-----------------------------------------------------------------------------
(* Numbers.                                                                  *)

LEMMA MinOfTwo ==
  ASSUME NEW a \in Int, NEW b \in Int
  PROVE  Min({a, b}) = IF a <= b THEN a ELSE b
<1> DEFINE m == IF a <= b THEN a ELSE b
<1>1. m \in {a, b} /\ \A y \in {a, b} : m <= y
  OBVIOUS
<1>2. \A x \in {a, b} : (\A y \in {a, b} : x <= y) => x = m
  OBVIOUS
<1> HIDE DEF m
<1>3. Min({a, b}) = m
  BY <1>1, <1>2 DEF Min
<1> QED BY <1>3 DEF m

LEMMA MaxOfTwo ==
  ASSUME NEW a \in Int, NEW b \in Int
  PROVE  Max({a, b}) = IF a >= b THEN a ELSE b
<1> DEFINE m == IF a >= b THEN a ELSE b
<1>1. m \in {a, b} /\ \A y \in {a, b} : m >= y
  OBVIOUS
<1>2. \A x \in {a, b} : (\A y \in {a, b} : x >= y) => x = m
  OBVIOUS
<1> HIDE DEF m
<1>3. Max({a, b}) = m
  BY <1>1, <1>2 DEF Max
<1> QED BY <1>3 DEF m

\* The best of some positions, the first of those as good, is one of them.
LEMMA BestPosition ==
  ASSUME NEW n \in Nat \ {0}, NEW f, IntegersOn(f, 1..n)
  PROVE  Min({i \in 1..n : \A j \in 1..n : f[j] <= f[i]}) \in 1..n
<1> DEFINE S == 1..n
           before == {p \in S \X S : f[p[1]] < f[p[2]] \/ (f[p[1]] = f[p[2]] /\ p[1] < p[2])}
           best == {i \in S : \A j \in S : f[j] <= f[i]}
<1>1. \A i, j \in S : <<i, j>> \in before <=> f[i] < f[j] \/ (f[i] = f[j] /\ i < j)
  OBVIOUS
<1>2. \A i \in S : f[i] \in Int /\ i \in Nat
  BY DEF IntegersOn
<1>3. IsFiniteSet(S) /\ 1 \in S
  BY Interval
<1> HIDE DEF S, before
<1>4. IsOrder(S, before)
  BY <1>1, <1>2 DEF IsOrder
<1>5. PICK z \in S : \A x \in S : x # z => <<x, z>> \in before
  <2>1. S \in SUBSET S /\ S # {}
    BY <1>3
  <2> QED BY <1>3, <1>4, <2>1, LastElement
<1>6. z \in best
  <2> SUFFICES ASSUME NEW x \in S PROVE f[x] <= f[z]
    OBVIOUS
  <2>1. f[x] \in Int /\ f[z] \in Int
    BY <1>2
  <2>2. x = z \/ <<x, z>> \in before
    BY <1>5
  <2> QED BY <1>1, <2>1, <2>2
<1>7. best \subseteq Nat /\ best \subseteq S
  BY <1>2
<1> HIDE DEF best
<1>8. \E x \in best : \A y \in best : x <= y
  BY <1>6, <1>7, LeastNumber
<1>9. Min(best) \in best
  BY <1>8 DEF Min
<1> QED BY <1>7, <1>9 DEF best, S

LEMMA MinOfThree ==
  ASSUME NEW a \in Nat, NEW b \in Nat, NEW c \in Nat
  PROVE  /\ Min({a, b, c}) \in Nat /\ Min({a, b, c}) <= a
         /\ Min({a, b, c}) <= b /\ Min({a, b, c}) <= c
<1>1. \E x \in {a, b, c} : \A y \in {a, b, c} : x <= y
  OBVIOUS
<1>2. Min({a, b, c}) \in {a, b, c} /\ \A y \in {a, b, c} : Min({a, b, c}) <= y
  BY <1>1 DEF Min
<1> QED BY <1>2

LEMMA ClampedLies ==
  ASSUME NEW n \in Int, NEW low \in Nat, NEW high \in Nat, low <= high
  PROVE  /\ Clamped(n, low, high) \in Nat
         /\ low <= Clamped(n, low, high) /\ Clamped(n, low, high) <= high
<1>1. Min({n, high}) = (IF n <= high THEN n ELSE high) /\ Min({n, high}) \in Int
  BY MinOfTwo
<1>2. Clamped(n, low, high) = IF low >= Min({n, high}) THEN low ELSE Min({n, high})
  BY <1>1, MaxOfTwo DEF Clamped
<1> QED BY <1>1, <1>2

LEMMA Quotient ==
  ASSUME NEW n \in Nat, NEW d \in Nat \ {0}
  PROVE  n \div d \in Nat
OBVIOUS

LEMMA RoundedIsNatural ==
  ASSUME NEW n \in Nat, NEW d \in Nat \ {0}
  PROVE  Rounded(n, d) \in Nat
<1>1. 2 * n + d \in Nat /\ 2 * d \in Nat \ {0}
  OBVIOUS
<1>2. (2 * n + d) \div (2 * d) \in Nat
  BY <1>1, Quotient
<1> QED BY <1>2 DEF Rounded

\* Whole minutes exceed the threshold when the next one is reached.
LEMMA StaleIsWhole ==
  ASSUME NEW age \in Nat, NEW ticks \in Nat \ {0}, NEW limit \in Nat
  PROVE  age \div ticks > limit <=> age >= (limit + 1) * ticks
<1> DEFINE q == age \div ticks
           r == age % ticks
<1>1. q \in Nat /\ r \in Nat /\ r < ticks
  BY Quotient
<1>2. age = ticks * q + r
  OBVIOUS
<1> HIDE DEF q, r
<1>3. CASE q > limit
  <2>1. PICK k \in Nat : q = limit + 1 + k
    <3>1. q - (limit + 1) \in Nat /\ q = limit + 1 + (q - (limit + 1))
      BY <1>1, <1>3
    <3> QED BY <3>1
  <2>2. ticks * q = (limit + 1) * ticks + k * ticks
    BY <2>1
  <2>3. k * ticks \in Nat
    OBVIOUS
  <2>4. (limit + 1) * ticks \in Nat
    OBVIOUS
  <2>5. age >= (limit + 1) * ticks
    BY <1>1, <1>2, <2>2, <2>3, <2>4
  <2> QED BY <1>3, <2>5 DEF q
<1>4. CASE q <= limit
  <2>1. PICK k \in Nat : limit = q + k
    <3>1. limit - q \in Nat /\ limit = q + (limit - q)
      BY <1>1, <1>4
    <3> QED BY <3>1
  <2>2. (limit + 1) * ticks = ticks * q + k * ticks + ticks
    BY <1>1, <2>1
  <2>3. k * ticks \in Nat /\ ticks * q \in Nat
    BY <1>1
  <2>4. ~(age >= (limit + 1) * ticks)
    BY <1>1, <1>2, <2>2, <2>3
  <2> QED BY <1>1, <1>4, <2>4 DEF q
<1> QED BY <1>1, <1>3, <1>4

\* Whole minutes that exceed the threshold are more than the threshold.
LEMMA StaleIsOld ==
  ASSUME NEW age \in Nat, NEW ticks \in Nat \ {0}, NEW limit \in Nat, age \div ticks > limit
  PROVE  age > limit * ticks
<1>1. age >= (limit + 1) * ticks
  BY StaleIsWhole
<1>2. (limit + 1) * ticks = limit * ticks + ticks /\ limit * ticks \in Nat
  OBVIOUS
<1> QED BY <1>1, <1>2

-----------------------------------------------------------------------------
(* Histories.                                                                *)

LEMMA HistoryFacts ==
  ASSUME NEW rows, IsHistory(rows)
  PROVE  /\ Len(rows) \in Nat /\ DOMAIN rows = 1..Len(rows)
         /\ \A i \in DOMAIN rows : rows[i].full \in Tally /\ rows[i].half \in Tally
<1> DEFINE R == Row({rows[i].match : i \in DOMAIN rows})
<1>1. rows \in Seq(R)
  BY DEF IsHistory
<1>2. \A row \in R : row.full \in Tally /\ row.half \in Tally
  BY DEF Row
<1> HIDE DEF R
<1> QED BY <1>1, <1>2

LEMMA ScoredIsCounted ==
  ASSUME NEW rows, IsHistory(rows)
  PROVE  Cardinality(Scored(Recent(rows))) \in Nat
<1>1. Len(rows) \in Nat /\ RecentWindow \in Nat
  BY HistoryFacts, AnalysisAssumption
<1> DEFINE n == Min({Len(rows), RecentWindow})
<1>2. n \in Nat /\ n <= Len(rows)
  BY <1>1, MinOfTwo
<1> HIDE DEF n
<1>3. DOMAIN Recent(rows) = 1..n
  BY <1>2 DEF Recent, IsHistory, n
<1>4. IsFiniteSet(1..n) /\ Scored(Recent(rows)) \subseteq 1..n
  BY <1>2, <1>3, Interval DEF Scored
<1> QED BY <1>4, FS_Subset, FS_CardinalityType

LEMMA SamplesAreCounted ==
  ASSUME NEW rows, IsHistory(rows), NEW limit
  PROVE  IsFiniteSet(Samples(rows, limit)) /\ Cardinality(Samples(rows, limit)) \in Nat
<1> DEFINE first(i) == \A j \in 1..i-1 : HasHalves(rows[j]) => rows[j].match # rows[i].match
           usable == {i \in DOMAIN rows : HasHalves(rows[i]) /\ first(i)}
           taken == {k \in usable : Cardinality({j \in usable : j < k}) < limit}
           sample(i) == [match |-> rows[i].match, first |-> rows[i].half,
                         second |-> rows[i].full - rows[i].half]
<1>1. Samples(rows, limit) = {sample(i) : i \in taken}
  BY DEF Samples
<1>2. IsFiniteSet(DOMAIN rows) /\ taken \subseteq DOMAIN rows
  BY HistoryFacts, Interval
<1>3. IsFiniteSet(taken)
  BY <1>2, FS_Subset
<1> HIDE DEF taken, sample
<1> DEFINE f == [i \in taken |-> sample(i)]
<1>4. f \in Surjection(taken, {sample(i) : i \in taken})
  BY DEF Surjection
<1>5. IsFiniteSet({sample(i) : i \in taken})
  BY <1>3, <1>4, FS_Surjection
<1> QED BY <1>1, <1>5, FS_CardinalityType

-----------------------------------------------------------------------------
(* How often a sequence has an element of a set.                             *)

Marks(s, P) == {i \in DOMAIN s : s[i] \in P}
Times(s, P) == Cardinality(Marks(s, P))
Once(holds) == IF holds THEN 1 ELSE 0

LEMMA MarksAreFinite ==
  ASSUME NEW S, NEW s \in Seq(S), NEW P
  PROVE  IsFiniteSet(Marks(s, P)) /\ Times(s, P) \in Nat
<1>1. DOMAIN s = 1..Len(s) /\ Len(s) \in Nat
  OBVIOUS
<1>2. IsFiniteSet(DOMAIN s) /\ Marks(s, P) \subseteq DOMAIN s
  BY <1>1, Interval DEF Marks
<1> QED BY <1>2, FS_Subset, FS_CardinalityType DEF Times

LEMMA TimesOfBoth ==
  ASSUME NEW S, NEW a \in Seq(S), NEW b \in Seq(S), NEW P
  PROVE  a \o b \in Seq(S) /\ Times(a \o b, P) = Times(a, P) + Times(b, P)
<1> DEFINE c == a \o b
           n == Len(a)
           later == [i \in Marks(b, P) |-> n + i]
           A == Marks(a, P)
           B == {later[i] : i \in Marks(b, P)}
<1>1. /\ c \in Seq(S) /\ n \in Nat /\ Len(b) \in Nat
      /\ DOMAIN a = 1..n /\ DOMAIN b = 1..Len(b) /\ DOMAIN c = 1..(n + Len(b))
      /\ \A i \in 1..n : c[i] = a[i]
      /\ \A i \in 1..Len(b) : c[n + i] = b[i]
  OBVIOUS
<1>0. \A i \in Marks(b, P) : later[i] = n + i /\ i \in 1..Len(b) /\ b[i] \in P
  BY <1>1 DEF Marks
<1> HIDE DEF c, n, later
<1>2. Marks(c, P) = A \cup B
  <2>1. ASSUME NEW i \in Marks(c, P) PROVE i \in A \cup B
    <3>1. i \in 1..(n + Len(b)) /\ c[i] \in P
      BY <1>1, <2>1 DEF Marks
    <3>2. CASE i <= n
      BY <1>1, <3>1, <3>2 DEF Marks
    <3>3. CASE i > n
      <4>1. i - n \in 1..Len(b) /\ i = n + (i - n)
        BY <1>1, <3>1, <3>3
      <4>2. i - n \in Marks(b, P)
        BY <1>1, <3>1, <4>1 DEF Marks
      <4> QED BY <1>0, <4>1, <4>2
    <3> QED BY <1>1, <3>1, <3>2, <3>3
  <2>2. A \subseteq Marks(c, P)
    BY <1>1 DEF Marks
  <2>3. B \subseteq Marks(c, P)
    <3> SUFFICES ASSUME NEW i \in Marks(b, P) PROVE later[i] \in Marks(c, P)
      OBVIOUS
    <3>1. n + i \in 1..(n + Len(b)) /\ c[n + i] \in P
      BY <1>0, <1>1
    <3> QED BY <1>0, <1>1, <3>1 DEF Marks
  <2> QED BY <2>1, <2>2, <2>3
<1>3. IsFiniteSet(A) /\ IsFiniteSet(Marks(b, P))
  BY MarksAreFinite
<1>4. Marks(b, P) \subseteq Nat /\ A \subseteq 1..n
  BY <1>1 DEF Marks
<1>5. A \cap B = {}
  <2>1. \A i \in Marks(b, P) : later[i] > n
    BY <1>0, <1>1
  <2> QED BY <1>1, <1>4, <2>1
<1> HIDE DEF A
<1>6. IsFiniteSet(B) /\ Cardinality(B) = Cardinality(Marks(b, P))
  <2>1. \A i, j \in Marks(b, P) : later[i] = later[j] => i = j
    BY <1>0, <1>1
  <2> QED BY <1>3, <2>1, ImageIsCounted, ImageIsFinite
<1> HIDE DEF B
<1>7. Cardinality(A \cup B) = Cardinality(A) + Cardinality(B)
  <2>1. Cardinality(A \cup B) = Cardinality(A) + Cardinality(B) - Cardinality(A \cap B)
    BY <1>3, <1>6, FS_Union
  <2>2. Cardinality(A \cap B) = 0
    BY <1>5, FS_EmptySet
  <2> QED BY <1>3, <1>6, <2>1, <2>2, FS_CardinalityType
<1> QED BY <1>1, <1>2, <1>6, <1>7 DEF Times, c, A

LEMMA TimesOfNone ==
  ASSUME NEW P
  PROVE  Times(<<>>, P) = 0
<1>1. Marks(<<>>, P) = {}
  BY DEF Marks
<1> QED BY <1>1, FS_EmptySet DEF Times

LEMMA TimesOfOne ==
  ASSUME NEW S, NEW x \in S, NEW P
  PROVE  <<x>> \in Seq(S) /\ Times(<<x>>, P) = Once(x \in P)
<1>1. <<x>> \in Seq(S) /\ DOMAIN <<x>> = {1} /\ <<x>>[1] = x
  OBVIOUS
<1>2. CASE x \in P
  <2>1. Marks(<<x>>, P) = {1}
    BY <1>1, <1>2 DEF Marks
  <2> QED BY <1>1, <1>2, <2>1, FS_Singleton DEF Times, Once
<1>3. CASE x \notin P
  <2>1. Marks(<<x>>, P) = {}
    BY <1>1, <1>3 DEF Marks
  <2> QED BY <1>1, <1>3, <2>1, FS_EmptySet DEF Times, Once
<1> QED BY <1>2, <1>3

LEMMA NeverThere ==
  ASSUME NEW s, NEW P, \A i \in DOMAIN s : s[i] \notin P
  PROVE  Times(s, P) = 0
<1>1. Marks(s, P) = {}
  BY DEF Marks
<1> QED BY <1>1, FS_EmptySet DEF Times

LEMMA SometimesThere ==
  ASSUME NEW S, NEW s \in Seq(S), NEW P
  PROVE  Times(s, P) # 0 <=> \E i \in DOMAIN s : s[i] \in P
<1>1. IsFiniteSet(Marks(s, P))
  BY MarksAreFinite
<1>2. Times(s, P) = 0 <=> Marks(s, P) = {}
  BY <1>1, FS_EmptySet DEF Times
<1> QED BY <1>2 DEF Marks

-----------------------------------------------------------------------------
(* Warnings.                                                                 *)

Warned ==
  [code : {"UNCALIBRATED_BASELINE", "ANALYSIS_ONLY_NO_BETTING", "LIVE_AUTOMATION_DISABLED",
           "SINGLE_PROVIDER", "DRIFT_MONITORING_UNAVAILABLE", "PARTIAL", "SMALL_RECENT_SAMPLE",
           "STALE_TARGET_DATA", "INSUFFICIENT_RESULT_HISTORY"},
   severity : {"info", "warning", "blocking"}]
StaleWarning == Warning("STALE_TARGET_DATA", "warning")
FewWarning == Warning("INSUFFICIENT_RESULT_HISTORY", "blocking")
Harmless ==
  {w \in Warned : /\ w.severity # "blocking"
                  /\ w.code \notin {"STALE_TARGET_DATA", "INSUFFICIENT_RESULT_HISTORY"}}

LEMMA ToldWarnings ==
  /\ Warning("UNCALIBRATED_BASELINE", "warning") \in Harmless
  /\ Warning("ANALYSIS_ONLY_NO_BETTING", "info") \in Harmless
  /\ Warning("LIVE_AUTOMATION_DISABLED", "info") \in Harmless
  /\ Warning("SINGLE_PROVIDER", "warning") \in Harmless
  /\ Warning("DRIFT_MONITORING_UNAVAILABLE", "warning") \in Harmless
  /\ Warning("PARTIAL", "warning") \in Harmless
  /\ Warning("SMALL_RECENT_SAMPLE", "warning") \in Harmless
  /\ StaleWarning \in Warned /\ FewWarning \in Warned
  /\ Harmless \subseteq Warned
BY DEF Harmless, Warned, Warning, StaleWarning, FewWarning

LEMMA ThreeAreFinite == \A a, b, c : IsFiniteSet({a, b, c})
<1> TAKE a, b, c
<1>1. IsFiniteSet(({a} \cup {b}) \cup {c})
  BY FS_Singleton, FS_AddElement
<1>2. {a, b, c} = ({a} \cup {b}) \cup {c}
  OBVIOUS
<1> QED BY <1>1, <1>2

LEMMA FeaturesAreFinite == IsFiniteSet(Features)
<1>1. Features = {"recent_form", "standings", "home_away"} \cup {"goals", "shots", "possession"}
                   \cup {"corners", "cards", "provenance"}
  BY DEF Features, FeatureWeight
<1> QED BY <1>1, ThreeAreFinite, FS_Union

\* Besides the harmless ones there is one for stale data and one for too few results.
LEMMA WhatWarns ==
  ASSUME NEW availability, NEW home, NEW away, NEW stale, NEW sufficient, NEW P,
         P \cap Harmless = {}
  PROVE  LET warnings == Warnings(availability, home, away, stale, sufficient)
         IN  /\ warnings \in Seq(Warned)
             /\ Times(warnings, P) = Once(stale /\ StaleWarning \in P)
                                       + Once(~sufficient /\ FewWarning \in P)
<1> DEFINE n == Cardinality({f \in Features \ {"provenance"} : availability[f].coverage < 1000})
           small == home.goals < RecentWindow \/ away.goals < RecentWindow
           always == <<Warning("UNCALIBRATED_BASELINE", "warning"),
                       Warning("ANALYSIS_ONLY_NO_BETTING", "info"),
                       Warning("LIVE_AUTOMATION_DISABLED", "info"),
                       Warning("SINGLE_PROVIDER", "warning"),
                       Warning("DRIFT_MONITORING_UNAVAILABLE", "warning")>>
           partial == [i \in 1..n |-> Warning("PARTIAL", "warning")]
           smallOne == IF small THEN <<Warning("SMALL_RECENT_SAMPLE", "warning")>> ELSE <<>>
           staleOne == IF stale THEN <<Warning("STALE_TARGET_DATA", "warning")>> ELSE <<>>
           fewOne == IF sufficient THEN <<>>
                     ELSE <<Warning("INSUFFICIENT_RESULT_HISTORY", "blocking")>>
           warnings == Warnings(availability, home, away, stale, sufficient)
<1>1. warnings = (((always \o partial) \o smallOne) \o staleOne) \o fewOne
  BY DEF Warnings
<1> HIDE DEF warnings
<1>2. \A s : s \in Seq(Harmless) => s \in Seq(Warned) /\ Times(s, P) = 0
  <2> TAKE s
  <2> HAVE s \in Seq(Harmless)
  <2>1. s \in Seq(Warned) /\ \A i \in DOMAIN s : s[i] \in Harmless
    BY ToldWarnings
  <2> QED BY <2>1, NeverThere
<1>3. always \in Seq(Harmless)
  BY ToldWarnings
<1>4. partial \in Seq(Harmless)
  <2>1. n \in Nat
    <3> HIDE DEF n
    <3> QED BY FeaturesAreFinite, FS_Subset, FS_CardinalityType DEF n
  <2> HIDE DEF n
  <2> QED BY <2>1, ToldWarnings
<1>5. smallOne \in Seq(Harmless)
  BY ToldWarnings
<1>6. staleOne \in Seq(Warned) /\ Times(staleOne, P) = Once(stale /\ StaleWarning \in P)
  <2>1. CASE stale
    <3>1. staleOne = <<StaleWarning>>
      BY <2>1 DEF StaleWarning
    <3> QED BY <2>1, <3>1, ToldWarnings, TimesOfOne DEF Once
  <2>2. CASE ~stale
    BY <2>2, TimesOfNone DEF Once
  <2> QED BY <2>1, <2>2
<1>7. fewOne \in Seq(Warned) /\ Times(fewOne, P) = Once(~sufficient /\ FewWarning \in P)
  <2>1. CASE ~sufficient
    <3>1. fewOne = <<FewWarning>>
      BY <2>1 DEF FewWarning
    <3> QED BY <2>1, <3>1, ToldWarnings, TimesOfOne DEF Once
  <2>2. CASE sufficient
    BY <2>2, TimesOfNone DEF Once
  <2> QED BY <2>1, <2>2
<1> HIDE DEF always, partial, smallOne, staleOne, fewOne
<1> DEFINE a == always \o partial
           b == a \o smallOne
           c == b \o staleOne
<1>8. a \in Seq(Warned) /\ Times(a, P) = 0
  BY <1>2, <1>3, <1>4, TimesOfBoth
<1> HIDE DEF a
<1>9. b \in Seq(Warned) /\ Times(b, P) = 0
  BY <1>2, <1>5, <1>8, TimesOfBoth
<1> HIDE DEF b
<1>10. c \in Seq(Warned) /\ Times(c, P) = Once(stale /\ StaleWarning \in P)
  <2>1. Times(staleOne, P) \in Nat
    BY <1>6, MarksAreFinite
  <2> QED BY <1>6, <1>9, <2>1, TimesOfBoth
<1> HIDE DEF c
<1>11. c \o fewOne \in Seq(Warned) /\ Times(c \o fewOne, P) = Times(c, P) + Times(fewOne, P)
  BY <1>7, <1>10, TimesOfBoth
<1>12. warnings = c \o fewOne
  BY <1>1 DEF a, b, c
<1> QED BY <1>7, <1>10, <1>11, <1>12 DEF warnings

-----------------------------------------------------------------------------
(* What a dataset decides.                                                   *)

\* The thresholds of the two kinds of market.
FewResults(dataset) ==
  \E h \in {dataset.home, dataset.away} : Cardinality(Scored(Recent(h))) < MinimumResults
FewHalves(dataset) ==
  \E h \in {dataset.home, dataset.away} : Cardinality(Samples(h, RecentWindow)) < MinimumResults

CanBeAnalysed(dataset) == dataset.verdict = "safe" /\ IsDataset(dataset)

LEMMA SafeCanBeAnalysed ==
  ASSUME NEW day \in Days, NEW m \in Safe(day)
  PROVE  CanBeAnalysed(day[m])
<1>1. day[m].verdict = "safe" /\ day[m] \in DayDatasets
  BY DEF Safe, Days
<1> QED BY <1>1, AnswersAssumption DEF CanBeAnalysed

LEMMA DatasetFacts ==
  ASSUME NEW dataset, CanBeAnalysed(dataset)
  PROVE  /\ IsHistory(dataset.home) /\ IsHistory(dataset.away) /\ IsHistory(dataset.h2h)
         /\ dataset.standings \subseteq {"home", "away"}
         /\ dataset.goal_events \in Nat /\ dataset.flags \in Nat /\ dataset.age \in Nat
         /\ dataset.marked_fresh \in BOOLEAN /\ dataset.consistency \in 0..100
         /\ IsForecast(dataset.forecast)
BY DEF CanBeAnalysed, IsDataset

\* Only too few results block.
Blocking(warnings) == \E i \in DOMAIN warnings : warnings[i].severity = "blocking"

LEMMA WhatBlocks ==
  ASSUME NEW availability, NEW home, NEW away, NEW stale, NEW sufficient
  PROVE  Blocking(Warnings(availability, home, away, stale, sufficient)) <=> ~sufficient
<1> DEFINE P == {w \in Warned : w.severity = "blocking"}
           warnings == Warnings(availability, home, away, stale, sufficient)
<1>1. P \cap Harmless = {} /\ StaleWarning \notin P /\ FewWarning \in P
  BY ToldWarnings DEF Harmless, StaleWarning, FewWarning, Warning
<1> HIDE DEF P, warnings
<1>2. /\ warnings \in Seq(Warned)
      /\ Times(warnings, P) = Once(stale /\ StaleWarning \in P)
                                + Once(~sufficient /\ FewWarning \in P)
  BY <1>1, WhatWarns DEF warnings
<1>3. Times(warnings, P) # 0 <=> ~sufficient
  BY <1>1, <1>2 DEF Once
<1>4. Times(warnings, P) # 0 <=> \E i \in DOMAIN warnings : warnings[i] \in P
  BY <1>2, SometimesThere
<1>5. \A i \in DOMAIN warnings : warnings[i] \in P <=> warnings[i].severity = "blocking"
  BY <1>2 DEF P
<1> QED BY <1>3, <1>4, <1>5 DEF Blocking, warnings

LEMMA AnalysisFacts ==
  ASSUME NEW dataset, CanBeAnalysed(dataset)
  PROVE  LET analysis == Analysis(dataset)
         IN  /\ analysis.ready <=> ~FewResults(dataset)
             /\ Blocking(analysis.warnings) <=> FewResults(dataset)
             /\ analysis.stale = Stale(dataset)
             /\ analysis.probabilities = dataset.forecast
<1> DEFINE home == Profile(dataset.home, "home", "home" \in dataset.standings)
           away == Profile(dataset.away, "away", "away" \in dataset.standings)
           sufficient == home.goals >= MinimumResults /\ away.goals >= MinimumResults
           analysis == Analysis(dataset)
<1>1. /\ home.goals = Cardinality(Scored(Recent(dataset.home)))
      /\ away.goals = Cardinality(Scored(Recent(dataset.away)))
  BY DEF Profile
<1>2. home.goals \in Nat /\ away.goals \in Nat /\ MinimumResults \in Nat
  BY <1>1, DatasetFacts, ScoredIsCounted, AnalysisAssumption
<1>3. /\ analysis.ready = sufficient /\ analysis.stale = Stale(dataset)
      /\ analysis.probabilities = dataset.forecast
      /\ analysis.warnings
           = Warnings(Availability(home, away), home, away, Stale(dataset), sufficient)
  BY DEF Analysis
<1> HIDE DEF home, away, analysis
<1>4. sufficient <=> ~FewResults(dataset)
  BY <1>1, <1>2 DEF FewResults
<1> HIDE DEF sufficient
<1>5. Blocking(analysis.warnings) <=> ~sufficient
  BY <1>3, WhatBlocks
<1> QED BY <1>3, <1>4, <1>5 DEF analysis

-----------------------------------------------------------------------------
(* The half-time markets.                                                    *)

Qualities == 0..850
Confidences == 0..650

LEMMA MaxWithOne ==
  ASSUME NEW a \in Nat, NEW b \in Nat
  PROVE  Max({a, b, 1}) \in Nat \ {0}
<1>1. \E x \in {a, b, 1} : \A y \in {a, b, 1} : x >= y
  OBVIOUS
<1>2. Max({a, b, 1}) \in {a, b, 1} /\ \A y \in {a, b, 1} : Max({a, b, 1}) >= y
  BY <1>1 DEF Max
<1> QED BY <1>2

LEMMA HalfTimeQualityLies ==
  ASSUME NEW home \in Nat, NEW away \in Nat, NEW meetings \in Nat, NEW standings \in Nat,
         NEW goalEvents \in Nat, NEW stale
  PROVE  HalfTimeQuality(home, away, meetings, standings, goalEvents, stale) \in Qualities
<1> DEFINE h == Min({home, RecentWindow})
           a == Min({away, RecentWindow})
           covered == Rounded(450 * (h + a), 2 * RecentWindow)
           s == Min({standings, 2})
           g == Min({goalEvents, 5})
           more == IF meetings >= H2HMinimum THEN 50 ELSE 0
           less == IF stale THEN 200 ELSE 0
<1>1. RecentWindow \in Nat \ {0}
  BY AnalysisAssumption
<1>2. h \in Nat /\ a \in Nat /\ s \in Nat /\ g \in Nat
  BY <1>1, MinOfTwo
<1> HIDE DEF h, a
<1>3. 450 * (h + a) \in Nat /\ 2 * RecentWindow \in Nat \ {0}
  BY <1>1, <1>2
<1>4. covered \in Nat
  BY <1>3, RoundedIsNatural
<1>5. more \in Nat /\ less \in Nat
  OBVIOUS
<1> HIDE DEF covered, s, g, more, less
<1>6. HalfTimeQuality(home, away, meetings, standings, goalEvents, stale)
        = Clamped(250 + covered + 25 * s + 10 * g + more - less, 0, 850)
  BY Zenon DEF HalfTimeQuality, h, a, covered, s, g, more, less
<1>7. 250 + covered + 25 * s + 10 * g + more - less \in Int
  BY <1>2, <1>4, <1>5
<1> DEFINE n == 250 + covered + 25 * s + 10 * g + more - less
<1>8. n \in Int /\ HalfTimeQuality(home, away, meetings, standings, goalEvents, stale)
                    = Clamped(n, 0, 850)
  BY <1>6, <1>7
<1> HIDE DEF n
<1>9. Clamped(n, 0, 850) \in Nat /\ Clamped(n, 0, 850) <= 850
  BY <1>8, ClampedLies
<1> QED BY <1>8, <1>9 DEF Qualities

LEMMA HalfTimeConfidenceLies ==
  ASSUME NEW samples \in Nat, NEW home \in Nat, NEW away \in Nat, NEW meetings \in Nat, NEW stale
  PROVE  HalfTimeConfidence(samples, home, away, meetings, stale) \in Confidences
<1> DEFINE m == Min({home, away})
           n == Max({home, away, 1})
           balance == Rounded(50 * m, n)
           s == Min({samples, 10})
           more == IF meetings >= H2HMinimum THEN 50 ELSE 0
           less == IF stale THEN 150 ELSE 0
<1>1. m \in Nat /\ s \in Nat /\ n \in Nat \ {0}
  BY MinOfTwo, MaxWithOne
<1> HIDE DEF m, n, s
<1>2. balance \in Nat
  BY <1>1, RoundedIsNatural
<1>3. more \in Nat /\ less \in Nat
  OBVIOUS
<1> HIDE DEF balance, more, less
<1>4. HalfTimeConfidence(samples, home, away, meetings, stale)
        = Clamped(300 + 25 * s + balance + more - less, 0, 650)
  BY Zenon DEF HalfTimeConfidence, balance, m, n, s, more, less
<1>5. 300 + 25 * s + balance + more - less \in Int
  BY <1>1, <1>2, <1>3
<1> DEFINE k == 300 + 25 * s + balance + more - less
<1>6. k \in Int /\ HalfTimeConfidence(samples, home, away, meetings, stale) = Clamped(k, 0, 650)
  BY <1>4, <1>5
<1> HIDE DEF k
<1>7. Clamped(k, 0, 650) \in Nat /\ Clamped(k, 0, 650) <= 650
  BY <1>6, ClampedLies
<1> QED BY <1>6, <1>7 DEF Confidences

LEMMA FrequencyFacts ==
  ASSUME NEW market, NEW samples, IsFiniteSet(samples)
  PROVE  /\ Frequency(market, samples)[1] \in Nat \ {0}
         /\ Frequency(market, samples)[2] \in Nat \ {0}
         /\ Frequency(market, samples)[1] < Frequency(market, samples)[2]
<1> DEFINE hits == {s \in samples : Hits(market, s)}
<1>1. IsFiniteSet(hits) /\ Cardinality(hits) \in Nat /\ Cardinality(samples) \in Nat
      /\ Cardinality(hits) <= Cardinality(samples)
  BY FS_Subset, FS_CardinalityType
<1>2. /\ Frequency(market, samples)[1] = Cardinality(hits) + 1
      /\ Frequency(market, samples)[2]
           = Cardinality(samples) + (IF market \in Comparisons THEN 3 ELSE 2)
  BY DEF Frequency
<1> HIDE DEF hits
<1> QED BY <1>1, <1>2

LEMMA RoundedShare ==
  ASSUME NEW n \in Nat, NEW d \in Nat \ {0}, NEW whole \in Nat, n <= whole * d
  PROVE  Rounded(n, d) <= whole
<1> DEFINE q == (2 * n + d) \div (2 * d)
<1>1. 2 * n + d \in Nat /\ 2 * d \in Nat \ {0}
  OBVIOUS
<1>2. q \in Nat
  BY <1>1, Quotient
<1>3. q * (2 * d) <= 2 * n + d
  <2> DEFINE x == 2 * n + d
             y == 2 * d
  <2> HIDE DEF x, y
  <2>1. x \in Nat /\ y \in Nat \ {0}
    BY <1>1 DEF x, y
  <2>2. (x \div y) * y <= x
    BY <2>1
  <2> QED BY <2>2 DEF x, y
<1> HIDE DEF q
<1>4. whole * d \in Nat /\ q * d \in Nat /\ q * (2 * d) = 2 * (q * d)
  BY <1>2
<1>5. 2 * (q * d) <= 2 * (whole * d) + d
  BY <1>3, <1>4
<1>6. ASSUME q >= whole + 1 PROVE FALSE
  <2>1. q * d >= (whole + 1) * d
    BY <1>2, <1>6
  <2>2. (whole + 1) * d = whole * d + d
    OBVIOUS
  <2> DEFINE a == q * d
             b == whole * d
  <2>3. a \in Nat /\ b \in Nat /\ a >= b + d /\ 2 * a <= 2 * b + d
    BY <1>4, <1>5, <2>1, <2>2
  <2> HIDE DEF a, b
  <2> QED BY <2>3
<1> QED BY <1>2, <1>6 DEF Rounded, q

LEMMA EstimateLies ==
  ASSUME NEW market, NEW samples, IsFiniteSet(samples), NEW meetings, IsFiniteSet(meetings)
  PROVE  /\ Estimate(market, samples, meetings) \in Nat
         /\ Estimate(market, samples, meetings) <= 1000000
<1> DEFINE a == Frequency(market, samples)[1]
           b == Frequency(market, samples)[2]
           c == Frequency(market, meetings)[1]
           d == Frequency(market, meetings)[2]
<1>1. a \in Nat \ {0} /\ b \in Nat \ {0} /\ c \in Nat \ {0} /\ d \in Nat \ {0} /\ a < b /\ c < d
  BY FrequencyFacts
<1>2. Estimate(market, samples, meetings)
        = IF Cardinality(meetings) < H2HMinimum THEN Rounded(1000000 * a, b)
          ELSE Rounded(100000 * (9 * a * d + c * b), b * d)
  BY SMT DEF Estimate
<1> HIDE DEF a, b, c, d
<1> DEFINE whole == 1000000
           n == 1000000 * a
<1>3. n \in Nat /\ whole \in Nat /\ n <= whole * b
  BY <1>1, SMT
<1> HIDE DEF whole, n
<1>4. Rounded(n, b) \in Nat /\ Rounded(n, b) <= whole
  BY <1>1, <1>3, RoundedIsNatural, RoundedShare
<1>5. /\ a * d \in Nat /\ c * b \in Nat /\ b * d \in Nat \ {0}
      /\ a * d <= b * d /\ c * b <= b * d /\ 9 * a * d = 9 * (a * d)
  <2>1. a * d \in Nat /\ c * b \in Nat /\ b * d \in Nat
    BY <1>1
  <2>2. b * d # 0
    BY <1>1
  <2>3. a * d <= b * d
    BY <1>1
  <2>4. c * b <= d * b /\ d * b = b * d
    BY <1>1
  <2>5. 9 * a * d = 9 * (a * d)
    BY <1>1
  <2> QED BY <2>1, <2>2, <2>3, <2>4, <2>5
<1> DEFINE x == a * d
           y == c * b
           z == b * d
<1>6. x \in Nat /\ y \in Nat /\ z \in Nat \ {0} /\ x <= z /\ y <= z /\ 9 * a * d = 9 * x
  BY <1>5
<1> HIDE DEF x, y, z
<1> DEFINE k == 100000 * (9 * x + y)
<1>7. k \in Nat /\ k <= whole * z
  BY <1>6, SMT DEF whole
<1> HIDE DEF k
<1>8. Rounded(k, z) \in Nat /\ Rounded(k, z) <= whole
  BY <1>3, <1>6, <1>7, RoundedIsNatural, RoundedShare
<1> DEFINE estimate == Estimate(market, samples, meetings)
<1>9. estimate = IF Cardinality(meetings) < H2HMinimum THEN Rounded(n, b) ELSE Rounded(k, z)
  BY <1>2, <1>6, SMT DEF k, n, y, z
<1> HIDE DEF estimate
<1>10. estimate \in Nat /\ estimate <= whole
  BY <1>4, <1>8, <1>9
<1> QED BY <1>10, SMT DEF whole, estimate

-----------------------------------------------------------------------------
(* What the six markets of a match share.                                    *)

GuardrailsOf(few, old) ==
  IF few THEN {"INSUFFICIENT_HALF_TIME_HISTORY"}
  ELSE IF old THEN {"STALE_SOURCE_DATA"} ELSE {}

Probable(p) == p \in Nat /\ p <= 1000000

Shared(markets, few, old, quality, confidence) ==
  \A m \in HalfTimeMarkets :
    /\ markets[m].market = m
    /\ markets[m].quality = quality
    /\ markets[m].confidence = confidence
    /\ markets[m].insufficient <=> few
    /\ few => markets[m].probability = Unknown
    /\ ~few => Probable(markets[m].probability)
    /\ markets[m].guardrails = GuardrailsOf(few, old)
    /\ markets[m].eligible <=>
         GuardrailsOf(few, old) = {} /\ Strong(markets[m].probability, quality, confidence)

LEMMA MarketsShare ==
  ASSUME NEW dataset, CanBeAnalysed(dataset)
  PROVE  \E quality \in Qualities, confidence \in Confidences :
           Shared(HalfTime(dataset), FewHalves(dataset), StaleSource(dataset), quality, confidence)
<1> DEFINE home == Samples(dataset.home, RecentWindow)
           away == Samples(dataset.away, RecentWindow)
           merged == Merged(home, away)
           meetings == Samples(dataset.h2h, H2HLimit)
           few == Cardinality(home) < MinimumResults \/ Cardinality(away) < MinimumResults
           old == StaleSource(dataset)
           q == HalfTimeQuality(Cardinality(home), Cardinality(away), Cardinality(meetings),
                                Cardinality(dataset.standings), dataset.goal_events, old)
           k == HalfTimeConfidence(Cardinality(merged), Cardinality(home), Cardinality(away),
                                   Cardinality(meetings), old)
           c == IF few THEN 0 ELSE k
           estimate(m) == Estimate(m, merged, meetings)
<1>1. /\ IsFiniteSet(home) /\ IsFiniteSet(away) /\ IsFiniteSet(meetings)
      /\ Cardinality(home) \in Nat /\ Cardinality(away) \in Nat /\ Cardinality(meetings) \in Nat
  BY DatasetFacts, SamplesAreCounted
<1>2. IsFiniteSet(merged) /\ Cardinality(merged) \in Nat
  <2> DEFINE others == {s \in home : ~\E t \in away : t.match = s.match}
  <2>1. IsFiniteSet(others)
    BY <1>1, FS_Subset
  <2>2. merged = away \cup others
    BY DEF Merged
  <2> HIDE DEF others, merged, away, home
  <2> QED BY <1>1, <2>1, <2>2, FS_Union, FS_CardinalityType
<1>3. Cardinality(dataset.standings) \in Nat /\ dataset.goal_events \in Nat
  <2>1. IsFiniteSet({"home"} \cup {"away"})
    BY FS_Singleton, FS_AddElement
  <2>2. dataset.standings \subseteq {"home"} \cup {"away"} /\ dataset.goal_events \in Nat
    BY DatasetFacts
  <2> QED BY <2>1, <2>2, FS_Subset, FS_CardinalityType
<1>4. few = FewHalves(dataset)
  BY DEF FewHalves
<1>5. HalfTime(dataset)
        = [m \in HalfTimeMarkets |->
             IF few THEN HalfTimeMarket(m, Unknown, q, 0, Cardinality(merged),
                                        {"INSUFFICIENT_HALF_TIME_HISTORY"})
             ELSE HalfTimeMarket(m, estimate(m), q, k, Cardinality(merged),
                                 IF old THEN {"STALE_SOURCE_DATA"} ELSE {})]
  BY Zenon DEF HalfTime
<1> HIDE DEF home, away, merged, meetings, few, old
<1>6. q \in Qualities
  <2>1. \A stale : HalfTimeQuality(Cardinality(home), Cardinality(away), Cardinality(meetings),
                                   Cardinality(dataset.standings), dataset.goal_events, stale)
                    \in Qualities
    BY <1>1, <1>3, HalfTimeQualityLies
  <2> QED BY <2>1, Zenon
<1>7. k \in Confidences
  <2>1. \A stale : HalfTimeConfidence(Cardinality(merged), Cardinality(home), Cardinality(away),
                                      Cardinality(meetings), stale) \in Confidences
    BY <1>1, <1>2, HalfTimeConfidenceLies
  <2> QED BY <2>1, Zenon
<1>8. \A m : Probable(estimate(m)) /\ estimate(m) # Unknown
  BY <1>1, <1>2, EstimateLies, SMT DEF Probable, Unknown
<1> HIDE DEF q, k, estimate
<1>9. c \in Confidences
  BY <1>7 DEF Confidences
<1>10. ASSUME NEW m \in HalfTimeMarkets, NEW h, h = HalfTime(dataset)[m]
       PROVE  /\ h.market = m /\ h.quality = q /\ h.confidence = c
              /\ h.insufficient <=> few
              /\ few => h.probability = Unknown
              /\ ~few => Probable(h.probability)
              /\ h.guardrails = GuardrailsOf(few, old)
              /\ h.eligible <=> GuardrailsOf(few, old) = {} /\ Strong(h.probability, q, c)
  <2>1. CASE few
    <3>1. h = HalfTimeMarket(m, Unknown, q, 0, Cardinality(merged),
                             {"INSUFFICIENT_HALF_TIME_HISTORY"})
      BY <1>5, <1>10, <2>1
    <3>2. GuardrailsOf(few, old) = {"INSUFFICIENT_HALF_TIME_HISTORY"} /\ c = 0
      BY <2>1 DEF GuardrailsOf
    <3> HIDE DEF c
    <3>3. /\ h.market = m /\ h.probability = Unknown /\ h.quality = q /\ h.confidence = 0
          /\ h.guardrails = GuardrailsOf(few, old)
          /\ h.insufficient = (Unknown = Unknown)
          /\ h.eligible = (GuardrailsOf(few, old) = {} /\ Strong(Unknown, q, 0))
      BY <3>1, <3>2, Zenon DEF HalfTimeMarket
    <3> QED BY <2>1, <3>2, <3>3, Zenon
  <2>2. CASE ~few
    <3>1. h = HalfTimeMarket(m, estimate(m), q, k, Cardinality(merged),
                             IF old THEN {"STALE_SOURCE_DATA"} ELSE {})
      BY <1>5, <1>10, <2>2
    <3>2. GuardrailsOf(few, old) = (IF old THEN {"STALE_SOURCE_DATA"} ELSE {}) /\ c = k
      BY <2>2 DEF GuardrailsOf
    <3> HIDE DEF c
    <3>3. /\ h.market = m /\ h.probability = estimate(m) /\ h.quality = q /\ h.confidence = k
          /\ h.guardrails = GuardrailsOf(few, old)
          /\ h.insufficient = (estimate(m) = Unknown)
          /\ h.eligible = (GuardrailsOf(few, old) = {} /\ Strong(estimate(m), q, k))
      BY <3>1, <3>2, Zenon DEF HalfTimeMarket
    <3> QED BY <1>8, <2>2, <3>2, <3>3, Zenon
  <2> QED BY <2>1, <2>2
<1> HIDE DEF c
<1>11. Shared(HalfTime(dataset), few, old, q, c)
  BY <1>10, SMT DEF Shared
<1>12. Shared(HalfTime(dataset), FewHalves(dataset), StaleSource(dataset), q, c)
  BY <1>4, <1>11, Zenon DEF old
<1> QED BY <1>6, <1>9, <1>12

-----------------------------------------------------------------------------
(* The candidates of a match.                                                *)

\* The likeliest double chance is one of the three.
LEMMA LikeliestExists ==
  ASSUME NEW p, IsForecast(p)
  PROVE  LET likeliest(i) == \A j \in DOMAIN DoubleChances :
                               p[DoubleChances[j]] <= p[DoubleChances[i]]
         IN  Min({i \in DOMAIN DoubleChances : likeliest(i)}) \in 1..3
<1> DEFINE v(i) == p[DoubleChances[i]]
           S == {i \in 1..3 : \A j \in 1..3 : v(j) <= v(i)}
<1>1. DOMAIN DoubleChances = 1..3
  BY DEF DoubleChances
<1>2. v(1) \in Int /\ v(2) \in Int /\ v(3) \in Int
  <2>1. /\ p.HOME_WIN \in Int /\ p.DRAW \in Int
        /\ p = Probabilities(p.HOME_WIN, p.DRAW, p.OVER_2_5, p.BTTS)
    BY DEF IsForecast
  <2>2. /\ p.HOME_OR_DRAW = p.HOME_WIN + p.DRAW
        /\ p.AWAY_OR_DRAW = (100 - p.HOME_WIN - p.DRAW) + p.DRAW
        /\ p.HOME_OR_AWAY = p.HOME_WIN + (100 - p.HOME_WIN - p.DRAW)
    BY <2>1 DEF Probabilities
  <2>3. v(1) = p.HOME_OR_DRAW /\ v(2) = p.AWAY_OR_DRAW /\ v(3) = p.HOME_OR_AWAY
    BY DEF DoubleChances
  <2> QED BY <2>1, <2>2, <2>3
<1> HIDE DEF v
<1> DEFINE n == 3
           f == [i \in 1..n |-> v(i)]
<1>3. IntegersOn(f, 1..n)
  BY <1>2 DEF IntegersOn
<1>4. {i \in 1..n : \A j \in 1..n : f[j] <= f[i]} = S
  OBVIOUS
<1> HIDE DEF f, S
<1>5. n \in Nat \ {0}
  OBVIOUS
<1> HIDE DEF n
<1>6. Min(S) \in 1..n
  BY <1>3, <1>4, <1>5, BestPosition
<1> QED BY <1>1, <1>6 DEF S, v, n

LEMMA CandidatesAreFounded ==
  ASSUME NEW dataset, CanBeAnalysed(dataset),
         NEW c \in Candidates(Analysis(dataset), HalfTime(dataset))
  PROVE  IF Group(c.market) = "half_time" THEN ~FewHalves(dataset) /\ ~StaleSource(dataset)
         ELSE ~FewResults(dataset) /\ ~Stale(dataset)
<1> DEFINE analysis == Analysis(dataset)
           markets == HalfTime(dataset)
<1>1. PICK quality \in Qualities, confidence \in Confidences :
        Shared(markets, FewHalves(dataset), StaleSource(dataset), quality, confidence)
  BY MarketsShare
<1>2. /\ analysis.ready <=> ~FewResults(dataset) /\ analysis.stale = Stale(dataset)
      /\ IsForecast(analysis.probabilities)
  BY AnalysisFacts, DatasetFacts
<1> HIDE DEF analysis, markets
<1>3. CASE c \in {[market |-> markets[m].market, probability |-> markets[m].probability,
                   quality |-> markets[m].quality, confidence |-> markets[m].confidence] :
                    m \in {n \in HalfTimeMarkets : markets[n].eligible}}
  <2>1. PICK m \in HalfTimeMarkets : markets[m].eligible /\ c.market = markets[m].market
    BY <1>3
  <2>2. c.market = m /\ GuardrailsOf(FewHalves(dataset), StaleSource(dataset)) = {}
    BY <1>1, <2>1 DEF Shared
  <2>3. ~FewHalves(dataset) /\ ~StaleSource(dataset)
    BY <2>2 DEF GuardrailsOf
  <2> QED BY <2>2, <2>3 DEF Group
<1>4. CASE c \in DoubleChance(analysis)
  <2> DEFINE p == analysis.probabilities
             likeliest(i) == \A j \in DOMAIN DoubleChances :
                               p[DoubleChances[j]] <= p[DoubleChances[i]]
             k == Min({i \in DOMAIN DoubleChances : likeliest(i)})
  <2>1. c.market = DoubleChances[k] /\ analysis.ready /\ ~analysis.stale
    BY <1>4 DEF DoubleChance
  <2>2. k \in 1..3
    BY <1>2, LikeliestExists
  <2> HIDE DEF k
  <2>3. c.market \in {"HOME_OR_DRAW", "AWAY_OR_DRAW", "HOME_OR_AWAY"}
    BY <2>1, <2>2 DEF DoubleChances
  <2>4. Group(c.market) = "double_chance"
    BY <2>3 DEF Group, HalfTimeMarkets
  <2> QED BY <1>2, <2>1, <2>4
<1> QED BY <1>3, <1>4 DEF Candidates, analysis, markets

-----------------------------------------------------------------------------
(* Why a match is not selected.                                              *)

Only(name, holds) == IF holds THEN {name} ELSE {}

LEMMA OnlyIf == \A name, other, holds : other \in Only(name, holds) <=> holds /\ other = name
BY DEF Only

LEMMA CausesAre ==
  ASSUME NEW analysis, NEW markets
  PROVE  LET causes == Causes(analysis, markets)
             likely == /\ ~\A m \in HalfTimeMarkets : markets[m].probability = Unknown
                       /\ \A m \in HalfTimeMarkets : markets[m].probability < 700000
         IN  /\ "stale_data" \in causes <=> StaleByEither(analysis, markets)
             /\ "critical_guardrail" \in causes <=> CriticalGuardrail(analysis, markets)
             /\ (\A m \in HalfTimeMarkets : markets[m].quality < 650) => causes # {}
             /\ (\A m \in HalfTimeMarkets : markets[m].confidence < 500) => causes # {}
             /\ likely => causes # {}
<1> DEFINE a == \A m \in HalfTimeMarkets : markets[m].insufficient
           b == StaleByEither(analysis, markets)
           c == \A m \in HalfTimeMarkets : markets[m].quality < 650
           d == \A m \in HalfTimeMarkets : markets[m].confidence < 500
           e == /\ ~\A m \in HalfTimeMarkets : markets[m].probability = Unknown
                /\ \A m \in HalfTimeMarkets : markets[m].probability < 700000
           f == CriticalGuardrail(analysis, markets)
           g == \E n \in Features : ~analysis.availability[n].both
           causes == Causes(analysis, markets)
<1>1. causes = Only("insufficient_half_time_data", a) \cup Only("stale_data", b)
                 \cup Only("low_data_quality", c) \cup Only("low_technical_confidence", d)
                 \cup Only("estimated_probability_below_threshold", e)
                 \cup Only("critical_guardrail", f) \cup Only("provider_data_partial", g)
  BY SMT DEF Causes, Only
<1> HIDE DEF a, b, c, d, e, f, g, causes
<1>2. \A x : x \in causes <=> \/ a /\ x = "insufficient_half_time_data"
                              \/ b /\ x = "stale_data"
                              \/ c /\ x = "low_data_quality"
                              \/ d /\ x = "low_technical_confidence"
                              \/ e /\ x = "estimated_probability_below_threshold"
                              \/ f /\ x = "critical_guardrail"
                              \/ g /\ x = "provider_data_partial"
  BY <1>1, OnlyIf, SMT
<1>3. "stale_data" \in causes <=> b
  BY <1>2, SMT
<1>4. "critical_guardrail" \in causes <=> f
  BY <1>2, SMT
<1>5. (c => causes # {}) /\ (d => causes # {}) /\ (e => causes # {})
  BY <1>2, SMT
<1>6. c => causes # {}
  BY <1>5
<1>7. d => causes # {}
  BY <1>5
<1>8. e => causes # {}
  BY <1>5
<1> QED BY <1>3, <1>4, <1>6, <1>7, <1>8, SMT DEF b, c, d, e, f, causes

LEMMA WhyNotSelected ==
  ASSUME NEW dataset, CanBeAnalysed(dataset),
         Candidates(Analysis(dataset), HalfTime(dataset)) = {},
         ~\A m \in HalfTimeMarkets : HalfTime(dataset)[m].insufficient,
         NEW rejections, rejections = RejectionReasons(Analysis(dataset), HalfTime(dataset))
  PROVE  /\ ~FewHalves(dataset)
         /\ "stale_data" \in rejections \/ "critical_guardrail" \in rejections
              <=> StaleSource(dataset) \/ FewResults(dataset)
<1> DEFINE analysis == Analysis(dataset)
           markets == HalfTime(dataset)
           few == FewHalves(dataset)
           old == StaleSource(dataset)
           causes == Causes(analysis, markets)
<1>1. PICK quality \in Qualities, confidence \in Confidences :
        Shared(markets, few, old, quality, confidence)
  BY MarketsShare
<1>2. /\ Blocking(analysis.warnings) <=> FewResults(dataset)
      /\ analysis.stale = Stale(dataset)
  BY AnalysisFacts
<1>3. Stale(dataset) => old
  <2> DEFINE age == dataset.age
  <2>1. age \in Nat /\ TicksPerMinute \in Nat \ {0} /\ TtlMinutes \in Nat
    BY DatasetFacts, AnalysisAssumption
  <2>2. /\ Stale(dataset) <=> age \div TicksPerMinute > TtlMinutes
        /\ age > TtlMinutes * TicksPerMinute => old
    BY DEF Stale, StaleSource
  <2> HIDE DEF age, old
  <2> QED BY <2>1, <2>2, StaleIsOld
<1>4. rejections = IF causes = {} THEN {"critical_guardrail"} ELSE causes
  BY DEF RejectionReasons
<1>5. ~\A m \in HalfTimeMarkets : markets[m].insufficient
  OBVIOUS
<1>6. \A m \in HalfTimeMarkets : ~markets[m].eligible
  <2>1. Candidates(analysis, markets) = {}
    OBVIOUS
  <2> HIDE DEF analysis, markets
  <2> SUFFICES ASSUME NEW m \in HalfTimeMarkets, markets[m].eligible PROVE FALSE
    OBVIOUS
  <2> DEFINE shown(n) == [market |-> markets[n].market, probability |-> markets[n].probability,
                          quality |-> markets[n].quality, confidence |-> markets[n].confidence]
  <2>2. Candidates(analysis, markets)
          = {shown(n) : n \in {l \in HalfTimeMarkets : markets[l].eligible}}
              \cup DoubleChance(analysis)
    BY DEF Candidates
  <2> HIDE DEF shown
  <2> QED BY <2>1, <2>2
<1> HIDE DEF analysis, markets, few, old, causes
<1>7. /\ "stale_data" \in causes <=> StaleByEither(analysis, markets)
      /\ "critical_guardrail" \in causes <=> CriticalGuardrail(analysis, markets)
  BY CausesAre DEF causes
<1>8. ~few
  BY <1>1, <1>5 DEF Shared
<1>9. \A m \in HalfTimeMarkets : markets[m].guardrails = IF old THEN {"STALE_SOURCE_DATA"} ELSE {}
  BY <1>1, <1>8 DEF Shared, GuardrailsOf
<1>10. "FIRST_HALF_MORE_GOALS" \in HalfTimeMarkets
  BY DEF HalfTimeMarkets
<1>11. StaleByEither(analysis, markets) <=> old
  BY <1>2, <1>3, <1>9, <1>10 DEF StaleByEither
<1>12. CriticalGuardrail(analysis, markets) <=> FewResults(dataset)
  BY <1>2, <1>9 DEF CriticalGuardrail, Blocking
<1>13. ASSUME causes = {} PROVE FALSE
  <2>1. ~old
    BY <1>7, <1>11, <1>13
  <2>2. GuardrailsOf(few, old) = {}
    BY <1>8, <2>1 DEF GuardrailsOf
  <2>3. PICK m \in HalfTimeMarkets : ~(markets[m].quality < 650)
    BY <1>13, CausesAre DEF causes
  <2>4. PICK n \in HalfTimeMarkets : ~(markets[n].confidence < 500)
    BY <1>13, CausesAre DEF causes
  <2>5. quality >= 650 /\ confidence >= 500
    BY <1>1, <2>3, <2>4, SMT DEF Shared, Qualities, Confidences
  <2>6. ASSUME \A l \in HalfTimeMarkets : markets[l].probability = Unknown PROVE FALSE
    BY <1>1, <1>8, <1>10, <2>6, SMT DEF Shared, Probable, Unknown
  <2>7. PICK l \in HalfTimeMarkets : ~(markets[l].probability < 700000)
    BY <1>13, <2>6, CausesAre, SMT DEF causes
  <2>8. Probable(markets[l].probability)
    BY <1>1, <1>8 DEF Shared
  <2>9. Strong(markets[l].probability, quality, confidence)
    BY <2>5, <2>7, <2>8, SMT DEF Strong, Probable
  <2>10. markets[l].eligible
    BY <1>1, <2>2, <2>9, SMT DEF Shared
  <2> QED BY <1>6, <2>10
<1>14. rejections = causes
  BY <1>4, <1>13
<1> QED BY <1>7, <1>8, <1>11, <1>12, <1>14 DEF few, old

-----------------------------------------------------------------------------
(* What is selected.                                                         *)

LEMMA SelectionsAreCandidates ==
  ASSUME NEW dataset
  PROVE  LET o == Opportunity(dataset)
         IN  o.primary \cup o.alternatives
               \subseteq Candidates(Analysis(dataset), HalfTime(dataset))
<1> DEFINE candidates == Candidates(Analysis(dataset), HalfTime(dataset))
<1>1. /\ Opportunity(dataset).primary = Primary(candidates)
      /\ Opportunity(dataset).alternatives = Alternatives(candidates)
  BY DEF Opportunity
<1> HIDE DEF candidates
<1>2. Primary(candidates) \subseteq candidates /\ Alternatives(candidates) \subseteq candidates
  BY DEF Primary, Alternatives
<1> QED BY <1>1, <1>2 DEF candidates

LEMMA SectionIs ==
  ASSUME NEW dataset
  PROVE  LET o == Opportunity(dataset)
             candidates == Candidates(Analysis(dataset), HalfTime(dataset))
             insufficient == \A m \in HalfTimeMarkets : HalfTime(dataset)[m].insufficient
             rejections == RejectionReasons(Analysis(dataset), HalfTime(dataset))
             blocked == "stale_data" \in rejections \/ "critical_guardrail" \in rejections
         IN  o.section \in {"NO_BET", "WATCH"} =>
               /\ candidates = {}
               /\ ~insufficient
               /\ o.section = "NO_BET" <=> blocked
<1> DEFINE candidates == Candidates(Analysis(dataset), HalfTime(dataset))
           insufficient == \A m \in HalfTimeMarkets : HalfTime(dataset)[m].insufficient
           reasons == RejectionReasons(Analysis(dataset), HalfTime(dataset))
           rejections == IF candidates = {} THEN reasons ELSE {}
           blocked == rejections \cap {"stale_data", "critical_guardrail"} # {}
           section == Section((CHOOSE c \in Primary(candidates) : TRUE).market)
           o == Opportunity(dataset)
<1>1. o.section = IF candidates # {} THEN section
                  ELSE IF insufficient THEN "INSUFFICIENT_DATA"
                  ELSE IF blocked THEN "NO_BET" ELSE "WATCH"
  BY DEF Opportunity
<1>2. section \in {"HALF_TIME", "GOAL_MARKETS", "DOUBLE_CHANCE"}
  BY DEF Section
<1> HIDE DEF candidates, insufficient, reasons, section, o
<1>3. candidates = {} => (blocked <=> "stale_data" \in reasons \/ "critical_guardrail" \in reasons)
  OBVIOUS
<1> HIDE DEF blocked
<1>4. o.section \in {"NO_BET", "WATCH"} =>
        /\ candidates = {}
        /\ ~insufficient
        /\ o.section = "NO_BET" <=> "stale_data" \in reasons \/ "critical_guardrail" \in reasons
  BY <1>1, <1>2, <1>3
<1> QED BY <1>4, Zenon DEF candidates, insufficient, reasons, o

\* What SelectionsAreFounded says of an answer o about a dataset.
Founded(o, dataset) ==
  /\ \A c \in o.primary \cup o.alternatives :
       IF Group(c.market) = "half_time" THEN ~FewHalves(dataset) /\ ~StaleSource(dataset)
       ELSE ~FewResults(dataset) /\ ~Stale(dataset)
  /\ o.section = "NO_BET" => StaleSource(dataset) \/ FewResults(dataset)
  /\ o.section = "WATCH" =>
       ~StaleSource(dataset) /\ ~FewResults(dataset) /\ ~FewHalves(dataset)

LEMMA OpportunityIsFounded ==
  ASSUME NEW dataset, CanBeAnalysed(dataset)
  PROVE  Founded(Opportunity(dataset), dataset)
<1> DEFINE o == Opportunity(dataset)
           rejections == RejectionReasons(Analysis(dataset), HalfTime(dataset))
<1>1. o.primary \cup o.alternatives \subseteq Candidates(Analysis(dataset), HalfTime(dataset))
  BY SelectionsAreCandidates
<1>2. ASSUME o.section \in {"NO_BET", "WATCH"}
      PROVE  /\ ~FewHalves(dataset)
             /\ o.section = "NO_BET" <=> StaleSource(dataset) \/ FewResults(dataset)
  <2>1. /\ Candidates(Analysis(dataset), HalfTime(dataset)) = {}
        /\ ~\A m \in HalfTimeMarkets : HalfTime(dataset)[m].insufficient
        /\ o.section = "NO_BET"
             <=> "stale_data" \in rejections \/ "critical_guardrail" \in rejections
    BY <1>2, SectionIs, SMT
  <2> HIDE DEF o, rejections
  <2>2. /\ ~FewHalves(dataset)
        /\ "stale_data" \in rejections \/ "critical_guardrail" \in rejections
             <=> StaleSource(dataset) \/ FewResults(dataset)
    BY <2>1, WhyNotSelected DEF rejections
  <2> QED BY <2>1, <2>2
<1> HIDE DEF o
<1>3. \A c \in o.primary \cup o.alternatives :
        IF Group(c.market) = "half_time" THEN ~FewHalves(dataset) /\ ~StaleSource(dataset)
        ELSE ~FewResults(dataset) /\ ~Stale(dataset)
  BY <1>1, CandidatesAreFounded
<1> QED BY <1>2, <1>3 DEF Founded, o

\* SelectionsAreFounded, item by item.
LEMMA FoundedItems ==
  ASSUME \A i \in Listed("opportunities") : Founded(i.answer, answer.day[i.match])
  PROVE  SelectionsAreFounded
BY Zenon DEF SelectionsAreFounded, Founded, FewResults, FewHalves

\* The items of a day are the opportunities of its matches that can be analysed.
ItemsAreOpportunities ==
  \A i \in Listed("opportunities") :
    /\ CanBeAnalysed(answer.day[i.match])
    /\ i.answer = Opportunity(answer.day[i.match])

LEMMA DayItems ==
  ASSUME ListOpportunities
  PROVE  ItemsAreOpportunities'
<1>1. PICK day \in Days :
        LET items == {[match |-> m, answer |-> Opportunity(day[m])] : m \in Safe(day)}
            list == DailyOpportunities(items, Skipped(day))
        IN  answer' = [kind |-> "opportunities",
                       status |-> StatusOf(DailyOpportunitiesContract(list)),
                       day |-> day, list |-> list]
  BY DEF ListOpportunities
<1> DEFINE items == {[match |-> m, answer |-> Opportunity(day[m])] : m \in Safe(day)}
           list == DailyOpportunities(items, Skipped(day))
<1>2. answer'.kind = "opportunities" /\ answer'.day = day /\ answer'.list = list
  <2> HIDE DEF list
  <2>1. answer' = [kind |-> "opportunities",
                   status |-> StatusOf(DailyOpportunitiesContract(list)),
                   day |-> day, list |-> list]
    BY <1>1 DEF list
  <2> QED BY <2>1
<1>3. list.items = items
  <2> HIDE DEF items
  <2> QED BY DEF DailyOpportunities
<1>4. \A m \in Safe(day) : CanBeAnalysed(day[m])
  BY SafeCanBeAnalysed
<1>5. Listed("opportunities")' = items
  BY <1>2, <1>3 DEF Listed
<1>6. ASSUME NEW i \in items
      PROVE  CanBeAnalysed(day[i.match]) /\ i.answer = Opportunity(day[i.match])
  <2>1. PICK m \in Safe(day) : i = [match |-> m, answer |-> Opportunity(day[m])]
    BY <1>6
  <2>2. i.match = m /\ i.answer = Opportunity(day[m])
    BY <2>1
  <2> QED BY <1>4, <2>2
<1> QED BY <1>2, <1>5, <1>6 DEF ItemsAreOpportunities

\* Whatever is selected among the opportunities of a day rests on enough matches of both
\* teams and on data that is fresh by the clock of its market; a match that is barred is
\* barred by stale data or too few results, and a watched one by neither
\* (KairosOpportunityService.analyze, _daily_opportunities_for_date).
THEOREM SelectionsRestOnData == Spec => []SelectionsAreFounded
<1>1. Init => ItemsAreOpportunities
  BY DEF Init, Nothing, ItemsAreOpportunities, Listed
<1>2. ItemsAreOpportunities /\ [Next]_answer => ItemsAreOpportunities'
  <2> SUFFICES ASSUME ItemsAreOpportunities, [Next]_answer PROVE ItemsAreOpportunities'
    OBVIOUS
  <2>1. CASE AnalyseMatch
    <3>1. answer'.kind = "analysis"
      BY <2>1 DEF AnalyseMatch
    <3> QED BY <3>1 DEF ItemsAreOpportunities, Listed
  <2>2. CASE ListSuggestions
    <3>1. answer'.kind = "suggestions"
      BY <2>2 DEF ListSuggestions
    <3> QED BY <3>1 DEF ItemsAreOpportunities, Listed
  <2>3. CASE ListOpportunities
    BY <2>3, DayItems
  <2>4. CASE UNCHANGED answer
    BY <2>4 DEF ItemsAreOpportunities, Listed
  <2> QED BY <2>1, <2>2, <2>3, <2>4 DEF Next
<1>3. ItemsAreOpportunities => SelectionsAreFounded
  <2> SUFFICES ASSUME ItemsAreOpportunities PROVE SelectionsAreFounded
    OBVIOUS
  <2>1. \A i \in Listed("opportunities") : Founded(i.answer, answer.day[i.match])
    BY OpportunityIsFounded DEF ItemsAreOpportunities
  <2> QED BY <2>1, FoundedItems
<1> QED BY <1>1, <1>2, <1>3, PTL DEF Spec

-----------------------------------------------------------------------------
(* The reasons of a suggestion.                                              *)

Told ==
  [code : {"none", "NORMALIZED_MARKET_SIGNAL", "DATA_QUALITY_LIMIT",
           "TECHNICAL_RELIABILITY_LIMIT", "NO_BET_HARD_BLOCK", "NO_BET_SCORE_GATE",
           "GOAL_RATE_BASELINE", "SIGNAL", "RESULT_SAMPLE_BELOW_MINIMUM"}
            \cup {"UNCALIBRATED_BASELINE", "ANALYSIS_ONLY_NO_BETTING",
                  "LIVE_AUTOMATION_DISABLED", "SINGLE_PROVIDER",
                  "DRIFT_MONITORING_UNAVAILABLE", "PARTIAL", "SMALL_RECENT_SAMPLE",
                  "STALE_TARGET_DATA", "INSUFFICIENT_RESULT_HISTORY"},
   critical : BOOLEAN]
Urgent == {r \in Told : r.critical}
Calm == {r \in Told : ~r.critical}

HardBlock == Reason("NO_BET_HARD_BLOCK", TRUE)
ScoreGate == Reason("NO_BET_SCORE_GATE", TRUE)
FewReason == Reason("INSUFFICIENT_RESULT_HISTORY", TRUE)
StaleReason == Reason("STALE_TARGET_DATA", TRUE)
Gates == {HardBlock, ScoreGate}

LEMMA ToldReasons ==
  /\ {HardBlock, ScoreGate, FewReason, StaleReason} \subseteq Urgent
  /\ NoReason \in Calm
  /\ Reason("NORMALIZED_MARKET_SIGNAL", FALSE) \in Calm
  /\ Reason("DATA_QUALITY_LIMIT", FALSE) \in Calm
  /\ Reason("TECHNICAL_RELIABILITY_LIMIT", FALSE) \in Calm
  /\ \A code \in {"GOAL_RATE_BASELINE", "SIGNAL", "RESULT_SAMPLE_BELOW_MINIMUM"} :
       Reason(code, FALSE) \in Calm
  /\ Urgent \subseteq Told /\ Calm \subseteq Told /\ Urgent \cap Calm = {}
BY DEF Urgent, Calm, Told, Reason, HardBlock, ScoreGate, FewReason, StaleReason, NoReason

LEMMA DifferentReasons ==
  /\ HardBlock # ScoreGate /\ HardBlock # FewReason /\ HardBlock # StaleReason
  /\ ScoreGate # FewReason /\ ScoreGate # StaleReason /\ FewReason # StaleReason
BY DEF Reason, HardBlock, ScoreGate, FewReason, StaleReason

\* What a warning says as a reason.
LEMMA ReasonsOfWarnings ==
  /\ \A w \in Warned : ReasonOf(w) \in Told /\ ReasonOf(w) \notin Gates
  /\ \A w \in Harmless : ReasonOf(w) \in Calm
  /\ ReasonOf(StaleWarning) = StaleReason
  /\ ReasonOf(FewWarning) = FewReason
<1>1. ASSUME NEW w \in Warned
      PROVE  ReasonOf(w) \in Told /\ ReasonOf(w) \notin Gates
  BY DEF Warned, ReasonOf, Told, Reason, NoReason, Critical, Gates, HardBlock, ScoreGate
<1>2. ASSUME NEW w \in Harmless
      PROVE  ReasonOf(w) \in Calm
  <2>1. w \in Warned /\ ~Critical(w)
    BY DEF Harmless, Critical
  <2>2. ReasonOf(w) \in Told
    BY <1>1, <2>1
  <2> QED BY <2>1, <2>2 DEF ReasonOf, Calm, Reason, NoReason
<1>3. ReasonOf(StaleWarning) = StaleReason /\ ReasonOf(FewWarning) = FewReason
  BY DEF ReasonOf, StaleWarning, FewWarning, StaleReason, FewReason, Warning, Reason, Critical
<1> QED BY <1>1, <1>2, <1>3

\* Warnings, as reasons.
LEMMA WarningsAsReasons ==
  ASSUME NEW availability, NEW home, NEW away, NEW stale, NEW sufficient, NEW P, P \subseteq Urgent
  PROVE  LET warnings == Warnings(availability, home, away, stale, sufficient)
             told == [i \in DOMAIN warnings |-> ReasonOf(warnings[i])]
         IN  /\ told \in Seq(Told)
             /\ Times(told, P) = Once(stale /\ StaleReason \in P)
                                   + Once(~sufficient /\ FewReason \in P)
<1> DEFINE warnings == Warnings(availability, home, away, stale, sufficient)
           told == [i \in DOMAIN warnings |-> ReasonOf(warnings[i])]
           Q == {w \in Warned : ReasonOf(w) \in P}
<1>1. Q \cap Harmless = {}
  BY ToldReasons, ReasonsOfWarnings
<1>2. (StaleWarning \in Q <=> StaleReason \in P) /\ (FewWarning \in Q <=> FewReason \in P)
  BY ToldWarnings, ReasonsOfWarnings
<1> HIDE DEF Q, warnings
<1>3. /\ warnings \in Seq(Warned)
      /\ Times(warnings, Q) = Once(stale /\ StaleWarning \in Q)
                                + Once(~sufficient /\ FewWarning \in Q)
  BY <1>1, WhatWarns DEF warnings
<1>4. told \in Seq(Told)
  BY <1>3, ReasonsOfWarnings
<1>5. Marks(told, P) = Marks(warnings, Q)
  BY <1>3 DEF Marks, Q
<1>6. Times(told, P) = Once(stale /\ StaleReason \in P) + Once(~sufficient /\ FewReason \in P)
  BY <1>2, <1>3, <1>5 DEF Times, Once
<1> QED BY <1>4, <1>6 DEF warnings

\* A reason is kept when fewer than twelve others come before it.
KeptBefore(all, j, i) == \/ all[j].critical /\ ~all[i].critical
                         \/ all[j].critical = all[i].critical /\ j < i

LEMMA WhatIsKept ==
  ASSUME NEW all
  PROVE  LET told == {i \in DOMAIN all : all[i] # NoReason}
             kept == {i \in told : Cardinality({j \in told : KeptBefore(all, j, i)}) < 12}
         IN  KeptReasons(all) = [i \in kept |-> all[i]]
<1> DEFINE told == {i \in DOMAIN all : all[i] # NoReason}
           before == [i \in DOMAIN all |-> {j \in DOMAIN all : KeptBefore(all, j, i)}]
           kept == {i \in told : Cardinality({j \in told : KeptBefore(all, j, i)}) < 12}
           first == {i \in told : Cardinality(told \cap before[i]) < 12}
<1>1. KeptReasons(all) = Foremost(all, before)
  BY DEF KeptReasons, KeptBefore
<1>2. Foremost(all, before) = [i \in first |-> all[i]]
  <2> HIDE DEF before
  <2> QED BY DEF Foremost
<1>3. ASSUME NEW i \in told PROVE told \cap before[i] = {j \in told : KeptBefore(all, j, i)}
  OBVIOUS
<1>4. first = kept
  <2> HIDE DEF told, before
  <2> QED BY <1>3
<1> HIDE DEF first, kept, before
<1>5. KeptReasons(all) = [i \in kept |-> all[i]]
  BY <1>1, <1>2, <1>4
<1> QED BY <1>5 DEF kept

\* What is kept is among what was found, and what is critical is kept if there is room.
LEMMA KeptAreFound ==
  ASSUME NEW all \in Seq(Told), Times(all, Urgent) <= 12, NEW r \in Urgent
  PROVE  (\E i \in DOMAIN KeptReasons(all) : KeptReasons(all)[i] = r) <=> Times(all, {r}) # 0
<1> DEFINE told == {i \in DOMAIN all : all[i] # NoReason}
           ahead(i) == {j \in told : KeptBefore(all, j, i)}
           kept == {i \in told : Cardinality(ahead(i)) < 12}
<1>1. KeptReasons(all) = [i \in kept |-> all[i]]
  BY WhatIsKept
<1>2. (\E i \in DOMAIN KeptReasons(all) : KeptReasons(all)[i] = r) <=> \E i \in kept : all[i] = r
  <2> HIDE DEF kept
  <2> QED BY <1>1
<1>3. Times(all, {r}) # 0 <=> \E i \in DOMAIN all : all[i] = r
  BY SometimesThere
<1>4. ASSUME NEW i \in DOMAIN all, all[i] = r PROVE i \in kept
  <2>1. i \in told
    BY <1>4, ToldReasons
  <2>2. DOMAIN all = 1..Len(all) /\ Len(all) \in Nat
    OBVIOUS
  <2>3. \A j \in DOMAIN all : all[j] \in Told
    OBVIOUS
  <2>4. i \in Marks(all, Urgent)
    BY <1>4 DEF Marks
  <2>5. ahead(i) \subseteq Marks(all, Urgent) \ {i}
    BY <1>4, <2>2, <2>3 DEF Marks, Urgent, KeptBefore
  <2> HIDE DEF ahead
  <2>6. IsFiniteSet(Marks(all, Urgent)) /\ Times(all, Urgent) \in Nat
    BY MarksAreFinite
  <2>7. /\ IsFiniteSet(Marks(all, Urgent) \ {i})
        /\ Cardinality(Marks(all, Urgent) \ {i}) = Times(all, Urgent) - 1
    BY <2>4, <2>6, OneLess, FS_Subset DEF Times
  <2>8. Cardinality(ahead(i)) \in Nat
        /\ Cardinality(ahead(i)) <= Cardinality(Marks(all, Urgent) \ {i})
    BY <2>5, <2>7, FS_Subset, FS_CardinalityType
  <2>9. Cardinality(ahead(i)) < 12
    BY <2>6, <2>7, <2>8
  <2> QED BY <2>1, <2>9
<1>5. kept \subseteq DOMAIN all
  OBVIOUS
<1> HIDE DEF kept
<1> QED BY <1>2, <1>3, <1>4, <1>5

SignalCodes == {"GOAL_RATE_BASELINE", "SIGNAL", "RESULT_SAMPLE_BELOW_MINIMUM"}

LEMMA ReasonsAreSignals ==
  ASSUME NEW availability, NEW sufficient
  PROVE  Reasons(availability, sufficient) \in Seq(SignalCodes)
<1> DEFINE n == Cardinality({f \in Signals : availability[f].both})
           signals == [i \in 1..n |-> "SIGNAL"]
<1>1. Signals \subseteq Features
  BY DEF Signals, Features, FeatureWeight
<1>2. n \in Nat
  <2> HIDE DEF n
  <2>1. {f \in Signals : availability[f].both} \subseteq Features
    BY <1>1
  <2> QED BY <2>1, FeaturesAreFinite, FS_Subset, FS_CardinalityType DEF n
<1>3. Reasons(availability, sufficient)
        = IF sufficient THEN <<"GOAL_RATE_BASELINE">> \o signals
          ELSE <<"RESULT_SAMPLE_BELOW_MINIMUM">>
  BY DEF Reasons
<1> HIDE DEF n
<1>4. signals \in Seq(SignalCodes)
  BY <1>2 DEF SignalCodes
<1>5. /\ <<"GOAL_RATE_BASELINE">> \in Seq(SignalCodes)
      /\ <<"RESULT_SAMPLE_BELOW_MINIMUM">> \in Seq(SignalCodes)
  BY DEF SignalCodes
<1> HIDE DEF signals
<1> QED BY <1>3, <1>4, <1>5

\* How often what is critical is found.
Counted(all, blocked, noBet, stale, sufficient) ==
  \A P \in SUBSET Urgent :
    Times(all, P) = Once(blocked /\ HardBlock \in P)
                      + Once(~blocked /\ noBet /\ ScoreGate \in P)
                      + Once(stale /\ StaleReason \in P)
                      + Once(~sufficient /\ FewReason \in P)

CutFrom(kept, blocked, noBet, stale, sufficient) ==
  \E all \in Seq(Told) :
    kept = KeptReasons(all) /\ Counted(all, blocked, noBet, stale, sufficient)

\* All that is found, before it is cut off.
LEMMA WhatIsFound ==
  ASSUME NEW ready, NEW blocked, NEW noBet, NEW reasons \in Seq(SignalCodes),
         NEW availability, NEW home, NEW away, NEW stale, NEW sufficient
  PROVE  CutFrom(SuggestionReasons(ready, blocked, noBet, reasons,
                                   Warnings(availability, home, away, stale, sufficient)),
                 blocked, noBet, stale, sufficient)
<1> DEFINE warnings == Warnings(availability, home, away, stale, sufficient)
           gate == IF blocked THEN <<Reason("NO_BET_HARD_BLOCK", TRUE)>>
                   ELSE IF noBet THEN <<Reason("NO_BET_SCORE_GATE", TRUE)>> ELSE <<>>
           first == SubSeq(reasons, 1, Min({5, Len(reasons)}))
           market == IF ready THEN <<Reason("NORMALIZED_MARKET_SIGNAL", FALSE)>> ELSE <<>>
           limits == <<Reason("DATA_QUALITY_LIMIT", FALSE),
                       Reason("TECHNICAL_RELIABILITY_LIMIT", FALSE)>>
           signals == [i \in DOMAIN first |-> Reason(first[i], FALSE)]
           warned == [i \in DOMAIN warnings |-> ReasonOf(warnings[i])]
           a == market \o limits
           b == a \o gate
           c == b \o signals
           all == c \o warned
<1>1. SuggestionReasons(ready, blocked, noBet, reasons, warnings) = KeptReasons(all)
  <2> HIDE DEF warnings
  <2> QED BY DEF SuggestionReasons
<1>2. \A s : s \in Seq(Calm) => s \in Seq(Told) /\ \A P \in SUBSET Urgent : Times(s, P) = 0
  <2> TAKE s
  <2> HAVE s \in Seq(Calm)
  <2>1. s \in Seq(Told) /\ \A i \in DOMAIN s : s[i] \in Calm
    BY ToldReasons
  <2> QED BY <2>1, ToldReasons, NeverThere
<1>3. market \in Seq(Calm)
  <2> DEFINE r == Reason("NORMALIZED_MARKET_SIGNAL", FALSE)
  <2>1. r \in Calm
    BY ToldReasons
  <2> HIDE DEF r
  <2>2. <<r>> \in Seq(Calm) /\ <<>> \in Seq(Calm)
    BY <2>1
  <2> QED BY <2>2 DEF r
<1>4. limits \in Seq(Calm)
  <2> DEFINE r == Reason("DATA_QUALITY_LIMIT", FALSE)
             q == Reason("TECHNICAL_RELIABILITY_LIMIT", FALSE)
  <2>1. r \in Calm /\ q \in Calm
    BY ToldReasons
  <2> HIDE DEF r, q
  <2>2. <<r, q>> \in Seq(Calm)
    BY <2>1
  <2> QED BY <2>2 DEF r, q
<1>5. signals \in Seq(Calm)
  <2>1. Len(reasons) \in Nat /\ 5 \in Nat
    OBVIOUS
  <2> DEFINE n == Min({5, Len(reasons)})
  <2>2. n \in Nat /\ n <= Len(reasons)
    BY <2>1, MinOfTwo
  <2> HIDE DEF n
  <2>3. SubSeq(reasons, 1, n) \in Seq(SignalCodes)
    BY <2>2
  <2>4. first \in Seq(SignalCodes)
    BY <2>3 DEF n
  <2> HIDE DEF first
  <2>5. DOMAIN first = 1..Len(first) /\ Len(first) \in Nat
        /\ \A i \in DOMAIN first : first[i] \in SignalCodes
    BY <2>4
  <2>6. \A i \in DOMAIN first : Reason(first[i], FALSE) \in Calm
    BY <2>5, ToldReasons DEF SignalCodes
  <2> DEFINE reason == [i \in DOMAIN first |-> Reason(first[i], FALSE)]
  <2>7. DOMAIN reason = 1..Len(first) /\ \A i \in DOMAIN first : reason[i] = Reason(first[i], FALSE)
    BY <2>5
  <2>8. reason = [i \in 1..Len(first) |-> reason[i]]
    BY <2>7
  <2>9. \A i \in 1..Len(first) : reason[i] \in Calm
    BY <2>5, <2>6, <2>7
  <2> HIDE DEF reason
  <2>10. reason \in Seq(Calm)
    BY <2>5, <2>8, <2>9
  <2> QED BY <2>10 DEF reason, first
<1>6. /\ gate \in Seq(Told)
      /\ \A P \in SUBSET Urgent :
           Times(gate, P) = Once(blocked /\ HardBlock \in P)
                              + Once(~blocked /\ noBet /\ ScoreGate \in P)
  <2>0. HardBlock \in Told /\ ScoreGate \in Told
    BY ToldReasons
  <2>1. CASE blocked
    <3>1. gate = <<HardBlock>>
      BY <2>1 DEF HardBlock
    <3> HIDE DEF gate
    <3> QED BY <2>0, <2>1, <3>1, TimesOfOne DEF Once
  <2>2. CASE ~blocked /\ noBet
    <3>1. gate = <<ScoreGate>>
      BY <2>2 DEF ScoreGate
    <3> HIDE DEF gate
    <3> QED BY <2>0, <2>2, <3>1, TimesOfOne DEF Once
  <2>3. CASE ~blocked /\ ~noBet
    <3>1. gate = <<>>
      BY <2>3
    <3> HIDE DEF gate
    <3> QED BY <2>3, <3>1, TimesOfNone DEF Once
  <2> QED BY <2>1, <2>2, <2>3
<1>7. /\ warned \in Seq(Told)
      /\ \A P \in SUBSET Urgent :
           Times(warned, P) = Once(stale /\ StaleReason \in P)
                                + Once(~sufficient /\ FewReason \in P)
  <2> HIDE DEF warned
  <2>1. ASSUME NEW P \in SUBSET Urgent
        PROVE  /\ warned \in Seq(Told)
               /\ Times(warned, P) = Once(stale /\ StaleReason \in P)
                                       + Once(~sufficient /\ FewReason \in P)
    BY WarningsAsReasons DEF warned
  <2> QED BY <2>1
<1> HIDE DEF gate, market, limits, signals, warned
<1>8. a \in Seq(Told) /\ \A P \in SUBSET Urgent : Times(a, P) = 0
  BY <1>2, <1>3, <1>4, TimesOfBoth
<1> HIDE DEF a
<1>9. b \in Seq(Told) /\ \A P \in SUBSET Urgent : Times(b, P) = Times(gate, P)
  <2>1. \A P : Times(gate, P) \in Nat
    BY <1>6, MarksAreFinite
  <2> QED BY <1>6, <1>8, <2>1, TimesOfBoth
<1> HIDE DEF b
<1>10. c \in Seq(Told) /\ \A P \in SUBSET Urgent : Times(c, P) = Times(gate, P)
  <2>1. \A P : Times(gate, P) \in Nat
    BY <1>6, MarksAreFinite
  <2> QED BY <1>2, <1>5, <1>9, <2>1, TimesOfBoth
<1> HIDE DEF c
<1>11. all \in Seq(Told) /\ \A P \in SUBSET Urgent : Times(all, P) = Times(c, P) + Times(warned, P)
  BY <1>7, <1>10, TimesOfBoth
<1> HIDE DEF all
<1>12. Counted(all, blocked, noBet, stale, sufficient)
  <2> SUFFICES ASSUME NEW P \in SUBSET Urgent
               PROVE  Times(all, P) = Once(blocked /\ HardBlock \in P)
                                        + Once(~blocked /\ noBet /\ ScoreGate \in P)
                                        + Once(stale /\ StaleReason \in P)
                                        + Once(~sufficient /\ FewReason \in P)
    BY DEF Counted
  <2>1. Times(all, P) = Times(gate, P) + Times(warned, P)
    BY <1>10, <1>11
  <2> QED BY <1>6, <1>7, <2>1 DEF Once
<1> QED BY <1>1, <1>11, <1>12 DEF CutFrom, warnings

Says(reasons, r) == \E i \in DOMAIN reasons : reasons[i] = r

\* What is kept says so if it is blocked and by what, or why else nothing is suggested.
LEMMA WhatIsSaid ==
  ASSUME NEW ready, NEW blocked, NEW noBet, NEW reasons \in Seq(SignalCodes),
         NEW availability, NEW home, NEW away, NEW stale, NEW sufficient
  PROVE  LET kept == SuggestionReasons(ready, blocked, noBet, reasons,
                                       Warnings(availability, home, away, stale, sufficient))
         IN  /\ Says(kept, HardBlock) <=> blocked
             /\ Says(kept, ScoreGate) <=> ~blocked /\ noBet
             /\ Says(kept, StaleReason) <=> stale
             /\ Says(kept, FewReason) <=> ~sufficient
<1> DEFINE kept == SuggestionReasons(ready, blocked, noBet, reasons,
                                     Warnings(availability, home, away, stale, sufficient))
<1>1. PICK all \in Seq(Told) :
        /\ kept = KeptReasons(all)
        /\ Counted(all, blocked, noBet, stale, sufficient)
  <2>1. CutFrom(kept, blocked, noBet, stale, sufficient)
    BY WhatIsFound
  <2> QED BY <2>1 DEF CutFrom
<1> HIDE DEF kept
<1>2. Times(all, Urgent) <= 12
  <2>1. Times(all, Urgent) = Once(blocked /\ HardBlock \in Urgent)
                               + Once(~blocked /\ noBet /\ ScoreGate \in Urgent)
                               + Once(stale /\ StaleReason \in Urgent)
                               + Once(~sufficient /\ FewReason \in Urgent)
    BY <1>1 DEF Counted
  <2> QED BY <2>1 DEF Once
<1>3. \A r \in Urgent : Says(kept, r) <=> Times(all, {r}) # 0
  BY <1>1, <1>2, KeptAreFound DEF Says
<1>4. \A r \in Urgent :
        Times(all, {r}) = Once(blocked /\ HardBlock = r) + Once(~blocked /\ noBet /\ ScoreGate = r)
                            + Once(stale /\ StaleReason = r) + Once(~sufficient /\ FewReason = r)
  <2> TAKE r \in Urgent
  <2>1. {r} \in SUBSET Urgent
    OBVIOUS
  <2>2. Times(all, {r}) = Once(blocked /\ HardBlock \in {r})
                            + Once(~blocked /\ noBet /\ ScoreGate \in {r})
                            + Once(stale /\ StaleReason \in {r})
                            + Once(~sufficient /\ FewReason \in {r})
    BY <1>1, <2>1 DEF Counted
  <2> QED BY <2>2 DEF Once
<1>5. HardBlock \in Urgent /\ ScoreGate \in Urgent /\ FewReason \in Urgent /\ StaleReason \in Urgent
  BY ToldReasons
<1>6. Says(kept, HardBlock) <=> blocked
  <2>1. Says(kept, HardBlock) <=> Times(all, {HardBlock}) # 0
    BY <1>3, <1>5
  <2>2. Times(all, {HardBlock}) = Once(blocked)
    BY <1>4, <1>5, DifferentReasons DEF Once
  <2> QED BY <2>1, <2>2 DEF Once
<1>7. Says(kept, ScoreGate) <=> ~blocked /\ noBet
  <2>1. Says(kept, ScoreGate) <=> Times(all, {ScoreGate}) # 0
    BY <1>3, <1>5
  <2>2. Times(all, {ScoreGate}) = Once(~blocked /\ noBet)
    BY <1>4, <1>5, DifferentReasons DEF Once
  <2> QED BY <2>1, <2>2 DEF Once
<1>8. Says(kept, StaleReason) <=> stale
  <2>1. Says(kept, StaleReason) <=> Times(all, {StaleReason}) # 0
    BY <1>3, <1>5
  <2>2. Times(all, {StaleReason}) = Once(stale)
    BY <1>4, <1>5, DifferentReasons DEF Once
  <2> QED BY <2>1, <2>2 DEF Once
<1>9. Says(kept, FewReason) <=> ~sufficient
  <2>1. Says(kept, FewReason) <=> Times(all, {FewReason}) # 0
    BY <1>3, <1>5
  <2>2. Times(all, {FewReason}) = Once(~sufficient)
    BY <1>4, <1>5, DifferentReasons DEF Once
  <2> QED BY <2>1, <2>2 DEF Once
<1> QED BY <1>6, <1>7, <1>8, <1>9 DEF kept

-----------------------------------------------------------------------------
(* What a suggestion says of its dataset.                                     *)

\* Stale data and too few results are what is critical among the warnings.
Alarming(warnings) == \E i \in DOMAIN warnings : Critical(warnings[i])

LEMMA WhatIsCritical ==
  ASSUME NEW availability, NEW home, NEW away, NEW stale, NEW sufficient
  PROVE  Alarming(Warnings(availability, home, away, stale, sufficient)) <=> stale \/ ~sufficient
<1> DEFINE P == {w \in Warned : Critical(w)}
           warnings == Warnings(availability, home, away, stale, sufficient)
<1>1. P \cap Harmless = {} /\ StaleWarning \in P /\ FewWarning \in P
  BY ToldWarnings DEF Harmless, StaleWarning, FewWarning, Warning, Critical
<1> HIDE DEF P, warnings
<1>2. /\ warnings \in Seq(Warned)
      /\ Times(warnings, P) = Once(stale /\ StaleWarning \in P)
                                + Once(~sufficient /\ FewWarning \in P)
  BY <1>1, WhatWarns DEF warnings
<1>3. Times(warnings, P) # 0 <=> stale \/ ~sufficient
  BY <1>1, <1>2 DEF Once
<1>4. Times(warnings, P) # 0 <=> \E i \in DOMAIN warnings : warnings[i] \in P
  BY <1>2, SometimesThere
<1>5. \A i \in DOMAIN warnings : warnings[i] \in P <=> Critical(warnings[i])
  BY <1>2 DEF P
<1> QED BY <1>3, <1>4, <1>5 DEF Alarming, warnings

\* A suggestion is refused by what is critical or by its score.
Refuses(s, stale, sufficient) ==
  /\ s.no_bet <=> Says(s.reasons, HardBlock) \/ Says(s.reasons, ScoreGate)
  /\ Says(s.reasons, HardBlock) <=> stale \/ ~sufficient
  /\ Says(s.reasons, StaleReason) <=> stale
  /\ Says(s.reasons, FewReason) <=> ~sufficient

LEMMA WhatRefuses ==
  ASSUME NEW p, NEW confidence, NEW quality, NEW reasons \in Seq(SignalCodes),
         NEW availability, NEW home, NEW away, NEW stale, NEW sufficient
  PROVE  Refuses(Suggestion(sufficient, p, confidence, quality, stale, reasons,
                            Warnings(availability, home, away, stale, sufficient)),
                 stale, sufficient)
<1> DEFINE warnings == Warnings(availability, home, away, stale, sufficient)
           strength == IF sufficient THEN SignalStrength(p)[BestCandidate(p)] ELSE 0
           reliability == Clamped(Rounded(1000 * confidence, 650), 0, 1000)
           score == Min({quality, reliability, strength})
           blocked == ~sufficient \/ stale \/ Alarming(warnings)
           noBet == blocked \/ strength = 0 \/ score < 400
           s == Suggestion(sufficient, p, confidence, quality, stale, reasons, warnings)
           kept == SuggestionReasons(sufficient, blocked, noBet, reasons, warnings)
<1>1. (s.no_bet <=> noBet) /\ s.reasons = kept
  <2> DEFINE level == IF blocked THEN "blocked" ELSE IF confidence < 400 THEN "low"
                      ELSE IF confidence < 700 THEN "medium" ELSE "high"
  <2> HIDE DEF warnings
  <2>1. s = [code |-> IF noBet THEN "NO_BET" ELSE BestCandidate(p),
             score |-> score, no_bet |-> noBet, level |-> level,
             risk |-> IF noBet THEN "high" ELSE "elevated",
             priced |-> sufficient, reasons |-> kept]
    BY DEF Suggestion, Alarming
  <2> HIDE DEF s, score, noBet, level, kept
  <2> QED BY <2>1
<1>2. blocked <=> stale \/ ~sufficient
  <2> HIDE DEF warnings
  <2>1. Alarming(warnings) <=> stale \/ ~sufficient
    BY WhatIsCritical DEF warnings
  <2> QED BY <2>1
<1>3. blocked => noBet
  OBVIOUS
<1> HIDE DEF blocked, noBet, s
<1>4. /\ Says(kept, HardBlock) <=> blocked
      /\ Says(kept, ScoreGate) <=> ~blocked /\ noBet
      /\ Says(kept, StaleReason) <=> stale
      /\ Says(kept, FewReason) <=> ~sufficient
  BY WhatIsSaid
<1> HIDE DEF kept
<1> QED BY <1>1, <1>2, <1>3, <1>4 DEF Refuses, s

LEMMA SuggestionIsExplained ==
  ASSUME NEW dataset, CanBeAnalysed(dataset)
  PROVE  Explained(Analysis(dataset).suggestion, dataset)
<1> DEFINE home == Profile(dataset.home, "home", "home" \in dataset.standings)
           away == Profile(dataset.away, "away", "away" \in dataset.standings)
           availability == Availability(home, away)
           stale == Stale(dataset)
           quality == DataQuality(availability, dataset.flags, stale)
           sufficient == home.goals >= MinimumResults /\ away.goals >= MinimumResults
           confidence == IF sufficient
                         THEN Confidence(quality, home, away, dataset.consistency) ELSE 0
           reasons == Reasons(availability, sufficient)
           s == Analysis(dataset).suggestion
           old == dataset.age >= (TtlMinutes + 1) * TicksPerMinute
<1>1. s = Suggestion(sufficient, dataset.forecast, confidence, quality, stale, reasons,
                     Warnings(availability, home, away, stale, sufficient))
  BY DEF Analysis
<1>2. sufficient <=> Analysis(dataset).ready
  BY DEF Analysis
<1>3. sufficient <=> ~FewResults(dataset)
  <2> HIDE DEF sufficient
  <2> QED BY <1>2, AnalysisFacts
<1>4. stale <=> old
  BY DatasetFacts, AnalysisAssumption, StaleIsWhole DEF Stale
<1> HIDE DEF home, away, availability, stale, quality, sufficient, s, old
<1>5. reasons \in Seq(SignalCodes)
  BY ReasonsAreSignals
<1> HIDE DEF confidence, reasons
<1>6. Refuses(s, stale, sufficient)
  BY <1>1, <1>5, WhatRefuses
<1>7. /\ s.no_bet <=> Says(s.reasons, HardBlock) \/ Says(s.reasons, ScoreGate)
      /\ Says(s.reasons, HardBlock) <=> FewResults(dataset) \/ old
      /\ Says(s.reasons, StaleReason) <=> old
      /\ Says(s.reasons, FewReason) <=> FewResults(dataset)
  BY <1>3, <1>4, <1>6 DEF Refuses
<1> QED BY <1>7 DEF Explained, Says, HardBlock, ScoreGate, StaleReason, FewReason, FewResults,
                    s, old

\* An answer about a match, or about a day, holds what is computed of its datasets.
AnalysisIsOfItsDataset ==
  answer.kind = "analysis" /\ answer.status = "ok" =>
    /\ CanBeAnalysed(answer.dataset)
    /\ answer.analysis = Analysis(answer.dataset)
ItemsAreSuggestions ==
  \A i \in Listed("suggestions") :
    /\ CanBeAnalysed(answer.day[i.match])
    /\ i.answer = Analysis(answer.day[i.match]).suggestion
AnswersAreComputed == AnalysisIsOfItsDataset /\ ItemsAreSuggestions

LEMMA AnalysedMatch ==
  ASSUME AnalyseMatch
  PROVE  AnswersAreComputed'
<1>1. PICK dataset \in Datasets :
        answer' =
          IF dataset.verdict # "safe" THEN [kind |-> "analysis", status |-> dataset.verdict]
          ELSE [kind |-> "analysis",
                status |-> StatusOf(/\ AnalysisContract(Analysis(dataset))
                                    /\ \A m \in HalfTimeMarkets :
                                         HalfTimeContract(HalfTime(dataset)[m])),
                dataset |-> dataset, analysis |-> Analysis(dataset)]
  BY DEF AnalyseMatch
<1>2. answer'.kind = "analysis"
  BY <1>1
<1>3. ItemsAreSuggestions'
  BY <1>2 DEF ItemsAreSuggestions, Listed
<1>4. CASE dataset.verdict = "safe"
  <2>1. CanBeAnalysed(dataset)
    BY <1>4, AnswersAssumption DEF CanBeAnalysed
  <2>2. answer'.dataset = dataset /\ answer'.analysis = Analysis(dataset)
    BY <1>1, <1>4
  <2> QED BY <1>3, <2>1, <2>2 DEF AnswersAreComputed, AnalysisIsOfItsDataset
<1>5. CASE dataset.verdict # "safe"
  <2>1. dataset.verdict \in {"closed", "temporal", "integrity"}
    BY <1>5, AnswersAssumption DEF IsDataset
  <2>2. answer'.status # "ok"
    BY <1>1, <1>5, <2>1
  <2> QED BY <1>3, <2>2 DEF AnswersAreComputed, AnalysisIsOfItsDataset
<1> QED BY <1>4, <1>5

LEMMA SuggestedDay ==
  ASSUME ListSuggestions
  PROVE  AnswersAreComputed'
<1>1. PICK day \in Days :
        LET items == {[match |-> m, answer |-> Analysis(day[m]).suggestion] : m \in Safe(day)}
            list == DailySuggestions(items, Skipped(day))
        IN  answer' = [kind |-> "suggestions",
                       status |-> StatusOf(DailySuggestionsContract(list)),
                       day |-> day, list |-> list]
  BY DEF ListSuggestions
<1> DEFINE items == {[match |-> m, answer |-> Analysis(day[m]).suggestion] : m \in Safe(day)}
           list == DailySuggestions(items, Skipped(day))
<1>2. answer'.kind = "suggestions" /\ answer'.day = day /\ answer'.list = list
  <2> HIDE DEF list
  <2>1. answer' = [kind |-> "suggestions",
                   status |-> StatusOf(DailySuggestionsContract(list)),
                   day |-> day, list |-> list]
    BY <1>1 DEF list
  <2> QED BY <2>1
<1>3. list.items = items
  <2> HIDE DEF items
  <2> QED BY DEF DailySuggestions
<1>4. \A m \in Safe(day) : CanBeAnalysed(day[m])
  BY SafeCanBeAnalysed
<1>5. Listed("suggestions")' = items
  BY <1>2, <1>3 DEF Listed
<1>6. ASSUME NEW i \in items
      PROVE  CanBeAnalysed(day[i.match]) /\ i.answer = Analysis(day[i.match]).suggestion
  <2>1. PICK m \in Safe(day) : i = [match |-> m, answer |-> Analysis(day[m]).suggestion]
    BY <1>6
  <2>2. i.match = m /\ i.answer = Analysis(day[m]).suggestion
    BY <2>1
  <2> QED BY <1>4, <2>2
<1>7. ItemsAreSuggestions'
  BY <1>2, <1>5, <1>6 DEF ItemsAreSuggestions
<1> QED BY <1>2, <1>7 DEF AnswersAreComputed, AnalysisIsOfItsDataset

\* Every suggestion that is answered, of a match or in the list of a day, says by the
\* reasons it keeps whether and why it refuses: stale data and too few results are among
\* them whenever they hold, and nothing else blocks (build_kairos_suggestion,
\* _suggestion_reasons).
THEOREM RefusalsExplainThemselves == Spec => []RefusalsAreExplained
<1>1. Init => AnswersAreComputed
  BY DEF Init, Nothing, AnswersAreComputed, AnalysisIsOfItsDataset, ItemsAreSuggestions, Listed
<1>2. AnswersAreComputed /\ [Next]_answer => AnswersAreComputed'
  <2> SUFFICES ASSUME AnswersAreComputed, [Next]_answer PROVE AnswersAreComputed'
    OBVIOUS
  <2>1. CASE AnalyseMatch
    BY <2>1, AnalysedMatch
  <2>2. CASE ListSuggestions
    BY <2>2, SuggestedDay
  <2>3. CASE ListOpportunities
    <3>1. answer'.kind = "opportunities"
      BY <2>3 DEF ListOpportunities
    <3> QED BY <3>1 DEF AnswersAreComputed, AnalysisIsOfItsDataset, ItemsAreSuggestions, Listed
  <2>4. CASE UNCHANGED answer
    BY <2>4 DEF AnswersAreComputed, AnalysisIsOfItsDataset, ItemsAreSuggestions, Listed
  <2> QED BY <2>1, <2>2, <2>3, <2>4 DEF Next
<1>3. AnswersAreComputed => RefusalsAreExplained
  <2> SUFFICES ASSUME AnswersAreComputed PROVE RefusalsAreExplained
    OBVIOUS
  <2>1. answer.kind = "analysis" /\ answer.status = "ok" =>
          Explained(answer.analysis.suggestion, answer.dataset)
    BY SuggestionIsExplained DEF AnswersAreComputed, AnalysisIsOfItsDataset
  <2>2. \A i \in Listed("suggestions") : Explained(i.answer, answer.day[i.match])
    BY SuggestionIsExplained DEF AnswersAreComputed, ItemsAreSuggestions
  <2> QED BY <2>1, <2>2 DEF RefusalsAreExplained
<1> QED BY <1>1, <1>2, <1>3, PTL DEF Spec

-----------------------------------------------------------------------------
(* How much there is of what is kept, sampled and counted.                   *)

LEMMA KeptAreFew ==
  ASSUME NEW all \in Seq(Told)
  PROVE  Cardinality(DOMAIN KeptReasons(all)) <= 12
<1> DEFINE told == {i \in DOMAIN all : all[i] # NoReason}
           before == {p \in told \X told : KeptBefore(all, p[1], p[2])}
           kept == {i \in told : Cardinality({j \in told : KeptBefore(all, j, i)}) < 12}
<1>1. KeptReasons(all) = [i \in kept |-> all[i]]
  BY WhatIsKept
<1>2. DOMAIN all = 1..Len(all) /\ Len(all) \in Nat /\ \A i \in DOMAIN all : all[i] \in Told
  OBVIOUS
<1>3. IsFiniteSet(told)
  BY <1>2, Interval, FS_Subset
<1>4. \A i, j \in told : <<j, i>> \in before <=> KeptBefore(all, j, i)
  OBVIOUS
<1>5. \A i \in told : i \in Int /\ all[i].critical \in BOOLEAN
  BY <1>2 DEF Told
<1>6. IsOrder(told, before)
  <2> HIDE DEF before, told
  <2> QED BY <1>4, <1>5 DEF IsOrder, KeptBefore
<1>7. kept = FirstBy(told, before, 12)
  <2> HIDE DEF before, told
  <2>1. \A i \in told : {j \in told : KeptBefore(all, j, i)} = Ahead(told, before, i)
    BY <1>4 DEF Ahead
  <2> QED BY <2>1 DEF FirstBy
<1> HIDE DEF told, before, kept
<1>8. Cardinality(kept) <= 12
  BY <1>3, <1>6, <1>7, FirstAreFew
<1> QED BY <1>1, <1>8

LEMMA SamplesAreFew ==
  ASSUME NEW rows, IsHistory(rows), NEW limit \in Nat
  PROVE  Cardinality(Samples(rows, limit)) <= limit
<1> DEFINE first(i) == \A j \in 1..i-1 : HasHalves(rows[j]) => rows[j].match # rows[i].match
           usable == {i \in DOMAIN rows : HasHalves(rows[i]) /\ first(i)}
           taken == {k \in usable : Cardinality({j \in usable : j < k}) < limit}
           before == {p \in usable \X usable : p[1] < p[2]}
           sample(i) == [match |-> rows[i].match, first |-> rows[i].half,
                         second |-> rows[i].full - rows[i].half]
<1>1. Samples(rows, limit) = {sample(i) : i \in taken}
  BY DEF Samples
<1>2. Len(rows) \in Nat /\ usable \subseteq 1..Len(rows)
  BY HistoryFacts
<1>3. IsFiniteSet(usable) /\ usable \subseteq Int
  BY <1>2, Interval, FS_Subset
<1> HIDE DEF usable, sample
<1>4. IsOrder(usable, before)
  BY <1>3 DEF IsOrder
<1>5. taken = FirstBy(usable, before, limit)
  <2>1. \A k \in usable : {j \in usable : j < k} = Ahead(usable, before, k)
    BY DEF Ahead
  <2> QED BY <2>1 DEF FirstBy
<1> HIDE DEF before, taken
<1>6. IsFiniteSet(taken) /\ Cardinality(taken) <= limit /\ Cardinality(taken) \in Nat
  BY <1>3, <1>4, <1>5, FirstAreFew
<1> DEFINE f == [i \in taken |-> sample(i)]
           S == {sample(i) : i \in taken}
<1>7. f \in Surjection(taken, S)
  BY DEF Surjection
<1> HIDE DEF f, S
<1>8. IsFiniteSet(S) /\ Cardinality(S) <= Cardinality(taken)
  BY <1>6, <1>7, FS_Surjection
<1>9. Cardinality(S) \in Nat
  BY <1>8, FS_CardinalityType
<1> QED BY <1>1, <1>6, <1>8, <1>9 DEF S

Tallied(profile) == \A f \in Features : profile[f] \in Nat
Covered(availability) == \A f \in Features : availability[f].coverage \in Nat

LEMMA ProfileIsCounted ==
  ASSUME NEW rows, IsHistory(rows), NEW side, NEW ranked
  PROVE  Tallied(Profile(rows, side, ranked))
<1> DEFINE recent == Recent(rows)
           results == Cardinality(Scored(recent))
           there == {i \in Scored(rows) : rows[i].venue = side}
           profile == Profile(rows, side, ranked)
           n == Min({Len(rows), RecentWindow})
<1>1. results \in Nat
  BY ScoredIsCounted
<1>2. Len(rows) \in Nat /\ DOMAIN rows = 1..Len(rows) /\ RecentWindow \in Nat
  BY HistoryFacts, AnalysisAssumption
<1>3. \A metric : Measured(recent, metric) \in Nat
  <2>1. n \in Nat /\ n <= Len(rows)
    BY <1>2, MinOfTwo
  <2> HIDE DEF n
  <2>2. DOMAIN recent = 1..n
    BY <2>1 DEF Recent, IsHistory, n
  <2>3. IsFiniteSet(DOMAIN recent)
    BY <2>1, <2>2, Interval
  <2> HIDE DEF recent
  <2> QED BY <2>3, FS_Subset, FS_CardinalityType DEF Measured
<1>4. Min({Cardinality(there), RecentWindow}) \in Nat
  <2>1. IsFiniteSet(DOMAIN rows) /\ there \subseteq DOMAIN rows
    BY <1>2, Interval DEF Scored
  <2>2. Cardinality(there) \in Nat
    BY <2>1, FS_Subset, FS_CardinalityType
  <2> HIDE DEF there
  <2> QED BY <1>2, <2>2, MinOfTwo
<1>5. /\ profile.recent_form = results /\ profile.goals = results
      /\ profile.standings = (IF ranked THEN 1 ELSE 0) /\ profile.provenance = 1
      /\ profile.home_away = Min({Cardinality(there), RecentWindow})
      /\ profile.shots = Measured(recent, "shots")
      /\ profile.possession = Measured(recent, "possession")
      /\ profile.corners = Measured(recent, "corners")
      /\ profile.cards = Measured(recent, "cards")
  <2> HIDE DEF recent, there
  <2> QED BY DEF Profile, recent, there
<1> HIDE DEF recent, results, there, profile
<1>6. \A f \in Features : profile[f] \in Nat
  BY <1>1, <1>3, <1>4, <1>5 DEF Features, FeatureWeight
<1> QED BY <1>6 DEF Tallied, profile

LEMMA AvailabilityIsCovered ==
  ASSUME NEW home, Tallied(home), NEW away, Tallied(away)
  PROVE  Covered(Availability(home, away))
<1> SUFFICES ASSUME NEW f \in Features PROVE Availability(home, away)[f].coverage \in Nat
  BY DEF Covered
<1> DEFINE r == Required[f]
           h == Min({home[f], r})
           a == Min({away[f], r})
<1>1. r \in Nat \ {0}
  BY AnalysisAssumption DEF Required
<1>2. home[f] \in Nat /\ away[f] \in Nat
  BY DEF Tallied
<1> HIDE DEF r
<1>3. h \in Nat /\ a \in Nat
  BY <1>1, <1>2, MinOfTwo
<1>4. Availability(home, away)[f].coverage = Rounded(500 * (h + a), r)
  BY DEF Availability, r
<1> HIDE DEF h, a
<1>5. 500 * (h + a) \in Nat
  BY <1>3
<1> QED BY <1>1, <1>4, <1>5, RoundedIsNatural

LEMMA DataQualityLies ==
  ASSUME NEW availability, Covered(availability), NEW flags \in Nat, NEW stale
  PROVE  DataQuality(availability, flags, stale) \in Qualities
<1> DEFINE weighted == [f \in Features |-> FeatureWeight[f] * availability[f].coverage]
           covered == SumFunctionOnSet(weighted, Features)
           flagged == Min({2000 * flags, 20000})
           old == IF stale THEN 10000 ELSE 0
           n == Clamped(covered - flagged - old, 0, 85000)
<1>1. IntegersOn(weighted, Features)
  <2>1. \A f \in Features : FeatureWeight[f] \in Nat
    BY DEF Features, FeatureWeight
  <2>2. \A f \in Features : FeatureWeight[f] * availability[f].coverage \in Int
    BY <2>1 DEF Covered
  <2> QED BY <2>2 DEF IntegersOn
<1> HIDE DEF weighted
<1>2. covered \in Int
  BY <1>1, FeaturesAreFinite, SumIsInteger
<1>3. flagged \in Int /\ old \in Int
  BY MinOfTwo
<1> HIDE DEF covered, flagged, old
<1>4. n \in Nat /\ n <= 85000
  BY <1>2, <1>3, ClampedLies
<1>5. DataQuality(availability, flags, stale) = Rounded(n, 100)
  BY DEF DataQuality, covered, weighted, flagged, old
<1> HIDE DEF n
<1>6. Rounded(n, 100) \in Nat /\ Rounded(n, 100) <= 850
  BY <1>4 DEF Rounded
<1> QED BY <1>5, <1>6 DEF Qualities

LEMMA ConfidenceLies ==
  ASSUME NEW quality \in Qualities, NEW home, Tallied(home), NEW away, Tallied(away),
         NEW consistency \in 0..100
  PROVE  Confidence(quality, home, away, consistency) \in Confidences
<1> DEFINE h == Min({home.goals, RecentWindow})
           a == Min({away.goals, RecentWindow})
           n == RecentWindow * (quality + consistency) + 150 * (h + a)
           d == 2 * RecentWindow
           r == Rounded(n, d)
<1>1. RecentWindow \in Nat \ {0}
  BY AnalysisAssumption
<1>2. home.goals \in Nat /\ away.goals \in Nat
  BY DEF Tallied, Features, FeatureWeight
<1>3. h \in Nat /\ a \in Nat
  BY <1>1, <1>2, MinOfTwo
<1> HIDE DEF h, a
<1>4. quality + consistency \in Nat
  BY DEF Qualities
<1>5. n \in Nat /\ d \in Nat \ {0}
  <2>1. RecentWindow * (quality + consistency) \in Nat
    BY <1>1, <1>4
  <2> QED BY <1>1, <1>3, <2>1
<1> HIDE DEF n, d
<1>6. r \in Nat
  BY <1>5, RoundedIsNatural
<1>7. Confidence(quality, home, away, consistency) = Min({650, r})
  BY DEF Confidence, r, n, d, h, a
<1> HIDE DEF r
<1>8. Min({650, r}) = IF 650 <= r THEN 650 ELSE r
  BY <1>6, MinOfTwo
<1> QED BY <1>6, <1>7, <1>8 DEF Confidences

-----------------------------------------------------------------------------
(* The contracts of an analysis and of the half-time markets.                *)

Markets ==
  {"HOME_WIN", "AWAY_WIN", "DRAW", "HOME_OR_DRAW", "AWAY_OR_DRAW", "HOME_OR_AWAY",
   "OVER_2_5", "UNDER_2_5", "BTTS"}
Percents == 0..100
Scores == 0..1000

LEMMA ForecastFacts ==
  ASSUME NEW p, IsForecast(p)
  PROVE  /\ DOMAIN p = Markets
         /\ \A market \in Markets : p[market] \in Percents
         /\ ProbabilitiesContract(p)
<1> DEFINE h == p.HOME_WIN
           d == p.DRAW
           o == p.OVER_2_5
           b == p.BTTS
<1>1. /\ h \in Percents /\ d \in Percents /\ o \in Percents /\ b \in Percents /\ h + d <= 100
      /\ p = Probabilities(h, d, o, b)
  BY DEF IsForecast, Percents
<1> HIDE DEF h, d, o, b
<1>2. p = [HOME_WIN |-> h, DRAW |-> d, AWAY_WIN |-> 100 - h - d,
           HOME_OR_DRAW |-> h + d, AWAY_OR_DRAW |-> (100 - h - d) + d,
           HOME_OR_AWAY |-> h + (100 - h - d),
           OVER_2_5 |-> o, UNDER_2_5 |-> 100 - o, BTTS |-> b]
  BY <1>1 DEF Probabilities
<1>3. /\ DOMAIN p = Markets
      /\ p["HOME_WIN"] = h /\ p["DRAW"] = d /\ p["AWAY_WIN"] = 100 - h - d
      /\ p["HOME_OR_DRAW"] = h + d /\ p["AWAY_OR_DRAW"] = (100 - h - d) + d
      /\ p["HOME_OR_AWAY"] = h + (100 - h - d)
      /\ p["OVER_2_5"] = o /\ p["UNDER_2_5"] = 100 - o /\ p["BTTS"] = b
  BY <1>2 DEF Markets
<1>4. \A market \in Markets : p[market] \in Percents
  BY <1>1, <1>3 DEF Markets, Percents
<1>5. ProbabilitiesContract(p)
  BY <1>1, <1>3, <1>4 DEF ProbabilitiesContract, Percents
<1> QED BY <1>3, <1>4, <1>5

LEMMA StrengthLies ==
  ASSUME NEW p, IsForecast(p)
  PROVE  /\ DOMAIN SignalStrength(p) = Markets
         /\ \A market \in Markets : SignalStrength(p)[market] \in Scores
<1> SUFFICES ASSUME NEW market \in Markets PROVE SignalStrength(p)[market] \in Scores
  BY ForecastFacts DEF SignalStrength
<1> DEFINE g == Guess(market)
           above == 10 * (p[market] * g[2] - 100 * g[1])
           n == above \div (g[2] - g[1])
<1>1. /\ g[1] \in Nat /\ g[2] \in Nat /\ g[2] - g[1] \in Nat \ {0}
      /\ g[2] \in {2, 3}
  BY DEF Guess, Markets
<1> HIDE DEF g
<1>2. p[market] \in Nat
  BY ForecastFacts DEF Percents
<1>3. above \in Int
  BY <1>1, <1>2
<1> HIDE DEF above
<1>4. n \in Int
  BY <1>1, <1>3
<1>5. SignalStrength(p)[market] = Clamped(n, 0, 1000)
  BY ForecastFacts DEF SignalStrength, n, above, g
<1> HIDE DEF n
<1>6. Clamped(n, 0, 1000) \in Nat /\ Clamped(n, 0, 1000) <= 1000
  BY <1>4, ClampedLies
<1> QED BY <1>5, <1>6 DEF Scores

LEMMA BestIsMarket ==
  ASSUME NEW p, IsForecast(p)
  PROVE  BestCandidate(p) \in Markets
<1> DEFINE strength == SignalStrength(p)
           n == 9
           f == [i \in 1..n |-> strength[Recommendations[i]]]
           k == Min({i \in 1..n : \A j \in 1..n : f[j] <= f[i]})
<1>1. DOMAIN Recommendations = 1..9 /\ \A i \in 1..9 : Recommendations[i] \in Markets
  BY DEF Recommendations, Markets
<1>2. BestCandidate(p) = Recommendations[k]
  BY <1>1 DEF BestCandidate
<1>3. IntegersOn(f, 1..9)
  <2>1. \A market \in Markets : strength[market] \in Scores
    BY StrengthLies
  <2>2. Scores \subseteq Int
    BY DEF Scores
  <2> HIDE DEF strength
  <2> QED BY <1>1, <2>1, <2>2 DEF IntegersOn
<1> HIDE DEF f
<1>4. k \in 1..n
  <2>1. n \in Nat \ {0} /\ IntegersOn(f, 1..n)
    BY <1>3
  <2> HIDE DEF n
  <2> QED BY <2>1, BestPosition
<1> QED BY <1>1, <1>2, <1>4

LEMMA ReliabilityIsNatural ==
  ASSUME NEW confidence \in Confidences
  PROVE  Clamped(Rounded(1000 * confidence, 650), 0, 1000) \in Nat
<1> DEFINE n == 1000 * confidence
           r == Rounded(n, 650)
<1>1. n \in Nat
  BY DEF Confidences
<1> HIDE DEF n
<1>2. r \in Nat
  BY <1>1, RoundedIsNatural
<1> HIDE DEF r
<1>3. Clamped(r, 0, 1000) \in Nat
  BY <1>2, ClampedLies
<1> QED BY <1>3 DEF r, n

LEMMA SuggestionKeepsContract ==
  ASSUME NEW p, IsForecast(p), NEW confidence \in Confidences, NEW quality \in Qualities,
         NEW reasons \in Seq(SignalCodes),
         NEW availability, NEW home, NEW away, NEW stale, NEW sufficient
  PROVE  LET s == Suggestion(sufficient, p, confidence, quality, stale, reasons,
                             Warnings(availability, home, away, stale, sufficient))
         IN  SuggestionContract(s) /\ s.no_bet \in BOOLEAN
<1> DEFINE warnings == Warnings(availability, home, away, stale, sufficient)
           strength == IF sufficient THEN SignalStrength(p)[BestCandidate(p)] ELSE 0
           reliability == Clamped(Rounded(1000 * confidence, 650), 0, 1000)
           score == Min({quality, reliability, strength})
           blocked == ~sufficient \/ stale \/ Alarming(warnings)
           noBet == blocked \/ strength = 0 \/ score < 400
           s == Suggestion(sufficient, p, confidence, quality, stale, reasons, warnings)
           kept == SuggestionReasons(sufficient, blocked, noBet, reasons, warnings)
           level == IF blocked THEN "blocked" ELSE IF confidence < 400 THEN "low"
                    ELSE IF confidence < 700 THEN "medium" ELSE "high"
           code == IF noBet THEN "NO_BET" ELSE BestCandidate(p)
<1>1. s = [code |-> code, score |-> score, no_bet |-> noBet, level |-> level,
           risk |-> IF noBet THEN "high" ELSE "elevated",
           priced |-> sufficient, reasons |-> kept]
  <2> HIDE DEF warnings
  <2> QED BY DEF Suggestion, Alarming
<1>2. noBet \in BOOLEAN /\ (~noBet => sufficient /\ ~(score < 400))
  OBVIOUS
<1>3. code = "NO_BET" <=> noBet
  BY BestIsMarket DEF Markets
<1>4. score \in Nat /\ score <= 1000
  <2>1. reliability \in Nat
    BY ReliabilityIsNatural
  <2>2. strength \in Nat
    <3>1. SignalStrength(p)[BestCandidate(p)] \in Scores
      BY BestIsMarket, StrengthLies
    <3>2. Scores \subseteq Nat
      BY DEF Scores
    <3> QED BY <3>1, <3>2
  <2>3. quality \in Nat /\ quality <= 850
    BY DEF Qualities
  <2> HIDE DEF reliability, strength
  <2> QED BY <2>1, <2>2, <2>3, MinOfThree
<1>5. Cardinality(DOMAIN kept) <= 12
  <2> HIDE DEF blocked, noBet
  <2>1. CutFrom(kept, blocked, noBet, stale, sufficient)
    BY WhatIsFound
  <2> QED BY <2>1, KeptAreFew DEF CutFrom
<1> HIDE DEF s, score, noBet, level, kept, code
<1>6. /\ s.code = code /\ s.score = score /\ s.reasons = kept
      /\ s.no_bet = noBet
      /\ s.priced <=> sufficient
  BY <1>1
<1>7. SuggestionContract(s) /\ s.no_bet \in BOOLEAN
  BY <1>2, <1>3, <1>4, <1>5, <1>6 DEF SuggestionContract
<1> QED BY <1>7 DEF s

LEMMA AnalysisKeepsContract ==
  ASSUME NEW dataset, CanBeAnalysed(dataset)
  PROVE  /\ AnalysisContract(Analysis(dataset))
         /\ Analysis(dataset).quality \in Qualities
         /\ Analysis(dataset).confidence \in Confidences
         /\ Analysis(dataset).suggestion.no_bet \in BOOLEAN
<1> DEFINE home == Profile(dataset.home, "home", "home" \in dataset.standings)
           away == Profile(dataset.away, "away", "away" \in dataset.standings)
           availability == Availability(home, away)
           stale == Stale(dataset)
           quality == DataQuality(availability, dataset.flags, stale)
           sufficient == home.goals >= MinimumResults /\ away.goals >= MinimumResults
           confidence == IF sufficient
                         THEN Confidence(quality, home, away, dataset.consistency) ELSE 0
           reasons == Reasons(availability, sufficient)
           suggestion == Suggestion(sufficient, dataset.forecast, confidence, quality, stale,
                                    reasons, Warnings(availability, home, away, stale, sufficient))
           a == Analysis(dataset)
<1>1. /\ a.ready <=> sufficient
      /\ a.decision = IF sufficient THEN "NO_BET" ELSE "INSUFFICIENT_DATA"
      /\ a.probabilities = dataset.forecast
      /\ a.confidence = confidence
      /\ a.quality = quality
      /\ a.suggestion = suggestion
  BY DEF Analysis
<1>2. /\ IsHistory(dataset.home) /\ IsHistory(dataset.away) /\ dataset.flags \in Nat
      /\ dataset.consistency \in 0..100 /\ IsForecast(dataset.forecast)
  BY DatasetFacts
<1>3. ~sufficient => confidence = 0
  OBVIOUS
<1>4. Tallied(home) /\ Tallied(away)
  <2>1. \A rows, side, ranked : IsHistory(rows) => Tallied(Profile(rows, side, ranked))
    BY ProfileIsCounted
  <2> QED BY <1>2, <2>1, Zenon
<1> HIDE DEF home, away
<1>5. Covered(availability)
  BY <1>4, AvailabilityIsCovered
<1> HIDE DEF availability, stale
<1>6. quality \in Qualities
  BY <1>2, <1>5, DataQualityLies
<1> HIDE DEF quality
<1>7. confidence \in Confidences
  <2>1. Confidence(quality, home, away, dataset.consistency) \in Confidences
    BY <1>2, <1>4, <1>6, ConfidenceLies
  <2>2. 0 \in Confidences
    BY DEF Confidences
  <2> QED BY <2>1, <2>2
<1> HIDE DEF sufficient
<1>8. reasons \in Seq(SignalCodes)
  BY ReasonsAreSignals
<1> HIDE DEF confidence, reasons
<1>9. SuggestionContract(suggestion) /\ suggestion.no_bet \in BOOLEAN
  BY <1>2, <1>6, <1>7, <1>8, SuggestionKeepsContract
<1>10. ProbabilitiesContract(dataset.forecast)
  BY <1>2, ForecastFacts
<1> HIDE DEF a, suggestion
<1>11. a.quality \in Qualities /\ a.confidence \in Confidences
  BY <1>1, <1>6, <1>7
<1>12. a.quality \in 0..1000 /\ a.confidence \in 0..650
  BY <1>11 DEF Qualities, Confidences
<1>13. AnalysisContract(a)
  BY <1>1, <1>3, <1>9, <1>10, <1>12 DEF AnalysisContract
<1> QED BY <1>1, <1>9, <1>11, <1>13 DEF a

LEMMA SamplesOfMarkets ==
  ASSUME NEW dataset, CanBeAnalysed(dataset), NEW m \in HalfTimeMarkets
  PROVE  HalfTime(dataset)[m].samples \in 0..2 * RecentWindow
<1> DEFINE home == Samples(dataset.home, RecentWindow)
           away == Samples(dataset.away, RecentWindow)
           merged == Merged(home, away)
           others == {s \in home : ~\E t \in away : t.match = s.match}
<1>1. HalfTime(dataset)[m].samples = Cardinality(merged)
  BY DEF HalfTime, HalfTimeMarket
<1>2. RecentWindow \in Nat
  BY AnalysisAssumption
<1>3. /\ IsFiniteSet(home) /\ Cardinality(home) \in Nat /\ Cardinality(home) <= RecentWindow
      /\ IsFiniteSet(away) /\ Cardinality(away) \in Nat /\ Cardinality(away) <= RecentWindow
  BY <1>2, DatasetFacts, SamplesAreCounted, SamplesAreFew
<1> HIDE DEF home, away
<1>4. merged = away \cup others /\ others \subseteq home
  BY DEF Merged
<1> HIDE DEF merged, others
<1>5. IsFiniteSet(others) /\ Cardinality(others) <= Cardinality(home) /\ Cardinality(others) \in Nat
  BY <1>3, <1>4, FS_Subset, FS_CardinalityType
<1>6. /\ IsFiniteSet(away \cup others) /\ IsFiniteSet(away \cap others)
      /\ Cardinality(away \cup others)
           = Cardinality(away) + Cardinality(others) - Cardinality(away \cap others)
  BY <1>3, <1>5, FS_Union, FS_Subset
<1>7. Cardinality(away \cap others) \in Nat /\ Cardinality(away \cup others) \in Nat
  BY <1>6, FS_CardinalityType
<1> QED BY <1>1, <1>2, <1>3, <1>4, <1>5, <1>6, <1>7

LEMMA HalfTimeKeepsContract ==
  ASSUME NEW dataset, CanBeAnalysed(dataset), NEW m \in HalfTimeMarkets
  PROVE  HalfTimeContract(HalfTime(dataset)[m])
<1> DEFINE markets == HalfTime(dataset)
           few == FewHalves(dataset)
           old == StaleSource(dataset)
<1>1. PICK quality \in Qualities, confidence \in Confidences :
        Shared(markets, few, old, quality, confidence)
  BY MarketsShare
<1>2. markets[m].samples \in 0..2 * RecentWindow
  BY SamplesOfMarkets
<1> HIDE DEF markets, few, old
<1>3. /\ few => markets[m].probability = Unknown
      /\ ~few => Probable(markets[m].probability)
      /\ markets[m].insufficient <=> few
      /\ markets[m].guardrails = GuardrailsOf(few, old)
      /\ markets[m].eligible <=>
           GuardrailsOf(few, old) = {} /\ Strong(markets[m].probability, quality, confidence)
      /\ markets[m].quality = quality /\ markets[m].confidence = confidence
  BY <1>1 DEF Shared
<1>4. /\ markets[m].quality \in Qualities
      /\ markets[m].confidence \in Confidences
  BY <1>3
<1> DEFINE h == markets[m]
<1> HIDE DEF h
<1>5. h.eligible => /\ ~h.insufficient
                    /\ h.guardrails = {}
                    /\ Strong(h.probability, h.quality, h.confidence)
  <2>1. GuardrailsOf(few, old) = {} => ~few
    BY DEF GuardrailsOf
  <2> QED BY <1>3, <2>1 DEF h
<1>6. \A p : Probable(p) => p \in 0..Certain
  <2>1. \A p : Probable(p) => p \in Nat /\ p <= Certain
    BY SMT DEF Probable, Certain
  <2>2. Certain \in Nat
    BY SMT DEF Certain
  <2> QED BY <2>1, <2>2
<1>7. h.probability = Unknown \/ h.probability \in 0..Certain
  BY <1>3, <1>6 DEF h
<1>8. h.insufficient => h.probability = Unknown
  BY <1>3 DEF h
<1>9. h.quality \in 0..850 /\ h.confidence \in 0..650 /\ h.samples \in 0..2 * RecentWindow
  BY <1>2, <1>4 DEF h, Qualities, Confidences
<1>10. HalfTimeContract(h)
  BY <1>5, <1>7, <1>8, <1>9 DEF HalfTimeContract
<1> QED BY <1>10 DEF h, markets

-----------------------------------------------------------------------------
(* The contract of an opportunity.                                           *)

\* The place of a market in the alphabet.
PlaceOf(market) == CHOOSE i \in DOMAIN Alphabet : Alphabet[i] = market
Selectable == HalfTimeMarkets \cup {"HOME_OR_DRAW", "AWAY_OR_DRAW", "HOME_OR_AWAY"}

LEMMA PlacesDiffer ==
  /\ \A m \in Selectable : PlaceOf(m) \in Nat
  /\ \A m, n \in Selectable : PlaceOf(m) = PlaceOf(n) => m = n
<1>1. DOMAIN Alphabet = 1..9
  BY DEF Alphabet
<1>2. ASSUME NEW m \in Selectable
      PROVE  PlaceOf(m) \in 1..9 /\ Alphabet[PlaceOf(m)] = m
  <2>1. \E i \in 1..9 : Alphabet[i] = m
    BY DEF Selectable, HalfTimeMarkets, Alphabet
  <2> QED BY <1>1, <2>1 DEF PlaceOf
<1> QED BY <1>2

\* Candidates that can be compared: one of each market.
Ranked(candidates) ==
  /\ IsFiniteSet(candidates)
  /\ \A c \in candidates :
       /\ c.probability \in Int /\ c.quality \in Int /\ c.confidence \in Int
       /\ c.market \in Selectable
  /\ \A c, d \in candidates : c.market = d.market => c = d

LEMMA PrecedesIs ==
  ASSUME NEW c, NEW d
  PROVE  Precedes(c, d) <=>
           \/ c.probability > d.probability
           \/ /\ c.probability = d.probability
              /\ \/ c.quality > d.quality
                 \/ /\ c.quality = d.quality
                    /\ \/ c.confidence > d.confidence
                       \/ /\ c.confidence = d.confidence
                          /\ PlaceOf(c.market) < PlaceOf(d.market)
BY DEF Precedes, PlaceOf

LEMMA PrecedesOrders ==
  ASSUME NEW candidates, Ranked(candidates)
  PROVE  /\ \A c, d \in candidates : c # d => Precedes(c, d) \/ Precedes(d, c)
         /\ \A b, c, d \in candidates : Precedes(b, c) /\ Precedes(c, d) => Precedes(b, d)
         /\ \A c \in candidates : ~Precedes(c, c)
<1>1. \A c \in candidates :
        /\ c.probability \in Int /\ c.quality \in Int /\ c.confidence \in Int
        /\ PlaceOf(c.market) \in Int
  BY PlacesDiffer DEF Ranked
<1>2. \A c, d \in candidates : PlaceOf(c.market) = PlaceOf(d.market) => c = d
  BY PlacesDiffer DEF Ranked
<1>3. ASSUME NEW c \in candidates, NEW d \in candidates, c # d
      PROVE  Precedes(c, d) \/ Precedes(d, c)
  BY <1>1, <1>2, <1>3, PrecedesIs
<1>4. ASSUME NEW b \in candidates, NEW c \in candidates, NEW d \in candidates,
             Precedes(b, c), Precedes(c, d)
      PROVE  Precedes(b, d)
  BY <1>1, <1>4, PrecedesIs
<1>5. ASSUME NEW c \in candidates
      PROVE  ~Precedes(c, c)
  BY <1>1, PrecedesIs
<1> QED BY <1>3, <1>4, <1>5

\* There is one primary selection, and at most one alternative of each group.
LEMMA SelectionsAreFew ==
  ASSUME NEW candidates, Ranked(candidates)
  PROVE  LET primary == Primary(candidates)
             alternatives == Alternatives(candidates)
         IN  /\ IF candidates = {} THEN primary = {} ELSE \E z \in candidates : primary = {z}
             /\ primary \cap alternatives = {}
             /\ \A c, d \in primary \cup alternatives : Group(c.market) = Group(d.market) => c = d
             /\ IsFiniteSet(alternatives) /\ Cardinality(alternatives) <= 2
<1> DEFINE primary == Primary(candidates)
           alternatives == Alternatives(candidates)
           after == {p \in candidates \X candidates : Precedes(p[2], p[1])}
<1>1. IsFiniteSet(candidates)
  BY DEF Ranked
<1>2. \A c, d \in candidates : <<c, d>> \in after <=> Precedes(d, c)
  OBVIOUS
<1>3. IsOrder(candidates, after)
  <2> HIDE DEF after
  <2> QED BY <1>2, PrecedesOrders DEF IsOrder
<1>4. ASSUME candidates # {}
      PROVE  \E z \in candidates : primary = {z}
  <2> HIDE DEF after
  <2>1. PICK z \in candidates : \A x \in candidates : x # z => <<x, z>> \in after
    <3>1. candidates \in SUBSET candidates
      OBVIOUS
    <3> QED BY <1>1, <1>3, <1>4, <3>1, LastElement
  <2>2. \A x \in candidates : x # z => Precedes(z, x)
    BY <1>2, <2>1
  <2>3. \A x \in candidates : ~Precedes(x, z)
    BY <2>2, PrecedesOrders
  <2>4. primary = {z}
    BY <2>2, <2>3 DEF Primary
  <2> QED BY <2>4
<1>5. candidates = {} => primary = {}
  BY DEF Primary
<1>6. primary \subseteq candidates /\ alternatives \subseteq candidates
  BY DEF Primary, Alternatives
<1>7. \A c \in primary, d \in candidates : ~Precedes(d, c)
  BY DEF Primary
<1>8. /\ primary \cap alternatives = {}
      /\ \A c \in alternatives, d \in candidates :
           Group(d.market) = Group(c.market) => ~Precedes(d, c)
  BY DEF Alternatives
<1> HIDE DEF primary, alternatives
<1>9. ASSUME NEW c \in primary \cup alternatives, NEW d \in primary \cup alternatives,
             Group(c.market) = Group(d.market)
      PROVE  c = d
  <2>1. c \in candidates /\ d \in candidates
    BY <1>6
  <2>2. ~Precedes(c, d) /\ ~Precedes(d, c)
    BY <1>7, <1>8, <1>9, <2>1
  <2> QED BY <2>1, <2>2, PrecedesOrders
<1>10. IsFiniteSet(alternatives)
  BY <1>1, <1>6, FS_Subset
<1>11. Cardinality(alternatives) <= 2
  <2> DEFINE group == [c \in alternatives |-> Group(c.market)]
             groups == {group[c] : c \in alternatives}
             two == {"half_time"} \cup {"double_chance"}
  <2>1. \A c, d \in alternatives : group[c] = group[d] => c = d
    BY <1>9
  <2>2. groups \subseteq two
    BY DEF Group
  <2>3. IsFiniteSet(two) /\ Cardinality(two) = 2
    <3>1. \A x, y : x # y => IsFiniteSet({x} \cup {y}) /\ Cardinality({x} \cup {y}) = 2
      <4> TAKE x, y
      <4> HAVE x # y
      <4>1. IsFiniteSet({x}) /\ Cardinality({x}) = 1 /\ y \notin {x}
        BY FS_Singleton
      <4> QED BY <4>1, FS_AddElement
    <3> QED BY <3>1
  <2> HIDE DEF group, two
  <2>4. Cardinality(groups) = Cardinality(alternatives)
    BY <1>10, <2>1, ImageIsCounted
  <2> HIDE DEF groups
  <2> QED BY <2>2, <2>3, <2>4, FS_Subset
<1> QED BY <1>4, <1>5, <1>8, <1>9, <1>10, <1>11 DEF primary, alternatives

LEMMA MarketsAreFinite == IsFiniteSet(HalfTimeMarkets)
<1>1. HalfTimeMarkets
        = {"FIRST_HALF_MORE_GOALS", "SECOND_HALF_MORE_GOALS", "EQUAL_HALF_GOALS"}
            \cup {"FIRST_HALF_OVER_0_5", "SECOND_HALF_OVER_0_5", "SECOND_HALF_OVER_1_5"}
  BY DEF HalfTimeMarkets
<1> QED BY <1>1, ThreeAreFinite, FS_Union

LEMMA CandidatesAreRanked ==
  ASSUME NEW dataset, CanBeAnalysed(dataset)
  PROVE  Ranked(Candidates(Analysis(dataset), HalfTime(dataset)))
<1> DEFINE analysis == Analysis(dataset)
           markets == HalfTime(dataset)
           eligible == {n \in HalfTimeMarkets : markets[n].eligible}
           f == [m \in eligible |->
                   [market |-> markets[m].market, probability |-> markets[m].probability,
                    quality |-> markets[m].quality, confidence |-> markets[m].confidence]]
           halves == {f[m] : m \in eligible}
           p == analysis.probabilities
           likeliest(i) == \A j \in DOMAIN DoubleChances :
                             p[DoubleChances[j]] <= p[DoubleChances[i]]
           k == Min({i \in DOMAIN DoubleChances : likeliest(i)})
           chance == DoubleChance(analysis)
           chances == {"HOME_OR_DRAW", "AWAY_OR_DRAW", "HOME_OR_AWAY"}
           candidates == Candidates(analysis, markets)
<1>1. PICK quality \in Qualities, confidence \in Confidences :
        Shared(markets, FewHalves(dataset), StaleSource(dataset), quality, confidence)
  BY MarketsShare
<1>2. analysis.quality \in Int /\ analysis.confidence \in Int /\ IsForecast(p)
  <2>1. analysis.quality \in Qualities /\ analysis.confidence \in Confidences
    BY AnalysisKeepsContract
  <2>2. Qualities \subseteq Int /\ Confidences \subseteq Int
    BY DEF Qualities, Confidences
  <2>3. p = dataset.forecast /\ IsForecast(dataset.forecast)
    BY AnalysisFacts, DatasetFacts
  <2> HIDE DEF analysis
  <2> QED BY <2>1, <2>2, <2>3
<1>3. candidates = halves \cup chance
  BY DEF Candidates
<1> HIDE DEF analysis, markets
<1>4. ASSUME NEW m \in eligible
      PROVE  /\ f[m].market = m /\ m \in HalfTimeMarkets
             /\ f[m].probability \in Int /\ f[m].quality \in Int /\ f[m].confidence \in Int
  <2>1. /\ markets[m].market = m /\ markets[m].quality = quality
        /\ markets[m].confidence = confidence
        /\ FewHalves(dataset) => markets[m].probability = Unknown
        /\ ~FewHalves(dataset) => Probable(markets[m].probability)
    BY <1>1 DEF Shared
  <2>2. Unknown \in Int /\ \A x : Probable(x) => x \in Int
    BY SMT DEF Unknown, Probable
  <2>3. quality \in Int /\ confidence \in Int
    BY DEF Qualities, Confidences
  <2> QED BY <2>1, <2>2, <2>3
<1>5. IsFiniteSet(halves)
  <2>1. IsFiniteSet(eligible)
    BY MarketsAreFinite, FS_Subset
  <2> HIDE DEF f, eligible
  <2> QED BY <2>1, ImageIsFinite
<1>6. \E c : /\ chance \subseteq {c}
             /\ c.market \in chances
             /\ c.probability \in Int /\ c.quality \in Int /\ c.confidence \in Int
  <2> DEFINE c == [market |-> DoubleChances[k], probability |-> 10000 * p[DoubleChances[k]],
                   quality |-> analysis.quality, confidence |-> analysis.confidence]
  <2>1. chance \subseteq {c}
    BY DEF DoubleChance
  <2>2. k \in 1..3
    BY <1>2, LikeliestExists
  <2> HIDE DEF k
  <2>3. DoubleChances[k] \in chances
    BY <2>2 DEF DoubleChances
  <2>4. p[DoubleChances[k]] \in Int
    <3>1. DoubleChances[k] \in Markets
      BY <2>3 DEF Markets
    <3> QED BY <1>2, <3>1, ForecastFacts DEF Percents
  <2>5. 10000 * p[DoubleChances[k]] \in Int
    BY <2>4
  <2>6. /\ c.market = DoubleChances[k] /\ c.probability = 10000 * p[DoubleChances[k]]
        /\ c.quality = analysis.quality /\ c.confidence = analysis.confidence
    OBVIOUS
  <2> HIDE DEF c
  <2> QED BY <1>2, <2>1, <2>3, <2>5, <2>6
<1> HIDE DEF chance, f, eligible
<1>7. PICK c : /\ chance \subseteq {c}
               /\ c.market \in chances
               /\ c.probability \in Int /\ c.quality \in Int /\ c.confidence \in Int
  BY <1>6
<1>8. IsFiniteSet(candidates)
  <2>1. IsFiniteSet(chance)
    BY <1>7, FS_Singleton, FS_Subset
  <2> HIDE DEF halves, candidates
  <2> QED BY <1>3, <1>5, <2>1, FS_Union
<1>9. chances \cap HalfTimeMarkets = {}
  BY DEF HalfTimeMarkets
<1> HIDE DEF candidates, chances
<1>10. \A d \in candidates : d = c \/ \E m \in eligible : d = f[m]
  BY <1>3, <1>7
<1>11. \A d \in candidates :
         /\ d.probability \in Int /\ d.quality \in Int /\ d.confidence \in Int
         /\ d.market \in HalfTimeMarkets \cup chances
  BY <1>4, <1>7, <1>10
<1>12. \A d, e \in candidates : d.market = e.market => d = e
  BY <1>4, <1>7, <1>9, <1>10
<1>13. Ranked(candidates)
  BY <1>8, <1>11, <1>12 DEF Ranked, Selectable, chances
<1> QED BY <1>13 DEF candidates, analysis, markets

\* A match is in one category.
Categorised(o) ==
  /\ o.decision = "ANALYSIS_ALLOWED" => o.section \notin {"WATCH", "NO_BET"}
  /\ o.decision = "INSUFFICIENT_DATA" => o.section \notin {"WATCH", "NO_BET"}
  /\ o.decision \notin {"ANALYSIS_ALLOWED", "INSUFFICIENT_DATA"} =>
       o.section \in {"WATCH", "NO_BET"}

LEMMA OpportunityKeepsContract ==
  ASSUME NEW dataset, CanBeAnalysed(dataset)
  PROVE  /\ OpportunityContract(Opportunity(dataset))
         /\ Categorised(Opportunity(dataset))
         /\ \A c \in Opportunity(dataset).primary : c.probability \in Int
<1> DEFINE analysis == Analysis(dataset)
           markets == HalfTime(dataset)
           candidates == Candidates(analysis, markets)
           primary == Primary(candidates)
           alternatives == Alternatives(candidates)
           insufficient == \A m \in HalfTimeMarkets : markets[m].insufficient
           reasons == RejectionReasons(analysis, markets)
           rejections == IF candidates = {} THEN reasons ELSE {}
           blocked == rejections \cap {"stale_data", "critical_guardrail"} # {}
           section == Section((CHOOSE c \in primary : TRUE).market)
           o == Opportunity(dataset)
<1>1. Ranked(candidates)
  BY CandidatesAreRanked
<1>2. /\ o.section = (IF candidates # {} THEN section
                      ELSE IF insufficient THEN "INSUFFICIENT_DATA"
                      ELSE IF blocked THEN "NO_BET" ELSE "WATCH")
      /\ o.decision = (IF candidates # {} THEN "ANALYSIS_ALLOWED"
                       ELSE IF insufficient THEN "INSUFFICIENT_DATA" ELSE "NO_BET")
      /\ o.primary = primary /\ o.alternatives = alternatives /\ o.rejections = rejections
  BY DEF Opportunity
<1>3. reasons # {}
  BY DEF RejectionReasons
<1>4. section \in {"HALF_TIME", "GOAL_MARKETS", "DOUBLE_CHANCE"}
  BY DEF Section
<1> HIDE DEF candidates, reasons, insufficient, section, blocked, o
<1>5. /\ IF candidates = {} THEN primary = {} ELSE \E z \in candidates : primary = {z}
      /\ primary \cap alternatives = {}
      /\ \A c, d \in primary \cup alternatives : Group(c.market) = Group(d.market) => c = d
      /\ IsFiniteSet(alternatives) /\ Cardinality(alternatives) <= 2
  BY <1>1, SelectionsAreFew
<1>6. candidates = {} => alternatives = {}
  BY DEF Alternatives
<1>7. primary \subseteq candidates
  BY DEF Primary
<1> HIDE DEF primary, alternatives
<1>8. Cardinality(primary) <= 1
  <2>1. CASE candidates = {}
    BY <1>5, <2>1, FS_EmptySet
  <2>2. CASE candidates # {}
    <3>1. PICK z \in candidates : primary = {z}
      BY <1>5, <2>2
    <3>2. Cardinality({z}) = 1
      BY FS_Singleton
    <3> QED BY <3>1, <3>2
  <2> QED BY <2>1, <2>2
<1>9. OpportunityContract(o)
  BY <1>2, <1>3, <1>5, <1>6, <1>8 DEF OpportunityContract
<1>10. Categorised(o)
  BY <1>2, <1>4 DEF Categorised
<1>11. \A c \in primary : c.probability \in Int
  BY <1>1, <1>7 DEF Ranked
<1> QED BY <1>2, <1>9, <1>10, <1>11 DEF o

-----------------------------------------------------------------------------
(* The contracts of a day.                                                   *)

\* The items of a day, one of each match.
OfMatches(items) ==
  /\ IsFiniteSet(items)
  /\ \A i \in items : i.match \in Int
  /\ \A i, j \in items : i.match = j.match => i = j

LEMMA ItemsOfDay ==
  ASSUME NEW day \in Days, NEW f
  PROVE  LET items == {[match |-> m, answer |-> f[m]] : m \in Safe(day)}
         IN  OfMatches(items)
<1> DEFINE item == [m \in Safe(day) |-> [match |-> m, answer |-> f[m]]]
           items == {item[m] : m \in Safe(day)}
<1>1. PICK n \in 0..MaxTargets : day \in [1..n -> DayDatasets]
  BY DEF Days
<1>2. n \in Nat
  BY <1>1, AnswersAssumption
<1>3. Safe(day) \subseteq 1..n /\ IsFiniteSet(Safe(day))
  BY <1>1, <1>2, Interval, FS_Subset DEF Safe
<1>4. IsFiniteSet(items)
  <2> HIDE DEF item
  <2> QED BY <1>3, ImageIsFinite
<1>5. \A m \in Safe(day) : item[m].match = m /\ m \in Int
  BY <1>2, <1>3
<1>6. items = {[match |-> m, answer |-> f[m]] : m \in Safe(day)}
  OBVIOUS
<1>7. OfMatches(items)
  <2> HIDE DEF item
  <2> QED BY <1>4, <1>5 DEF OfMatches
<1> QED BY <1>6, <1>7

LEMMA SuggestionsAreOrdered ==
  ASSUME NEW items, OfMatches(items),
         \A i \in items : i.answer.score \in Int /\ i.answer.no_bet \in BOOLEAN
  PROVE  IsOrder(items, {p \in items \X items : BetterSuggestion(p[1], p[2])})
<1> DEFINE before == {p \in items \X items : BetterSuggestion(p[1], p[2])}
<1>1. \A a, b \in items : <<a, b>> \in before <=> BetterSuggestion(a, b)
  OBVIOUS
<1> HIDE DEF before
<1>2. \A a, b \in items : a # b => <<a, b>> \in before \/ <<b, a>> \in before
  BY <1>1 DEF OfMatches, BetterSuggestion
<1>3. \A a, b, c \in items : <<a, b>> \in before /\ <<b, c>> \in before => <<a, c>> \in before
  BY <1>1 DEF OfMatches, BetterSuggestion
<1>4. \A a \in items : <<a, a>> \notin before
  BY <1>1 DEF OfMatches, BetterSuggestion
<1> QED BY <1>2, <1>3, <1>4 DEF IsOrder, before

LEMMA OpportunitiesAreOrdered ==
  ASSUME NEW items, OfMatches(items), \A i \in items : Likelihood(i) \in Int
  PROVE  IsOrder(items, {p \in items \X items : BetterOpportunity(p[1], p[2])})
<1> DEFINE before == {p \in items \X items : BetterOpportunity(p[1], p[2])}
<1>1. \A a, b \in items : <<a, b>> \in before <=> BetterOpportunity(a, b)
  OBVIOUS
<1> HIDE DEF before
<1>0. \A i \in items : Allowed(i) \in BOOLEAN
  BY DEF Allowed
<1>2. \A a, b \in items : a # b => <<a, b>> \in before \/ <<b, a>> \in before
  BY <1>0, <1>1 DEF OfMatches, BetterOpportunity
<1>3. \A a, b, c \in items : <<a, b>> \in before /\ <<b, c>> \in before => <<a, c>> \in before
  BY <1>0, <1>1 DEF OfMatches, BetterOpportunity
<1>4. \A a \in items : <<a, a>> \notin before
  BY <1>0, <1>1 DEF OfMatches, BetterOpportunity
<1> QED BY <1>2, <1>3, <1>4 DEF IsOrder, before

LEMMA SuggestionsKeepContract ==
  ASSUME NEW items, OfMatches(items), NEW skipped,
         \A i \in items : SuggestionContract(i.answer) /\ i.answer.no_bet \in BOOLEAN
  PROVE  DailySuggestionsContract(DailySuggestions(items, skipped))
<1> DEFINE before == {p \in items \X items : BetterSuggestion(p[1], p[2])}
           selected == FirstOf(items, MaxSuggestions, BetterSuggestion)
           list == DailySuggestions(items, skipped)
<1>1. \A i \in items : i.answer.score \in Int
  <2>1. \A s : SuggestionContract(s) => s.score \in Scores
    BY Zenon DEF SuggestionContract, Scores
  <2>2. Scores \subseteq Int
    BY DEF Scores
  <2> QED BY <2>1, <2>2
<1>2. IsOrder(items, before)
  BY <1>1, SuggestionsAreOrdered
<1>3. selected = FirstBy(items, before, MaxSuggestions)
  <2>1. \A i \in items : {j \in items : BetterSuggestion(j, i)} = Ahead(items, before, i)
    BY DEF Ahead
  <2> HIDE DEF before
  <2> QED BY <2>1 DEF FirstBy, FirstOf
<1>4. list.selected = selected /\ list.items = items
  <2> HIDE DEF selected
  <2> QED BY DEF DailySuggestions, selected
<1> HIDE DEF before, selected, list
<1>5. Cardinality(selected) <= MaxSuggestions
  BY <1>2, <1>3, FirstAreFew, AnalysisAssumption DEF OfMatches
<1> QED BY <1>4, <1>5 DEF DailySuggestionsContract, list

\* The categories of a day add up.
LEMMA CategoriesAddUp ==
  ASSUME NEW items, IsFiniteSet(items), \A i \in items : Categorised(i.answer)
  PROVE  Cardinality({i \in items : Allowed(i)})
           + Cardinality({i \in items : i.answer.section = "WATCH"})
           + Cardinality({i \in items : i.answer.section = "NO_BET"})
           + Cardinality({i \in items : i.answer.decision = "INSUFFICIENT_DATA"})
           = Cardinality(items)
<1> DEFINE A == {i \in items : Allowed(i)}
           W == {i \in items : i.answer.section = "WATCH"}
           N == {i \in items : i.answer.section = "NO_BET"}
           I == {i \in items : i.answer.decision = "INSUFFICIENT_DATA"}
<1>1. /\ IsFiniteSet(A) /\ IsFiniteSet(W) /\ IsFiniteSet(N) /\ IsFiniteSet(I)
  BY FS_Subset
<1>2. /\ A \cap W = {} /\ (A \cup W) \cap N = {} /\ ((A \cup W) \cup N) \cap I = {}
      /\ items = ((A \cup W) \cup N) \cup I
  BY DEF Categorised, Allowed
<1> HIDE DEF A, W, N, I
<1>3. \A S, T : IsFiniteSet(S) /\ IsFiniteSet(T) /\ S \cap T = {} =>
                  /\ IsFiniteSet(S \cup T)
                  /\ Cardinality(S \cup T) = Cardinality(S) + Cardinality(T)
  <2> TAKE S, T
  <2> HAVE IsFiniteSet(S) /\ IsFiniteSet(T) /\ S \cap T = {}
  <2>1. /\ IsFiniteSet(S \cup T)
        /\ Cardinality(S \cup T) = Cardinality(S) + Cardinality(T) - Cardinality(S \cap T)
    BY FS_Union
  <2>2. Cardinality(S \cap T) = 0
    BY FS_EmptySet
  <2>3. Cardinality(S) \in Nat /\ Cardinality(T) \in Nat
    BY FS_CardinalityType
  <2> QED BY <2>1, <2>2, <2>3
<1>4. IsFiniteSet(A \cup W) /\ Cardinality(A \cup W) = Cardinality(A) + Cardinality(W)
  BY <1>1, <1>2, <1>3
<1>5. /\ IsFiniteSet((A \cup W) \cup N)
      /\ Cardinality((A \cup W) \cup N) = Cardinality(A \cup W) + Cardinality(N)
  BY <1>1, <1>2, <1>3, <1>4
<1>6. Cardinality(items) = Cardinality((A \cup W) \cup N) + Cardinality(I)
  BY <1>1, <1>2, <1>3, <1>5
<1> QED BY <1>4, <1>5, <1>6 DEF A, W, N, I

LEMMA OpportunitiesKeepContract ==
  ASSUME NEW items, OfMatches(items), NEW skipped,
         \A i \in items : /\ OpportunityContract(i.answer)
                          /\ Categorised(i.answer)
                          /\ \A c \in i.answer.primary : c.probability \in Int,
         Cardinality({i \in items : Allowed(i)}) <= MaxOpportunities
  PROVE  DailyOpportunitiesContract(DailyOpportunities(items, skipped))
<1> DEFINE allowed == {i \in items : Allowed(i)}
           before == {p \in allowed \X allowed : BetterOpportunity(p[1], p[2])}
           selected == FirstOf(allowed, MaxOpportunities, BetterOpportunity)
           list == DailyOpportunities(items, skipped)
<1>1. IsFiniteSet(items) /\ OfMatches(allowed)
  BY FS_Subset DEF OfMatches
<1>2. \A i \in allowed : Likelihood(i) \in Int
  <2> SUFFICES ASSUME NEW i \in allowed PROVE Likelihood(i) \in Int
    OBVIOUS
  <2> DEFINE c == CHOOSE c \in i.answer.primary : TRUE
  <2>1. i.answer.primary # {}
    BY DEF OpportunityContract, Allowed
  <2>2. c \in i.answer.primary
    BY <2>1
  <2>3. Likelihood(i) = c.probability
    BY DEF Likelihood
  <2> QED BY <2>2, <2>3
<1>3. IsOrder(allowed, before)
  <2> HIDE DEF allowed
  <2> QED BY <1>1, <1>2, OpportunitiesAreOrdered
<1>4. selected = FirstBy(allowed, before, MaxOpportunities)
  <2> HIDE DEF allowed
  <2>1. \A i \in allowed : {j \in allowed : BetterOpportunity(j, i)} = Ahead(allowed, before, i)
    BY DEF Ahead
  <2> HIDE DEF before
  <2> QED BY <2>1 DEF FirstBy, FirstOf
<1>5. /\ list.selected = selected /\ list.items = items
      /\ list.evaluated = Cardinality(items)
      /\ list.watchlist = Cardinality({i \in items : i.answer.section = "WATCH"})
      /\ list.no_bet = Cardinality({i \in items : i.answer.section = "NO_BET"})
      /\ list.insufficient = Cardinality({i \in items : i.answer.decision = "INSUFFICIENT_DATA"})
  BY DEF DailyOpportunities
<1>6. \A i \in allowed : Allowed(i)
  OBVIOUS
<1>7. Cardinality(allowed) <= MaxOpportunities
  OBVIOUS
<1>8. Cardinality(allowed) + list.watchlist + list.no_bet + list.insufficient = list.evaluated
  BY <1>1, <1>5, CategoriesAddUp
<1> HIDE DEF allowed, before, selected, list
<1>9. selected = allowed
  <2>1. MaxOpportunities \in Nat /\ IsFiniteSet(allowed)
    BY <1>1, AnalysisAssumption DEF OfMatches
  <2> QED BY <1>3, <1>4, <1>7, <2>1, FewAreFirst
<1> QED BY <1>5, <1>6, <1>7, <1>8, <1>9 DEF DailyOpportunitiesContract, list

LEMMA MatchIsAnswered ==
  ASSUME AnalyseMatch
  PROVE  AnswersKeepTheirContract'
<1>1. PICK dataset \in Datasets :
        answer' =
          IF dataset.verdict # "safe" THEN [kind |-> "analysis", status |-> dataset.verdict]
          ELSE [kind |-> "analysis",
                status |-> StatusOf(/\ AnalysisContract(Analysis(dataset))
                                    /\ \A m \in HalfTimeMarkets :
                                         HalfTimeContract(HalfTime(dataset)[m])),
                dataset |-> dataset, analysis |-> Analysis(dataset)]
  BY DEF AnalyseMatch
<1>2. CASE dataset.verdict # "safe"
  <2>1. dataset.verdict \in {"closed", "temporal", "integrity"}
    BY <1>2, AnswersAssumption DEF IsDataset
  <2>2. answer'.status # "error"
    BY <1>1, <1>2, <2>1
  <2> QED BY <2>2 DEF AnswersKeepTheirContract
<1>3. CASE dataset.verdict = "safe"
  <2>1. CanBeAnalysed(dataset)
    BY <1>3, AnswersAssumption DEF CanBeAnalysed
  <2>2. /\ AnalysisContract(Analysis(dataset))
        /\ \A m \in HalfTimeMarkets : HalfTimeContract(HalfTime(dataset)[m])
    BY <2>1, AnalysisKeepsContract, HalfTimeKeepsContract
  <2>3. answer'.status = "ok"
    BY <1>1, <1>3, <2>2 DEF StatusOf
  <2> QED BY <2>3 DEF AnswersKeepTheirContract
<1> QED BY <1>2, <1>3

LEMMA SuggestionsAreAnswered ==
  ASSUME ListSuggestions
  PROVE  AnswersKeepTheirContract'
<1>1. PICK day \in Days :
        LET items == {[match |-> m, answer |-> Analysis(day[m]).suggestion] : m \in Safe(day)}
            list == DailySuggestions(items, Skipped(day))
        IN  answer' = [kind |-> "suggestions",
                       status |-> StatusOf(DailySuggestionsContract(list)),
                       day |-> day, list |-> list]
  BY DEF ListSuggestions
<1> DEFINE f == [m \in Safe(day) |-> Analysis(day[m]).suggestion]
           items == {[match |-> m, answer |-> Analysis(day[m]).suggestion] : m \in Safe(day)}
           list == DailySuggestions(items, Skipped(day))
<1>2. OfMatches(items)
  <2>1. OfMatches({[match |-> m, answer |-> f[m]] : m \in Safe(day)})
    <3> HIDE DEF f
    <3> QED BY ItemsOfDay
  <2>2. {[match |-> m, answer |-> f[m]] : m \in Safe(day)} = items
    OBVIOUS
  <2> QED BY <2>1, <2>2
<1>3. ASSUME NEW i \in items
      PROVE  SuggestionContract(i.answer) /\ i.answer.no_bet \in BOOLEAN
  <2>1. PICK m \in Safe(day) : i.answer = Analysis(day[m]).suggestion
    BY <1>3
  <2>2. AnalysisContract(Analysis(day[m])) /\ Analysis(day[m]).suggestion.no_bet \in BOOLEAN
    BY SafeCanBeAnalysed, AnalysisKeepsContract
  <2> QED BY <2>1, <2>2 DEF AnalysisContract
<1> HIDE DEF items
<1>4. DailySuggestionsContract(list)
  BY <1>2, <1>3, SuggestionsKeepContract
<1> HIDE DEF list
<1>5. answer' = [kind |-> "suggestions", status |-> StatusOf(DailySuggestionsContract(list)),
                 day |-> day, list |-> list]
  BY <1>1 DEF items, list
<1>6. answer'.status = "ok"
  BY <1>4, <1>5 DEF StatusOf
<1> QED BY <1>6 DEF AnswersKeepTheirContract

LEMMA OpportunitiesAreAnswered ==
  ASSUME ListOpportunities
  PROVE  AnswersKeepTheirContract'
<1>1. PICK day \in Days :
        LET items == {[match |-> m, answer |-> Opportunity(day[m])] : m \in Safe(day)}
            list == DailyOpportunities(items, Skipped(day))
        IN  answer' = [kind |-> "opportunities",
                       status |-> StatusOf(DailyOpportunitiesContract(list)),
                       day |-> day, list |-> list]
  BY DEF ListOpportunities
<1> DEFINE f == [m \in Safe(day) |-> Opportunity(day[m])]
           items == {[match |-> m, answer |-> Opportunity(day[m])] : m \in Safe(day)}
           list == DailyOpportunities(items, Skipped(day))
<1>2. OfMatches(items)
  <2>1. OfMatches({[match |-> m, answer |-> f[m]] : m \in Safe(day)})
    <3> HIDE DEF f
    <3> QED BY ItemsOfDay
  <2>2. {[match |-> m, answer |-> f[m]] : m \in Safe(day)} = items
    OBVIOUS
  <2> QED BY <2>1, <2>2
<1>3. ASSUME NEW i \in items
      PROVE  /\ OpportunityContract(i.answer)
             /\ Categorised(i.answer)
             /\ \A c \in i.answer.primary : c.probability \in Int
  <2>1. PICK m \in Safe(day) : i.answer = Opportunity(day[m])
    BY <1>3
  <2> QED BY <2>1, SafeCanBeAnalysed, OpportunityKeepsContract
<1>4. list.items = items
  <2> HIDE DEF items
  <2> QED BY DEF DailyOpportunities
<1> HIDE DEF items
<1>5. Cardinality({i \in items : Allowed(i)}) <= MaxOpportunities
        => DailyOpportunitiesContract(list)
  BY <1>2, <1>3, OpportunitiesKeepContract
<1> HIDE DEF list
<1>6. answer' = [kind |-> "opportunities", status |-> StatusOf(DailyOpportunitiesContract(list)),
                 day |-> day, list |-> list]
  BY <1>1 DEF items, list
<1>7. answer'.kind = "opportunities" /\ answer'.list.items = items
  BY <1>4, <1>6
<1>8. CASE DailyOpportunitiesContract(list)
  <2>1. answer'.status = "ok"
    BY <1>6, <1>8 DEF StatusOf
  <2> QED BY <2>1 DEF AnswersKeepTheirContract
<1>9. CASE ~DailyOpportunitiesContract(list)
  <2>1. Cardinality({i \in items : Allowed(i)}) \in Nat /\ MaxOpportunities \in Nat
    BY <1>2, FS_Subset, FS_CardinalityType, AnalysisAssumption DEF OfMatches
  <2>2. Cardinality({i \in items : Allowed(i)}) > MaxOpportunities
    BY <1>5, <1>9, <2>1
  <2> QED BY <1>7, <2>2 DEF AnswersKeepTheirContract
<1> QED BY <1>8, <1>9

\* The validators of schemas.py accept every answer the services build, for any datasets,
\* windows and thresholds, so that no request ends in an internal error; the one exception
\* is a day with more allowed matches than the list of opportunities holds.
THEOREM AnswersAreAccepted == Spec => []AnswersKeepTheirContract
<1>1. Init => AnswersKeepTheirContract
  BY DEF Init, AnswersKeepTheirContract
<1>2. AnswersKeepTheirContract /\ [Next]_answer => AnswersKeepTheirContract'
  <2> SUFFICES ASSUME AnswersKeepTheirContract, [Next]_answer
               PROVE  AnswersKeepTheirContract'
    OBVIOUS
  <2>1. CASE AnalyseMatch
    BY <2>1, MatchIsAnswered
  <2>2. CASE ListSuggestions
    BY <2>2, SuggestionsAreAnswered
  <2>3. CASE ListOpportunities
    BY <2>3, OpportunitiesAreAnswered
  <2>4. CASE UNCHANGED answer
    BY <2>4 DEF AnswersKeepTheirContract
  <2> QED BY <2>1, <2>2, <2>3, <2>4 DEF Next
<1> QED BY <1>1, <1>2, PTL DEF Spec
===============================================================================
