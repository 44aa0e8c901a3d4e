---------------------------- MODULE KairosAnalysis ----------------------------
(***************************************************************************)
(* The pre-match analysis of apps/api/app/modules/kairos: the functions    *)
(* that turn a dataset into a feature profile, a data quality, an analysis,*)
(* a suggestion, six half-time markets and an opportunity (services.py,    *)
(* suggestions.py, half_time.py, opportunities.py), the two daily lists of *)
(* routes/kairos.py, and the contracts that schemas.py holds the answers   *)
(* to.                                                                     *)
(*                                                                         *)
(* Scores are in tenths of a point, probabilities of the half-time markets *)
(* in millionths, the others in percent.  What the Poisson model makes of  *)
(* the averages is a forecast given with the dataset: any probabilities    *)
(* that satisfy the relations its result is built with.                    *)
(***************************************************************************)
EXTENDS Integers, Sequences, FiniteSetsExt

CONSTANTS
  RecentWindow,      \* RECENT_WINDOW_MATCHES, HALF_TIME_RECENT_WINDOW
  MinimumResults,    \* MINIMUM_RESULTS_PER_TEAM, HALF_TIME_MINIMUM_SAMPLE_PER_TEAM
  H2HLimit,          \* HALF_TIME_H2H_LIMIT
  H2HMinimum,        \* HALF_TIME_H2H_MINIMUM_SAMPLE
  TtlMinutes,        \* freshness_threshold_minutes
  TicksPerMinute,    \* the resolution of an age
  MaxSuggestions,    \* MAX_DAILY_SUGGESTIONS
  MaxOpportunities   \* MAX_DAILY_OPPORTUNITIES

ASSUME AnalysisAssumption ==
  /\ {RecentWindow, MinimumResults, H2HLimit, H2HMinimum} \subseteq Nat \ {0}
  /\ {TtlMinutes, TicksPerMinute, MaxSuggestions, MaxOpportunities} \subseteq Nat \ {0}

Unknown == -1
Certain == 1000000   \* a probability of one
Tally == Nat \cup {Unknown}
Metrics == {"shots", "possession", "corners", "cards"}

\* A match of a team's history: where that team played, the goals of the match and of its
\* first half, and the metrics whose values are known and valid.
Row(matches) ==
  [match : matches, venue : {"home", "away"}, full : Tally, half : Tally,
   metrics : SUBSET Metrics]

\* n / d, rounded to the nearest.
Rounded(n, d) == (2 * n + d) \div (2 * d)
Clamped(n, low, high) == Max({low, Min({n, high})})

-----------------------------------------------------------------------------
(* Features, availability, data quality.                                     *)

\* FEATURE_WEIGHTS, in percent.
FeatureWeight ==
  [recent_form |-> 16, standings |-> 12, home_away |-> 12, goals |-> 22, shots |-> 10,
   possession |-> 9, corners |-> 8, cards |-> 6, provenance |-> 5]
Features == DOMAIN FeatureWeight

Recent(history) == SubSeq(history, 1, Min({Len(history), RecentWindow}))
Scored(rows) == {i \in DOMAIN rows : rows[i].full # Unknown}
Measured(rows, metric) == Cardinality({i \in DOMAIN rows : metric \in rows[i].metrics})

\* _build_team_profile: the number of samples behind each feature.
Profile(history, side, ranked) ==
  LET recent == Recent(history)
      results == Cardinality(Scored(recent))
      there == {i \in Scored(history) : history[i].venue = side}
  IN  [recent_form |-> results,
       standings |-> IF ranked THEN 1 ELSE 0,
       home_away |-> Min({Cardinality(there), RecentWindow}),
       goals |-> results,
       shots |-> Measured(recent, "shots"),
       possession |-> Measured(recent, "possession"),
       corners |-> Measured(recent, "corners"),
       cards |-> Measured(recent, "cards"),
       provenance |-> 1]

\* The samples a feature needs for a full coverage.
Required ==
  [f \in Features |->
     IF f \in {"standings", "provenance"} THEN 1
     ELSE IF f = "home_away" THEN MinimumResults ELSE RecentWindow]

\* _feature_availability: the coverage is in tenths of a percent.
Availability(home, away) ==
  [f \in Features |->
     [coverage |-> Rounded(500 * (Min({home[f], Required[f]}) + Min({away[f], Required[f]})),
                           Required[f]),
      both |-> home[f] > 0 /\ away[f] > 0]]

\* _data_quality_score: two points less for each unsafe flag of a source, ten if stale.
DataQuality(availability, flags, stale) ==
  LET weighted == [f \in Features |-> FeatureWeight[f] * availability[f].coverage]
      covered == SumFunctionOnSet(weighted, Features)
      lowered == covered - Min({2000 * flags, 20000}) - (IF stale THEN 10000 ELSE 0)
  IN  Rounded(Clamped(lowered, 0, 85000), 100)

\* _freshness counts whole minutes.
Stale(dataset) == dataset.age \div TicksPerMinute > TtlMinutes

\* _is_stale, of the half-time markets, does not.
StaleSource(dataset) ==
  \/ ~dataset.marked_fresh
  \/ dataset.age > TtlMinutes * TicksPerMinute

-----------------------------------------------------------------------------
(* The baseline.                                                             *)

\* The relations in which _poisson_market_probabilities leaves its result.
Probabilities(homeWin, draw, over, btts) ==
  LET awayWin == 100 - homeWin - draw
  IN  [HOME_WIN |-> homeWin, DRAW |-> draw, AWAY_WIN |-> awayWin,
       HOME_OR_DRAW |-> homeWin + draw, AWAY_OR_DRAW |-> awayWin + draw,
       HOME_OR_AWAY |-> homeWin + awayWin,
       OVER_2_5 |-> over, UNDER_2_5 |-> 100 - over, BTTS |-> btts]

\* _confidence_score; consistency is the share, in percent, of the signals that agree.
Confidence(quality, home, away, consistency) ==
  LET samples == Min({home.goals, RecentWindow}) + Min({away.goals, RecentWindow})
  IN  Min({650, Rounded(RecentWindow * (quality + consistency) + 150 * samples,
                        2 * RecentWindow)})

\* _reasons: the baseline, then the signals both teams have a value for.
Signals == {"recent_form", "standings", "home_away", "shots", "possession", "corners", "cards"}
Reasons(availability, sufficient) ==
  IF sufficient
  THEN <<"GOAL_RATE_BASELINE">>
         \o [i \in 1..Cardinality({f \in Signals : availability[f].both}) |-> "SIGNAL"]
  ELSE <<"RESULT_SAMPLE_BELOW_MINIMUM">>

Warning(code, severity) == [code |-> code, severity |-> severity]

\* _base_warnings and the one analyze adds.
Warnings(availability, home, away, stale, sufficient) ==
  LET partial == {f \in Features \ {"provenance"} : availability[f].coverage < 1000}
      small == home.goals < RecentWindow \/ away.goals < RecentWindow
  IN  <<Warning("UNCALIBRATED_BASELINE", "warning"),
        Warning("ANALYSIS_ONLY_NO_BETTING", "info"),
        Warning("LIVE_AUTOMATION_DISABLED", "info"),
        Warning("SINGLE_PROVIDER", "warning"),
        Warning("DRIFT_MONITORING_UNAVAILABLE", "warning")>>
      \o [i \in 1..Cardinality(partial) |-> Warning("PARTIAL", "warning")]
      \o (IF small THEN <<Warning("SMALL_RECENT_SAMPLE", "warning")>> ELSE <<>>)
      \o (IF stale THEN <<Warning("STALE_TARGET_DATA", "warning")>> ELSE <<>>)
      \o (IF sufficient THEN <<>>
          ELSE <<Warning("INSUFFICIENT_RESULT_HISTORY", "blocking")>>)

-----------------------------------------------------------------------------
(* The suggestion.                                                           *)

Recommendations ==
  <<"HOME_WIN", "AWAY_WIN", "DRAW", "HOME_OR_DRAW", "AWAY_OR_DRAW", "HOME_OR_AWAY",
    "OVER_2_5", "UNDER_2_5", "BTTS">>

\* The outcomes a market covers, of how many: the probability of a guess.
Guess(market) ==
  IF market \in {"HOME_WIN", "AWAY_WIN", "DRAW"} THEN <<1, 3>>
  ELSE IF market \in {"HOME_OR_DRAW", "AWAY_OR_DRAW", "HOME_OR_AWAY"} THEN <<2, 3>>
  ELSE <<1, 2>>

\* signal_strength, in tenths of a percent: the share of what a guess leaves open.
SignalStrength(p) ==
  [market \in DOMAIN p |->
     LET guess == Guess(market)
         above == 10 * (p[market] * guess[2] - 100 * guess[1])
     IN  Clamped(above \div (guess[2] - guess[1]), 0, 1000)]

\* _best_candidate: the strongest signal, the first of those as strong.
BestCandidate(p) ==
  LET strength == SignalStrength(p)
      best(i) == \A j \in DOMAIN Recommendations :
                   strength[Recommendations[j]] <= strength[Recommendations[i]]
  IN  Recommendations[Min({i \in DOMAIN Recommendations : best(i)})]

Critical(warning) == warning.severity = "blocking" \/ warning.code = "STALE_TARGET_DATA"
Reason(code, critical) == [code |-> code, critical |-> critical]

\* What is for information only is no reason.
NoReason == Reason("none", FALSE)
ReasonOf(warning) ==
  IF warning.severity = "info" THEN NoReason ELSE Reason(warning.code, Critical(warning))

\* Of the reasons found, those that fewer than twelve others come before; before[i] is what
\* comes before position i.
Foremost(all, before) ==
  LET told == {i \in DOMAIN all : all[i] # NoReason}
      kept == {i \in told : Cardinality(told \cap before[i]) < 12}
  IN  [i \in kept |-> all[i]]

\* Variant for mutation: the reasons are kept in the order they were found in.
FirstReasons(all) == Foremost(all, [i \in DOMAIN all |-> 1..(i-1)])

\* The critical ones first, twelve in all.
KeptReasons(all) ==
  Foremost(all, [i \in DOMAIN all |->
                   {j \in DOMAIN all : \/ all[j].critical /\ ~all[i].critical
                                       \/ all[j].critical = all[i].critical /\ j < i}])

\* _suggestion_reasons.
SuggestionReasons(ready, blocked, noBet, reasons, warnings) ==
  LET gate == IF blocked THEN <<Reason("NO_BET_HARD_BLOCK", TRUE)>>
              ELSE IF noBet THEN <<Reason("NO_BET_SCORE_GATE", TRUE)>> ELSE <<>>
      first == SubSeq(reasons, 1, Min({5, Len(reasons)}))
  IN  KeptReasons((IF ready THEN <<Reason("NORMALIZED_MARKET_SIGNAL", FALSE)>> ELSE <<>>)
        \o <<Reason("DATA_QUALITY_LIMIT", FALSE), Reason("TECHNICAL_RELIABILITY_LIMIT", FALSE)>>
        \o gate
        \o [i \in DOMAIN first |-> Reason(first[i], FALSE)]
        \o [i \in DOMAIN warnings |-> ReasonOf(warnings[i])])

\* build_kairos_suggestion: the weakest of quality, reliability and signal is the score.
Suggestion(ready, p, confidence, quality, stale, reasons, warnings) ==
  LET strength == IF ready THEN SignalStrength(p)[BestCandidate(p)] ELSE 0
      reliability == Clamped(Rounded(1000 * confidence, 650), 0, 1000)
      score == Min({quality, reliability, strength})
      blocked == ~ready \/ stale \/ \E i \in DOMAIN warnings : Critical(warnings[i])
      noBet == blocked \/ strength = 0 \/ score < 400
  IN  [code |-> IF noBet THEN "NO_BET" ELSE BestCandidate(p),
       score |-> score,
       no_bet |-> noBet,
       level |-> IF blocked THEN "blocked"
                 ELSE IF confidence < 400 THEN "low"
                 ELSE IF confidence < 700 THEN "medium" ELSE "high",
       risk |-> IF noBet THEN "high" ELSE "elevated",
       priced |-> ready,
       reasons |-> SuggestionReasons(ready, blocked, noBet, reasons, warnings)]

\* KairosAnalysisService.analyze, once the dataset has passed its integrity checks.
Analysis(dataset) ==
  LET home == Profile(dataset.home, "home", "home" \in dataset.standings)
      away == Profile(dataset.away, "away", "away" \in dataset.standings)
      availability == Availability(home, away)
      stale == Stale(dataset)
      quality == DataQuality(availability, dataset.flags, stale)
      sufficient == home.goals >= MinimumResults /\ away.goals >= MinimumResults
      confidence == IF sufficient
                    THEN Confidence(quality, home, away, dataset.consistency) ELSE 0
      warnings == Warnings(availability, home, away, stale, sufficient)
  IN  [ready |-> sufficient,
       decision |-> IF sufficient THEN "NO_BET" ELSE "INSUFFICIENT_DATA",
       probabilities |-> dataset.forecast,
       confidence |-> confidence,
       quality |-> quality,
       stale |-> stale,
       availability |-> availability,
       warnings |-> warnings,
       suggestion |-> Suggestion(sufficient, dataset.forecast, confidence, quality, stale,
                                 Reasons(availability, sufficient), warnings)]

-----------------------------------------------------------------------------
(* The half-time markets.                                                    *)

HalfTimeMarkets ==
  {"FIRST_HALF_MORE_GOALS", "SECOND_HALF_MORE_GOALS", "EQUAL_HALF_GOALS",
   "FIRST_HALF_OVER_0_5", "SECOND_HALF_OVER_0_5", "SECOND_HALF_OVER_1_5"}
Comparisons == {"FIRST_HALF_MORE_GOALS", "SECOND_HALF_MORE_GOALS", "EQUAL_HALF_GOALS"}

\* half_goal_totals: a match whose first half has more goals than the match says nothing.
HasHalves(row) ==
  /\ row.half # Unknown
  /\ row.full # Unknown
  /\ row.half <= row.full

\* _samples: the newest matches that say how many goals each half had, each match once.
Samples(history, limit) ==
  LET first(i) == \A j \in 1..i-1 : HasHalves(history[j]) => history[j].match # history[i].match
      usable == {i \in DOMAIN history : HasHalves(history[i]) /\ first(i)}
  IN  {[match |-> history[i].match, first |-> history[i].half,
        second |-> history[i].full - history[i].half] :
         i \in {k \in usable : Cardinality({j \in usable : j < k}) < limit}}

\* _deduplicate: of a match both teams played, the later entry stays.
Merged(home, away) ==
  away \cup {s \in home : ~\E t \in away : t.match = s.match}

Hits(market, s) ==
  \/ market = "FIRST_HALF_MORE_GOALS" /\ s.first > s.second
  \/ market = "SECOND_HALF_MORE_GOALS" /\ s.second > s.first
  \/ market = "EQUAL_HALF_GOALS" /\ s.first = s.second
  \/ market = "FIRST_HALF_OVER_0_5" /\ s.first >= 1
  \/ market = "SECOND_HALF_OVER_0_5" /\ s.second >= 1
  \/ market = "SECOND_HALF_OVER_1_5" /\ s.second >= 2

\* _probabilities, as a fraction: a hit more, and a sample more for each alternative.
Frequency(market, samples) ==
  <<Cardinality({s \in samples : Hits(market, s)}) + 1,
    Cardinality(samples) + (IF market \in Comparisons THEN 3 ELSE 2)>>

\* In millionths; meetings of the two teams weigh a tenth, if there are enough of them.
Estimate(market, samples, meetings) ==
  LET f == Frequency(market, samples)
      g == Frequency(market, meetings)
  IN  IF Cardinality(meetings) < H2HMinimum THEN Rounded(1000000 * f[1], f[2])
      ELSE Rounded(100000 * (9 * f[1] * g[2] + g[1] * f[2]), f[2] * g[2])

\* _quality_score.
HalfTimeQuality(home, away, meetings, standings, goalEvents, stale) ==
  LET covered == Rounded(450 * (Min({home, RecentWindow}) + Min({away, RecentWindow})),
                         2 * RecentWindow)
      score == 250 + covered + 25 * Min({standings, 2}) + 10 * Min({goalEvents, 5})
                 + (IF meetings >= H2HMinimum THEN 50 ELSE 0) - (IF stale THEN 200 ELSE 0)
  IN  Clamped(score, 0, 850)

\* _technical_confidence.
HalfTimeConfidence(samples, home, away, meetings, stale) ==
  LET balance == Rounded(50 * Min({home, away}), Max({home, away, 1}))
      score == 300 + 25 * Min({samples, 10}) + balance
                 + (IF meetings >= H2HMinimum THEN 50 ELSE 0) - (IF stale THEN 150 ELSE 0)
  IN  Clamped(score, 0, 650)

\* The thresholds of opportunity_config.py.
Strong(probability, quality, confidence) ==
  probability >= 700000 /\ quality >= 650 /\ confidence >= 500

\* _analysis, of one market.
HalfTimeMarket(market, estimate, quality, confidence, samples, guardrails) ==
  [market |-> market, probability |-> estimate, quality |-> quality, confidence |-> confidence,
   samples |-> samples, insufficient |-> estimate = Unknown, guardrails |-> guardrails,
   eligible |-> guardrails = {} /\ Strong(estimate, quality, confidence)]

\* analyze_half_time_markets.
HalfTime(dataset) ==
  LET home == Samples(dataset.home, RecentWindow)
      away == Samples(dataset.away, RecentWindow)
      merged == Merged(home, away)
      meetings == Samples(dataset.h2h, H2HLimit)
      insufficient == Cardinality(home) < MinimumResults \/ Cardinality(away) < MinimumResults
      stale == StaleSource(dataset)
      quality == HalfTimeQuality(Cardinality(home), Cardinality(away), Cardinality(meetings),
                                 Cardinality(dataset.standings), dataset.goal_events, stale)
      confidence == HalfTimeConfidence(Cardinality(merged), Cardinality(home),
                                       Cardinality(away), Cardinality(meetings), stale)
  IN  [market \in HalfTimeMarkets |->
         IF insufficient
         THEN HalfTimeMarket(market, Unknown, quality, 0, Cardinality(merged),
                             {"INSUFFICIENT_HALF_TIME_HISTORY"})
         ELSE HalfTimeMarket(market, Estimate(market, merged, meetings), quality, confidence,
                             Cardinality(merged), IF stale THEN {"STALE_SOURCE_DATA"} ELSE {})]

-----------------------------------------------------------------------------
(* The opportunity of a match.                                               *)

DoubleChances == <<"HOME_OR_DRAW", "AWAY_OR_DRAW", "HOME_OR_AWAY">>
Group(market) == IF market \in HalfTimeMarkets THEN "half_time" ELSE "double_chance"

\* _double_chance_candidate: the likeliest of the three, if the analysis stands.
DoubleChance(analysis) ==
  LET p == analysis.probabilities
      likeliest(i) == \A j \in DOMAIN DoubleChances : p[DoubleChances[j]] <= p[DoubleChances[i]]
      market == DoubleChances[Min({i \in DOMAIN DoubleChances : likeliest(i)})]
  IN  {c \in {[market |-> market, probability |-> 10000 * p[market],
               quality |-> analysis.quality, confidence |-> analysis.confidence]} :
         /\ analysis.ready
         /\ ~analysis.suggestion.no_bet
         /\ ~analysis.stale
         /\ Strong(c.probability, c.quality, c.confidence)}

Candidates(analysis, markets) ==
  {[market |-> markets[m].market, probability |-> markets[m].probability,
    quality |-> markets[m].quality, confidence |-> markets[m].confidence] :
     m \in {n \in HalfTimeMarkets : markets[n].eligible}}
    \cup DoubleChance(analysis)

\* The names of the markets, in the order of the alphabet.
Alphabet ==
  <<"AWAY_OR_DRAW", "EQUAL_HALF_GOALS", "FIRST_HALF_MORE_GOALS", "FIRST_HALF_OVER_0_5",
    "HOME_OR_AWAY", "HOME_OR_DRAW", "SECOND_HALF_MORE_GOALS", "SECOND_HALF_OVER_0_5",
    "SECOND_HALF_OVER_1_5">>

\* The key the candidates are sorted by.
Precedes(c, d) ==
  LET place(market) == CHOOSE i \in DOMAIN Alphabet : Alphabet[i] = market
  IN  \/ c.probability > d.probability
      \/ /\ c.probability = d.probability
         /\ \/ c.quality > d.quality
            \/ /\ c.quality = d.quality
               /\ \/ c.confidence > d.confidence
                  \/ c.confidence = d.confidence /\ place(c.market) < place(d.market)

Primary(candidates) == {c \in candidates : ~\E d \in candidates : Precedes(d, c)}

\* Variant for mutation: correlated markets are not left out.
AllOthers(candidates) == candidates \ Primary(candidates)

\* Of each other group, its first candidate; there are two groups, and room for two.
Alternatives(candidates) ==
  {c \in candidates \ Primary(candidates) :
     ~\E d \in candidates : Group(d.market) = Group(c.market) /\ Precedes(d, c)}

Section(market) ==
  IF market \in Comparisons THEN "HALF_TIME"
  ELSE IF market \in HalfTimeMarkets THEN "GOAL_MARKETS" ELSE "DOUBLE_CHANCE"

\* A guardrail other than staleness.
CriticalGuardrail(analysis, markets) ==
  \/ \E i \in DOMAIN analysis.warnings : analysis.warnings[i].severity = "blocking"
  \/ \E m \in HalfTimeMarkets : \E g \in markets[m].guardrails : g # "STALE_SOURCE_DATA"

\* Variant for mutation: the age is that of the analysis only.
StaleByMinutes(analysis, markets) == analysis.stale

\* By either clock.
StaleByEither(analysis, markets) ==
  analysis.stale \/ \E m \in HalfTimeMarkets : "STALE_SOURCE_DATA" \in markets[m].guardrails

\* The reasons _rejection_reasons finds before it falls back on critical_guardrail.
Causes(analysis, markets) ==
  LET all(Test(_)) == \A m \in HalfTimeMarkets : Test(markets[m])
      cause(name, holds) == IF holds THEN {name} ELSE {}
  IN  cause("insufficient_half_time_data", all(LAMBDA m : m.insufficient))
      \cup cause("stale_data", StaleByEither(analysis, markets))
      \cup cause("low_data_quality", all(LAMBDA m : m.quality < 650))
      \cup cause("low_technical_confidence", all(LAMBDA m : m.confidence < 500))
      \cup cause("estimated_probability_below_threshold",
             /\ ~all(LAMBDA m : m.probability = Unknown)
             /\ all(LAMBDA m : m.probability < 700000))
      \cup cause("critical_guardrail", CriticalGuardrail(analysis, markets))
      \cup cause("provider_data_partial", \E f \in Features : ~analysis.availability[f].both)

RejectionReasons(analysis, markets) ==
  LET causes == Causes(analysis, markets)
  IN  IF causes = {} THEN {"critical_guardrail"} ELSE causes

\* _missing_data.
MissingData(dataset, markets) ==
  LET missing(name, holds) == IF holds THEN {name} ELSE {}
  IN  missing("half_time_scores", \A m \in HalfTimeMarkets : markets[m].insufficient)
      \cup missing("goal_events", dataset.goal_events = 0)
      \cup missing("h2h", Len(dataset.h2h) < 3)
      \cup missing("standings", Cardinality(dataset.standings) < 2)
      \cup missing("match_statistics", ~dataset.statistics)

\* KairosOpportunityService.analyze.
Opportunity(dataset) ==
  LET analysis == Analysis(dataset)
      markets == HalfTime(dataset)
      candidates == Candidates(analysis, markets)
      primary == Primary(candidates)
      insufficient == \A m \in HalfTimeMarkets : markets[m].insufficient
      rejections == IF candidates = {} THEN RejectionReasons(analysis, markets) ELSE {}
      blocked == rejections \cap {"stale_data", "critical_guardrail"} # {}
  IN  [section |-> IF candidates # {} THEN Section((CHOOSE c \in primary : TRUE).market)
                   ELSE IF insufficient THEN "INSUFFICIENT_DATA"
                   ELSE IF blocked THEN "NO_BET" ELSE "WATCH",
       decision |-> IF candidates # {} THEN "ANALYSIS_ALLOWED"
                    ELSE IF insufficient THEN "INSUFFICIENT_DATA" ELSE "NO_BET",
       primary |-> primary,
       alternatives |-> Alternatives(candidates),
       rejections |-> rejections,
       missing |-> MissingData(dataset, markets),
       stale |-> analysis.stale]

-----------------------------------------------------------------------------
(* The two lists of a day.  An item is an answer with the match it is about; *)
(* matches are numbered in the order of their kickoff.                       *)

\* The first of a set of items, in the order that Before gives them.
FirstOf(items, limit, Before(_, _)) ==
  {i \in items : Cardinality({j \in items : Before(j, i)}) < limit}

\* The key of the suggestions: recommendations first, the best score first.
BetterSuggestion(a, b) ==
  \/ ~a.answer.no_bet /\ b.answer.no_bet
  \/ /\ a.answer.no_bet = b.answer.no_bet
     /\ \/ a.answer.score > b.answer.score
        \/ a.answer.score = b.answer.score /\ a.match < b.match

\* _daily_suggestions_for_date, of the matches that could be analysed and the others.
DailySuggestions(items, skipped) ==
  [evaluated |-> Cardinality(items), skipped |-> skipped, items |-> items,
   selected |-> FirstOf(items, MaxSuggestions, BetterSuggestion)]

Allowed(item) == item.answer.decision = "ANALYSIS_ALLOWED"
Likelihood(item) == IF Allowed(item) THEN (CHOOSE c \in item.answer.primary : TRUE).probability
                    ELSE 0

\* The key of the opportunities: the likeliest first.
BetterOpportunity(a, b) ==
  \/ Allowed(a) /\ ~Allowed(b)
  \/ /\ Allowed(a) = Allowed(b)
     /\ \/ Likelihood(a) > Likelihood(b)
        \/ Likelihood(a) = Likelihood(b) /\ a.match < b.match

\* _opportunity_message.
Message(opportunities, evaluated, insufficient, stale, skipped) ==
  IF opportunities > 0 THEN "opportunities_available"
  ELSE IF evaluated = insufficient THEN "insufficient_data"
  ELSE IF stale + skipped > 0 THEN "partial_sync"
  ELSE "no_solid_opportunity"

\* _daily_opportunities_for_date.
DailyOpportunities(items, skipped) ==
  LET selected == FirstOf({i \in items : Allowed(i)}, MaxOpportunities, BetterOpportunity)
      count(Test(_)) == Cardinality({i \in items : Test(i.answer)})
      insufficient == count(LAMBDA a : a.decision = "INSUFFICIENT_DATA")
      staleReasons == count(LAMBDA a : "stale_data" \in a.rejections)
      stale == count(LAMBDA a : a.stale)
      partial == count(LAMBDA a : a.missing # {}) + skipped
  IN  [evaluated |-> Cardinality(items),
       skipped |-> skipped,
       items |-> items,
       selected |-> selected,
       watchlist |-> count(LAMBDA a : a.section = "WATCH"),
       no_bet |-> count(LAMBDA a : a.section = "NO_BET"),
       insufficient |-> insufficient,
       message |-> Message(Cardinality(selected), Cardinality(items), insufficient,
                           staleReasons, skipped),
       freshness |-> IF partial > 0 THEN "partial"
                     ELSE IF stale > 0 THEN "stale"
                     ELSE IF items # {} THEN "fresh" ELSE "missing"]

-----------------------------------------------------------------------------
(* The contracts of schemas.py: an answer that breaks one is not sent.       *)

ProbabilitiesContract(p) ==
  /\ \A name \in DOMAIN p : p[name] \in 0..100
  /\ p.HOME_WIN + p.DRAW + p.AWAY_WIN = 100
  /\ p.OVER_2_5 + p.UNDER_2_5 = 100
  /\ p.HOME_OR_DRAW = p.HOME_WIN + p.DRAW
  /\ p.AWAY_OR_DRAW = p.AWAY_WIN + p.DRAW
  /\ p.HOME_OR_AWAY = p.HOME_WIN + p.AWAY_WIN

SuggestionContract(s) ==
  /\ s.score \in 0..1000
  /\ Cardinality(DOMAIN s.reasons) <= 12
  /\ s.no_bet <=> s.code = "NO_BET"
  /\ ~s.no_bet => s.priced /\ s.score >= 400

AnalysisContract(a) ==
  /\ a.confidence \in 0..650
  /\ a.quality \in 0..1000
  /\ SuggestionContract(a.suggestion)
  /\ IF a.ready THEN a.decision = "NO_BET" /\ ProbabilitiesContract(a.probabilities)
     ELSE a.decision = "INSUFFICIENT_DATA" /\ a.confidence = 0

HalfTimeContract(m) ==
  /\ m.quality \in 0..850
  /\ m.confidence \in 0..650
  /\ m.samples \in 0..2 * RecentWindow
  /\ m.probability = Unknown \/ m.probability \in 0..Certain
  /\ m.insufficient => m.probability = Unknown
  /\ m.eligible => /\ ~m.insufficient
                   /\ m.guardrails = {}
                   /\ Strong(m.probability, m.quality, m.confidence)

OpportunityContract(o) ==
  LET selections == o.primary \cup o.alternatives
  IN  /\ Cardinality(o.alternatives) <= 2
      /\ Cardinality(o.primary) <= 1
      /\ IF o.decision = "ANALYSIS_ALLOWED"
         THEN o.primary # {} /\ o.rejections = {}
         ELSE selections = {} /\ o.rejections # {}
      /\ o.decision = "INSUFFICIENT_DATA" => o.section = "INSUFFICIENT_DATA"
      /\ o.primary \cap o.alternatives = {}
      /\ \A c, d \in selections : Group(c.market) = Group(d.market) => c = d

DailySuggestionsContract(answer) ==
  /\ Cardinality(answer.selected) <= MaxSuggestions
  /\ \A i \in answer.items : SuggestionContract(i.answer)

DailyOpportunitiesContract(answer) ==
  /\ Cardinality(answer.selected) <= MaxOpportunities
  /\ \A i \in answer.items : OpportunityContract(i.answer)
  /\ \A i \in answer.selected : Allowed(i)
  /\ Cardinality(answer.selected) + answer.watchlist + answer.no_bet + answer.insufficient
       = answer.evaluated
=============================================================================
