---------------------------- MODULE KairosAnswers ----------------------------
(***************************************************************************)
(* What the handlers of routes/kairos.py answer once their datasets are    *)
(* read: the analysis of a match, the suggestions and the opportunities of *)
(* a day.  The services compute them and schemas.py refuses an answer that *)
(* breaks its contract, which ends the request in an internal error.       *)
(*                                                                         *)
(* How a request gets as far, and how a dataset is read while observations *)
(* are being stored, is the subject of module KairosRoutes.                *)
(***************************************************************************)
EXTENDS KairosAnalysis

CONSTANTS
  Datasets,     \* what may be read of a match
  DayDatasets,  \* what may be read of a match of a day
  MaxTargets    \* MAX_DAILY_TARGET_MATCHES

\* A match can be analysed once its dataset has passed the checks, which is then of the
\* types of the code.  The rates of goals lie between 0.05 and 4.5, so that no outcome is as
\* unlikely as what is lost in rounding two others.
IsHistory(rows) == rows \in Seq(Row({rows[i].match : i \in DOMAIN rows}))
IsForecast(p) ==
  /\ {p.HOME_WIN, p.DRAW, p.OVER_2_5, p.BTTS} \subseteq 0..100
  /\ p.HOME_WIN + p.DRAW <= 100
  /\ p = Probabilities(p.HOME_WIN, p.DRAW, p.OVER_2_5, p.BTTS)
IsDataset(dataset) ==
  \/ dataset.verdict \in {"closed", "temporal", "integrity"}
  \/ /\ dataset.verdict = "safe"
     /\ \A rows \in {dataset.home, dataset.away, dataset.h2h} : IsHistory(rows)
     /\ dataset.standings \subseteq {"home", "away"}
     /\ {dataset.statistics, dataset.marked_fresh} \subseteq BOOLEAN
     /\ {dataset.goal_events, dataset.flags, dataset.age} \subseteq Nat
     /\ IsForecast(dataset.forecast)
     /\ dataset.consistency \in 0..100

ASSUME AnswersAssumption ==
  /\ MaxTargets \in Nat
  /\ \A dataset \in Datasets \cup DayDatasets : IsDataset(dataset)

VARIABLE answer   \* the last answer of a handler

Nothing == [kind |-> "none"]

Init == answer = Nothing

\* An answer that schemas.py does not accept is not sent.
StatusOf(accepted) == IF accepted THEN "ok" ELSE "error"

\* match_analysis.
AnalyseMatch ==
  \E dataset \in Datasets :
    answer' =
      IF dataset.verdict # "safe" THEN [kind |-> "analysis", status |-> dataset.verdict]
      ELSE LET analysis == Analysis(dataset)
               markets == HalfTime(dataset)
               accepted == /\ AnalysisContract(analysis)
                           /\ \A m \in HalfTimeMarkets : HalfTimeContract(markets[m])
           IN  [kind |-> "analysis", status |-> StatusOf(accepted), dataset |-> dataset,
                analysis |-> analysis]

\* What is read of a day: a dataset for each of its targets.
Days == UNION {[1..n -> DayDatasets] : n \in 0..MaxTargets}
Safe(day) == {match \in DOMAIN day : day[match].verdict = "safe"}
Skipped(day) == Cardinality(DOMAIN day) - Cardinality(Safe(day))

\* _daily_suggestions_for_date.
ListSuggestions ==
  \E day \in Days :
    LET items == {[match |-> m, answer |-> Analysis(day[m]).suggestion] : m \in Safe(day)}
        list == DailySuggestions(items, Skipped(day))
    IN  answer' = [kind |-> "suggestions", status |-> StatusOf(DailySuggestionsContract(list)),
                   day |-> day, list |-> list]

\* _daily_opportunities_for_date.
ListOpportunities ==
  \E day \in Days :
    LET items == {[match |-> m, answer |-> Opportunity(day[m])] : m \in Safe(day)}
        list == DailyOpportunities(items, Skipped(day))
    IN  answer' = [kind |-> "opportunities",
                   status |-> StatusOf(DailyOpportunitiesContract(list)),
                   day |-> day, list |-> list]

Next == answer = Nothing /\ (AnalyseMatch \/ ListSuggestions \/ ListOpportunities)

Spec == Init /\ [][Next]_answer

-----------------------------------------------------------------------------
(* Properties.                                                               *)

Listed(kind) == IF answer.kind = kind THEN answer.list.items ELSE {}

\* schemas.py accepts every answer the services build, so that no request ends in an
\* internal error; the one exception is a day with more allowed matches than the list of
\* opportunities holds.
AnswersKeepTheirContract ==
  answer # Nothing /\ answer.status = "error" =>
    /\ answer.kind = "opportunities"
    /\ Cardinality({i \in answer.list.items : Allowed(i)}) > MaxOpportunities

\* What the validator of the daily opportunities demands of every day: their categories add
\* up to what was evaluated.
EveryDayIsListed == answer.kind = "opportunities" => answer.status = "ok"

\* What a suggestion says of the dataset it is made of: a refusal names what blocks it among
\* the reasons that are kept, and stale data, or too few results, always block.
Explained(suggestion, dataset) ==
  LET says(code) == \E i \in DOMAIN suggestion.reasons :
                      suggestion.reasons[i] = Reason(code, TRUE)
      few == \E h \in {dataset.home, dataset.away} :
               Cardinality(Scored(Recent(h))) < MinimumResults
      old == dataset.age >= (TtlMinutes + 1) * TicksPerMinute
  IN  /\ suggestion.no_bet <=> says("NO_BET_HARD_BLOCK") \/ says("NO_BET_SCORE_GATE")
      /\ few => says("INSUFFICIENT_RESULT_HISTORY")
      /\ old => says("STALE_TARGET_DATA")
      /\ says("NO_BET_HARD_BLOCK") <=> few \/ old

\* Every suggestion explains itself, alone or in the list of a day.
RefusalsAreExplained ==
  /\ answer.kind = "analysis" /\ answer.status = "ok" =>
       Explained(answer.analysis.suggestion, answer.dataset)
  /\ \A i \in Listed("suggestions") : Explained(i.answer, answer.day[i.match])

\* A selection among the opportunities of a day rests on enough matches of both teams and
\* on an observation that is not too old, by the clock of its own market; what is not
\* selected is barred for a cause, and watched only when nothing bars it.
SelectionsAreFounded ==
  \A i \in Listed("opportunities") :
    LET dataset == answer.day[i.match]
        few(rows) == Cardinality(rows) < MinimumResults
        fewResults == \E h \in {dataset.home, dataset.away} : few(Scored(Recent(h)))
        fewHalves == \E h \in {dataset.home, dataset.away} : few(Samples(h, RecentWindow))
    IN  /\ \A c \in i.answer.primary \cup i.answer.alternatives :
             IF Group(c.market) = "half_time" THEN ~fewHalves /\ ~StaleSource(dataset)
             ELSE ~fewResults /\ ~Stale(dataset)
        /\ i.answer.section = "NO_BET" => StaleSource(dataset) \/ fewResults
        /\ i.answer.section = "WATCH" => ~StaleSource(dataset) /\ ~fewResults /\ ~fewHalves
=============================================================================
