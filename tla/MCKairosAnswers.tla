--------------------------- MODULE MCKairosAnswers ---------------------------
(* Values for the constants of KairosAnswers: the numbers of the analysis are *)
(* those of the code, the lists of a day are scaled down.                     *)
EXTENDS KairosAnswers

\* Matches of a history: complete, of three goals (all in one half,
\* if Mixed), without halves or metrics, without a score.
Mixed == 4
Complete(match, first, i) ==
  [match |-> match, venue |-> IF i % 2 = 0 THEN "home" ELSE "away", full |-> 3,
   half |-> IF first # Mixed THEN first ELSE IF i % 2 = 0 THEN 0 ELSE 3, metrics |-> Metrics]
Bare(match) ==
  [match |-> match, venue |-> "home", full |-> 2, half |-> Unknown, metrics |-> {}]
Scoreless(match) ==
  [match |-> match, venue |-> "home", full |-> Unknown, half |-> Unknown, metrics |-> {"shots"}]

\* A history, the newest first: matches without a score, complete ones with so many goals in
\* the first half, bare ones.
History(from, scoreless, complete, first, bare) ==
  [i \in 1..scoreless |-> Scoreless(from + i)]
    \o [i \in 1..complete |-> Complete(from + scoreless + i, first, i)]
    \o [i \in 1..bare |-> Bare(from + scoreless + complete + i)]

Favourite == Probabilities(80, 12, 60, 55)
Balanced == Probabilities(36, 30, 52, 50)

Dataset(home, away, h2h, standings, events, flags, age, marked, forecast, consistency) ==
  [verdict |-> "safe", home |-> home, away |-> away, h2h |-> h2h, standings |-> standings,
   statistics |-> \E i \in DOMAIN home : home[i].metrics # {}, goal_events |-> events,
   flags |-> flags, age |-> age, marked_fresh |-> marked, forecast |-> forecast,
   consistency |-> consistency]

Refused == {[verdict |-> v] : v \in {"closed", "temporal", "integrity"}}
Both == {"home", "away"}
Meetings(first) == History(20, 0, 3, first, 0)

\* Histories of every length on both sides of each threshold, of sources of any age.
MCDatasets ==
  Refused \cup
  {Dataset(History(0, s, n, f, b), History(10, 0, 4, f, 1), h, t, e, g, age, m, p, c) :
     s \in {0, 3}, n \in {2, 3, 5}, f \in {0, Mixed}, b \in {0, 1}, h \in {<<>>, Meetings(0)},
     t \in {{"away"}, Both}, e \in {0, 5}, g \in {0, 12}, age \in {2, 3, 4}, m \in BOOLEAN,
     p \in {Favourite, Balanced}, c \in {50}}

\* The first halves bring nothing: more goals in the second are likely.
Rich(first, age, forecast) ==
  Dataset(History(0, 0, 5, first, 0), History(10, 0, 5, first, 0), Meetings(first), Both, 5, 0,
          age, TRUE, forecast, 100)
\* Without halves; with few results; with results the newest matches do not show.
NoHalves == Dataset(History(0, 0, 0, 0, 5), History(10, 0, 0, 0, 5), <<>>, Both, 0, 0, 2, TRUE,
                    Favourite, 100)
Poor == Dataset(History(0, 1, 1, 0, 1), History(10, 0, 2, 0, 2), <<>>, {}, 0, 0, 0, TRUE,
                Favourite, 50)
Buried == Dataset(History(0, 3, 4, Mixed, 0), History(10, 0, 4, Mixed, 0), <<>>, Both, 0, 0, 2, TRUE,
                  Favourite, 50)

MCDayDatasets ==
  {[verdict |-> "integrity"], NoHalves, Poor, Buried}
    \cup {Rich(first, age, p) : first \in {0, Mixed}, age \in {2, 3, 4}, p \in {Favourite, Balanced}}
=============================================================================
