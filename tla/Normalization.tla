---------------------------- MODULE Normalization ----------------------------
(***************************************************************************)
(* What becomes of an answer of the provider:                              *)
(* apps/api/app/modules/sports_data/normalization.py, which makes rows of  *)
(* the items of an answer, and the tables api_football_* of db/models.py,  *)
(* which take all the rows of an answer or none.                           *)
(*                                                                         *)
(* A field is described by the kind of value the provider sent, a row by   *)
(* the one thing that is wrong with it, if any; the rows of an answer are  *)
(* of different things.  Nothing here changes state: it is what module     *)
(* SyncCommands may expect of an answer.                                   *)
(***************************************************************************)
EXTENDS Naturals, Sequences, FiniteSets, SequencesExt

-----------------------------------------------------------------------------
(* Fields.                                                                   *)

\* Kinds of values: "large" is above what INTEGER holds, "implausible" not a year, "long"
\* longer than the column, "malformed" not ISO or, of a datetime, without an offset, "nested"
\* an object or a list, and "absent" null.
Numbers == {"positive", "implausible", "large", "zero", "negative"}
Texts == {"text", "long", "blank", "instant", "day", "malformed"}
Sent == Numbers \cup Texts \cup {"boolean", "nested", "absent"}

\* What the readers take: _required_int, _optional_int and so on.
Readers ==
  [requiredInt      |-> {"positive", "implausible", "large"},
   optionalInt      |-> {"positive", "implausible", "large", "zero"},
   requiredText     |-> Texts \ {"blank"},
   optionalText     |-> Texts \ {"blank"},
   requiredDatetime |-> {"instant"},
   optionalDate     |-> {"day"},
   optionalBoolean  |-> {"boolean"},
   scalar           |-> Sent \ {"nested", "absent"}]
Required == {"requiredInt", "requiredText", "requiredDatetime"}

\* A field with its reader and the values that its column or a CHECK of its table refuses.
Field(reader, refuses) == [reader |-> reader, refuses |-> refuses]
Id         == Field("requiredInt", {})
Year       == Field("requiredInt", {"implausible", "large"})
Ranking    == Field("requiredInt", {"large"})
OtherId    == Field("optionalInt", {})
OtherYear  == Field("optionalInt", {"large"})
Count      == Field("optionalInt", {"large"})
Name       == Field("requiredText", {"long"})
Label      == Field("optionalText", {"long"})
Comment    == Field("optionalText", {})
Instant    == Field("requiredDatetime", {})
Day        == Field("optionalDate", {})
Flag       == Field("optionalBoolean", {})
Value      == Field("scalar", {})

\* The rows of each resource.
CompetitionRows ==
  [provider_competition_id |-> Id, name |-> Name, kind |-> Label, country_name |-> Label,
   country_code |-> Label]
SeasonRows == [year |-> Year, starts_on |-> Day, ends_on |-> Day]
TeamRows ==
  [provider_team_id |-> Id, name |-> Name, code |-> Label, country |-> Label,
   founded |-> Count, is_national |-> Flag, venue_provider_id |-> OtherId,
   venue_name |-> Label, venue_city |-> Label, venue_capacity |-> Count]
MatchRows ==
  [provider_match_id |-> Id, provider_competition_id |-> Id, season |-> Year,
   kickoff_at |-> Instant, timezone |-> Name, status_short |-> Name, status_long |-> Name,
   elapsed |-> Count, round |-> Label, venue_name |-> Label, venue_city |-> Label,
   home_team_provider_id |-> Id, home_team_name |-> Name, away_team_provider_id |-> Id,
   away_team_name |-> Name, goals_home |-> Count, goals_away |-> Count,
   score_halftime_home |-> Count, score_halftime_away |-> Count,
   score_fulltime_home |-> Count, score_fulltime_away |-> Count]
StandingRows ==
  [provider_team_id |-> Id, team_name |-> Name, group_name |-> Label, rank |-> Ranking,
   points |-> Count, goals_diff |-> Count, form |-> Label, description |-> Label,
   played |-> Count, wins |-> Count, draws |-> Count, losses |-> Count,
   goals_for |-> Count, goals_against |-> Count]
StatisticRows == [statistic_type |-> Name, statistic_value |-> Value]
EventRows ==
  [elapsed |-> Count, extra |-> Count, provider_team_id |-> OtherId, team_name |-> Label,
   provider_player_id |-> OtherId, player_name |-> Label, provider_assist_id |-> OtherId,
   assist_name |-> Label, event_type |-> Name, detail |-> Label, comments |-> Comment]
LineupRows ==
  [team_name |-> Name, formation |-> Label, provider_coach_id |-> OtherId,
   coach_name |-> Label, provider_player_id |-> OtherId, player_name |-> Label,
   number |-> Count, position |-> Label, grid |-> Label]
InjuryRows ==
  [provider_match_id |-> OtherId, provider_competition_id |-> OtherId,
   season |-> OtherYear, provider_team_id |-> Id, team_name |-> Name,
   provider_player_id |-> Id, player_name |-> Name, injury_type |-> Label,
   reason |-> Label]

Columns ==
  [competitions |-> CompetitionRows, seasons |-> SeasonRows, teams |-> TeamRows,
   matches |-> MatchRows, standings |-> StandingRows, match_statistics |-> StatisticRows,
   match_events |-> EventRows, lineups |-> LineupRows, injuries |-> InjuryRows]

-----------------------------------------------------------------------------
(* Rows.                                                                     *)

\* A row as the provider describes it: whole, with one field of another kind, no object, two
\* fields that contradict one another, or a player that has neither number nor name.
Flaws(resource) ==
  {<<"none">>, <<"object">>, <<"contradiction">>, <<"unnamed">>}
    \cup ({"field"} \X (DOMAIN Columns[resource]) \X Sent)

\* The tables whose CHECK compares two columns: the dates of a season, the two teams.
Compared == {"seasons", "matches"}

IsField(flaw) == flaw[1] = "field"
FieldOf(resource, flaw) == Columns[resource][flaw[2]]

\* SportsNormalizationError.
Unusable(resource, flaw) ==
  \/ flaw = <<"object">>
  \/ /\ IsField(flaw)
     /\ FieldOf(resource, flaw).reader \in Required
     /\ flaw[3] \notin Readers[FieldOf(resource, flaw).reader]

\* PostgreSQL refuses the row, and with it the INSERT of all of its answer.
RefusedByTable(resource, flaw) ==
  \/ flaw = <<"contradiction">> /\ resource \in Compared
  \/ IsField(flaw) /\ flaw[3] \in FieldOf(resource, flaw).refuses
                        \cap Readers[FieldOf(resource, flaw).reader]

\* What becomes of a row.  The identity of a player without a number is made of his name, and
\* of "unknown" when he has none.
FateOf(resource, flaw) ==
  [usable    |-> ~Unusable(resource, flaw),
   refused   |-> ~Unusable(resource, flaw) /\ RefusedByTable(resource, flaw),
   object    |-> flaw # <<"object">>,
   anonymous |-> flaw = <<"unnamed">> /\ resource = "lineups"]

FatesOf(resource) == {FateOf(resource, flaw) : flaw \in Flaws(resource)}

-----------------------------------------------------------------------------
(* Items.  What is kept of one: whether there are rows, whether it is counted *)
(* as rejected, whether the table refuses, and which rows are left out.       *)

NoRows == [kept |-> FALSE, rejected |-> FALSE, refused |-> FALSE, missed |-> {}]
Rejected == [NoRows EXCEPT !.rejected = TRUE, !.missed = {"row"}]

\* What two items of an answer, or two results of an item, come to.
Both(a, b) ==
  [kept     |-> a.kept \/ b.kept,
   rejected |-> a.rejected \/ b.rejected,
   refused  |-> a.refused \/ b.refused,
   missed   |-> a.missed \cup b.missed]

\* The first rows, up to one that is not usable.
UsableFirst(rows) ==
  {i \in DOMAIN rows : \A j \in 1..i : rows[j].usable}

\* What is left out: rows that are not usable, or after one, and players without a name.
MissedOf(rows, first) ==
  (IF first # DOMAIN rows THEN {"row"} ELSE {})
    \cup (IF Cardinality({i \in first : rows[i].anonymous}) > 1 THEN {"player"} ELSE {})

\* Variant for mutation: a row that is not usable ends its item and is not counted.
StopAtUnusable(rows) ==
  LET first == UsableFirst(rows) IN
  [kept     |-> first # {},
   rejected |-> FALSE,
   refused  |-> \E i \in first : rows[i].refused,
   missed   |-> MissedOf(rows, first)]

\* The rows of an item, one after the other: the ones before the first that is not usable are
\* kept, and the item is counted as rejected.  Two players without a name have one key, and
\* the second is taken for a duplicate.
RowsOf(rows) ==
  LET first == UsableFirst(rows) IN
  [kept     |-> first # {},
   rejected |-> first # DOMAIN rows,
   refused  |-> \E i \in first : rows[i].refused,
   missed   |-> MissedOf(rows, first)]

\* Up to two rows.
Lists(fates) == {<<>>} \cup {<<a>> : a \in fates} \cup {<<a, b>> : a \in fates, b \in fates}

\* A list that the provider sends: its rows, or something else.
Unlisted == <<"no list">>
ListOf(resource) == {<<"list", rows>> : rows \in Lists(FatesOf(resource))}

\* _normalize_rows: an item is a row.
FlatItems(resource) == {RowsOf(<<fate>>) : fate \in FatesOf(resource)}
TeamsItems == FlatItems("teams")
FixturesItems == FlatItems("matches")
EventsItems == FlatItems("match_events")
InjuriesItems == FlatItems("injuries")

\* standings: a list of groups, each a list of rows; a group that is none is passed over.
\* The competition and the season are read before them.
Group(list) ==
  IF list = Unlisted THEN [NoRows EXCEPT !.missed = {"group"}] ELSE RowsOf(list[2])
AfterGroup(a, b) == IF a.rejected THEN a ELSE Both(a, b)
StandingsItems ==
  LET groups == {Group(list) : list \in ListOf("standings") \cup {Unlisted}}
  IN  {NoRows, Rejected} \cup {AfterGroup(a, b) : a \in groups, b \in groups}

\* statistics: the list of the values of a team.
StatisticsItems == {Rejected} \cup {RowsOf(list[2]) : list \in ListOf("match_statistics")}

\* lineups: the lists of the players who start and of the others, either of which may be
\* absent; something else than a list rejects the item.
LineupsItems ==
  LET players == {RowsOf(list[2]) : list \in ListOf("lineups")} \cup {NoRows, Rejected}
  IN  {Rejected} \cup {AfterGroup(a, b) : a \in players, b \in players}

\* leagues: a competition and the list of its seasons, none of which is read when it is no
\* list.  Looking for the current season stops at it, or at something that is no object, and
\* then the competition is rejected with its seasons.
SeasonLists ==
  LET season == [fate : FatesOf("seasons"), current : BOOLEAN]
  IN  {<<"list", seasons>> : seasons \in Lists(season)} \cup {Unlisted}

NoObjectBeforeCurrent(seasons) ==
  \E i \in DOMAIN seasons :
    ~seasons[i].fate.object /\ \A j \in 1..(i - 1) : ~seasons[j].current

League(competition, list) ==
  IF ~competition.usable THEN Rejected
  ELSE IF list = Unlisted
       THEN Both(RowsOf(<<competition>>), [NoRows EXCEPT !.missed = {"seasons"}])
  ELSE IF NoObjectBeforeCurrent(list[2]) THEN Rejected
  ELSE Both(RowsOf(<<competition>>),
            RowsOf([i \in DOMAIN list[2] |-> list[2][i].fate]))

LeaguesItems ==
  {League(competition, list) : competition \in FatesOf("competitions"), list \in SeasonLists}

\* The answers whose items these are: without one, or with some.
AnswersOf(items) ==
  {[received |-> FALSE, of |-> NoRows]}
    \cup {[received |-> TRUE, of |-> Both(a, b)] : a \in items, b \in items}

StatisticsAnswers == AnswersOf(StatisticsItems)
RelatedAnswers ==
  AnswersOf(EventsItems) \cup AnswersOf(LineupsItems) \cup AnswersOf(InjuriesItems)
ResourceAnswers ==
  AnswersOf(LeaguesItems) \cup AnswersOf(TeamsItems)
    \cup AnswersOf(StandingsItems) \cup AnswersOf(FixturesItems)
=============================================================================
