---------------------------- MODULE KairosReport ----------------------------
(***************************************************************************)
(* The report of performance (apps/api/app/modules/kairos/performance.py), *)
(* made by `urim-kairos-journal report', by the last step of the daily     *)
(* routine and by the route /performance, beside the commands of module    *)
(* KairosJournal.  It writes nothing, and keeps nothing but the counts that*)
(* its statements return: here are those counts, as functions of the       *)
(* tables, and the validators that its answer must pass.                   *)
(***************************************************************************)
EXTENDS KairosJournal

CONSTANTS
  MinimumSample,  \* MINIMUM_PERFORMANCE_SAMPLE
  MaxSegments     \* MAX_COMPETITION_SEGMENTS

ASSUME ReportAssumption == MinimumSample \in Nat \ {0} /\ MaxSegments \in Nat

\* _sample_status.
SampleStatus(size) ==
  IF size = 0 THEN "no_sample"
  ELSE IF size < MinimumSample THEN "insufficient_sample"
  ELSE "descriptive_sample_available"

\* The entries that have a resolution with one of the outcomes.
With(entries, outcomes) ==
  {e \in entries : \E r \in resolutions : r.analysis = e.analysis /\ r.outcome \in outcomes}

\* Variant for mutation: an analysis that is VOID is not resolved either.
CountVoidTwice(entries) ==
  LET resolved == Cardinality(With(entries, {"SUCCESS", "FAILURE"}))
  IN  [total      |-> Cardinality(entries),
       resolved   |-> resolved,
       successes  |-> Cardinality(With(entries, {"SUCCESS"})),
       void       |-> Cardinality(With(entries, {"VOID"})),
       unresolved |-> Cardinality(entries) - resolved,
       sample     |-> SampleStatus(resolved)]

\* The columns of a statement over the entries, each with its resolution or none.
Counts(entries) ==
  LET resolved == Cardinality(With(entries, {"SUCCESS", "FAILURE"}))
  IN  [total      |-> Cardinality(entries),
       resolved   |-> resolved,
       successes  |-> Cardinality(With(entries, {"SUCCESS"})),
       void       |-> Cardinality(With(entries, {"VOID"})),
       unresolved |-> Cardinality({e \in entries : Unresolved(e)}),
       sample     |-> SampleStatus(resolved)]

\* The validators of a segment and of the whole answer, which are alike.
AddsUp(counts) ==
  /\ counts.successes <= counts.resolved
  /\ counts.resolved + counts.void + counts.unresolved = counts.total
  /\ counts.sample = "no_sample" <=> counts.resolved = 0

\* A segment for each market, an empty one for those without an entry.
ByMarket == [market \in Markets |-> Counts({e \in journal : e.analysis.market = market})]

\* The segments of the bands of probability, of quality and of calibration: whatever the
\* estimates are, each counts some of the entries.
ByBand == {Counts(entries) : entries \in SUBSET journal \ {{}}}

\* The segments of the competitions: one for each that occurs, the largest first.  A match
\* stands for its competition.
InMatch(match) == {e \in journal : e.analysis.source.match = match}
Listed(matches) ==
  /\ Cardinality(matches) <= MaxSegments
  /\ \A e \in journal : e.analysis.source.match \notin matches =>
       /\ Cardinality(matches) = MaxSegments
       /\ \A match \in matches :
            Cardinality(InMatch(e.analysis.source.match)) <= Cardinality(InMatch(match))
ByCompetition(matches) == [match \in matches |-> Counts(InMatch(match))]

-----------------------------------------------------------------------------
(* Properties.                                                               *)

\* The segments' counts added up.
TotalOf(segments, column) ==
  Cardinality(UNION {{key} \X (1..segments[key][column]) : key \in DOMAIN segments})

\* The report that the tables give passes the validators of its answer.
PassesValidation ==
  /\ AddsUp(Counts(journal))
  /\ \A market \in Markets : AddsUp(ByMarket[market])
  /\ \A counts \in ByBand : AddsUp(counts)
  /\ \A matches \in SUBSET Matches :
       Listed(matches) => \A match \in matches : AddsUp(ByCompetition(matches)[match])

\* Whatever is committed, a report of it passes the validators of its answer; and it takes
\* nothing back.  A report is several statements of a transaction at READ COMMITTED: the
\* segments, read after the totals, count every analysis and every resolution that the
\* totals count.  That is so whatever is committed between two statements, when it is so
\* for each commit.
ReportIsCoherent ==
  [][\/ UNCHANGED <<journal, resolutions>>
     \/ /\ PassesValidation'
        /\ \A column \in {"total", "resolved", "successes", "void"} :
             TotalOf(ByMarket, column)' >= Counts(journal)[column]]_vars
=============================================================================
