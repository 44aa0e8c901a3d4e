--------------------------- MODULE MCKairosJournal ---------------------------
(* Values for the constants of KairosReport.                                 *)
EXTENDS KairosReport, TLC

CONSTANTS c1, c2

Final(hh, ha, fh, fa) ==
  [halfHome |-> hh, halfAway |-> ha, fullHome |-> fh, fullAway |-> fa]
Unplayed == Final(Missing, Missing, Missing, Missing)
Row(kickoff, status, score) ==
  [kickoff |-> kickoff, status |-> status, score |-> score]

\* A match to come at 1 and its result, which is in time from 1 on.
MCScores == {Unplayed, Final(0, 0, 0, 1)}
MCReports == {Row(1, "scheduled", Unplayed), Row(1, "completed", Final(0, 0, 0, 1))}

\* The same match, but at 2: two snapshots may precede it.
LaterReports == {Row(2, "scheduled", Unplayed), Row(2, "completed", Final(0, 0, 0, 1))}

MCSymmetry == Permutations(Commands)
=============================================================================
