---------------------------- MODULE MCSportsSync ----------------------------
(* Values for the constants of SportsSync.                                   *)
EXTENDS SportsSync, TLC

CONSTANTS f1, f2, f3, f4

None == [daily |-> NoQuota, minute |-> NoQuota]
Entry(listing, standings, statistics, events) ==
  [listing |-> listing, standings |-> standings, statistics |-> statistics,
   events |-> events]
Full == Entry("league", TRUE, TRUE, TRUE)

\* Two leagues, one of them fully covered, and a cup; the row of the second fixture may be
\* unusable on one of the dates.
MCCompOf == f1 :> 1 @@ f2 :> 1 @@ f3 :> 2 @@ f4 :> 3
MCCoverage ==
  1 :> Full
    @@ 2 :> Entry("league", FALSE, TRUE, FALSE)
    @@ 3 :> Entry("cup", TRUE, TRUE, TRUE)
MCPriority == <<2>>
MCFates ==
  f1 :> {"scheduled"} @@ f2 :> {"scheduled", "invalid_fixture"}
    @@ f3 :> {"scheduled"} @@ f4 :> {"scheduled"}
MCQuotas ==
  {None, [daily |-> 0, minute |-> NoQuota], [daily |-> 9, minute |-> 4]}

\* Nine past matches, the fourth of which was not played: one more than the commands look at.
MCOver == (1..9) \ {4}
MCEarlier == {1, 2, 3}
MCMostly == MCOver \ {9}
=============================================================================
