---------------------------- MODULE MCKairosRoutes ----------------------------
(* Values for the constants of KairosRoutes.                                 *)
EXTENDS KairosRoutes, TLC

CONSTANTS t1, t2

NoScore == 0
Says(kickoff, status) == [kickoff |-> kickoff, status |-> status, score |-> NoScore]

\* The first match is to come; the second, between the same teams, was played or was not.
ToCome == Says(3, "scheduled")
Over == Says(0, "completed")
Annulled == Says(0, "other")
MCReports == {ToCome, Over, Annulled}
MCTables == {{[match |-> 1, report |-> ToCome, fetched |-> 1, created |-> 1],
              [match |-> 2, report |-> Over, fetched |-> 0, created |-> 0]}}
MCTeams == [match \in {1, 2} |-> <<"a", "b">>]

MCRoutes == {"methodology", "suggestions", "opportunities", "performance", "analysis"}
MCPool == [route \in MCRoutes |-> IF route = "analysis" THEN "analysis" ELSE "daily"]
MCPlaces == [pool \in {"analysis", "daily"} |-> 1]
MCLimit == [route \in MCRoutes |-> IF route = "analysis" THEN 2 ELSE 1]

\* A match that is moved to another day.
Moved == Says(9, "scheduled")
MovedReports == {ToCome, Moved}

MCSymmetry == Permutations(Requests)
=============================================================================
