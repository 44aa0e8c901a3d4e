---------------------------- MODULE ExclusiveRuns ----------------------------
(***************************************************************************)
(* What the lock of the daily routine promises: each invocation either     *)
(* works once, from a moment at which no other one is working to a moment  *)
(* of its choosing, or does not work at all.  Module DailyOperations       *)
(* implements it with a key that expires.                                  *)
(***************************************************************************)
CONSTANT Runs

VARIABLE phase   \* "idle", "active" or "over", for each run

Init == phase = [r \in Runs |-> "idle"]

Enter(r) ==
  /\ phase[r] = "idle"
  /\ \A s \in Runs : phase[s] # "active"
  /\ phase' = [phase EXCEPT ![r] = "active"]

\* Refused, or told that exclusivity cannot be confirmed.
GiveUp(r) ==
  /\ phase[r] = "idle"
  /\ phase' = [phase EXCEPT ![r] = "over"]

Leave(r) ==
  /\ phase[r] = "active"
  /\ phase' = [phase EXCEPT ![r] = "over"]

Next == \E r \in Runs : Enter(r) \/ GiveUp(r) \/ Leave(r)

Spec == Init /\ [][Next]_phase
=============================================================================
