---------------------------- MODULE BudgetedCalls ----------------------------
(***************************************************************************)
(* What a synchronisation relies on when it calls the provider client: each *)
(* call spends a bounded part of a budget that all calls share, and ends in *)
(* an outcome that tells whether anything was sent.  Module ProviderClient  *)
(* implements it with retries, quota headers and a sliding window.          *)
(***************************************************************************)
EXTENDS Naturals

CONSTANTS
  MaxRequests,  \* the budget of a synchronisation
  MaxAttempts   \* requests of one call, at most

VARIABLES
  phase,   \* "idle", "busy" or "closed"
  used,    \* requests sent since the client was opened
  spent,   \* requests of the present or the last call
  result   \* outcome of the last call, "none" before it has one

\* Outcomes of calls that were refused before anything was sent, that ran out
\* of budget, and that end with what the last request brought.
Refused == {"quota"}
OutOfBudget == {"budget"}
Answered == {"envelope", "network", "unavailable", "limited", "rejected",
             "invalid", "reported", "raised"}

Init ==
  /\ phase = "idle"
  /\ used = 0
  /\ spent = 0
  /\ result = "none"

Call ==
  /\ phase = "idle"
  /\ phase' = "busy"
  /\ spent' = 0
  /\ result' = "none"
  /\ used' = used

\* A call that is refused at once.
Refuse ==
  /\ phase = "idle"
  /\ spent' = 0
  /\ result' \in Refused
  /\ UNCHANGED <<phase, used>>

Send ==
  /\ phase = "busy"
  /\ used < MaxRequests
  /\ spent < MaxAttempts
  /\ used' = used + 1
  /\ spent' = spent + 1
  /\ UNCHANGED <<phase, result>>

Return ==
  /\ phase = "busy"
  /\ \/ result' \in OutOfBudget /\ used = MaxRequests
     \/ result' \in Answered /\ spent > 0
  /\ phase' = "idle"
  /\ UNCHANGED <<used, spent>>

\* The caller is cancelled or leaves the client's context.
Close ==
  /\ phase # "closed"
  /\ phase' = "closed"
  /\ UNCHANGED <<used, spent, result>>

Next == Call \/ Refuse \/ Send \/ Return \/ Close

Spec == Init /\ [][Next]_<<phase, used, spent, result>>
=============================================================================
