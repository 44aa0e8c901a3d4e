--------------------------- MODULE AnalysisLedger ---------------------------
(***************************************************************************)
(* What the analytical journal promises: analyses are published, each is   *)
(* settled at most once, and nothing that is published or settled ever     *)
(* changes or goes away.                                                   *)
(***************************************************************************)

CONSTANT Outcomes

VARIABLES
  open,    \* analyses that wait for their outcome
  settled  \* pairs of an analysis and its outcome

Init == open = {} /\ settled = {}

Settled == {pair[1] : pair \in settled}

Publish ==
  /\ open \subseteq open'
  /\ open' \cap Settled = {}
  /\ UNCHANGED settled

\* Analyses that are open, each with one outcome.
Settle ==
  \E outcome \in [open \ open' -> Outcomes] :
    /\ open' \subseteq open
    /\ settled' = settled \cup {<<a, outcome[a]>> : a \in open \ open'}

Next == Publish \/ Settle

Spec == Init /\ [][Next]_<<open, settled>>
=============================================================================
