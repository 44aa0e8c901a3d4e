---------------------------- MODULE ProviderCalls ----------------------------
(***************************************************************************)
(* The provider client as a synchronisation uses it, by what it promises   *)
(* (module BudgetedCalls): a call is one step that spends some requests of *)
(* the budget and ends in an answer or in an ApiFootballRequestError       *)
(* (apps/api/app/modules/sports_data/provider.py).                         *)
(***************************************************************************)
EXTENDS Integers

CONSTANTS
  MaxRequests,  \* API_FOOTBALL_MAX_REQUESTS_PER_SYNC
  MaxAttempts,  \* attempts of one call: API_FOOTBALL_MAX_RETRIES + 1
  Quotas,       \* quotas that an answer may announce
  NoQuota       \* an answer without the header

ASSUME CallsAssumption ==
  /\ {MaxRequests, MaxAttempts} \subseteq Nat \ {0}
  /\ NoQuota \notin Nat
  /\ Quotas \subseteq [daily : Nat \cup {NoQuota}, minute : Nat \cup {NoQuota}]

VARIABLES
  used,  \* request_count of the client
  quota  \* quotas of the last answer

client == <<used, quota>>

Causes == {"quota", "budget", "unavailable", "rejected"}
NothingAnnounced == [daily |-> NoQuota, minute |-> NoQuota]

\* A synchronisation has a client of its own.
NewClient == used = 0 /\ quota = NothingAnnounced

\* A call that ends with what its last request brought.
Spend(n) ==
  /\ quota.daily # 0
  /\ used + n <= MaxRequests
  /\ used' = used + n

Answered == \E n \in 1..MaxAttempts : Spend(n) /\ quota' \in Quotas
\* An error that is retried until no attempt is left; the answers that came, if
\* any, may have announced a quota.
Unavailable == Spend(MaxAttempts) /\ quota' \in Quotas \cup {quota}
\* The budget ends before the attempts do.
OutOfBudget ==
  /\ quota.daily # 0
  /\ MaxRequests - used < MaxAttempts
  /\ used' = MaxRequests
  /\ quota' \in IF used < MaxRequests THEN Quotas \cup {quota} ELSE {quota}
Refused == quota.daily = 0 /\ UNCHANGED client

Fails(cause) ==
  CASE cause = "quota"       -> Refused
    [] cause = "budget"      -> OutOfBudget
    [] cause = "unavailable" -> Unavailable
    [] OTHER                 -> Answered
=============================================================================
