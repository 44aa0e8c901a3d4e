---------------------------- MODULE ProviderClient ----------------------------
(***************************************************************************)
(* ApiFootballClient.get and its WindowRateLimiter                         *)
(* (apps/api/app/modules/sports_data/provider.py), as one synchronisation  *)
(* uses them: one call at a time, each with its retries, all of them under *)
(* one request budget, one sliding window and the quota of the last answer.*)
(*                                                                         *)
(* Time is discrete.  A request granted by the limiter is remembered by    *)
(* its age, which stops at `Minute', where the limiter forgets it.  The    *)
(* deque of the limiter holds the last requests granted: it is the part of *)
(* `sent' that begins at `first'.                                          *)
(***************************************************************************)
EXTENDS Naturals, Sequences, FiniteSets

CONSTANTS
  MaxRequests,  \* API_FOOTBALL_MAX_REQUESTS_PER_SYNC
  MaxRetries,   \* API_FOOTBALL_MAX_RETRIES
  Limit,        \* API_FOOTBALL_REQUESTS_PER_MINUTE
  Minute,       \* the window of the limiter, in ticks
  MaxBackoff,   \* the longest wait before a retry, in ticks
  MaxCalls      \* bound: calls that a synchronisation makes

ASSUME ProviderAssumption ==
  /\ MaxRequests \in Nat \ {0}
  /\ MaxRetries \in Nat
  /\ Limit \in Nat \ {0}
  /\ Minute \in Nat \ {0}
  /\ MaxBackoff \in Nat
  /\ MaxCalls \in Nat

VARIABLES
  pc,       \* where the present call is
  attempt,  \* the loop variable of get
  timer,    \* what is left of the present sleep
  quota,    \* _quota_remaining_daily, up to what get tells apart
  count,    \* _request_count
  sent,     \* the requests granted so far: age, call, quota known after it
  first,    \* position in `sent' of the limiter's oldest timestamp
  call,     \* number of calls made so far
  result    \* what the last call returned or raised

vars == <<pc, attempt, timer, quota, count, sent, first, call, result>>

Quota == {"unknown", "left", "exhausted"}
Phase == {"idle", "attempt", "acquire", "limited", "waiting", "backoff",
          "closed"}
Result == {"none", "quota", "budget", "envelope", "network", "unavailable",
           "limited", "rejected", "invalid", "reported", "raised"}
Request == [age : 0..Minute, call : Nat, quota : Quota]

Init ==
  /\ pc = "idle"
  /\ attempt = 0
  /\ timer = 0
  /\ quota = "unknown"
  /\ count = 0
  /\ sent = <<>>
  /\ first = 1
  /\ call = 0
  /\ result = "none"

-----------------------------------------------------------------------------
(* WindowRateLimiter.acquire.                                                *)

\* Variant for mutation: old timestamps are not popped.
NothingForgotten(n) == {n}

\* Positions at which the deque may begin once the old timestamps are popped:
\* everything from there on is younger than a minute.
Young(i) == sent[i].age < Minute
KeptFrom(n) ==
  {k \in n..Len(sent) + 1 :
     /\ \A i \in n..(k - 1) : ~Young(i)
     /\ k <= Len(sent) => Young(k)}

\* Variant for mutation: a whole window is waited for.
WholeWindow(k) == Minute

\* Variant for mutation: the limit is compared after the request is granted.
OneTooMany(k) == Len(sent) + 1 - k <= Limit

\* The deque from position k on leaves room for one more timestamp.
Room(k) == Len(sent) + 1 - k < Limit

\* How long to sleep when it does not: until its oldest is a minute old.
Delay(k) == Minute - sent[k].age

\* A timestamp is taken and the request leaves: nothing suspends the call
\* between the limiter and the increment of the counter.
Grant ==
  /\ pc = "acquire"
  /\ \E k \in KeptFrom(first) : Room(k) /\ first' = k
  /\ sent' = Append(sent, [age |-> 0, call |-> call, quota |-> quota])
  /\ count' = count + 1
  /\ pc' = "waiting"
  /\ UNCHANGED <<attempt, timer, quota, call, result>>

\* The window is full: sleep, then look again.
Wait ==
  /\ pc = "acquire"
  /\ \E k \in KeptFrom(first) : ~Room(k) /\ first' = k /\ timer' = Delay(k)
  /\ pc' = "limited"
  /\ UNCHANGED <<attempt, quota, count, sent, call, result>>

Wake ==
  /\ pc = "limited"
  /\ timer = 0
  /\ pc' = "acquire"
  /\ UNCHANGED <<attempt, timer, quota, count, sent, first, call, result>>

-----------------------------------------------------------------------------
(* ApiFootballClient.get.                                                    *)

\* The call ends: it returns an envelope or raises.
End(outcome) ==
  /\ pc' = "idle"
  /\ result' = outcome
  /\ UNCHANGED <<attempt, timer, first, call>>

\* Variant for mutation: every call goes to the provider.
NothingKnown == FALSE

\* What is looked at once for each call, before its first attempt.
QuotaExhausted == quota = "exhausted"

Call ==
  /\ pc = "idle"
  /\ call < MaxCalls
  /\ ~QuotaExhausted
  /\ pc' = "attempt"
  /\ attempt' = 0
  /\ call' = call + 1
  /\ result' = "none"
  /\ UNCHANGED <<timer, quota, count, sent, first>>

CallRefused ==
  /\ pc = "idle"
  /\ call < MaxCalls
  /\ QuotaExhausted
  /\ call' = call + 1
  /\ result' = "quota"
  /\ UNCHANGED <<pc, attempt, timer, quota, count, sent, first>>

\* Variant for mutation: the budget is looked at before the first attempt only.
BudgetOfTheCall == attempt > 0 \/ count < MaxRequests

\* What is looked at before each attempt.
BudgetLeft == count < MaxRequests

Attempt ==
  /\ pc = "attempt"
  /\ BudgetLeft
  /\ pc' = "acquire"
  /\ UNCHANGED <<attempt, timer, quota, count, sent, first, call, result>>

OutOfBudget ==
  /\ pc = "attempt"
  /\ ~BudgetLeft
  /\ End("budget")
  /\ UNCHANGED <<quota, count, sent>>

\* Variant for mutation: one more attempt than the loop makes.
RetryOnceMoreOr(outcome) ==
  \/ /\ attempt <= MaxRetries
     /\ pc' = "backoff"
     /\ timer' \in 0..MaxBackoff
     /\ UNCHANGED <<attempt, first, call, result>>
  \/ /\ attempt > MaxRetries
     /\ End(outcome)

\* Another attempt after a pause, or the error when there is none left.
RetryOr(outcome) ==
  \/ /\ attempt < MaxRetries
     /\ pc' = "backoff"
     /\ timer' \in 0..MaxBackoff
     /\ UNCHANGED <<attempt, first, call, result>>
  \/ /\ attempt >= MaxRetries
     /\ End(outcome)

\* The exchange fails or times out: no header was read.
NetworkFails ==
  /\ pc = "waiting"
  /\ RetryOr("network")
  /\ UNCHANGED <<quota, count, sent>>

\* Any other exception of the HTTP library passes through get.
Raises ==
  /\ pc = "waiting"
  /\ End("raised")
  /\ UNCHANGED <<quota, count, sent>>

\* _update_quota: whatever the answer is, its headers replace what was known,
\* by nothing when they are absent.
UpdateQuota ==
  /\ \E q \in Quota :
       /\ quota' = q
       /\ sent' = [sent EXCEPT ![Len(sent)].quota = q]
  /\ count' = count

\* A status of RETRYABLE_STATUS_CODES, 429 or a failure of the server.
RetryableAnswer ==
  /\ pc = "waiting"
  /\ RetryOr("limited") \/ RetryOr("unavailable")
  /\ UpdateQuota

\* Any other answer ends the call: a refusal, a body that is not what it should
\* be, errors reported in the body, or an envelope.
FinalAnswer ==
  /\ pc = "waiting"
  /\ \E outcome \in {"rejected", "invalid", "reported", "envelope"} :
       End(outcome)
  /\ UpdateQuota

BackoffEnds ==
  /\ pc = "backoff"
  /\ timer = 0
  /\ attempt' = attempt + 1
  /\ pc' = "attempt"
  /\ UNCHANGED <<timer, quota, count, sent, first, call, result>>

\* The synchronisation leaves the context, or is cancelled by a step's timeout.
Close ==
  /\ pc # "closed"
  /\ pc' = "closed"
  /\ UNCHANGED <<attempt, timer, quota, count, sent, first, call, result>>

-----------------------------------------------------------------------------
\* Time passes at any moment: what is due may be late.
Older(age) == IF age < Minute THEN age + 1 ELSE age
Tick ==
  /\ sent' = [i \in DOMAIN sent |->
                [age   |-> Older(sent[i].age),
                 call  |-> sent[i].call,
                 quota |-> sent[i].quota]]
  /\ timer' = IF timer > 0 THEN timer - 1 ELSE 0
  /\ UNCHANGED <<pc, attempt, quota, count, first, call, result>>

\* What a call does by itself once it is made.
Progress ==
  \/ Attempt \/ OutOfBudget
  \/ Grant \/ Wait \/ Wake
  \/ NetworkFails \/ Raises \/ RetryableAnswer \/ FinalAnswer
  \/ BackoffEnds

Next == Call \/ CallRefused \/ Progress \/ Close \/ Tick

Spec == Init /\ [][Next]_vars

\* The event loop runs what is due, time passes, and an exchange ends: httpx
\* bounds each of its phases.
Fairness == WF_vars(Progress) /\ WF_vars(Tick)

FairSpec == Spec /\ Fairness
-----------------------------------------------------------------------------
(* Properties.                                                               *)

\* The fields of the client and of its limiter have the types of the code.
TypeOK ==
  /\ pc \in Phase
  /\ attempt \in 0..MaxRetries
  /\ timer \in Nat
  /\ quota \in Quota
  /\ count \in Nat
  /\ sent \in Seq(Request)
  /\ first \in 1..(Len(sent) + 1)
  /\ call \in Nat
  /\ result \in Result

\* The requests granted less than a minute ago.
Recent == {i \in DOMAIN sent : Young(i)}

\* However calls, retries, waits and delays follow one another, no minute holds
\* more requests than the limit: what the limiter forgets while it waits is
\* really old.
WindowLimit == Cardinality(Recent) <= Limit

\* A call sleeps only while the window is really full, and no longer: the
\* limiter never delays a request that the limit allows.
WaitsOnlyWhenFull ==
  pc = "limited" /\ timer > 0 => Cardinality(Recent) >= Limit

\* Once an answer has said that the quota of the day is exhausted, and no later
\* attempt of the same call said otherwise, no later call sends anything.
ExhaustedQuotaIsFinal ==
  \A i, j \in DOMAIN sent :
    j = i + 1 /\ sent[j].call # sent[i].call => sent[i].quota # "exhausted"

\* The client keeps to what a synchronisation relies on.
Requests(c) == {i \in DOMAIN sent : sent[i].call = c}
Budget ==
  INSTANCE BudgetedCalls WITH
    MaxAttempts <- MaxRetries + 1,
    phase  <- IF pc \in {"idle", "closed"} THEN pc ELSE "busy",
    used   <- count,
    spent  <- Cardinality(Requests(call))

ImplementsBudgetedCalls == Budget!Spec

\* Every call ends, whatever the provider answers and however full the window
\* is: the limiter lets a waiting call through in the end.
CallsEnd == pc \notin {"idle", "closed"} ~> pc \in {"idle", "closed"}
=============================================================================
