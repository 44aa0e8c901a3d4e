------------------------- MODULE ProviderClientProofs -------------------------
(***************************************************************************)
(* Theorems about ProviderClient, for any budget, number of retries, limit *)
(* and window.                                                             *)
(***************************************************************************)
EXTENDS ProviderClient, FiniteSetTheorems, TLAPS

-----------------------------------------------------------------------------
(* How an action changes the history of the requests.                        *)

\* A request that is granted becomes the last one.
LEMMA GrantShape ==
  ASSUME TypeOK, Grant
  PROVE  /\ sent' \in Seq(Request)
         /\ Len(sent') = Len(sent) + 1
         /\ \A i \in 1..Len(sent) : sent'[i] = sent[i]
         /\ sent'[Len(sent) + 1] = [age |-> 0, call |-> call, quota |-> quota]
<1> DEFINE new == [age |-> 0, call |-> call, quota |-> quota]
<1>1. new \in Request
  BY ProviderAssumption DEF TypeOK, Request
<1>2. sent' = Append(sent, new)
  BY DEF Grant
<1> HIDE DEF new
<1>3. QED
  BY <1>1, <1>2 DEF TypeOK, new

\* The headers of an answer change what the last request is known to have
\* brought, and nothing else.
LEMMA UpdateShape ==
  ASSUME TypeOK, UpdateQuota
  PROVE  /\ quota' \in Quota
         /\ count' = count
         /\ sent' \in Seq(Request)
         /\ Len(sent') = Len(sent)
         /\ \A i \in 1..Len(sent) :
              /\ sent'[i].age = sent[i].age
              /\ sent'[i].call = sent[i].call
              /\ i # Len(sent) => sent'[i].quota = sent[i].quota
              /\ i = Len(sent) => sent'[i].quota = quota'
<1>1. PICK q \in Quota :
        /\ quota' = q
        /\ sent' = [sent EXCEPT ![Len(sent)].quota = q]
  BY DEF UpdateQuota
<1>2. sent \in Seq(Request)
  BY DEF TypeOK
<1>3. \A i \in 1..Len(sent) : sent[i] \in Request
  BY <1>2
<1>4. /\ DOMAIN sent = 1..Len(sent)
      /\ Len(sent) \in Nat
  BY <1>2
<1>5. sent' = [i \in 1..Len(sent) |->
                IF i = Len(sent) THEN [sent[i] EXCEPT !.quota = q]
                                 ELSE sent[i]]
  BY <1>1, <1>4
<1>6. \A i \in 1..Len(sent) :
        /\ sent'[i] \in Request
        /\ sent'[i].age = sent[i].age
        /\ sent'[i].call = sent[i].call
        /\ i # Len(sent) => sent'[i].quota = sent[i].quota
        /\ i = Len(sent) => sent'[i].quota = q
  BY <1>3, <1>5 DEF Request
<1>7. sent' \in Seq(Request) /\ Len(sent') = Len(sent)
  BY <1>4, <1>5, <1>6
<1>8. QED
  BY <1>1, <1>6, <1>7 DEF UpdateQuota

\* Time makes the requests older, and changes nothing else of them.
LEMMA TickShape ==
  ASSUME TypeOK, Tick
  PROVE  /\ sent' \in Seq(Request)
         /\ Len(sent') = Len(sent)
         /\ \A i \in 1..Len(sent) :
              /\ sent'[i].age = Older(sent[i].age)
              /\ sent'[i].call = sent[i].call
              /\ sent'[i].quota = sent[i].quota
<1>1. /\ sent \in Seq(Request)
      /\ DOMAIN sent = 1..Len(sent)
      /\ Len(sent) \in Nat
  BY DEF TypeOK
<1>2. \A i \in 1..Len(sent) : Older(sent[i].age) \in 0..Minute
  <2>1. \A i \in 1..Len(sent) : sent[i] \in Request
    BY <1>1
  <2>2. \A i \in 1..Len(sent) : sent[i].age \in 0..Minute
    BY <2>1 DEF Request
  <2>3. QED
    BY <2>2, ProviderAssumption DEF Older
<1>3. sent' = [i \in 1..Len(sent) |-> [age   |-> Older(sent[i].age),
                                      call  |-> sent[i].call,
                                      quota |-> sent[i].quota]]
  BY <1>1 DEF Tick
<1>4. \A i \in 1..Len(sent) : sent'[i] \in Request
  <2>1. \A i \in 1..Len(sent) : sent[i] \in Request
    BY <1>1
  <2>2. QED
    BY <1>2, <1>3, <2>1 DEF Request
<1>5. QED
  BY <1>1, <1>3, <1>4

-----------------------------------------------------------------------------
(* Type correctness.                                                         *)

\* The loop goes on only while an attempt is left.
AttemptLeft == pc = "backoff" => attempt < MaxRetries

\* TypeOK is inductive together with AttemptLeft.
LEMMA TypeStep == TypeOK /\ AttemptLeft /\ [Next]_vars => TypeOK'
<1> SUFFICES ASSUME TypeOK, AttemptLeft, [Next]_vars
             PROVE  TypeOK'
  OBVIOUS
<1> USE ProviderAssumption
<1>0. /\ sent \in Seq(Request)
      /\ Len(sent) \in Nat
  BY DEF TypeOK
<1>1. CASE Call
  BY <1>1 DEF TypeOK, Call, Phase, Result
<1>2. CASE CallRefused
  BY <1>2 DEF TypeOK, CallRefused, Phase, Result
<1>3. CASE Attempt \/ OutOfBudget \/ Wake
  BY <1>3 DEF TypeOK, Attempt, OutOfBudget, Wake, End, Phase, Result
<1>4. CASE Grant
  <2>1. first' \in 1..(Len(sent) + 1)
    BY <1>0, <1>4 DEF Grant, KeptFrom, TypeOK
  <2>2. QED
    BY <1>0, <1>4, <2>1, GrantShape DEF TypeOK, Grant, Phase, Result
<1>5. CASE Wait
  <2>1. PICK k \in KeptFrom(first) : ~Room(k) /\ first' = k /\ timer' = Delay(k)
    BY <1>5 DEF Wait
  <2>2. k \in 1..(Len(sent) + 1)
    BY <1>0, <2>1 DEF KeptFrom, TypeOK
  <2>3. k <= Len(sent)
    BY <1>0, <2>1, <2>2 DEF Room
  <2>4. sent[k].age \in 0..Minute
    <3>1. sent[k] \in Request
      BY <1>0, <2>2, <2>3
    <3>2. QED
      BY <3>1 DEF Request
  <2>5. timer' \in Nat
    BY <2>1, <2>4 DEF Delay
  <2>6. QED
    BY <1>5, <2>1, <2>2, <2>5 DEF TypeOK, Wait, Phase, Result
<1>6. ASSUME NEW outcome \in Result, RetryOr(outcome)
      PROVE  /\ pc' \in Phase
             /\ attempt' \in 0..MaxRetries
             /\ timer' \in Nat
             /\ first' = first
             /\ call' \in Nat
             /\ result' \in Result
  BY <1>6 DEF TypeOK, RetryOr, End, Phase
<1>7. CASE NetworkFails
  <2>1. "network" \in Result
    BY DEF Result
  <2>2. QED
    BY <1>7, <1>6, <2>1 DEF TypeOK, NetworkFails
<1>8. CASE Raises
  BY <1>8 DEF TypeOK, Raises, End, Phase, Result
<1>9. CASE RetryableAnswer
  <2>1. "limited" \in Result /\ "unavailable" \in Result
    BY DEF Result
  <2>2. RetryOr("limited") \/ RetryOr("unavailable")
    BY <1>9 DEF RetryableAnswer
  <2>3. UpdateQuota
    BY <1>9 DEF RetryableAnswer
  <2>4. QED
    BY <1>6, <2>1, <2>2, <2>3, UpdateShape DEF TypeOK
<1>10. CASE FinalAnswer
  <2>1. UpdateQuota
    BY <1>10 DEF FinalAnswer
  <2>2. QED
    BY <1>10, <2>1, UpdateShape DEF TypeOK, FinalAnswer, End, Phase, Result
<1>11. CASE BackoffEnds
  <2>1. attempt' \in 0..MaxRetries
    BY <1>11 DEF TypeOK, AttemptLeft, BackoffEnds
  <2>2. QED
    BY <1>11, <2>1 DEF TypeOK, BackoffEnds, Phase, Result
<1>12. CASE Close
  BY <1>12 DEF TypeOK, Close, Phase, Result
<1>13. CASE Tick
  BY <1>13, TickShape DEF TypeOK, Tick
<1>14. CASE UNCHANGED vars
  BY <1>14 DEF TypeOK, vars
<1>15. QED
  BY <1>1, <1>2, <1>3, <1>4, <1>5, <1>7, <1>8, <1>9, <1>10, <1>11, <1>12,
     <1>13, <1>14 DEF Next, Progress

\* AttemptLeft is preserved by every step.
LEMMA AttemptStep == TypeOK /\ AttemptLeft /\ [Next]_vars => AttemptLeft'
BY DEF AttemptLeft, Next, Progress, Call, CallRefused, Attempt, OutOfBudget,
       Grant, Wait, Wake, NetworkFails, Raises, RetryableAnswer, FinalAnswer,
       RetryOr, End, BackoffEnds, Close, Tick, vars

\* The fields of the client keep their types, for any bounds.
THEOREM ClientTypes == Spec => []TypeOK
<1>1. Init => TypeOK /\ AttemptLeft
  BY ProviderAssumption
     DEF Init, TypeOK, AttemptLeft, Phase, Quota, Result
<1>2. QED
  BY <1>1, TypeStep, AttemptStep, PTL DEF Spec

-----------------------------------------------------------------------------
(* The limit over any window.                                                *)

\* What the limiter has forgotten is a minute old, and what it remembers does
\* not exceed the limit.
WindowInv ==
  /\ \A i \in 1..Len(sent) : i < first => ~Young(i)
  /\ Len(sent) + 1 - first <= Limit

\* An action that leaves the ages of the requests and the deque alone cannot
\* disturb WindowInv.
LEMMA WindowKept ==
  ASSUME TypeOK, WindowInv, first' = first, Len(sent') = Len(sent),
         \A i \in 1..Len(sent) : ~Young(i) => ~Young(i)'
  PROVE  WindowInv'
<1>1. Len(sent) \in Nat
  BY DEF TypeOK
<1> QED
  BY <1>1 DEF WindowInv, TypeOK

\* WindowInv is preserved by every step.
LEMMA WindowStep == TypeOK /\ WindowInv /\ [Next]_vars => WindowInv'
<1> SUFFICES ASSUME TypeOK, WindowInv, [Next]_vars
             PROVE  WindowInv'
  OBVIOUS
<1>0. Len(sent) \in Nat /\ first \in 1..(Len(sent) + 1)
  BY DEF TypeOK
<1>1. CASE Grant
  <2>1. PICK k \in KeptFrom(first) : Room(k) /\ first' = k
    BY <1>1 DEF Grant
  <2>2. /\ k \in first..(Len(sent) + 1)
        /\ \A i \in first..(k - 1) : ~Young(i)
    BY <2>1 DEF KeptFrom
  <2>3. \A i \in 1..Len(sent) : i < k => ~Young(i)
    BY <1>0, <2>2 DEF WindowInv
  <2>4. \A i \in 1..Len(sent') : i < first' => ~Young(i)'
    BY <1>0, <1>1, <2>1, <2>2, <2>3, GrantShape DEF Young
  <2>5. Len(sent') + 1 - first' <= Limit
    BY <1>0, <1>1, <2>1, <2>2, GrantShape, ProviderAssumption DEF Room
  <2>6. QED
    BY <2>4, <2>5 DEF WindowInv
<1>2. CASE Wait
  <2>1. PICK k \in KeptFrom(first) : first' = k
    BY <1>2 DEF Wait
  <2>2. /\ k \in first..(Len(sent) + 1)
        /\ \A i \in first..(k - 1) : ~Young(i)
    BY <2>1 DEF KeptFrom
  <2>3. \A i \in 1..Len(sent) : i < k => ~Young(i)
    BY <1>0, <2>2 DEF WindowInv
  <2>4. sent' = sent
    BY <1>2 DEF Wait
  <2>5. QED
    BY <1>0, <2>1, <2>2, <2>3, <2>4, ProviderAssumption DEF WindowInv, Young
<1>3. CASE Tick
  <2>1. first' = first
    BY <1>3 DEF Tick
  <2>2. \A i \in 1..Len(sent) : ~Young(i) => ~Young(i)'
    BY <1>3, TickShape DEF Young, Older
  <2>3. QED
    BY <1>3, <2>1, <2>2, TickShape, WindowKept
<1>4. CASE UpdateQuota /\ first' = first
  <2>1. \A i \in 1..Len(sent) : ~Young(i) => ~Young(i)'
    BY <1>4, UpdateShape DEF Young
  <2>2. QED
    BY <1>4, <2>1, UpdateShape, WindowKept
<1>5. CASE sent' = sent /\ first' = first
  BY <1>5, WindowKept DEF Young
<1>6. RetryableAnswer \/ FinalAnswer => UpdateQuota /\ first' = first
  BY DEF RetryableAnswer, FinalAnswer, RetryOr, End
<1>7. Call \/ CallRefused \/ Attempt \/ OutOfBudget \/ Wake \/ NetworkFails
        \/ Raises \/ BackoffEnds \/ Close \/ UNCHANGED vars
        => sent' = sent /\ first' = first
  BY DEF Call, CallRefused, Attempt, OutOfBudget, Wake, NetworkFails, RetryOr,
         Raises, End, BackoffEnds, Close, vars
<1>8. QED
  BY <1>1, <1>2, <1>3, <1>4, <1>5, <1>6, <1>7 DEF Next, Progress

\* What is young is remembered, so WindowInv bounds it.
LEMMA WindowBound == TypeOK /\ WindowInv => WindowLimit
<1> SUFFICES ASSUME TypeOK, WindowInv
             PROVE  WindowLimit
  OBVIOUS
<1>1. /\ Len(sent) \in Nat
      /\ DOMAIN sent = 1..Len(sent)
      /\ first \in 1..(Len(sent) + 1)
  BY DEF TypeOK
<1>2. Recent \in SUBSET (first..Len(sent))
  BY <1>1 DEF Recent, WindowInv
<1>3. /\ IsFiniteSet(first..Len(sent))
      /\ Cardinality(first..Len(sent)) =
           IF first > Len(sent) THEN 0 ELSE Len(sent) - first + 1
  <2>1. first \in Int /\ Len(sent) \in Int
    BY <1>1
  <2>2. QED
    BY <2>1, FS_Interval
<1>4. /\ Cardinality(Recent) <= Cardinality(first..Len(sent))
      /\ Cardinality(Recent) \in Nat
  BY <1>2, <1>3, FS_Subset, FS_CardinalityType
<1>5. QED
  BY <1>1, <1>3, <1>4, ProviderAssumption DEF WindowInv, WindowLimit

\* No minute holds more requests than the limit, whatever the provider answers
\* and however long each wait lasts.
THEOREM NoMinuteExceedsTheLimit == Spec => []WindowLimit
<1>1. Init => TypeOK /\ AttemptLeft /\ WindowInv
  BY ProviderAssumption
     DEF Init, TypeOK, AttemptLeft, Phase, Quota, Result, WindowInv
<1>2. QED
  BY <1>1, TypeStep, AttemptStep, WindowStep, WindowBound, PTL DEF Spec

-----------------------------------------------------------------------------
(* The limiter's sleep.                                                      *)

\* The deque is ordered by age; a sleeping call has found it full, and sleeps no
\* longer than its oldest timestamp stays young.
WaitInv ==
  /\ \A i, j \in 1..Len(sent) : i < j => sent[i].age >= sent[j].age
  /\ pc = "limited" => /\ Len(sent) + 1 - first >= Limit
                       /\ sent[first].age + timer <= Minute

\* Ages are natural numbers, at most a minute.
LEMMA Ages == TypeOK => \A i \in 1..Len(sent) : sent[i].age \in 0..Minute
<1> SUFFICES ASSUME TypeOK
             PROVE  \A i \in 1..Len(sent) : sent[i].age \in 0..Minute
  OBVIOUS
<1>1. \A i \in 1..Len(sent) : sent[i] \in Request
  BY DEF TypeOK
<1>2. QED
  BY <1>1 DEF Request

\* WaitInv is preserved by every step.
LEMMA WaitStep == TypeOK /\ WaitInv /\ [Next]_vars => WaitInv'
<1> SUFFICES ASSUME TypeOK, WaitInv, [Next]_vars
             PROVE  WaitInv'
  OBVIOUS
<1> USE ProviderAssumption
<1>0. /\ Len(sent) \in Nat
      /\ first \in 1..(Len(sent) + 1)
      /\ timer \in Nat
      /\ \A i \in 1..Len(sent) : sent[i].age \in 0..Minute
  BY Ages DEF TypeOK
<1>1. CASE Grant
  <2>1. pc' = "waiting"
    BY <1>1 DEF Grant
  <2>2. \A i, j \in 1..Len(sent') : i < j => sent'[i].age >= sent'[j].age
    <3>1. SUFFICES ASSUME NEW i \in 1..(Len(sent) + 1),
                          NEW j \in 1..(Len(sent) + 1), i < j
                   PROVE  sent'[i].age >= sent'[j].age
      BY <1>0, <1>1, GrantShape
    <3>2. i \in 1..Len(sent) /\ sent'[i] = sent[i]
      BY <1>0, <1>1, <3>1, GrantShape
    <3>3. CASE j \in 1..Len(sent)
      BY <1>1, <3>1, <3>2, <3>3, GrantShape DEF WaitInv
    <3>4. CASE j = Len(sent) + 1
      BY <1>0, <1>1, <3>2, <3>4, GrantShape
    <3>5. QED
      BY <1>0, <3>1, <3>3, <3>4
  <2>3. QED
    BY <2>1, <2>2 DEF WaitInv
<1>2. CASE Wait
  <2>1. PICK k \in KeptFrom(first) : ~Room(k) /\ first' = k /\ timer' = Delay(k)
    BY <1>2 DEF Wait
  <2>2. k \in 1..(Len(sent) + 1) /\ sent' = sent
    BY <1>0, <1>2, <2>1 DEF KeptFrom, Wait
  <2>3. Len(sent) + 1 - k >= Limit /\ k \in 1..Len(sent)
    BY <1>0, <2>1, <2>2 DEF Room
  <2>4. sent[k].age + timer' <= Minute
    BY <1>0, <2>1, <2>3 DEF Delay
  <2>5. QED
    BY <2>1, <2>2, <2>3, <2>4 DEF WaitInv
<1>3. CASE Tick
  <2>1. /\ UNCHANGED <<pc, first>>
        /\ timer' = IF timer > 0 THEN timer - 1 ELSE 0
    BY <1>3 DEF Tick
  <2>2. /\ Len(sent') = Len(sent)
        /\ \A i \in 1..Len(sent) : sent'[i].age = Older(sent[i].age)
    BY <1>3, TickShape
  <2>3. \A i, j \in 1..Len(sent') : i < j => sent'[i].age >= sent'[j].age
    BY <1>0, <2>2 DEF WaitInv, Older
  <2>4. ASSUME pc = "limited"
        PROVE  sent'[first].age + timer' <= Minute
    <3>1. first \in 1..Len(sent)
      BY <1>0, <2>4 DEF WaitInv
    <3>2. sent[first].age + timer <= Minute
      BY <2>4 DEF WaitInv
    <3>3. sent'[first].age = Older(sent[first].age)
      BY <2>2, <3>1
    <3>4. sent[first].age \in 0..Minute
      BY <1>0, <3>1
    <3>5. QED
      BY <1>0, <2>1, <3>2, <3>3, <3>4 DEF Older
  <2>5. QED
    BY <2>1, <2>2, <2>3, <2>4 DEF WaitInv
<1>4. CASE RetryableAnswer \/ FinalAnswer
  <2>1. UpdateQuota /\ pc' \in {"idle", "backoff"}
    BY <1>4 DEF RetryableAnswer, FinalAnswer, RetryOr, End
  <2>2. /\ Len(sent') = Len(sent)
        /\ \A i \in 1..Len(sent) : sent'[i].age = sent[i].age
    BY <2>1, UpdateShape
  <2>3. QED
    BY <2>1, <2>2 DEF WaitInv
<1>5. CASE \/ Call \/ CallRefused \/ Attempt \/ OutOfBudget \/ Wake
           \/ NetworkFails \/ Raises \/ BackoffEnds \/ Close
  <2>1. sent' = sent /\ pc' # "limited"
    BY <1>5 DEF Call, CallRefused, Attempt, OutOfBudget, Wake, NetworkFails,
                RetryOr, Raises, End, BackoffEnds, Close
  <2>2. QED
    BY <2>1 DEF WaitInv
<1>6. CASE UNCHANGED vars
  BY <1>6 DEF WaitInv, vars
<1>7. QED
  BY <1>1, <1>2, <1>3, <1>4, <1>5, <1>6 DEF Next, Progress

\* A window that is waited for holds the limit.
LEMMA WaitBound == TypeOK /\ WaitInv => WaitsOnlyWhenFull
<1> SUFFICES ASSUME TypeOK, WaitInv, pc = "limited", timer > 0
             PROVE  Cardinality(Recent) >= Limit
  BY DEF WaitsOnlyWhenFull
<1> USE ProviderAssumption
<1>1. /\ Len(sent) \in Nat
      /\ DOMAIN sent = 1..Len(sent)
      /\ first \in 1..(Len(sent) + 1)
      /\ timer \in Nat
      /\ \A i \in 1..Len(sent) : sent[i].age \in 0..Minute
  BY Ages DEF TypeOK
<1>2. /\ Len(sent) + 1 - first >= Limit
      /\ sent[first].age + timer <= Minute
  BY DEF WaitInv
<1>3. first \in 1..Len(sent)
  BY <1>1, <1>2
<1>4. \A i \in first..Len(sent) : Young(i)
  <2>1. SUFFICES ASSUME NEW i \in first..Len(sent)
                 PROVE  sent[i].age < Minute
    BY DEF Young
  <2>2. i \in 1..Len(sent)
    BY <1>1
  <2>3. sent[first].age >= sent[i].age
    BY <1>1, <1>3, <2>2 DEF WaitInv
  <2>4. QED
    BY <1>1, <1>2, <1>3, <2>2, <2>3
<1>5. first..Len(sent) \in SUBSET Recent
  BY <1>1, <1>4 DEF Recent
<1>6. /\ IsFiniteSet(1..Len(sent))
      /\ Cardinality(first..Len(sent)) = Len(sent) - first + 1
  <2>1. 1 \in Int /\ first \in Int /\ Len(sent) \in Int
    BY <1>1
  <2>2. ~(first > Len(sent))
    BY <1>3
  <2>3. QED
    BY <2>1, <2>2, FS_Interval
<1>7. IsFiniteSet(Recent)
  <2>1. Recent \in SUBSET (1..Len(sent))
    BY <1>1 DEF Recent
  <2>2. QED
    BY <1>6, <2>1, FS_Subset
<1>8. /\ Cardinality(first..Len(sent)) <= Cardinality(Recent)
      /\ Cardinality(Recent) \in Nat
  BY <1>5, <1>7, FS_Subset, FS_CardinalityType
<1>9. QED
  BY <1>1, <1>2, <1>6, <1>8

\* The limiter never delays a request that the limit allows.
THEOREM NoNeedlessWait == Spec => []WaitsOnlyWhenFull
<1>1. Init => TypeOK /\ AttemptLeft /\ WaitInv
  BY ProviderAssumption
     DEF Init, TypeOK, AttemptLeft, Phase, Quota, Result, WaitInv
<1>2. QED
  BY <1>1, TypeStep, AttemptStep, WaitStep, WaitBound, PTL DEF Spec

-----------------------------------------------------------------------------
(* The quota.                                                                *)

\* The client knows of the quota what the last request brought.  An exhausted
\* quota was brought by a request of the present call, if there is one.
QuotaInv ==
  /\ ExhaustedQuotaIsFinal
  /\ sent # <<>> => sent[Len(sent)].quota = quota
  /\ pc \in {"waiting", "backoff"} =>
       sent # <<>> /\ sent[Len(sent)].call = call
  /\ pc \in {"attempt", "acquire", "limited"} /\ sent # <<>>
       /\ sent[Len(sent)].call # call => quota # "exhausted"

\* QuotaInv is preserved by every step.
LEMMA QuotaStep == TypeOK /\ QuotaInv /\ [Next]_vars => QuotaInv'
<1> SUFFICES ASSUME TypeOK, QuotaInv, [Next]_vars
             PROVE  QuotaInv'
  OBVIOUS
<1>0. /\ Len(sent) \in Nat
      /\ DOMAIN sent = 1..Len(sent)
      /\ sent # <<>> <=> Len(sent) > 0
  BY DEF TypeOK
<1>1. CASE Grant
  <2>1. /\ DOMAIN sent' = 1..(Len(sent) + 1)
        /\ Len(sent') = Len(sent) + 1
        /\ sent' # <<>>
    BY <1>0, <1>1, GrantShape
  <2>2. ExhaustedQuotaIsFinal'
    <3>1. SUFFICES ASSUME NEW i \in 1..(Len(sent) + 1),
                          NEW j \in 1..(Len(sent) + 1),
                          j = i + 1, sent'[j].call # sent'[i].call
                   PROVE  sent'[i].quota # "exhausted"
      BY <2>1 DEF ExhaustedQuotaIsFinal
    <3>2. i \in 1..Len(sent) /\ sent'[i] = sent[i]
      BY <1>0, <1>1, <3>1, GrantShape
    <3>3. CASE j \in 1..Len(sent)
      BY <1>0, <1>1, <3>1, <3>2, <3>3, GrantShape
         DEF QuotaInv, ExhaustedQuotaIsFinal
    <3>4. CASE j = Len(sent) + 1
      BY <1>0, <1>1, <3>1, <3>2, <3>4, GrantShape DEF QuotaInv, Grant
    <3>5. QED
      BY <1>0, <3>1, <3>3, <3>4
  <2>3. /\ sent'[Len(sent')].quota = quota'
        /\ sent'[Len(sent')].call = call'
        /\ pc' = "waiting"
    BY <1>1, <2>1, GrantShape DEF Grant
  <2>4. QED
    BY <2>1, <2>2, <2>3 DEF QuotaInv
<1>2. CASE RetryableAnswer \/ FinalAnswer
  <2>1. /\ UpdateQuota
        /\ pc = "waiting"
        /\ pc' \in {"idle", "backoff"}
        /\ call' = call
    BY <1>2 DEF RetryableAnswer, FinalAnswer, RetryOr, End
  <2> /\ sent' \in Seq(Request)
      /\ Len(sent') = Len(sent)
      /\ \A i \in 1..Len(sent) :
           /\ sent'[i].call = sent[i].call
           /\ i # Len(sent) => sent'[i].quota = sent[i].quota
           /\ i = Len(sent) => sent'[i].quota = quota'
    <3>1. UpdateQuota
      BY <2>1
    <3>2. QED
      BY <3>1, UpdateShape
  <2>2. /\ DOMAIN sent' = 1..Len(sent)
        /\ Len(sent') = Len(sent)
        /\ sent' # <<>> /\ sent # <<>>
    BY <1>0, <2>1 DEF QuotaInv
  <2>3. ExhaustedQuotaIsFinal'
    <3>1. SUFFICES ASSUME NEW i \in 1..Len(sent), NEW j \in 1..Len(sent),
                          j = i + 1, sent'[j].call # sent'[i].call
                   PROVE  sent'[i].quota # "exhausted"
      BY <2>2 DEF ExhaustedQuotaIsFinal
    <3>2. /\ sent'[i].quota = sent[i].quota
          /\ sent'[i].call = sent[i].call
          /\ sent'[j].call = sent[j].call
      BY <1>0, <3>1
    <3>3. QED
      BY <1>0, <3>1, <3>2 DEF QuotaInv, ExhaustedQuotaIsFinal
  <2>4. /\ sent'[Len(sent')].quota = quota'
        /\ sent'[Len(sent')].call = call'
    <3>1. Len(sent) \in 1..Len(sent)
      <4>1. sent # <<>>
        BY <2>2
      <4>2. Len(sent) > 0
        BY <1>0, <4>1
      <4>3. QED
        BY <1>0, <4>2
    <3>2. sent'[Len(sent)].quota = quota'
      BY <3>1
    <3>3. sent'[Len(sent)].call = sent[Len(sent)].call
      BY <3>1
    <3>4. sent[Len(sent)].call = call
      BY <2>1 DEF QuotaInv
    <3>5. QED
      BY <2>1, <2>2, <3>2, <3>3, <3>4
  <2>5. QED
    BY <2>1, <2>2, <2>3, <2>4 DEF QuotaInv
<1>3. CASE Tick
  <2>1. UNCHANGED <<pc, quota, call>>
    BY <1>3 DEF Tick
  <2>2. /\ DOMAIN sent' = 1..Len(sent)
        /\ Len(sent') = Len(sent)
        /\ sent' # <<>> <=> sent # <<>>
    BY <1>0, <1>3, TickShape
  <2>3. ExhaustedQuotaIsFinal'
    BY <1>0, <1>3, <2>2, TickShape DEF QuotaInv, ExhaustedQuotaIsFinal
  <2>4. sent # <<>> => /\ sent'[Len(sent')].quota = sent[Len(sent)].quota
                       /\ sent'[Len(sent')].call = sent[Len(sent)].call
    BY <1>0, <1>3, <2>2, TickShape
  <2>5. QED
    BY <2>1, <2>2, <2>3, <2>4 DEF QuotaInv
<1>4. CASE UNCHANGED <<sent, quota>>
  <2>1. ExhaustedQuotaIsFinal'
    BY <1>4 DEF QuotaInv, ExhaustedQuotaIsFinal
  <2>2. CASE Call
    BY <1>4, <2>1, <2>2 DEF Call, QuotaExhausted, QuotaInv
  <2>3. CASE CallRefused
    BY <1>4, <2>1, <2>3 DEF CallRefused, QuotaInv
  <2>4. CASE Attempt \/ Wait \/ Wake
    BY <1>4, <2>1, <2>4 DEF Attempt, Wait, Wake, QuotaInv
  <2>5. CASE OutOfBudget \/ NetworkFails \/ Raises \/ Close
    BY <1>4, <2>1, <2>5 DEF OutOfBudget, NetworkFails, RetryOr, Raises, End,
                            Close, QuotaInv
  <2>6. CASE BackoffEnds \/ UNCHANGED vars
    BY <1>4, <2>1, <2>6 DEF BackoffEnds, vars, QuotaInv
  <2>7. QED
    BY <1>1, <1>2, <1>3, <2>2, <2>3, <2>4, <2>5, <2>6 DEF Next, Progress
<1>5. Call \/ CallRefused \/ Attempt \/ OutOfBudget \/ Wait \/ Wake
        \/ NetworkFails \/ Raises \/ BackoffEnds \/ Close \/ UNCHANGED vars
        => UNCHANGED <<sent, quota>>
  BY DEF Call, CallRefused, Attempt, OutOfBudget, Wait, Wake, NetworkFails,
         Raises, BackoffEnds, Close, vars
<1>6. QED
  BY <1>1, <1>2, <1>3, <1>4, <1>5 DEF Next, Progress

\* After an answer that leaves the quota of the day exhausted, no later call
\* sends anything.
THEOREM ExhaustedMeansSilent == Spec => []ExhaustedQuotaIsFinal
<1>1. Init => TypeOK /\ AttemptLeft /\ QuotaInv
  BY ProviderAssumption
     DEF Init, TypeOK, AttemptLeft, Phase, Quota, Result, QuotaInv,
         ExhaustedQuotaIsFinal
<1>2. QuotaInv => ExhaustedQuotaIsFinal
  BY DEF QuotaInv
<1>3. QED
  BY <1>1, <1>2, TypeStep, AttemptStep, QuotaStep, PTL DEF Spec

-----------------------------------------------------------------------------
(* The client implements BudgetedCalls.                                      *)

Spent == Cardinality(Requests(call))

\* The counter counts the requests and stays within the budget; no request is
\* of a call to come; the loop variable counts the requests of the call.
CallInv ==
  /\ count = Len(sent)
  /\ count <= MaxRequests
  /\ pc \in {"acquire", "limited"} => count < MaxRequests
  /\ \A i \in 1..Len(sent) : sent[i].call <= call
  /\ pc \in {"attempt", "acquire", "limited"} => Spent = attempt
  /\ pc \in {"waiting", "backoff"} => Spent = attempt + 1

\* Nothing has been sent by a call that is just made.
LEMMA NewCallSpentNothing ==
  ASSUME TypeOK, CallInv, sent' = sent, call' = call + 1
  PROVE  Spent' = 0
<1>1. \A i \in 1..Len(sent) : sent[i].call \in Nat
  <2>1. \A i \in 1..Len(sent) : sent[i] \in Request
    BY DEF TypeOK
  <2>2. QED
    BY <2>1 DEF Request
<1>2. Requests(call)' = {}
  BY <1>1 DEF TypeOK, CallInv, Requests
<1>3. QED
  BY <1>2, FS_EmptySet DEF Spent

\* A granted request is one more request of the call.
LEMMA GrantSpends ==
  ASSUME TypeOK, Grant
  PROVE  Spent' = Spent + 1 /\ Spent \in Nat
<1>1. /\ Len(sent) \in Nat
      /\ DOMAIN sent = 1..Len(sent)
      /\ DOMAIN sent' = 1..(Len(sent) + 1)
      /\ call' = call
  BY GrantShape DEF TypeOK, Grant
<1>2. Requests(call)' = Requests(call) \cup {Len(sent) + 1}
  BY <1>1, GrantShape DEF Requests
<1>3. Requests(call) \in SUBSET (1..Len(sent))
  BY <1>1 DEF Requests
<1>4. IsFiniteSet(1..Len(sent))
  <2>1. 1 \in Int /\ Len(sent) \in Int
    BY <1>1
  <2>2. QED
    BY <2>1, FS_Interval
<1>5. IsFiniteSet(Requests(call)) /\ Cardinality(Requests(call)) \in Nat
  BY <1>3, <1>4, FS_Subset, FS_CardinalityType
<1>6. Len(sent) + 1 \notin Requests(call)
  BY <1>1, <1>3
<1>7. QED
  BY <1>2, <1>5, <1>6, FS_AddElement DEF Spent

\* What leaves the calls of the requests alone leaves Spent alone.
LEMMA SpentKept ==
  ASSUME TypeOK, sent' \in Seq(Request), Len(sent') = Len(sent), call' = call,
         \A i \in 1..Len(sent) : sent'[i].call = sent[i].call
  PROVE  Spent' = Spent
<1>1. DOMAIN sent = 1..Len(sent) /\ DOMAIN sent' = 1..Len(sent)
  BY DEF TypeOK
<1>2. Requests(call)' = Requests(call)
  BY <1>1 DEF Requests
<1>3. QED
  BY <1>2 DEF Spent

\* What every step that sends nothing does to the history and the counters.
LEMMA QuietStep ==
  ASSUME TypeOK, CallInv, [Next]_vars, ~Grant
  PROVE  /\ count' = count
         /\ Len(sent') = Len(sent)
         /\ \A i \in 1..Len(sent) : sent'[i].call = sent[i].call
         /\ call' = call => Spent' = Spent
<1>1. CASE Tick
  <2>1. count' = count /\ call' = call
    BY <1>1 DEF Tick
  <2>2. QED
    BY <1>1, <2>1, TickShape, SpentKept
<1>2. CASE RetryableAnswer \/ FinalAnswer
  <2>1. UpdateQuota /\ call' = call
    BY <1>2 DEF RetryableAnswer, FinalAnswer, RetryOr, End
  <2>2. /\ sent' \in Seq(Request)
        /\ Len(sent') = Len(sent)
        /\ \A i \in 1..Len(sent) : sent'[i].call = sent[i].call
        /\ count' = count
    BY <2>1, UpdateShape
  <2>3. QED
    BY <2>1, <2>2, SpentKept
<1>3. CASE UNCHANGED <<sent, count>>
  <2>1. sent' \in Seq(Request)
    BY <1>3 DEF TypeOK
  <2>2. QED
    BY <1>3, <2>1, SpentKept
<1>4. Call \/ CallRefused \/ Attempt \/ OutOfBudget \/ Wait \/ Wake
        \/ NetworkFails \/ Raises \/ BackoffEnds \/ Close \/ UNCHANGED vars
        => UNCHANGED <<sent, count>>
  BY DEF Call, CallRefused, Attempt, OutOfBudget, Wait, Wake, NetworkFails,
         Raises, BackoffEnds, Close, vars
<1>5. QED
  BY <1>1, <1>2, <1>3, <1>4 DEF Next, Progress

\* CallInv is preserved by every step.
LEMMA CallStep == TypeOK /\ CallInv /\ [Next]_vars => CallInv'
<1> SUFFICES ASSUME TypeOK, CallInv, [Next]_vars
             PROVE  CallInv'
  OBVIOUS
<1> USE ProviderAssumption
<1>1. Len(sent) \in Nat /\ count \in Nat /\ call \in Nat
  BY DEF TypeOK
<1>2. \A i \in 1..Len(sent) : sent[i].call \in Nat
  <2>1. \A i \in 1..Len(sent) : sent[i] \in Request
    BY DEF TypeOK
  <2>2. QED
    BY <2>1 DEF Request
<1>3. CASE Grant
  <2>1. /\ pc = "acquire" /\ pc' = "waiting"
        /\ count' = count + 1
        /\ UNCHANGED <<attempt, call>>
    BY <1>3 DEF Grant
  <2>2. Spent' = attempt' + 1
    BY <1>3, <2>1, GrantSpends DEF CallInv
  <2>3. \A i \in 1..Len(sent') : sent'[i].call <= call'
    BY <1>1, <1>3, <2>1, GrantShape DEF CallInv
  <2>4. count' = Len(sent') /\ count' <= MaxRequests
    BY <1>1, <1>3, <2>1, GrantShape DEF CallInv
  <2>5. QED
    BY <2>1, <2>2, <2>3, <2>4 DEF CallInv
<1>4. CASE ~Grant
  <2>1. /\ count' = count
        /\ Len(sent') = Len(sent)
        /\ \A i \in 1..Len(sent) : sent'[i].call = sent[i].call
        /\ call' = call => Spent' = Spent
    BY <1>4, QuietStep
  <2>2. count' = Len(sent') /\ count' <= MaxRequests
    BY <2>1 DEF CallInv
  <2>3. call' \in Nat /\ call' >= call
    BY <1>1, <1>3, <1>4
       DEF Next, Progress, Call, CallRefused, Attempt, OutOfBudget, Wait, Wake,
           NetworkFails, Raises, RetryableAnswer, FinalAnswer, RetryOr, End,
           BackoffEnds, Close, Tick, vars
  <2>4. \A i \in 1..Len(sent') : sent'[i].call <= call'
    BY <1>1, <1>2, <2>1, <2>3 DEF CallInv
  <2>5. CASE Call
    <3>1. Spent' = 0
      BY <2>5, NewCallSpentNothing DEF Call
    <3>2. QED
      BY <2>2, <2>4, <2>5, <3>1 DEF Call, CallInv
  <2>6. CASE CallRefused
    BY <2>2, <2>4, <2>6 DEF CallRefused, CallInv
  <2>7. CASE Attempt \/ OutOfBudget
    BY <2>1, <2>2, <2>4, <2>7
       DEF Attempt, OutOfBudget, BudgetLeft, End, CallInv, TypeOK
  <2>8. CASE Wait \/ Wake
    BY <2>1, <2>2, <2>4, <2>8 DEF Wait, Wake, CallInv
  <2>9. CASE NetworkFails \/ Raises \/ RetryableAnswer \/ FinalAnswer
    BY <2>1, <2>2, <2>4, <2>9
       DEF NetworkFails, Raises, RetryableAnswer, FinalAnswer, RetryOr, End,
           CallInv
  <2>10. CASE BackoffEnds
    BY <2>1, <2>2, <2>4, <2>10 DEF BackoffEnds, CallInv
  <2>11. CASE Close
    BY <2>1, <2>2, <2>4, <2>11 DEF Close, CallInv
  <2>12. CASE Tick \/ UNCHANGED vars
    BY <2>1, <2>2, <2>4, <2>12 DEF Tick, vars, CallInv
  <2>13. QED
    BY <1>4, <2>5, <2>6, <2>7, <2>8, <2>9, <2>10, <2>11, <2>12
       DEF Next, Progress
<1>5. QED
  BY <1>3, <1>4

\* A step of the client is a step of BudgetedCalls, or a stutter: what the
\* limiter, the pauses and the clock do is invisible.
LEMMA StepRefines ==
  ASSUME TypeOK, CallInv, [Next]_vars
  PROVE  [Budget!Next]_<<IF pc \in {"idle", "closed"} THEN pc ELSE "busy",
                         count, Cardinality(Requests(call)), result>>
<1> DEFINE phase == IF pc \in {"idle", "closed"} THEN pc ELSE "busy"
<1> SUFFICES [Budget!Next]_<<phase, count, Spent, result>>
  BY DEF Spent
<1> USE ProviderAssumption
<1>1. CASE Grant
  <2>1. Spent' = Spent + 1
    BY <1>1, GrantSpends
  <2>2. /\ pc = "acquire" /\ pc' = "waiting"
        /\ count' = count + 1
        /\ result' = result
    BY <1>1 DEF Grant
  <2>3. Spent < MaxRetries + 1
    BY <2>2 DEF CallInv, TypeOK
  <2>4. count < MaxRequests
    BY <2>2 DEF CallInv
  <2>5. Budget!Send
    BY <2>1, <2>2, <2>3, <2>4 DEF Budget!Send, Spent
  <2>6. QED
    BY <2>5 DEF Budget!Next
<1>2. CASE ~Grant
  <2>1. count' = count /\ (call' = call => Spent' = Spent)
    BY <1>2, QuietStep
  <2>2. CASE Call
    <3>1. Spent' = 0
      BY <2>2, NewCallSpentNothing DEF Call
    <3>2. Budget!Call
      BY <2>1, <2>2, <3>1 DEF Call, Budget!Call, Spent
    <3>3. QED
      BY <3>2 DEF Budget!Next
  <2>3. CASE CallRefused
    <3>1. Spent' = 0
      BY <2>3, NewCallSpentNothing DEF CallRefused
    <3>2. Budget!Refuse
      BY <2>1, <2>3, <3>1 DEF CallRefused, Budget!Refuse, Budget!Refused, Spent
    <3>3. QED
      BY <3>2 DEF Budget!Next
  <2>4. CASE OutOfBudget
    <3>1. count = MaxRequests
      BY <2>4 DEF OutOfBudget, BudgetLeft, CallInv, TypeOK
    <3>2. Budget!Return
      BY <2>1, <2>4, <3>1
         DEF OutOfBudget, End, Budget!Return, Budget!OutOfBudget, Spent
    <3>3. QED
      BY <3>2 DEF Budget!Next
  <2>5. CASE NetworkFails \/ Raises \/ RetryableAnswer \/ FinalAnswer
    <3>1. /\ pc = "waiting"
          /\ call' = call
          /\ \/ pc' = "idle" /\ result' \in Budget!Answered
             \/ pc' = "backoff" /\ result' = result
      BY <2>5 DEF NetworkFails, Raises, RetryableAnswer, FinalAnswer, RetryOr,
                  End, Budget!Answered
    <3>2. Spent' = Spent /\ Spent > 0
      BY <2>1, <3>1 DEF CallInv, TypeOK
    <3>3. CASE pc' = "idle" /\ result' \in Budget!Answered
      <4>1. Budget!Return
        BY <2>1, <3>1, <3>2, <3>3 DEF Budget!Return, Spent
      <4>2. QED
        BY <4>1 DEF Budget!Next
    <3>4. CASE pc' = "backoff" /\ result' = result
      BY <2>1, <3>1, <3>2, <3>4
    <3>5. QED
      BY <3>1, <3>3, <3>4
  <2>6. CASE Attempt \/ Wait \/ Wake \/ BackoffEnds
    BY <2>1, <2>6 DEF Attempt, Wait, Wake, BackoffEnds
  <2>7. CASE Close
    <3>1. Budget!Close
      BY <2>1, <2>7 DEF Close, Budget!Close, Spent
    <3>2. QED
      BY <3>1 DEF Budget!Next
  <2>8. CASE Tick \/ UNCHANGED vars
    BY <2>1, <2>8 DEF Tick, vars
  <2>9. QED
    BY <1>2, <2>2, <2>3, <2>4, <2>5, <2>6, <2>7, <2>8 DEF Next, Progress
<1>3. QED
  BY <1>1, <1>2

\* The client implements calls that share a budget.
THEOREM ClientImplementsBudgetedCalls == Spec => ImplementsBudgetedCalls
<1>1. Init => TypeOK /\ AttemptLeft /\ CallInv
  BY ProviderAssumption
     DEF Init, TypeOK, AttemptLeft, Phase, Quota, Result, CallInv
<1>2. Init => Budget!Init
  <2>1. ASSUME Init
        PROVE  Requests(call) = {}
    BY <2>1 DEF Init, Requests
  <2>2. QED
    BY <2>1, FS_EmptySet DEF Init, Budget!Init
<1>3. TypeOK /\ CallInv /\ [Next]_vars
        => [Budget!Next]_<<IF pc \in {"idle", "closed"} THEN pc ELSE "busy",
                           count, Cardinality(Requests(call)), result>>
  BY StepRefines
<1>4. QED
  BY <1>1, <1>2, <1>3, TypeStep, AttemptStep, CallStep, PTL
     DEF Spec, ImplementsBudgetedCalls, Budget!Spec
=============================================================================
