------------------------ MODULE DailyOperationsProofs ------------------------
(***************************************************************************)
(* Theorems about DailyOperations, for any set of runs and any timeouts    *)
(* whose sum stays below the lock's expiry, and about OperationsStatus,    *)
(* for any reasons of rejection and any number of fixtures.                *)
(***************************************************************************)
EXTENDS OperationsStatus, CountingTheorems

\* Two facts about Append that every step of the loop uses.
LEMMA AppendResult ==
  ASSUME NEW S, NEW s \in Seq(S), NEW e \in S
  PROVE  /\ Append(s, e) \in Seq(S)
         /\ Len(Append(s, e)) = Len(s) + 1
         /\ DOMAIN Append(s, e) = 1..(Len(s) + 1)
         /\ \A i \in 1..Len(s) : Append(s, e)[i] = s[i]
         /\ Append(s, e)[Len(s) + 1] = e
         /\ Len(s) \in Nat
         /\ DOMAIN s = 1..Len(s)
  OBVIOUS

-----------------------------------------------------------------------------
(* Type correctness.                                                         *)

\* What follows a step's result keeps the types.
LEMMA ProceedType ==
  ASSUME TypeOK, NEW r \in Runs, NEW result \in StepResult,
         NEW running \in SUBSET Threaded,
         Proceed(r, result, running)
  PROVE  TypeOK'
<1> DEFINE entries == Append(results[r], result)
           next == Len(entries) + 1
           stop == \/ next > StepCount
                   \/ result.status = "failed" /\ Len(entries) \in Critical
<1>1. /\ entries \in Seq(StepResult)
      /\ Len(entries) \in Nat
  BY AppendResult DEF TypeOK
<1>2. /\ results' = [results EXCEPT ![r] = entries]
      /\ pc' = [pc EXCEPT ![r] = IF stop THEN "saving" ELSE "step"]
      /\ left' = [left EXCEPT ![r] = IF stop THEN RedisTimeout
                                             ELSE StepTimeout[next]]
      /\ threads' = [threads EXCEPT ![r] =
                       running \cup (IF stop THEN {} ELSE {next} \cap Threaded)]
      /\ UNCHANGED <<lock, stored, outcome>>
  BY DEF Proceed
<1>3. ~stop => next \in StepIndex
  BY <1>1 DEF StepIndex, StepCount
<1> HIDE DEF entries, stop, next
<1>4. (IF stop THEN RedisTimeout ELSE StepTimeout[next]) \in Nat
  BY <1>3, DailyOperationsAssumption DEF StepIndex
<1>5. (IF stop THEN "saving" ELSE "step") \in Phase
  BY DEF Phase
<1>6. running \cup (IF stop THEN {} ELSE {next} \cap Threaded)
        \in SUBSET Threaded
  OBVIOUS
<1>7. /\ results' \in [Runs -> Seq(StepResult)]
      /\ pc' \in [Runs -> Phase]
      /\ left' \in [Runs -> Nat]
      /\ threads' \in [Runs -> SUBSET Threaded]
  BY <1>1, <1>2, <1>4, <1>5, <1>6 DEF TypeOK
<1>8. QED
  BY <1>2, <1>7 DEF TypeOK

\* TypeOK is inductive.
LEMMA TypeStep == TypeOK /\ [Next]_vars => TypeOK'
<1> SUFFICES ASSUME TypeOK, [Next]_vars
             PROVE  TypeOK'
  OBVIOUS
<1> USE DailyOperationsAssumption
<1>1. ASSUME NEW r \in Runs, Progress(r)
      PROVE  TypeOK'
  <2> USE <1>1
  <2>1. CASE Acquire(r)
    <3>1. lock' = HeldBy(r)
      BY <2>1 DEF Acquire, SetNX
    <3>2. lock' \in [owner : Runs \cup {NoRun}, ttl : 0..LockTTL]
      BY <3>1 DEF HeldBy
    <3>3. pc' \in [Runs -> Phase]
      BY <2>1 DEF TypeOK, Acquire, Phase
    <3>4. left' \in [Runs -> Nat]
      BY <2>1 DEF TypeOK, Acquire, StepIndex, StepCount
    <3>5. QED
      BY <2>1, <3>2, <3>3, <3>4 DEF TypeOK, Acquire
  <2>2. CASE AcquireRefused(r)
    BY <2>2 DEF TypeOK, AcquireRefused, Phase, Outcome
  <2>3. CASE AcquireUnavailable(r)
    BY <2>3 DEF TypeOK, AcquireUnavailable, SetNX, KeyFree, HeldBy, Phase,
                Outcome
  <2>4. CASE StepCompletes(r)
    <3>1. Proceed(r, [status |-> "completed"], threads[r] \ {Current(r)})
      BY <2>4 DEF StepCompletes
    <3>2. [status |-> "completed"] \in StepResult
      BY DEF StepResult
    <3>3. threads[r] \ {Current(r)} \in SUBSET Threaded
      BY DEF TypeOK
    <3>4. QED
      BY <3>1, <3>2, <3>3, ProceedType
  <2>5. CASE StepRaises(r)
    <3>1. [status |-> "failed"] \in StepResult
      BY DEF StepResult
    <3>2. threads[r] \ {Current(r)} \in SUBSET Threaded
      BY DEF TypeOK
    <3>3. QED
      BY <2>5, <3>1, <3>2, ProceedType DEF StepRaises
  <2>6. CASE StepTimesOut(r)
    <3>1. [status |-> "failed"] \in StepResult
      BY DEF StepResult
    <3>2. threads[r] \in SUBSET Threaded
      BY DEF TypeOK
    <3>3. QED
      BY <2>6, <3>1, <3>2, ProceedType DEF StepTimesOut
  <2>7. CASE SaveStatus(r)
    BY <2>7 DEF TypeOK, SaveStatus, Summary, FinalStatus, Phase, Outcome
  <2>8. CASE SaveUnavailable(r)
    BY <2>8 DEF TypeOK, SaveUnavailable, Summary, FinalStatus, Phase, Outcome
  <2>9. CASE Release(r)
    BY <2>9 DEF TypeOK, Release, CompareAndDelete, FreeLock, Phase
  <2>10. CASE ReleaseUnavailable(r)
    BY <2>10 DEF TypeOK, ReleaseUnavailable, CompareAndDelete, FreeLock, Phase
  <2>11. QED
    BY <2>1, <2>2, <2>3, <2>4, <2>5, <2>6, <2>7, <2>8, <2>9, <2>10
       DEF Progress
<1>2. ASSUME NEW r \in Runs, Interrupt(r)
      PROVE  TypeOK'
  BY <1>2 DEF TypeOK, Interrupt, Foreground, Summary, FinalStatus, Phase,
              Outcome
<1>3. ASSUME NEW r \in Runs, ThreadEnds(r)
      PROVE  TypeOK'
  BY <1>3 DEF TypeOK, ThreadEnds
<1>4. ASSUME NEW r \in Runs, Exit(r)
      PROVE  TypeOK'
  <2>1. <<>> \in Seq(StepResult)
    OBVIOUS
  <2>2. QED
    BY <1>4, <2>1 DEF TypeOK, Exit, Phase
<1>5. ASSUME NEW r \in Runs, Crash(r)
      PROVE  TypeOK'
  <2>1. <<>> \in Seq(StepResult)
    OBVIOUS
  <2>2. QED
    BY <1>5, <2>1 DEF TypeOK, Crash, Phase
<1>6. CASE Tick
  <2>1. lock' \in [owner : Runs \cup {NoRun}, ttl : 0..LockTTL]
    BY <1>6 DEF TypeOK, Tick, Expire, FreeLock
  <2>2. left' \in [Runs -> Nat]
    BY <1>6 DEF TypeOK, Tick
  <2>3. QED
    BY <1>6, <2>1, <2>2 DEF TypeOK, Tick
<1>7. CASE UNCHANGED vars
  BY <1>7 DEF TypeOK, vars
<1>8. QED
  BY <1>1, <1>2, <1>3, <1>4, <1>5, <1>6, <1>7 DEF Next, Finished

\* In every state the routine can reach, the Redis keys and what each process
\* remembers have the values the code gives them.
THEOREM TypeCorrect == Spec => []TypeOK
<1>1. Init => TypeOK
  <2>1. <<>> \in Seq(StepResult)
    OBVIOUS
  <2>2. QED
    BY <2>1, DailyOperationsAssumption
       DEF Init, TypeOK, FreeLock, NoStatus, Phase, Outcome
<1>2. QED
  BY <1>1, TypeStep, PTL DEF Spec

-----------------------------------------------------------------------------
(* The loop over the steps.                                                  *)

NoCriticalFailure(res) ==
  \A i \in DOMAIN res \cap Critical : res[i].status # "failed"

\* What the loop has left behind when a run is at a given place.
LoopOK(r) ==
  /\ pc[r] = "start" => results[r] = <<>> /\ threads[r] = {}
  /\ pc[r] = "step" =>
       Len(results[r]) < StepCount /\ NoCriticalFailure(results[r])
  /\ pc[r] = "saving" =>
       \/ Len(results[r]) = StepCount
       \/ ~NoCriticalFailure(results[r])
  /\ Len(results[r]) <= StepCount
  /\ \A i \in DOMAIN results[r] \cap Critical :
       results[r][i].status = "failed" =>
         i = Len(results[r]) /\ \A j \in threads[r] : j <= i
  /\ \A j \in threads[r] :
       \/ j \in DOMAIN results[r] /\ results[r][j].status = "failed"
       \/ j = Current(r) /\ pc[r] \in {"step", "releasing", "draining"}

LoopInv == \A r \in Runs : LoopOK(r)

\* An action of one run leaves the others as they are.
LEMMA OthersUntouched ==
  ASSUME NEW s \in Runs, LoopOK(s),
         pc'[s] = pc[s], results'[s] = results[s], threads'[s] = threads[s]
  PROVE  LoopOK(s)'
  BY DEF LoopOK, NoCriticalFailure, Current

\* A new result keeps what the loop leaves behind, when the running threads are
\* old ones and the step's own is among them only if the step failed.
LEMMA ProceedLoop ==
  ASSUME TypeOK, LoopInv, NEW r \in Runs, pc[r] = "step",
         NEW result \in StepResult, NEW running \in SUBSET threads[r],
         Current(r) \in running => result.status = "failed",
         Proceed(r, result, running)
  PROVE  LoopInv'
<1> DEFINE res == results[r]
           entries == Append(res, result)
           next == Len(res) + 2
           stop == \/ next > StepCount
                   \/ result.status = "failed" /\ Len(res) + 1 \in Critical
<1>1. /\ res \in Seq(StepResult)
      /\ Len(res) \in Nat
      /\ DOMAIN res = 1..Len(res)
      /\ DOMAIN entries = 1..(Len(res) + 1)
      /\ Len(entries) = Len(res) + 1
      /\ \A i \in 1..Len(res) : entries[i] = res[i]
      /\ entries[Len(res) + 1] = result
  BY AppendResult DEF TypeOK
<1>2. LoopOK(r) /\ Len(res) < StepCount /\ NoCriticalFailure(res)
  BY DEF LoopInv, LoopOK
<1>3. /\ results'[r] = entries
      /\ pc'[r] = IF stop THEN "saving" ELSE "step"
      /\ threads'[r] = running \cup (IF stop THEN {} ELSE {next} \cap Threaded)
      /\ \A s \in Runs \ {r} : /\ results'[s] = results[s]
                               /\ pc'[s] = pc[s]
                               /\ threads'[s] = threads[s]
  BY <1>1 DEF Proceed, TypeOK
<1>4. \A j \in running :
        \/ j \in 1..Len(res) /\ res[j].status = "failed"
        \/ j = Len(res) + 1 /\ result.status = "failed"
  BY <1>1, <1>2 DEF LoopOK, Current
<1> HIDE DEF entries, res
<1>5. \A i \in DOMAIN entries \cap Critical :
        entries[i].status = "failed" => i = Len(entries) /\ stop
  BY <1>1, <1>2 DEF NoCriticalFailure
<1>6. \A j \in threads'[r] :
        \/ j \in DOMAIN entries /\ entries[j].status = "failed"
        \/ ~stop /\ j = next
  BY <1>1, <1>3, <1>4
<1>7. stop => Len(entries) = StepCount \/ ~NoCriticalFailure(entries)
  BY <1>1, <1>2 DEF NoCriticalFailure, StepCount
<1>8. LoopOK(r)'
  <2>1. pc'[r] # "start"
    BY <1>3
  <2>2. pc'[r] = "step" =>
          Len(results'[r]) < StepCount /\ NoCriticalFailure(results'[r])
    BY <1>1, <1>2, <1>3, <1>5 DEF StepCount, NoCriticalFailure
  <2>3. pc'[r] = "saving" => \/ Len(results'[r]) = StepCount
                             \/ ~NoCriticalFailure(results'[r])
    BY <1>3, <1>7
  <2>4. Len(results'[r]) <= StepCount
    BY <1>1, <1>2, <1>3 DEF StepCount
  <2>5. \A i \in DOMAIN results'[r] \cap Critical :
          results'[r][i].status = "failed" =>
            i = Len(results'[r]) /\ \A j \in threads'[r] : j <= i
    BY <1>1, <1>3, <1>5, <1>6
  <2>6. \A j \in threads'[r] :
          \/ j \in DOMAIN results'[r] /\ results'[r][j].status = "failed"
          \/ j = Len(results'[r]) + 1 /\ pc'[r] = "step"
    BY <1>1, <1>3, <1>6
  <2>7. QED
    BY <2>1, <2>2, <2>3, <2>4, <2>5, <2>6
       DEF LoopOK, Current, NoCriticalFailure
<1>9. QED
  BY <1>3, <1>8, OthersUntouched DEF LoopInv

\* No run has done anything yet.
LEMMA LoopInit == Init => LoopInv
<1> SUFFICES ASSUME Init, NEW r \in Runs
             PROVE  LoopOK(r)
  BY DEF LoopInv
<1>1. results[r] = <<>> /\ threads[r] = {} /\ pc[r] = "start"
  BY DEF Init
<1>2. Len(<<>>) = 0 /\ DOMAIN <<>> = {}
  OBVIOUS
<1>3. QED
  BY <1>1, <1>2 DEF LoopOK, StepCount

\* LoopInv is inductive, given the types.
LEMMA LoopStep == TypeOK /\ LoopInv /\ [Next]_vars => LoopInv'
<1> SUFFICES ASSUME TypeOK, LoopInv, [Next]_vars
             PROVE  LoopInv'
  OBVIOUS
\* A run moves on without a new result or a new thread.
<1>1. ASSUME NEW r \in Runs, NEW phase,
             pc' = [pc EXCEPT ![r] = phase],
             results' = results, threads' = threads,
             \/ pc[r] = "start" /\ phase \in {"step", "exited"}
             \/ pc[r] = "step" /\ phase = "releasing"
             \/ pc[r] = "saving" /\ phase = "releasing"
             \/ pc[r] = "releasing" /\ phase = "draining"
      PROVE  LoopInv'
  <2>1. Len(<<>>) = 0 /\ DOMAIN <<>> = {}
    OBVIOUS
  <2>2. pc'[r] = phase /\ \A s \in Runs \ {r} : pc'[s] = pc[s]
    BY <1>1 DEF TypeOK
  <2>3. LoopOK(r)
    BY DEF LoopInv
  <2>4. LoopOK(r)'
    <3>1. CASE pc[r] = "start"
      BY <1>1, <2>1, <2>2, <2>3, <3>1
         DEF LoopOK, NoCriticalFailure, StepCount
    <3>2. CASE pc[r] # "start"
      BY <1>1, <2>2, <2>3, <3>2 DEF LoopOK, NoCriticalFailure, Current
    <3>3. QED
      BY <3>1, <3>2
  <2>5. QED
    BY <1>1, <2>2, <2>4, OthersUntouched DEF LoopInv
\* A process ends: nothing is left of it.
<1>2. ASSUME NEW r \in Runs, NEW phase \in {"exited", "crashed"},
             pc' = [pc EXCEPT ![r] = phase],
             results' = [results EXCEPT ![r] = <<>>],
             threads'[r] = {},
             \A s \in Runs \ {r} : threads'[s] = threads[s]
      PROVE  LoopInv'
  <2>1. Len(<<>>) = 0 /\ DOMAIN <<>> = {}
    OBVIOUS
  <2>2. /\ pc'[r] = phase /\ results'[r] = <<>>
        /\ \A s \in Runs \ {r} : pc'[s] = pc[s] /\ results'[s] = results[s]
    BY <1>2 DEF TypeOK
  <2>3. LoopOK(r)'
    BY <1>2, <2>1, <2>2 DEF LoopOK, StepCount
  <2>4. QED
    BY <1>2, <2>2, <2>3, OthersUntouched DEF LoopInv
<1>3. ASSUME NEW r \in Runs, Progress(r)
      PROVE  LoopInv'
  <2>1. CASE Acquire(r)
    BY <2>1, <1>1 DEF Acquire
  <2>2. CASE AcquireRefused(r)
    BY <2>2, <1>1 DEF AcquireRefused
  <2>3. CASE AcquireUnavailable(r)
    BY <2>3, <1>1 DEF AcquireUnavailable
  <2>4. CASE StepCompletes(r)
    <3>1. Proceed(r, [status |-> "completed"], threads[r] \ {Current(r)})
      BY <2>4 DEF StepCompletes
    <3>2. /\ pc[r] = "step"
          /\ [status |-> "completed"] \in StepResult
          /\ threads[r] \ {Current(r)} \in SUBSET threads[r]
      BY <2>4 DEF StepCompletes, StepResult
    <3>3. QED
      BY <3>1, <3>2, ProceedLoop
  <2>5. CASE StepRaises(r)
    <3>1. /\ pc[r] = "step"
          /\ [status |-> "failed"] \in StepResult
          /\ threads[r] \ {Current(r)} \in SUBSET threads[r]
      BY <2>5 DEF StepRaises, StepResult
    <3>2. QED
      BY <2>5, <3>1, ProceedLoop DEF StepRaises
  <2>6. CASE StepTimesOut(r)
    <3>1. /\ pc[r] = "step"
          /\ [status |-> "failed"] \in StepResult
          /\ [status |-> "failed"].status = "failed"
          /\ threads[r] \in SUBSET threads[r]
      BY <2>6 DEF StepTimesOut, StepResult
    <3>2. QED
      BY <2>6, <3>1, ProceedLoop DEF StepTimesOut
  <2>7. CASE SaveStatus(r)
    BY <2>7, <1>1 DEF SaveStatus
  <2>8. CASE SaveUnavailable(r)
    BY <2>8, <1>1 DEF SaveUnavailable
  <2>9. CASE Release(r)
    BY <2>9, <1>1 DEF Release
  <2>10. CASE ReleaseUnavailable(r)
    BY <2>10, <1>1 DEF ReleaseUnavailable
  <2>11. QED
    BY <1>3, <2>1, <2>2, <2>3, <2>4, <2>5, <2>6, <2>7, <2>8, <2>9, <2>10
       DEF Progress
<1>4. ASSUME NEW r \in Runs, Interrupt(r)
      PROVE  LoopInv'
  BY <1>4, <1>1 DEF Interrupt, Foreground
<1>5. ASSUME NEW r \in Runs, ThreadEnds(r)
      PROVE  LoopInv'
  <2>1. /\ pc' = pc /\ results' = results
        /\ threads'[r] \subseteq threads[r]
        /\ \A s \in Runs \ {r} : threads'[s] = threads[s]
    BY <1>5 DEF ThreadEnds, TypeOK
  <2>2. LoopOK(r)'
    BY <2>1 DEF LoopInv, LoopOK, NoCriticalFailure, Current
  <2>3. QED
    BY <2>1, <2>2, OthersUntouched DEF LoopInv
<1>6. ASSUME NEW r \in Runs, Exit(r)
      PROVE  LoopInv'
  BY <1>6, <1>2 DEF Exit
<1>7. ASSUME NEW r \in Runs, Crash(r)
      PROVE  LoopInv'
  <2>1. threads'[r] = {} /\ \A s \in Runs \ {r} : threads'[s] = threads[s]
    BY <1>7 DEF Crash, TypeOK
  <2>2. QED
    BY <1>7, <1>2, <2>1 DEF Crash
<1>8. CASE Tick
  BY <1>8 DEF Tick, LoopInv, LoopOK, NoCriticalFailure, Current
<1>9. CASE UNCHANGED vars
  BY <1>9 DEF vars, LoopInv, LoopOK, NoCriticalFailure, Current
<1>10. QED
  BY <1>3, <1>4, <1>5, <1>6, <1>7, <1>8, <1>9 DEF Next, Finished

\* What the loop leaves behind holds in every state the routine can reach.
LEMMA LoopInvariant == Spec => [](TypeOK /\ LoopInv)
<1>1. LoopInv /\ TypeOK /\ [Next]_vars => LoopInv'
  BY LoopStep
<1>2. QED
  BY LoopInit, <1>1, TypeCorrect, PTL DEF Spec

\* A failure of a critical step is the last thing the loop does, for every
\* interleaving of any number of runs, whatever overruns its bound.
THEOREM CriticalFailureStops == Spec => []StopsAtCriticalFailure
<1>1. TypeOK /\ LoopInv => StopsAtCriticalFailure
  BY DEF LoopInv, LoopOK, NoCriticalFailure, StopsAtCriticalFailure
<1>2. QED
  BY <1>1, LoopInvariant, PTL

\* The threads of a run are its present step's and those of steps that failed.
THEOREM ThreadsOfTheLoop == Spec => []ThreadsFollowTheLoop
<1>1. TypeOK /\ LoopInv => ThreadsFollowTheLoop
  BY DEF LoopInv, LoopOK, ThreadsFollowTheLoop
<1>2. QED
  BY <1>1, LoopInvariant, PTL

-----------------------------------------------------------------------------
(* The lease.                                                                *)

\* The bounds still ahead shrink by one timeout with every step, cover the Redis
\* call at the end, and together stay below the expiry of the key.
LEMMA Rest ==
  /\ RestAfter \in [StepIndex -> Nat]
  /\ \A i \in StepIndex : i + 1 \in StepIndex =>
       RestAfter[i] = StepTimeout[i + 1] + RestAfter[i + 1]
  /\ \A i \in StepIndex : RestAfter[i] >= RedisTimeout
  /\ LockTTL > StepTimeout[1] + RestAfter[1]
<1>1. /\ \A i \in StepIndex : StepTimeout[i] \in Nat
      /\ RedisTimeout \in Nat
      /\ LockTTL \in Nat
  BY DailyOperationsAssumption
<1>2. \A i, j \in StepIndex :
        BoundAfter(i, j) = IF j > i THEN StepTimeout[j] ELSE 0
  BY DEF BoundAfter
<1>3. 1 \in StepIndex /\ 2 \in StepIndex /\ 3 \in StepIndex
      /\ 4 \in StepIndex /\ 5 \in StepIndex
  BY DEF StepIndex, StepCount
<1>4. \A i \in StepIndex : i \in {1, 2, 3, 4, 5}
  BY DEF StepIndex, StepCount
<1>5. \A i \in StepIndex :
        RestAfter[i] = BoundAfter(i, 2) + BoundAfter(i, 3) + BoundAfter(i, 4)
                       + BoundAfter(i, 5) + RedisTimeout
  BY DEF RestAfter
<1>6. /\ RestAfter[1] = StepTimeout[2] + StepTimeout[3] + StepTimeout[4]
                        + StepTimeout[5] + RedisTimeout
      /\ RestAfter[2] = StepTimeout[3] + StepTimeout[4] + StepTimeout[5]
                        + RedisTimeout
      /\ RestAfter[3] = StepTimeout[4] + StepTimeout[5] + RedisTimeout
      /\ RestAfter[4] = StepTimeout[5] + RedisTimeout
      /\ RestAfter[5] = RedisTimeout
  BY <1>1, <1>2, <1>3, <1>5
<1>7. RestAfter = [i \in StepIndex |-> RestAfter[i]]
  BY DEF RestAfter
<1>8. \A i \in StepIndex : RestAfter[i] \in Nat
  BY <1>1, <1>3, <1>4, <1>6
<1>9. RestAfter \in [StepIndex -> Nat]
  BY <1>7, <1>8
<1>10. \A i \in StepIndex : i + 1 \in StepIndex =>
         RestAfter[i] = StepTimeout[i + 1] + RestAfter[i + 1]
  <2>1. ASSUME NEW i \in StepIndex, i + 1 \in StepIndex
        PROVE  i \in {1, 2, 3, 4}
    BY <2>1 DEF StepIndex, StepCount
  <2>2. QED
    BY <1>1, <1>3, <1>6, <2>1
<1>11. \A i \in StepIndex : RestAfter[i] >= RedisTimeout
  BY <1>1, <1>3, <1>4, <1>6
<1>12. LockTTL > StepTimeout[1] + RestAfter[1]
  BY <1>1, <1>3, <1>6, LeaseAssumption
<1>13. QED
  BY <1>9, <1>10, <1>11, <1>12

\* The key is this run's and outlives what is still ahead of it.
LeaseOK(r) ==
  /\ pc[r] = "step" =>
       /\ lock.owner = r
       /\ Current(r) \in StepIndex
       /\ lock.ttl > left[r] + RestAfter[Current(r)]
  /\ pc[r] = "saving" => lock.owner = r /\ lock.ttl > left[r]

\* A run that does not move keeps its lease when the key does not change.
LEMMA LeaseUntouched ==
  ASSUME NEW s \in Runs, LeaseOK(s), lock' = lock,
         pc'[s] = pc[s], left'[s] = left[s], results'[s] = results[s]
  PROVE  LeaseOK(s)'
  BY DEF LeaseOK, Current

\* The next step takes its bound from what the lease holds in reserve.
LEMMA ProceedLease ==
  ASSUME TypeOK, LeaseOutlivesRun, NEW r \in Runs, pc[r] = "step",
         NEW result \in StepResult, NEW running,
         Proceed(r, result, running)
  PROVE  LeaseOutlivesRun'
<1> DEFINE n == Len(results[r])
           stop == \/ n + 2 > StepCount
                   \/ result.status = "failed" /\ n + 1 \in Critical
<1>1. /\ n \in Nat
      /\ n + 1 \in StepIndex
      /\ lock.owner = r
      /\ lock.ttl > left[r] + RestAfter[n + 1]
      /\ lock.ttl \in Nat
      /\ left[r] \in Nat
  BY AppendResult DEF TypeOK, LeaseOutlivesRun, Current
<1>2. /\ Len(Append(results[r], result)) = n + 1
  BY AppendResult DEF TypeOK
<1>3. /\ lock' = lock
      /\ results'[r] = Append(results[r], result)
      /\ pc'[r] = IF stop THEN "saving" ELSE "step"
      /\ left'[r] = IF stop THEN RedisTimeout ELSE StepTimeout[n + 2]
      /\ \A s \in Runs \ {r} : /\ results'[s] = results[s]
                               /\ pc'[s] = pc[s]
                               /\ left'[s] = left[s]
  BY <1>1, <1>2 DEF Proceed, TypeOK
<1>4. RestAfter[n + 1] \in Nat /\ RestAfter[n + 1] >= RedisTimeout
  BY <1>1, Rest
<1>5. ~stop => n + 2 \in StepIndex
  BY <1>1 DEF StepIndex, StepCount
<1>6. ~stop => /\ RestAfter[n + 1] = StepTimeout[n + 2] + RestAfter[n + 2]
               /\ StepTimeout[n + 2] \in Nat
               /\ RestAfter[n + 2] \in Nat
  <2>1. (n + 1) + 1 = n + 2
    BY <1>1
  <2>2. ~stop => RestAfter[n + 1] = StepTimeout[n + 2] + RestAfter[n + 2]
    BY <1>1, <1>5, <2>1, Rest
  <2>3. ~stop => StepTimeout[n + 2] \in Nat /\ RestAfter[n + 2] \in Nat
    BY <1>5, Rest, DailyOperationsAssumption
  <2>4. QED
    BY <2>2, <2>3
<1> HIDE DEF stop, n
<1>7. LeaseOK(r)'
  <2>1. CASE stop
    BY <1>1, <1>3, <1>4, <2>1, DailyOperationsAssumption DEF LeaseOK
  <2>2. CASE ~stop
    <3>1. Current(r)' = n + 2
      BY <1>1, <1>2, <1>3 DEF Current
    <3>2. lock'.ttl > left'[r] + RestAfter[n + 2]
      BY <1>1, <1>3, <1>6, <2>2
    <3>3. QED
      BY <1>1, <1>3, <1>5, <2>2, <3>1, <3>2 DEF LeaseOK
  <2>3. QED
    BY <2>1, <2>2
<1>8. QED
  BY <1>3, <1>7, LeaseUntouched DEF LeaseOutlivesRun, LeaseOK

\* LeaseOutlivesRun is inductive while nothing overruns its bound.
LEMMA LeaseStep ==
  Overruns = {} /\ TypeOK /\ LoopInv /\ LeaseOutlivesRun /\ [Next]_vars
    => LeaseOutlivesRun'
<1> SUFFICES ASSUME Overruns = {}, TypeOK, LoopInv, LeaseOutlivesRun,
                    [Next]_vars
             PROVE  LeaseOutlivesRun'
  OBVIOUS
<1> USE DailyOperationsAssumption
<1>1. \A s \in Runs : LeaseOK(s)
  BY DEF LeaseOutlivesRun, LeaseOK
<1>2. SUFFICES \A s \in Runs : LeaseOK(s)'
  BY DEF LeaseOutlivesRun, LeaseOK
\* A run leaves the foreground and nobody's key changes but its own.
<1>3. ASSUME NEW r \in Runs, pc'[r] \notin {"step", "saving"},
             lock' = lock \/ lock.owner = r \/ lock.owner = NoRun,
             \A s \in Runs \ {r} : /\ pc'[s] = pc[s]
                                   /\ left'[s] = left[s]
                                   /\ results'[s] = results[s]
      PROVE  \A s \in Runs : LeaseOK(s)'
  <2>1. LeaseOK(r)'
    BY <1>3 DEF LeaseOK
  <2>2. ASSUME NEW s \in Runs \ {r}
        PROVE  LeaseOK(s)'
    BY <1>1, <1>3, <2>2 DEF LeaseOK, Current
  <2>3. QED
    BY <2>1, <2>2
<1>4. ASSUME NEW r \in Runs, Progress(r)
      PROVE  \A s \in Runs : LeaseOK(s)'
  <2>1. CASE Acquire(r)
    <3>1. lock.owner = NoRun /\ lock' = HeldBy(r)
      BY <2>1 DEF Acquire, KeyFree, SetNX
    <3>2. \A s \in Runs \ {r} : pc[s] \notin {"step", "saving"}
      BY <1>1, <3>1 DEF LeaseOK
    <3>3. \A s \in Runs \ {r} : pc'[s] = pc[s]
      BY <2>1 DEF Acquire, TypeOK
    <3>4. /\ pc'[r] = "step"
          /\ left'[r] = StepTimeout[1]
          /\ results' = results
      BY <2>1 DEF Acquire, TypeOK
    <3>5. results[r] = <<>>
      BY <2>1 DEF Acquire, LoopInv, LoopOK
    <3>6. Current(r)' = 1 /\ 1 \in StepIndex
      BY <3>4, <3>5 DEF Current, StepIndex, StepCount
    <3>7. LockTTL > StepTimeout[1] + RestAfter[1]
      BY Rest
    <3>8. LeaseOK(r)'
      BY <3>1, <3>4, <3>6, <3>7 DEF LeaseOK, HeldBy
    <3>9. QED
      BY <3>2, <3>3, <3>8 DEF LeaseOK
  <2>2. CASE AcquireRefused(r)
    BY <2>2, <1>3 DEF AcquireRefused, TypeOK
  <2>3. CASE AcquireUnavailable(r)
    BY <2>3, <1>3 DEF AcquireUnavailable, TypeOK, SetNX, KeyFree
  <2>4. CASE StepCompletes(r)
    <3>1. Proceed(r, [status |-> "completed"], threads[r] \ {Current(r)})
      BY <2>4 DEF StepCompletes
    <3>2. /\ pc[r] = "step"
          /\ [status |-> "completed"] \in StepResult
      BY <2>4 DEF StepCompletes, StepResult
    <3>3. LeaseOutlivesRun'
      BY <3>1, <3>2, ProceedLease
    <3>4. QED
      BY <3>3 DEF LeaseOutlivesRun, LeaseOK
  <2>5. CASE StepRaises(r) \/ StepTimesOut(r)
    <3>1. /\ pc[r] = "step"
          /\ [status |-> "failed"] \in StepResult
      BY <2>5 DEF StepRaises, StepTimesOut, StepResult
    <3>2. LeaseOutlivesRun'
      BY <2>5, <3>1, ProceedLease DEF StepRaises, StepTimesOut
    <3>3. QED
      BY <3>2 DEF LeaseOutlivesRun, LeaseOK
  <2>6. CASE SaveStatus(r)
    BY <2>6, <1>3 DEF SaveStatus, TypeOK
  <2>7. CASE SaveUnavailable(r)
    BY <2>7, <1>3 DEF SaveUnavailable, TypeOK
  <2>8. CASE Release(r)
    BY <2>8, <1>3 DEF Release, CompareAndDelete, TypeOK
  <2>9. CASE ReleaseUnavailable(r)
    BY <2>9, <1>3 DEF ReleaseUnavailable, CompareAndDelete, TypeOK
  <2>10. QED
    BY <1>4, <2>1, <2>2, <2>3, <2>4, <2>5, <2>6, <2>7, <2>8, <2>9 DEF Progress
<1>5. ASSUME NEW r \in Runs, Interrupt(r)
      PROVE  \A s \in Runs : LeaseOK(s)'
  BY <1>5, <1>3 DEF Interrupt, TypeOK
<1>6. ASSUME NEW r \in Runs, ThreadEnds(r)
      PROVE  \A s \in Runs : LeaseOK(s)'
  BY <1>6, <1>1 DEF ThreadEnds, LeaseOK, Current
<1>7. ASSUME NEW r \in Runs, Exit(r) \/ Crash(r)
      PROVE  \A s \in Runs : LeaseOK(s)'
  <2>1. CASE Exit(r)
    BY <2>1, <1>3 DEF Exit, TypeOK
  <2>2. CASE Crash(r)
    BY <2>2, <1>3 DEF Crash, TypeOK
  <2> QED
    BY <1>7, <2>1, <2>2
<1>8. CASE Tick
  <2> SUFFICES ASSUME NEW s \in Runs
               PROVE  LeaseOK(s)'
    OBVIOUS
  <2>1. CASE pc[s] \in {"step", "saving"}
    <3>1. /\ pc'[s] = pc[s] /\ Current(s)' = Current(s)
          /\ left[s] \in Nat /\ lock.ttl \in Nat
      BY <1>8 DEF Tick, TypeOK, Current
    <3>2. left[s] > 0 /\ left'[s] = left[s] - 1
      BY <1>8, <2>1 DEF Tick, Bounded, TypeOK
    <3>3. pc[s] = "step" => RestAfter[Current(s)] \in Nat
      BY <1>1, Rest DEF LeaseOK
    <3>4. lock.ttl > 1 /\ lock.owner = s
      BY <1>1, <2>1, <3>1, <3>2, <3>3 DEF LeaseOK
    <3>5. lock'.owner = s /\ lock'.ttl = lock.ttl - 1
      BY <1>8, <3>1, <3>4 DEF Tick, Expire
    <3>6. QED
      BY <1>1, <2>1, <3>1, <3>2, <3>3, <3>5 DEF LeaseOK
  <2>2. CASE pc[s] \notin {"step", "saving"}
    BY <1>8, <2>2 DEF Tick, LeaseOK
  <2>3. QED
    BY <2>1, <2>2
<1>9. CASE UNCHANGED vars
  BY <1>1, <1>9 DEF vars, LeaseOK, Current
<1>10. QED
  BY <1>4, <1>5, <1>6, <1>7, <1>8, <1>9 DEF Next, Finished

\* While every phase keeps to its bound, the key of a run outlives the run.
THEOREM LeaseIsEnough == Overruns = {} => (Spec => []LeaseOutlivesRun)
<1>1. Init => LeaseOutlivesRun
  BY DEF Init, LeaseOutlivesRun
<1>2. SUFFICES ASSUME Overruns = {}
               PROVE  Spec => []LeaseOutlivesRun
  OBVIOUS
<1>3. TypeOK /\ LoopInv /\ LeaseOutlivesRun /\ [Next]_vars
        => LeaseOutlivesRun'
  BY <1>2, LeaseStep
<1>4. QED
  BY <1>1, <1>3, LoopInvariant, PTL DEF Spec

\* One key has one owner.
LEMMA LeaseExcludes ==
  TypeOK /\ LeaseOutlivesRun => ForegroundExclusion
  BY DailyOperationsAssumption
     DEF LeaseOutlivesRun, ForegroundExclusion, Foreground

\* Two runs are never both between acquisition and release.
THEOREM RunsExclude == Overruns = {} => (Spec => []ForegroundExclusion)
  BY LeaseIsEnough, TypeCorrect, LeaseExcludes, PTL

\* When two runs are at work together, one of them is only an abandoned thread.
THEOREM OverlapIsAbandoned ==
  Overruns = {} => (Spec => []OverlapOnlyByAbandonedThreads)
<1>1. TypeOK /\ LeaseOutlivesRun => OverlapOnlyByAbandonedThreads
  BY LeaseExcludes
     DEF ForegroundExclusion, Foreground, OverlapOnlyByAbandonedThreads,
         Working
<1>2. QED
  BY <1>1, LeaseIsEnough, TypeCorrect, PTL

-----------------------------------------------------------------------------
(* Action properties.                                                        *)

\* Only the owner's release, or expiry, removes a key: whatever overruns.
THEOREM ReleaseByToken == Spec => OnlyOwnerReleases
<1>1. ASSUME TypeOK, [Next]_vars, NEW r \in Runs,
             lock.owner = r, lock'.owner # r
      PROVE  /\ lock'.owner = NoRun
             /\ \/ lock.ttl <= 1
                \/ pc[r] = "releasing" /\ pc'[r] = "draining"
  <2> USE DailyOperationsAssumption
  <2>1. lock' # lock /\ ~KeyFree
    BY <1>1 DEF KeyFree
  <2>2. ASSUME NEW s \in Runs, Progress(s)
        PROVE  /\ lock'.owner = NoRun
               /\ pc[r] = "releasing" /\ pc'[r] = "draining"
    <3>1. CASE Release(s) \/ ReleaseUnavailable(s)
      <4>1. lock' = CompareAndDelete(s)
        BY <2>1, <3>1 DEF Release, ReleaseUnavailable
      <4>2. lock.owner = s /\ lock' = FreeLock
        BY <2>1, <4>1 DEF CompareAndDelete
      <4>3. r = s
        BY <1>1, <4>2
      <4>4. QED
        BY <1>1, <3>1, <4>2, <4>3
           DEF Release, ReleaseUnavailable, FreeLock, TypeOK
    <3>2. CASE Acquire(s) \/ AcquireUnavailable(s)
      BY <2>1, <3>2 DEF Acquire, AcquireUnavailable, SetNX
    <3>3. CASE AcquireRefused(s) \/ SaveStatus(s) \/ SaveUnavailable(s)
      BY <2>1, <3>3 DEF AcquireRefused, SaveStatus, SaveUnavailable
    <3>4. CASE StepCompletes(s) \/ StepRaises(s) \/ StepTimesOut(s)
      BY <2>1, <3>4 DEF StepCompletes, StepRaises, StepTimesOut, Proceed
    <3>5. QED
      BY <2>2, <3>1, <3>2, <3>3, <3>4 DEF Progress
  <2>3. ASSUME NEW s \in Runs,
               Interrupt(s) \/ ThreadEnds(s) \/ Exit(s) \/ Crash(s)
        PROVE  FALSE
    BY <2>1, <2>3 DEF Interrupt, ThreadEnds, Exit, Crash
  <2>4. CASE Tick
    BY <1>1, <2>4 DEF Tick, Expire, FreeLock
  <2>5. CASE UNCHANGED vars
    BY <2>1, <2>5 DEF vars
  <2>6. QED
    BY <1>1, <2>2, <2>3, <2>4, <2>5 DEF Next, Finished
<1>2. TypeOK /\ [Next]_vars =>
        [\A r \in Runs :
           lock.owner = r /\ lock'.owner # r =>
             /\ lock'.owner = NoRun
             /\ \/ lock.ttl <= 1
                \/ pc[r] = "releasing" /\ pc'[r] = "draining"]_vars
  BY <1>1
<1>3. QED
  BY <1>2, TypeCorrect, PTL DEF Spec, OnlyOwnerReleases

\* What each final status says of the failed steps.
LEMMA FinalStatusValues ==
  ASSUME NEW res
  PROVE  /\ FinalStatus(res) = "completed" => FailedSteps(res) = {}
         /\ FailedSteps(res) = {} => FinalStatus(res) = "completed"
         /\ FinalStatus(res) \in {"completed", "degraded"} =>
              FailedSteps(res) \cap Critical = {}
  BY Zenon DEF FinalStatus

\* Success is reported with all the steps done, the critical ones well, and the
\* summary in the status key.
THEOREM SuccessNeedsStorage == Spec => SuccessIsStored
<1> DEFINE A == \A r \in Runs :
                  outcome[r] = "none" /\ outcome'[r] \in {"completed", "degraded"} =>
                    /\ Len(results[r]) = StepCount
                    /\ \A i \in Critical : results[r][i].status = "completed"
                    /\ outcome'[r] = "completed" <=> FailedSteps(results[r]) = {}
                    /\ stored' = [run |-> r, status |-> outcome'[r]]
<1>1. ASSUME TypeOK, LoopInv, [Next]_vars, NEW r \in Runs,
             outcome[r] = "none", outcome'[r] \in {"completed", "degraded"}
      PROVE  /\ Len(results[r]) = StepCount
             /\ \A i \in Critical : results[r][i].status = "completed"
             /\ outcome'[r] = "completed" <=> FailedSteps(results[r]) = {}
             /\ stored' = [run |-> r, status |-> outcome'[r]]
  <2>1. outcome'[r] # outcome[r]
    BY <1>1
  <2>2. SaveStatus(r)
    <3>1. ASSUME NEW s \in Runs, Progress(s)
          PROVE  SaveStatus(r)
      <4>1. CASE SaveStatus(s)
        BY <1>1, <2>1, <4>1 DEF SaveStatus, TypeOK
      <4>2. CASE SaveUnavailable(s) \/ AcquireRefused(s) \/ AcquireUnavailable(s)
        BY <1>1, <2>1, <4>2
           DEF SaveUnavailable, AcquireRefused, AcquireUnavailable, TypeOK
      <4>3. CASE Acquire(s) \/ Release(s) \/ ReleaseUnavailable(s)
        BY <2>1, <4>3 DEF Acquire, Release, ReleaseUnavailable
      <4>4. CASE StepCompletes(s) \/ StepRaises(s) \/ StepTimesOut(s)
        BY <2>1, <4>4 DEF StepCompletes, StepRaises, StepTimesOut, Proceed
      <4>5. QED
        BY <3>1, <4>1, <4>2, <4>3, <4>4 DEF Progress
    <3>2. ASSUME NEW s \in Runs, Interrupt(s)
          PROVE  FALSE
      BY <1>1, <2>1, <3>2 DEF Interrupt, TypeOK
    <3>3. ASSUME NEW s \in Runs, ThreadEnds(s) \/ Exit(s) \/ Crash(s)
          PROVE  FALSE
      BY <2>1, <3>3 DEF ThreadEnds, Exit, Crash
    <3>4. QED
      BY <1>1, <2>1, <3>1, <3>2, <3>3 DEF Next, Tick, Finished, vars
  <2>3. /\ outcome'[r] = FinalStatus(results[r])
        /\ stored' = [run |-> r, status |-> FinalStatus(results[r])]
        /\ pc[r] = "saving"
    BY <1>1, <2>2 DEF SaveStatus, Summary, TypeOK
  <2>4. FailedSteps(results[r]) \cap Critical = {}
    BY <1>1, <2>3, FinalStatusValues
  <2>5. NoCriticalFailure(results[r])
    BY <2>4 DEF FailedSteps, NoCriticalFailure
  <2>6. Len(results[r]) = StepCount
    BY <1>1, <2>3, <2>5 DEF LoopInv, LoopOK
  <2>7. /\ results[r] \in Seq(StepResult)
        /\ DOMAIN results[r] = 1..5
    BY <1>1, <2>6 DEF TypeOK, StepCount
  <2>8. ASSUME NEW i \in Critical
        PROVE  results[r][i].status = "completed"
    <3>1. i \in DOMAIN results[r]
      BY <2>7 DEF Critical
    <3>2. results[r][i] \in StepResult
      BY <2>7, <3>1
    <3>3. QED
      BY <2>5, <3>1, <3>2 DEF NoCriticalFailure, StepResult
  <2>9. QED
    BY <2>3, <2>6, <2>8, FinalStatusValues
<1>2. TypeOK /\ LoopInv /\ [Next]_vars => [A]_vars
  BY <1>1
<1>3. QED
  BY <1>2, LoopInvariant, PTL DEF Spec, SuccessIsStored

-----------------------------------------------------------------------------
(* Refinement.                                                               *)

PhaseOf(r) == IF pc[r] = "start" THEN "idle"
              ELSE IF Foreground(r) THEN "active"
              ELSE "over"

\* Every step of the routine is a step of ExclusiveRuns or leaves it unchanged.
LEMMA StepRefines ==
  TypeOK /\ LeaseOutlivesRun /\ LeaseOutlivesRun' /\ [Next]_vars
    => [Exclusive!Next]_([r \in Runs |-> PhaseOf(r)])
<1> SUFFICES ASSUME TypeOK, LeaseOutlivesRun, LeaseOutlivesRun', [Next]_vars
             PROVE  [Exclusive!Next]_([r \in Runs |-> PhaseOf(r)])
  OBVIOUS
<1> DEFINE phase == [r \in Runs |-> PhaseOf(r)]
<1>1. ASSUME NEW r \in Runs,
             \A s \in Runs \ {r} : pc'[s] = pc[s]
      PROVE  phase' = [phase EXCEPT ![r] = PhaseOf(r)']
  BY <1>1 DEF PhaseOf, Foreground
<1>2. ASSUME pc' = pc
      PROVE  phase' = phase
  BY <1>2 DEF PhaseOf, Foreground
<1>3. ASSUME NEW r \in Runs,
             \A s \in Runs \ {r} : pc'[s] = pc[s],
             \/ pc[r] = "start" /\ pc'[r] \in {"step", "exited"}
             \/ pc[r] = "step" /\ pc'[r] \in {"step", "saving", "releasing",
                                              "crashed"}
             \/ pc[r] = "saving" /\ pc'[r] \in {"releasing", "crashed"}
             \/ /\ pc[r] \in {"releasing", "draining"}
                /\ pc'[r] \in {"draining", "exited", "crashed"}
      PROVE  [Exclusive!Next]_phase
  <2>1. phase' = [phase EXCEPT ![r] = PhaseOf(r)'] /\ phase[r] = PhaseOf(r)
    BY <1>1, <1>3
  <2>2. CASE pc'[r] = "step" /\ pc[r] = "start"
    <3>1. phase[r] = "idle" /\ phase' = [phase EXCEPT ![r] = "active"]
      BY <2>1, <2>2 DEF PhaseOf, Foreground
    <3>2. \A s \in Runs \ {r} : pc[s] \notin {"step", "saving"}
      BY <1>3, <2>2 DEF LeaseOutlivesRun
    <3>3. \A s \in Runs : phase[s] # "active"
      BY <2>2, <3>2 DEF PhaseOf, Foreground
    <3>4. Exclusive!Enter(r)
      BY <3>1, <3>3 DEF Exclusive!Enter, PhaseOf, Foreground
    <3>5. QED
      BY <3>4 DEF Exclusive!Next, PhaseOf, Foreground
  <2>3. CASE pc[r] = "start" /\ pc'[r] = "exited"
    <3>1. phase[r] = "idle" /\ phase' = [phase EXCEPT ![r] = "over"]
      BY <2>1, <2>3 DEF PhaseOf, Foreground
    <3>2. Exclusive!GiveUp(r)
      BY <3>1 DEF Exclusive!GiveUp, PhaseOf, Foreground
    <3>3. QED
      BY <3>2 DEF Exclusive!Next, PhaseOf, Foreground
  <2>4. CASE /\ pc[r] \in {"step", "saving"}
             /\ pc'[r] \in {"releasing", "crashed"}
    <3>1. phase[r] = "active" /\ phase' = [phase EXCEPT ![r] = "over"]
      BY <2>1, <2>4 DEF PhaseOf, Foreground
    <3>2. Exclusive!Leave(r)
      BY <3>1 DEF Exclusive!Leave, PhaseOf, Foreground
    <3>3. QED
      BY <3>2 DEF Exclusive!Next, PhaseOf, Foreground
  <2>5. CASE \/ pc[r] = "step" /\ pc'[r] \in {"step", "saving"}
             \/ /\ pc[r] \in {"releasing", "draining"}
                /\ pc'[r] \in {"draining", "exited", "crashed"}
    <3>1. PhaseOf(r)' = PhaseOf(r)
      BY <2>5 DEF PhaseOf, Foreground
    <3>2. phase' = phase
      BY <2>1, <3>1
    <3>3. QED
      BY <3>2
  <2>6. QED
    BY <1>3, <2>2, <2>3, <2>4, <2>5
<1>4. ASSUME NEW r \in Runs, Progress(r)
      PROVE  [Exclusive!Next]_phase
  <2>1. CASE Acquire(r) \/ AcquireRefused(r) \/ AcquireUnavailable(r)
    BY <2>1, <1>3 DEF Acquire, AcquireRefused, AcquireUnavailable, TypeOK
  <2>2. CASE StepCompletes(r) \/ StepRaises(r) \/ StepTimesOut(r)
    <3>1. /\ pc[r] = "step" /\ pc'[r] \in {"step", "saving"}
          /\ \A s \in Runs \ {r} : pc'[s] = pc[s]
      BY <2>2 DEF StepCompletes, StepRaises, StepTimesOut, Proceed, TypeOK
    <3>2. QED
      BY <1>3, <3>1
  <2>3. CASE SaveStatus(r) \/ SaveUnavailable(r)
    BY <2>3, <1>3 DEF SaveStatus, SaveUnavailable, TypeOK
  <2>4. CASE Release(r) \/ ReleaseUnavailable(r)
    BY <2>4, <1>3 DEF Release, ReleaseUnavailable, TypeOK
  <2>5. QED
    BY <1>4, <2>1, <2>2, <2>3, <2>4 DEF Progress
<1>5. ASSUME NEW r \in Runs, Interrupt(r) \/ Exit(r) \/ Crash(r)
      PROVE  [Exclusive!Next]_phase
  BY <1>5, <1>3 DEF Interrupt, Foreground, Exit, Crash, TypeOK
<1>6. ASSUME pc' = pc
      PROVE  [Exclusive!Next]_phase
  BY <1>2, <1>6
<1>7. QED
  BY <1>4, <1>5, <1>6 DEF Next, ThreadEnds, Tick, Finished, vars

\* The expiring lock implements exclusive runs, while every phase keeps to its
\* bound.
THEOREM LockImplementsExclusiveRuns ==
  Overruns = {} => (Spec => ImplementsExclusiveRuns)
<1>1. SUFFICES ASSUME Overruns = {}
               PROVE  Spec => Exclusive!Spec
  BY DEF ImplementsExclusiveRuns
<1>2. Init => Exclusive!Init
  BY DEF Init, Exclusive!Init, Foreground
<1>3. TypeOK /\ LeaseOutlivesRun /\ LeaseOutlivesRun' /\ [Next]_vars
        => [Exclusive!Next]_([r \in Runs |->
              IF pc[r] = "start" THEN "idle"
              ELSE IF Foreground(r) THEN "active" ELSE "over"])
  BY StepRefines DEF PhaseOf
<1>4. Spec => []LeaseOutlivesRun
  BY <1>1, LeaseIsEnough
<1>5. QED
  BY <1>2, <1>3, <1>4, TypeCorrect, PTL DEF Spec, Exclusive!Spec

-----------------------------------------------------------------------------
(* The status of a run: what is inductive of it.                             *)

Funnels == [received : Nat, retained : Nat, rejected : [Reasons -> Nat]]
Errors == {"retention_funnel_invalid", "step_timeout", "provider_unavailable",
           "postgresql_error", "daily_operations_internal_error"}

\* The metrics kept of a step that completed.
MetricsOf(i) ==
  IF i \in Synchronisations THEN {result \in SyncResults : Accepted(i, result)}
  ELSE IF i = Snapshot THEN [created : 0..1, received : {1}]
  ELSE IF i = Resolve THEN [inserted : 0..1]
  ELSE [resolved : 0..1]
AllMetrics == UNION {MetricsOf(i) : i \in StepIndex}
Entry == [status : {"completed", "failed"}, error : Errors \cup {NoError},
          metrics : {None} \cup {<<m>> : m \in AllMetrics}]
Totals == [succeeded : Nat, failed : Nat, received : Nat, retained : Nat, funnel : Funnels,
           snapshots : Nat, resolutions : Nat, providerErrors : Nat, databaseErrors : Nat]

\* What a synchronisation adds to the funnel, and who has an error.
Share(steps, i) ==
  IF i \in DOMAIN steps /\ steps[i].status = "completed"
  THEN steps[i].metrics[1].funnel ELSE EmptyFunnel
WithError(steps, e) == {i \in DOMAIN steps : steps[i].error = e}

EntryInv(i, entry) ==
  \/ /\ entry.status = "completed" /\ entry.error = NoError
     /\ \E m \in MetricsOf(i) : entry.metrics = <<m>>
  \/ entry.status = "failed" /\ entry.error \in Errors /\ entry.metrics = None
EntriesInv(steps) ==
  \A i \in DOMAIN steps :
    /\ EntryInv(i, steps[i])
    /\ steps[i].status = "failed" /\ i \in Critical => i = Len(steps)
TotalsInv(steps, sum) ==
  /\ sum.succeeded + sum.failed = Cardinality(DOMAIN steps \cap Synchronisations)
  /\ sum.providerErrors = Cardinality(WithError(steps, "provider_unavailable"))
  /\ sum.databaseErrors = Cardinality(WithError(steps, "postgresql_error"))
  /\ sum.funnel = Plus(Share(steps, 1), Share(steps, 2))
  /\ sum.received = sum.funnel.received
  /\ sum.retained = sum.funnel.retained

Saved == [status |-> FinalStatus(done), error |-> FinalError, steps |-> done, totals |-> totals]
StatusInv ==
  /\ stage \in {"idle", "looping", "saving", "over"}
  /\ done \in Seq(Entry) /\ Len(done) <= StepCount
  /\ totals \in Totals
  /\ stage = "idle" => done = <<>>
  /\ stage = "looping" => /\ Len(done) < StepCount
                          /\ \A i \in DOMAIN done \cap Critical : done[i].status = "completed"
  /\ EntriesInv(done)
  /\ TotalsInv(done, totals)
  /\ kept = None \/ (stage = "over" /\ kept = <<Saved>>)

-----------------------------------------------------------------------------
(* Funnels.                                                                  *)

LEMMA PlusFacts ==
  /\ EmptyFunnel \in Funnels
  /\ \A a, b \in Funnels : Plus(a, b) \in Funnels /\ Plus(a, b) = Plus(b, a)
  /\ \A a \in Funnels : Plus(a, EmptyFunnel) = a
  /\ \A a, b, c \in Funnels : Plus(Plus(a, b), c) = Plus(a, Plus(b, c))
<1>1. EmptyFunnel \in Funnels
  BY DEF EmptyFunnel, Funnels
<1>2. \A a, b \in Funnels : Plus(a, b) \in Funnels /\ Plus(a, b) = Plus(b, a)
  BY DEF Plus, Funnels
<1>3. \A a \in Funnels : Plus(a, EmptyFunnel) = a
  BY DEF Plus, Funnels, EmptyFunnel
<1>4. \A a, b, c \in Funnels : Plus(Plus(a, b), c) = Plus(a, Plus(b, c))
  BY DEF Plus, Funnels
<1> QED BY <1>1, <1>2, <1>3, <1>4

LEMMA RejectedIsSum ==
  ASSUME NEW funnel \in Funnels
  PROVE  Rejected(funnel) = SumFunctionOnSet(funnel.rejected, Reasons)
<1>1. DOMAIN funnel.rejected = Reasons
  BY DEF Funnels
<1>2. Rejected(funnel) = SumFunction(funnel.rejected)
  BY DEF Rejected, FoldFunction, SumFunction, SumFunctionOnSet
<1> QED BY <1>1, <1>2 DEF SumFunction

\* The sum of two funnels that reconcile does so too.
LEMMA PlusIsBalanced ==
  ASSUME NEW a \in Funnels, NEW b \in Funnels, Balanced(a), Balanced(b)
  PROVE  Balanced(Plus(a, b))
<1> DEFINE c == Plus(a, b)
<1>1. /\ c \in Funnels /\ c.received = a.received + b.received
      /\ c.retained = a.retained + b.retained
      /\ \A reason \in Reasons : c.rejected[reason] = a.rejected[reason] + b.rejected[reason]
  BY PlusFacts DEF Plus
<1>2. /\ a.received \in Nat /\ a.retained \in Nat /\ b.received \in Nat /\ b.retained \in Nat
      /\ IntegersOn(a.rejected, Reasons) /\ IntegersOn(b.rejected, Reasons)
  BY DEF Funnels, IntegersOn
<1> HIDE DEF c
<1>3. SumFunctionOnSet(c.rejected, Reasons)
        = SumFunctionOnSet(a.rejected, Reasons) + SumFunctionOnSet(b.rejected, Reasons)
  BY <1>1, <1>2, StatusAssumption, SumOfBoth
<1>4. /\ SumFunctionOnSet(a.rejected, Reasons) \in Int
      /\ SumFunctionOnSet(b.rejected, Reasons) \in Int
  BY <1>2, StatusAssumption, SumIsInteger
<1>5. Rejected(c) = Rejected(a) + Rejected(b) /\ Rejected(a) \in Int /\ Rejected(b) \in Int
  BY <1>1, <1>3, <1>4, RejectedIsSum
<1> QED BY <1>1, <1>2, <1>5 DEF Balanced, c

LEMMA EmptyIsBalanced == Balanced(EmptyFunnel)
<1>1. \A reason \in Reasons : EmptyFunnel.rejected[reason] = 0
  BY DEF EmptyFunnel
<1>2. Rejected(EmptyFunnel) = 0
  BY <1>1, PlusFacts, RejectedIsSum, StatusAssumption, SumOfZero
<1> QED BY <1>2 DEF Balanced, EmptyFunnel

\* The funnels of the synchronisations, added up in whatever order.
LEMMA FunnelsAdd ==
  ASSUME NEW S, S \subseteq {1, 2}, NEW f \in [S -> Funnels]
  PROVE  FoldFunction(Plus, EmptyFunnel, f)
           = Plus(IF 1 \in S THEN f[1] ELSE EmptyFunnel, IF 2 \in S THEN f[2] ELSE EmptyFunnel)
<1> DEFINE op == [p \in S \X Funnels |-> Plus(f[p[1]], p[2])]
           pick == [t \in SUBSET S |-> CHOOSE x \in t : TRUE]
           IsFold(g) == g = [t \in SUBSET S |->
                               IF t = {} THEN EmptyFunnel
                               ELSE Plus(f[CHOOSE x \in t : TRUE], g[t \ {CHOOSE x \in t : TRUE}])]
           acc == CHOOSE g : IsFold(g)
<1>1. FoldFunction(Plus, EmptyFunnel, f) = acc[S]
  <2>1. DOMAIN f = S
    OBVIOUS
  <2>2. FoldFunction(Plus, EmptyFunnel, f) = FoldFunctionOnSet(Plus, EmptyFunnel, f, S)
    BY <2>1 DEF FoldFunction
  <2> QED BY <2>2 DEF FoldFunctionOnSet, MapThenFoldSet
<1>2. \A x \in S : \A v \in Funnels : op[<<x, v>>] = Plus(f[x], v) /\ op[<<x, v>>] \in Funnels
  BY PlusFacts
<1>3. \A t \in SUBSET S : t # {} => pick[t] = (CHOOSE x \in t : TRUE) /\ pick[t] \in t
  OBVIOUS
<1>4. IsFiniteSet(S)
  <2>1. IsFiniteSet({1} \cup {2})
    BY FS_Singleton, FS_AddElement
  <2>2. {1} \cup {2} = {1, 2}
    OBVIOUS
  <2> QED BY <2>1, <2>2, FS_Subset
<1> HIDE DEF op, pick
<1>5. IsFold(acc)
  <2>1. PICK g : Folds(S, Funnels, EmptyFunnel, pick, op, g)
    BY <1>2, <1>3, <1>4, PlusFacts, FoldExists
  <2>2. ASSUME NEW t \in SUBSET S, t # {}
        PROVE  g[t] = Plus(f[CHOOSE x \in t : TRUE], g[t \ {CHOOSE x \in t : TRUE}])
    <3>1. pick[t] \in S /\ g[t \ {pick[t]}] \in Funnels /\ g[t] = op[<<pick[t], g[t \ {pick[t]}]>>]
      BY <1>3, <2>1, <2>2 DEF Folds
    <3>2. g[t] = Plus(f[pick[t]], g[t \ {pick[t]}])
      BY <1>2, <3>1
    <3> QED BY <1>3, <2>2, <3>2
  <2>3. g[{}] = EmptyFunnel /\ g \in [SUBSET S -> Funnels]
    BY <2>1 DEF Folds
  <2> DEFINE turn(t) == IF t = {} THEN EmptyFunnel
                        ELSE Plus(f[CHOOSE x \in t : TRUE], g[t \ {CHOOSE x \in t : TRUE}])
  <2>4. \A t \in SUBSET S : g[t] = turn(t)
    BY <2>2, <2>3
  <2> HIDE DEF turn
  <2>5. g = [t \in SUBSET S |-> turn(t)]
    BY <2>3, <2>4
  <2>6. IsFold(g)
    BY <2>5, Zenon DEF turn
  <2> HIDE DEF IsFold
  <2> QED BY <2>6
<1> HIDE DEF acc
<1>6. acc[{}] = EmptyFunnel
  BY <1>5
<1>7. ASSUME NEW x \in S
      PROVE  acc[{x}] = f[x]
  <2>1. (CHOOSE y \in {x} : TRUE) = x /\ {x} \ {x} = {} /\ {x} \in SUBSET S
    OBVIOUS
  <2>2. acc[{x}] = Plus(f[x], acc[{}])
    BY <1>5, <2>1
  <2> QED BY <1>6, <2>2, PlusFacts
<1>8. CASE S = {}
  BY <1>1, <1>6, <1>8, PlusFacts
<1>9. CASE S = {1}
  BY <1>1, <1>7, <1>9, PlusFacts
<1>10. CASE S = {2}
  <2>1. f[2] \in Funnels
    BY <1>10
  <2> QED BY <1>1, <1>7, <1>10, <2>1, PlusFacts
<1>11. CASE S = {1, 2}
  <2> DEFINE c == CHOOSE y \in S : TRUE
  <2>1. c \in S
    BY <1>11
  <2>2. acc[S] = Plus(f[c], acc[S \ {c}])
    BY <1>5, <1>11
  <2> HIDE DEF c
  <2>3. (c = 1 /\ S \ {c} = {2}) \/ (c = 2 /\ S \ {c} = {1})
    BY <1>11, <2>1
  <2>4. acc[S] = Plus(f[1], f[2]) \/ acc[S] = Plus(f[2], f[1])
    BY <1>7, <1>11, <2>2, <2>3
  <2>5. f[1] \in Funnels /\ f[2] \in Funnels
    BY <1>11
  <2> QED BY <1>1, <1>11, <2>4, <2>5, PlusFacts
<1>12. S = {} \/ S = {1} \/ S = {2} \/ S = {1, 2}
  OBVIOUS
<1> QED BY <1>8, <1>9, <1>10, <1>11, <1>12

-----------------------------------------------------------------------------
(* Metrics and shares.                                                       *)

LEMMA MetricsOfSynchronisation ==
  ASSUME NEW i \in Synchronisations, NEW m \in MetricsOf(i)
  PROVE  /\ Accepted(i, m) /\ Balanced(m.funnel) /\ m.funnel \in Funnels
         /\ m.received \in Nat /\ m.retained \in Nat
         /\ m.funnel.received = m.received /\ m.funnel.retained = m.retained
<1>1. m \in SyncResults /\ Accepted(i, m)
  BY DEF MetricsOf
<1>2. Amounts \subseteq Nat
  BY StatusAssumption DEF Amounts
<1>3. m.received \in Nat /\ m.retained \in Nat /\ m.funnel \in Funnels
  <2>1. PICK received \in Amounts, retained \in Amounts,
             funnel \in [received : Amounts, retained : Amounts, rejected : [Reasons -> Amounts]] :
          m = [received |-> received, retained |-> retained, ignored |-> received - retained,
               funnel |-> funnel]
    BY <1>1 DEF SyncResults
  <2>2. [Reasons -> Amounts] \subseteq [Reasons -> Nat]
    BY <1>2
  <2>3. funnel \in Funnels
    BY <1>2, <2>2 DEF Funnels
  <2> QED BY <1>2, <2>1, <2>3
<1> QED BY <1>1, <1>3 DEF Accepted

LEMMA Shares ==
  ASSUME NEW steps, EntriesInv(steps), NEW i \in Synchronisations
  PROVE  Share(steps, i) \in Funnels /\ Balanced(Share(steps, i))
<1>1. CASE i \in DOMAIN steps /\ steps[i].status = "completed"
  <2>1. PICK m \in MetricsOf(i) : steps[i].metrics = <<m>>
    BY <1>1 DEF EntriesInv, EntryInv
  <2>2. Share(steps, i) = m.funnel
    BY <1>1, <2>1 DEF Share
  <2> QED BY <2>2, MetricsOfSynchronisation
<1>2. CASE ~(i \in DOMAIN steps /\ steps[i].status = "completed")
  BY <1>2, PlusFacts, EmptyIsBalanced DEF Share
<1> QED BY <1>1, <1>2

\* The command status counts what the run has counted.
LEMMA FunnelCountedAgain ==
  ASSUME NEW summary, EntriesInv(summary.steps)
  PROVE  FunnelOfSteps(summary) = Plus(Share(summary.steps, 1), Share(summary.steps, 2))
<1> DEFINE steps == summary.steps
           S == Completed(summary) \cap Synchronisations
           f == [i \in S |-> steps[i].metrics[1].funnel]
<1>1. S \subseteq {1, 2} /\ \A i \in {1, 2} : i \in S <=> i \in DOMAIN steps /\ steps[i].status = "completed"
  BY DEF Completed, Synchronisations
<1>2. \A i \in S : Share(steps, i) = steps[i].metrics[1].funnel /\ i \in Synchronisations
  BY <1>1 DEF Share, Synchronisations
<1>3. \A i \in S : Share(steps, i) \in Funnels
  BY <1>2, Shares
<1>4. f \in [S -> Funnels]
  BY <1>2, <1>3
<1>5. /\ Share(steps, 1) = (IF 1 \in S THEN f[1] ELSE EmptyFunnel)
      /\ Share(steps, 2) = (IF 2 \in S THEN f[2] ELSE EmptyFunnel)
  BY <1>1 DEF Share
<1>6. FunnelOfSteps(summary) = FoldFunction(Plus, EmptyFunnel, f)
  BY DEF FunnelOfSteps
<1> HIDE DEF S, f
<1>7. FoldFunction(Plus, EmptyFunnel, f)
        = Plus(IF 1 \in S THEN f[1] ELSE EmptyFunnel, IF 2 \in S THEN f[2] ELSE EmptyFunnel)
  BY <1>1, <1>4, FunnelsAdd
<1> QED BY <1>5, <1>6, <1>7

-----------------------------------------------------------------------------
(* One more entry.                                                           *)

\* The positions of the steps done, as a finite set.
LEMMA Positions ==
  ASSUME NEW steps \in Seq(Entry)
  PROVE  /\ IsFiniteSet(DOMAIN steps) /\ DOMAIN steps = 1..Len(steps) /\ Len(steps) \in Nat
         /\ \A S : IsFiniteSet(DOMAIN steps \cap S)
         /\ \A e : IsFiniteSet(WithError(steps, e))
<1>1. DOMAIN steps = 1..Len(steps) /\ Len(steps) \in Nat
  OBVIOUS
<1>2. IsFiniteSet(DOMAIN steps)
  BY <1>1, Interval
<1>3. \A S : IsFiniteSet(DOMAIN steps \cap S)
  BY <1>2, FS_Subset
<1>4. \A e : WithError(steps, e) \subseteq DOMAIN steps
  BY DEF WithError
<1> QED BY <1>1, <1>2, <1>3, <1>4, FS_Subset

LEMMA EntriesGrow ==
  ASSUME NEW steps \in Seq(Entry), EntriesInv(steps),
         \A i \in DOMAIN steps \cap Critical : steps[i].status = "completed",
         NEW entry \in Entry, EntryInv(Len(steps) + 1, entry)
  PROVE  EntriesInv(Append(steps, entry))
<1> DEFINE longer == Append(steps, entry)
           n == Len(steps)
<1>1. /\ n \in Nat /\ DOMAIN steps = 1..n /\ DOMAIN longer = 1..(n + 1) /\ Len(longer) = n + 1
      /\ longer[n + 1] = entry /\ \A i \in 1..n : longer[i] = steps[i]
  OBVIOUS
<1> HIDE DEF longer, n
<1>2. ASSUME NEW i \in 1..(n + 1)
      PROVE  /\ EntryInv(i, longer[i])
             /\ longer[i].status = "failed" /\ i \in Critical => i = Len(longer)
  <2>1. CASE i = n + 1
    BY <1>1, <2>1 DEF n
  <2>2. CASE i \in 1..n
    <3>1. EntryInv(i, steps[i]) /\ longer[i] = steps[i]
      BY <1>1, <2>2 DEF EntriesInv
    <3>2. i \in Critical => steps[i].status # "failed"
      BY <1>1, <2>2
    <3> QED BY <3>1, <3>2
  <2> QED BY <1>1, <2>1, <2>2
<1>3. EntriesInv(longer)
  BY <1>1, <1>2 DEF EntriesInv
<1> QED BY <1>3 DEF longer

LEMMA CountsGrow ==
  ASSUME NEW steps \in Seq(Entry), NEW entry \in Entry
  PROVE  /\ Cardinality(DOMAIN Append(steps, entry) \cap Synchronisations)
              = Cardinality(DOMAIN steps \cap Synchronisations)
                + IF Len(steps) + 1 \in Synchronisations THEN 1 ELSE 0
         /\ \A e : Cardinality(WithError(Append(steps, entry), e))
                     = Cardinality(WithError(steps, e)) + IF entry.error = e THEN 1 ELSE 0
<1> DEFINE longer == Append(steps, entry)
           n == Len(steps)
<1>1. /\ n \in Nat /\ DOMAIN steps = 1..n /\ DOMAIN longer = 1..(n + 1)
      /\ longer[n + 1] = entry /\ \A i \in 1..n : longer[i] = steps[i]
  OBVIOUS
<1> HIDE DEF longer, n
<1>2. ASSUME NEW old, IsFiniteSet(old), NEW more, n + 1 \notin old,
             NEW new, new = IF more THEN old \cup {n + 1} ELSE old
      PROVE  Cardinality(new) = Cardinality(old) + IF more THEN 1 ELSE 0
  <2>1. Cardinality(old) \in Nat
    BY <1>2, FS_CardinalityType
  <2>2. Cardinality(old \cup {n + 1}) = Cardinality(old) + 1
    BY <1>2, FS_AddElement
  <2> QED BY <1>2, <2>1, <2>2
<1>3. Cardinality(DOMAIN longer \cap Synchronisations)
        = Cardinality(DOMAIN steps \cap Synchronisations)
          + IF n + 1 \in Synchronisations THEN 1 ELSE 0
  <2>1. n + 1 \notin DOMAIN steps \cap Synchronisations
    BY <1>1
  <2>2. DOMAIN longer \cap Synchronisations
          = IF n + 1 \in Synchronisations
            THEN (DOMAIN steps \cap Synchronisations) \cup {n + 1}
            ELSE DOMAIN steps \cap Synchronisations
    BY <1>1
  <2>3. IsFiniteSet(DOMAIN steps \cap Synchronisations)
    BY Positions
  <2> QED BY <1>2, <2>1, <2>2, <2>3
<1>4. ASSUME NEW e
      PROVE  Cardinality(WithError(longer, e))
               = Cardinality(WithError(steps, e)) + IF entry.error = e THEN 1 ELSE 0
  <2>1. n + 1 \notin WithError(steps, e)
    BY <1>1 DEF WithError
  <2>2. WithError(longer, e)
          = IF entry.error = e THEN WithError(steps, e) \cup {n + 1} ELSE WithError(steps, e)
    <3>1. \A i : i \in WithError(longer, e) <=>
                   i \in WithError(steps, e) \/ (i = n + 1 /\ entry.error = e)
      BY <1>1 DEF WithError
    <3> QED BY <3>1
  <2>3. IsFiniteSet(WithError(steps, e))
    BY Positions
  <2> QED BY <1>2, <2>1, <2>2, <2>3
<1> QED BY <1>3, <1>4 DEF longer, n

LEMMA FunnelGrows ==
  ASSUME NEW steps \in Seq(Entry), EntriesInv(steps),
         NEW entry \in Entry, EntryInv(Len(steps) + 1, entry)
  PROVE  LET longer == Append(steps, entry)
             before == Plus(Share(steps, 1), Share(steps, 2))
         IN  Plus(Share(longer, 1), Share(longer, 2))
               = IF Len(steps) + 1 \in Synchronisations /\ entry.status = "completed"
                 THEN Plus(before, entry.metrics[1].funnel) ELSE before
<1> DEFINE longer == Append(steps, entry)
           n == Len(steps)
           given == entry.metrics[1].funnel
<1>1. /\ n \in Nat /\ DOMAIN steps = 1..n /\ DOMAIN longer = 1..(n + 1)
      /\ longer[n + 1] = entry /\ \A i \in 1..n : longer[i] = steps[i]
  OBVIOUS
<1> HIDE DEF longer, n
<1>2. Share(longer, n + 1) = IF entry.status = "completed" THEN given ELSE EmptyFunnel
  BY <1>1 DEF Share
<1>3. \A i \in {1, 2} : i # n + 1 => Share(longer, i) = Share(steps, i)
  <2>1. ASSUME NEW i \in {1, 2}, i # n + 1
        PROVE  (i \in DOMAIN longer <=> i \in DOMAIN steps) /\ (i \in DOMAIN steps => longer[i] = steps[i])
    BY <1>1, <2>1
  <2> QED BY <2>1 DEF Share
<1>4. \A i \in {1, 2} : i > n => Share(steps, i) = EmptyFunnel
  BY <1>1 DEF Share
<1>5. Share(steps, 1) \in Funnels /\ Share(steps, 2) \in Funnels
  BY Shares DEF Synchronisations
<1>6. n + 1 \in Synchronisations /\ entry.status = "completed" => given \in Funnels
  <2> SUFFICES ASSUME n + 1 \in Synchronisations, entry.status = "completed"
               PROVE  given \in Funnels
    OBVIOUS
  <2>1. PICK m \in MetricsOf(n + 1) : entry.metrics = <<m>>
    BY DEF EntryInv, n
  <2>2. given = m.funnel
    BY <2>1
  <2> QED BY <2>2, MetricsOfSynchronisation
<1>7. CASE n = 0
  <2>1. Share(steps, 1) = EmptyFunnel /\ Share(steps, 2) = EmptyFunnel
    BY <1>4, <1>7
  <2>2. Share(longer, 1) = IF entry.status = "completed" THEN given ELSE EmptyFunnel
    BY <1>2, <1>7
  <2>3. Share(longer, 2) = EmptyFunnel
    BY <1>3, <1>7, <2>1
  <2>4. n + 1 \in Synchronisations
    BY <1>7 DEF Synchronisations
  <2>5. Plus(EmptyFunnel, EmptyFunnel) = EmptyFunnel
    BY PlusFacts
  <2>6. given \in Funnels => Plus(given, EmptyFunnel) = Plus(EmptyFunnel, given)
    BY PlusFacts
  <2> HIDE DEF given
  <2>7. Plus(Share(longer, 1), Share(longer, 2))
          = IF n + 1 \in Synchronisations /\ entry.status = "completed"
            THEN Plus(Plus(Share(steps, 1), Share(steps, 2)), given)
            ELSE Plus(Share(steps, 1), Share(steps, 2))
    BY <1>6, <2>1, <2>2, <2>3, <2>4, <2>5, <2>6
  <2> QED BY <2>7 DEF longer, n, given
<1>8. CASE n = 1
  <2>1. Share(steps, 2) = EmptyFunnel /\ Share(longer, 1) = Share(steps, 1)
    BY <1>3, <1>4, <1>8
  <2>2. Share(longer, 2) = IF entry.status = "completed" THEN given ELSE EmptyFunnel
    BY <1>2, <1>8
  <2>3. n + 1 \in Synchronisations
    BY <1>8 DEF Synchronisations
  <2>4. Plus(Share(steps, 1), EmptyFunnel) = Share(steps, 1)
    BY <1>5, PlusFacts
  <2> HIDE DEF given
  <2>5. Plus(Share(longer, 1), Share(longer, 2))
          = IF n + 1 \in Synchronisations /\ entry.status = "completed"
            THEN Plus(Plus(Share(steps, 1), Share(steps, 2)), given)
            ELSE Plus(Share(steps, 1), Share(steps, 2))
    BY <2>1, <2>2, <2>3, <2>4
  <2> QED BY <2>5 DEF longer, n, given
<1>9. CASE n > 1
  <2>1. n + 1 \notin Synchronisations
    BY <1>1, <1>9 DEF Synchronisations
  <2>2. Share(longer, 1) = Share(steps, 1) /\ Share(longer, 2) = Share(steps, 2)
    BY <1>1, <1>3, <1>9
  <2> QED BY <2>1, <2>2 DEF longer, n
<1> QED BY <1>1, <1>7, <1>8, <1>9

-----------------------------------------------------------------------------
(* The steps of a run that is looked into.                                   *)

StatusIdle == done = <<>> /\ totals = NoTotals /\ kept = None

\* What the run keeps of a step is of the step's kind.
LEMMA KeptMetrics ==
  ASSUME NEW i \in StepIndex,
         NEW result \in IF i \in Synchronisations THEN SyncResults ELSE JournalResults(i),
         Accepted(i, result)
  PROVE  SafeMetrics(i, result) \in MetricsOf(i)
<1>1. CASE i \in Synchronisations
  <2>1. i # StepCount
    BY <1>1 DEF Synchronisations, StepCount
  <2> QED BY <1>1, <2>1 DEF SafeMetrics, MetricsOf
<1>2. CASE i = Snapshot \/ i = Resolve
  <2>1. i # StepCount /\ i \notin Synchronisations
    BY <1>2 DEF Synchronisations, StepCount, Snapshot, Resolve
  <2> QED BY <1>2, <2>1 DEF SafeMetrics, MetricsOf, JournalResults
<1>3. CASE i = StepCount
  <2>1. i \notin Synchronisations /\ i # Snapshot /\ i # Resolve
    BY <1>3 DEF Synchronisations, StepCount, Snapshot, Resolve
  <2>2. PICK x \in 0..1 : result = [performance |-> [resolved |-> x]]
    BY <2>1 DEF JournalResults
  <2>3. SafeMetrics(i, result) = [resolved |-> x]
    BY <1>3, <2>2 DEF SafeMetrics
  <2> QED BY <2>1, <2>3 DEF MetricsOf
<1> QED BY <1>1, <1>2, <1>3 DEF StepIndex, StepCount, Synchronisations, Snapshot, Resolve

\* The same of what is read back; the metrics of a report were already taken out of it.
LEMMA MetricsReadBack ==
  ASSUME NEW i \in StepIndex, NEW m \in MetricsOf(i)
  PROVE  /\ Accepted(i, m)
         /\ i # StepCount => SafeMetrics(i, m) = m
BY MetricsOfSynchronisation DEF Accepted, SafeMetrics

LEMMA StartsOut ==
  ASSUME stage \in {"idle", "looping"}, StatusIdle
  PROVE  StatusInv
<1>1. EmptyFunnel \in Funnels /\ Plus(EmptyFunnel, EmptyFunnel) = EmptyFunnel
  BY PlusFacts
<1>2. NoTotals \in Totals
  BY <1>1 DEF NoTotals, Totals
<1>3. done \in Seq(Entry) /\ DOMAIN done = {} /\ Len(done) = 0
  BY DEF StatusIdle
<1>4. \A S, e : DOMAIN done \cap S = {} /\ WithError(done, e) = {}
  BY <1>3 DEF WithError
<1>5. \A i : Share(done, i) = EmptyFunnel
  BY <1>3 DEF Share
<1>6. Cardinality({}) = 0
  BY FS_EmptySet
<1>7. TotalsInv(done, totals)
  <2>1. /\ totals.succeeded = 0 /\ totals.failed = 0 /\ totals.received = 0
        /\ totals.retained = 0 /\ totals.funnel = EmptyFunnel
        /\ totals.providerErrors = 0 /\ totals.databaseErrors = 0
    BY DEF StatusIdle, NoTotals
  <2>2. EmptyFunnel.received = 0 /\ EmptyFunnel.retained = 0
    BY DEF EmptyFunnel
  <2>3. /\ Cardinality(DOMAIN done \cap Synchronisations) = 0
        /\ Cardinality(WithError(done, "provider_unavailable")) = 0
        /\ Cardinality(WithError(done, "postgresql_error")) = 0
    BY <1>4, <1>6
  <2>4. totals.funnel = Plus(Share(done, 1), Share(done, 2))
    BY <1>1, <1>5, <2>1
  <2> QED BY <2>1, <2>2, <2>3, <2>4 DEF TotalsInv
<1>8. EntriesInv(done)
  BY <1>3 DEF EntriesInv
<1> QED BY <1>2, <1>3, <1>7, <1>8 DEF StatusInv, StatusIdle, StepCount

\* What a turn of the loop leaves, whichever way its step ended.
LEMMA TurnKeeps ==
  ASSUME StatusInv, stage = "looping", NEW entry \in Entry, EntryInv(Step, entry), Turn(entry),
         totals' \in Totals, TotalsInv(done', totals')
  PROVE  StatusInv'
<1>1. /\ done \in Seq(Entry) /\ Len(done) < StepCount /\ EntriesInv(done)
      /\ \A i \in DOMAIN done \cap Critical : done[i].status = "completed"
      /\ kept = None
  BY DEF StatusInv
<1>2. /\ done' = Append(done, entry) /\ kept' = None
      /\ stage' = IF Step = StepCount \/ (entry.status = "failed" /\ Step \in Critical)
                  THEN "saving" ELSE "looping"
  BY <1>1 DEF Turn
<1>3. Len(done) \in Nat /\ Step = Len(done) + 1
  BY <1>1 DEF Step
<1>4. /\ done' \in Seq(Entry) /\ Len(done') = Len(done) + 1 /\ DOMAIN done' = 1..(Len(done) + 1)
      /\ done'[Len(done) + 1] = entry /\ \A i \in DOMAIN done : done'[i] = done[i]
      /\ DOMAIN done = 1..Len(done)
  BY <1>1, <1>2
<1>5. Len(done') <= StepCount
  BY <1>1, <1>3, <1>4 DEF StepCount
<1>6. EntriesInv(done')
  BY <1>1, <1>2, <1>3, EntriesGrow
<1>7. ASSUME stage' = "looping"
      PROVE  /\ Len(done') < StepCount
             /\ \A i \in DOMAIN done' \cap Critical : done'[i].status = "completed"
  <2>1. Step # StepCount /\ (Step \in Critical => entry.status # "failed")
    BY <1>2, <1>7
  <2>2. Len(done') < StepCount
    BY <1>3, <1>4, <1>5, <2>1 DEF StepCount
  <2>3. ASSUME NEW i \in DOMAIN done' \cap Critical
        PROVE  done'[i].status = "completed"
    <3>1. CASE i = Len(done) + 1
      BY <1>3, <1>4, <2>1, <3>1 DEF EntryInv
    <3>2. CASE i # Len(done) + 1
      <4>1. i \in DOMAIN done
        BY <1>3, <1>4, <3>2
      <4> QED BY <1>1, <1>4, <4>1
    <3> QED BY <3>1, <3>2
  <2> QED BY <2>2, <2>3
<1> QED BY <1>2, <1>4, <1>5, <1>6, <1>7 DEF StatusInv

LEMMA SuccessKeeps ==
  ASSUME StatusInv, StepSucceeds
  PROVE  StatusInv'
<1>1. /\ stage = "looping" /\ done \in Seq(Entry) /\ Len(done) < StepCount
      /\ EntriesInv(done) /\ totals \in Totals /\ TotalsInv(done, totals)
  BY DEF StatusInv, StepSucceeds
<1>2. PICK result \in IF Step \in Synchronisations THEN SyncResults ELSE JournalResults(Step) :
        /\ Accepted(Step, result)
        /\ totals' = RecordSuccess(Step, SafeMetrics(Step, result))
        /\ Turn([status |-> "completed", error |-> NoError,
                 metrics |-> <<SafeMetrics(Step, result)>>])
  BY DEF StepSucceeds
<1> DEFINE m == SafeMetrics(Step, result)
           entry == [status |-> "completed", error |-> NoError, metrics |-> <<m>>]
<1>3. Step \in StepIndex
  BY <1>1 DEF Step, StepIndex, StepCount
<1>4. m \in MetricsOf(Step)
  BY <1>2, <1>3, KeptMetrics
<1> HIDE DEF m
<1>5. entry \in Entry /\ EntryInv(Step, entry)
  <2>1. m \in AllMetrics
    BY <1>3, <1>4 DEF AllMetrics
  <2> QED BY <1>4, <2>1 DEF Entry, EntryInv
<1>6. entry.metrics[1] = m /\ entry.status = "completed" /\ entry.error = NoError
  OBVIOUS
<1>7. done' = Append(done, entry) /\ totals' = RecordSuccess(Step, m) /\ Turn(entry)
  BY <1>2 DEF Turn, m
<1> HIDE DEF entry
<1>8. /\ Cardinality(DOMAIN done' \cap Synchronisations)
           = Cardinality(DOMAIN done \cap Synchronisations)
             + IF Step \in Synchronisations THEN 1 ELSE 0
      /\ \A e : Cardinality(WithError(done', e))
                  = Cardinality(WithError(done, e)) + IF NoError = e THEN 1 ELSE 0
  BY <1>1, <1>5, <1>6, <1>7, CountsGrow DEF Step
<1>9. Plus(Share(done', 1), Share(done', 2))
        = IF Step \in Synchronisations THEN Plus(totals.funnel, m.funnel) ELSE totals.funnel
  <2>1. totals.funnel = Plus(Share(done, 1), Share(done, 2))
    BY <1>1 DEF TotalsInv
  <2> QED BY <1>1, <1>5, <1>6, <1>7, <2>1, FunnelGrows DEF Step
<1>10. \A e : IsFiniteSet(WithError(done, e)) /\ Cardinality(WithError(done, e)) \in Nat
  BY <1>1, Positions, FS_CardinalityType
<1>11. /\ totals.succeeded \in Nat /\ totals.failed \in Nat /\ totals.received \in Nat
       /\ totals.retained \in Nat /\ totals.funnel \in Funnels
       /\ totals.snapshots \in Nat /\ totals.resolutions \in Nat
       /\ totals.providerErrors \in Nat /\ totals.databaseErrors \in Nat
  BY <1>1 DEF Totals
<1>12. totals = [succeeded |-> totals.succeeded, failed |-> totals.failed,
                 received |-> totals.received, retained |-> totals.retained,
                 funnel |-> totals.funnel, snapshots |-> totals.snapshots,
                 resolutions |-> totals.resolutions,
                 providerErrors |-> totals.providerErrors,
                 databaseErrors |-> totals.databaseErrors]
  BY <1>1 DEF Totals
<1>13. "provider_unavailable" # NoError /\ "postgresql_error" # NoError
  BY DEF NoError
<1>14. CASE Step \in Synchronisations
  <2>1. /\ m.funnel \in Funnels /\ m.received \in Nat /\ m.retained \in Nat
        /\ m.funnel.received = m.received /\ m.funnel.retained = m.retained
    BY <1>4, <1>14, MetricsOfSynchronisation
  <2>2. totals' = [totals EXCEPT !.succeeded = @ + 1, !.received = @ + m.received,
                                 !.retained = @ + m.retained,
                                 !.funnel = Plus(@, m.funnel)]
    BY <1>7, <1>14 DEF RecordSuccess
  <2>3. Plus(totals.funnel, m.funnel) \in Funnels
    BY <1>11, <2>1, PlusFacts
  <2>4. totals' = [succeeded |-> totals.succeeded + 1, failed |-> totals.failed,
                   received |-> totals.received + m.received,
                   retained |-> totals.retained + m.retained,
                   funnel |-> Plus(totals.funnel, m.funnel), snapshots |-> totals.snapshots,
                   resolutions |-> totals.resolutions,
                   providerErrors |-> totals.providerErrors,
                   databaseErrors |-> totals.databaseErrors]
    BY <1>12, <2>2
  <2>5. /\ totals.succeeded + 1 \in Nat /\ totals.received + m.received \in Nat
        /\ totals.retained + m.retained \in Nat
    BY <1>11, <2>1
  <2>6. /\ totals' \in Totals
        /\ totals'.succeeded = totals.succeeded + 1 /\ totals'.failed = totals.failed
        /\ totals'.received = totals.received + m.received
        /\ totals'.retained = totals.retained + m.retained
        /\ totals'.funnel = Plus(totals.funnel, m.funnel)
        /\ totals'.providerErrors = totals.providerErrors
        /\ totals'.databaseErrors = totals.databaseErrors
    BY <1>11, <2>3, <2>4, <2>5 DEF Totals
  <2>7. /\ totals'.funnel.received = totals.funnel.received + m.funnel.received
        /\ totals'.funnel.retained = totals.funnel.retained + m.funnel.retained
    BY <2>6 DEF Plus
  <2>8. TotalsInv(done', totals')
    <3>1. totals'.succeeded + totals'.failed = Cardinality(DOMAIN done' \cap Synchronisations)
      BY <1>1, <1>8, <1>11, <1>14, <2>6 DEF TotalsInv
    <3>2. /\ totals'.providerErrors = Cardinality(WithError(done', "provider_unavailable"))
          /\ totals'.databaseErrors = Cardinality(WithError(done', "postgresql_error"))
      BY <1>1, <1>8, <1>10, <1>13, <2>6 DEF TotalsInv
    <3>3. totals'.funnel = Plus(Share(done', 1), Share(done', 2))
      BY <1>9, <1>14, <2>6
    <3>4. totals'.received = totals'.funnel.received /\ totals'.retained = totals'.funnel.retained
      BY <1>1, <2>1, <2>6, <2>7 DEF TotalsInv
    <3> QED BY <3>1, <3>2, <3>3, <3>4 DEF TotalsInv
  <2> QED BY <1>1, <1>5, <1>7, <2>6, <2>8, TurnKeeps
<1>15. CASE Step \notin Synchronisations
  <2>1. /\ totals' \in Totals
        /\ totals'.succeeded = totals.succeeded /\ totals'.failed = totals.failed
        /\ totals'.received = totals.received /\ totals'.retained = totals.retained
        /\ totals'.funnel = totals.funnel
        /\ totals'.providerErrors = totals.providerErrors
        /\ totals'.databaseErrors = totals.databaseErrors
    <3>1. CASE Step = Snapshot
      <4>1. m.created \in Nat
        BY <1>4, <1>15, <3>1 DEF MetricsOf
      <4>2. totals' = [totals EXCEPT !.snapshots = @ + m.created]
        BY <1>7, <1>15, <3>1 DEF RecordSuccess
      <4>3. totals.snapshots + m.created \in Nat
        BY <1>11, <4>1
      <4>4. totals' = [succeeded |-> totals.succeeded, failed |-> totals.failed,
                       received |-> totals.received, retained |-> totals.retained,
                       funnel |-> totals.funnel,
                       snapshots |-> totals.snapshots + m.created,
                       resolutions |-> totals.resolutions,
                       providerErrors |-> totals.providerErrors,
                       databaseErrors |-> totals.databaseErrors]
        BY <1>12, <4>2, Zenon
      <4> QED BY <1>11, <4>3, <4>4 DEF Totals
    <3>2. CASE Step = Resolve
      <4>1. Step # Snapshot
        BY <3>2 DEF Snapshot, Resolve
      <4>2. m.inserted \in Nat
        BY <1>4, <1>15, <3>2, <4>1 DEF MetricsOf
      <4>3. totals' = [totals EXCEPT !.resolutions = @ + m.inserted]
        BY <1>7, <1>15, <3>2, <4>1 DEF RecordSuccess
      <4>4. totals.resolutions + m.inserted \in Nat
        BY <1>11, <4>2
      <4>5. totals' = [succeeded |-> totals.succeeded, failed |-> totals.failed,
                       received |-> totals.received, retained |-> totals.retained,
                       funnel |-> totals.funnel, snapshots |-> totals.snapshots,
                       resolutions |-> totals.resolutions + m.inserted,
                       providerErrors |-> totals.providerErrors,
                       databaseErrors |-> totals.databaseErrors]
        BY <1>12, <4>3, Zenon
      <4> QED BY <1>11, <4>4, <4>5 DEF Totals
    <3>3. CASE Step # Snapshot /\ Step # Resolve
      <4>1. totals' = totals
        BY <1>7, <1>15, <3>3 DEF RecordSuccess
      <4> QED BY <1>1, <4>1
    <3> QED BY <3>1, <3>2, <3>3
  <2>2. TotalsInv(done', totals')
    <3>1. totals'.succeeded + totals'.failed = Cardinality(DOMAIN done' \cap Synchronisations)
      BY <1>1, <1>8, <1>11, <1>15, <2>1 DEF TotalsInv
    <3>2. /\ totals'.providerErrors = Cardinality(WithError(done', "provider_unavailable"))
          /\ totals'.databaseErrors = Cardinality(WithError(done', "postgresql_error"))
      BY <1>1, <1>8, <1>10, <1>13, <2>1 DEF TotalsInv
    <3>3. totals'.funnel = Plus(Share(done', 1), Share(done', 2))
      BY <1>9, <1>15, <2>1
    <3>4. totals'.received = totals'.funnel.received /\ totals'.retained = totals'.funnel.retained
      BY <1>1, <2>1 DEF TotalsInv
    <3> QED BY <3>1, <3>2, <3>3, <3>4 DEF TotalsInv
  <2> QED BY <1>1, <1>5, <1>7, <2>1, <2>2, TurnKeeps
<1> QED BY <1>14, <1>15

LEMMA FailureKeeps ==
  ASSUME StatusInv, StepFails
  PROVE  StatusInv'
<1>1. /\ stage = "looping" /\ done \in Seq(Entry) /\ Len(done) < StepCount
      /\ EntriesInv(done) /\ totals \in Totals /\ TotalsInv(done, totals)
  BY DEF StatusInv, StepFails
<1>2. PICK cause \in Failure :
        /\ totals' = RecordFailure(Step, PublicError(Step, cause))
        /\ Turn([status |-> "failed", error |-> PublicError(Step, cause), metrics |-> None])
  BY DEF StepFails
<1> DEFINE e == PublicError(Step, cause)
           entry == [status |-> "failed", error |-> e, metrics |-> None]
<1>3. e \in Errors
  BY DEF PublicError, Errors
<1> HIDE DEF e
<1>4. entry \in Entry /\ EntryInv(Step, entry)
  BY <1>3 DEF Entry, EntryInv
<1>5. entry.status = "failed" /\ entry.error = e
  OBVIOUS
<1>6. done' = Append(done, entry) /\ totals' = RecordFailure(Step, e) /\ Turn(entry)
  BY <1>2 DEF Turn, e
<1> HIDE DEF entry
<1>7. /\ Cardinality(DOMAIN done' \cap Synchronisations)
           = Cardinality(DOMAIN done \cap Synchronisations)
             + IF Step \in Synchronisations THEN 1 ELSE 0
      /\ \A x : Cardinality(WithError(done', x))
                  = Cardinality(WithError(done, x)) + IF e = x THEN 1 ELSE 0
  BY <1>1, <1>4, <1>5, <1>6, CountsGrow DEF Step
<1>8. Plus(Share(done', 1), Share(done', 2)) = totals.funnel
  <2>1. totals.funnel = Plus(Share(done, 1), Share(done, 2)) /\ entry.status # "completed"
    BY <1>1, <1>5 DEF TotalsInv
  <2> QED BY <1>1, <1>4, <1>6, <2>1, FunnelGrows DEF Step
<1> DEFINE one(given) == IF given THEN 1 ELSE 0
<1>9. /\ totals.succeeded \in Nat /\ totals.failed \in Nat
      /\ totals.providerErrors \in Nat /\ totals.databaseErrors \in Nat
      /\ \A given : one(given) \in Nat
  BY <1>1 DEF Totals
<1>10. totals' = [succeeded |-> totals.succeeded,
                  failed |-> totals.failed + one(Step \in Synchronisations),
                  received |-> totals.received, retained |-> totals.retained,
                  funnel |-> totals.funnel, snapshots |-> totals.snapshots,
                  resolutions |-> totals.resolutions,
                  providerErrors |-> totals.providerErrors + one(e = "provider_unavailable"),
                  databaseErrors |-> totals.databaseErrors + one(e = "postgresql_error")]
  <2>1. totals = [succeeded |-> totals.succeeded, failed |-> totals.failed,
                  received |-> totals.received, retained |-> totals.retained,
                  funnel |-> totals.funnel, snapshots |-> totals.snapshots,
                  resolutions |-> totals.resolutions,
                  providerErrors |-> totals.providerErrors,
                  databaseErrors |-> totals.databaseErrors]
    BY <1>1 DEF Totals
  <2>2. totals' = [totals EXCEPT !.failed = @ + one(Step \in Synchronisations),
                                 !.providerErrors = @ + one(e = "provider_unavailable"),
                                 !.databaseErrors = @ + one(e = "postgresql_error")]
    BY <1>6 DEF RecordFailure
  <2> HIDE DEF one
  <2> QED BY <2>1, <2>2, Zenon
<1>11. totals' \in Totals
  <2>1. /\ totals.received \in Nat /\ totals.retained \in Nat /\ totals.funnel \in Funnels
        /\ totals.snapshots \in Nat /\ totals.resolutions \in Nat
    BY <1>1 DEF Totals
  <2>2. /\ totals.failed + one(Step \in Synchronisations) \in Nat
        /\ totals.providerErrors + one(e = "provider_unavailable") \in Nat
        /\ totals.databaseErrors + one(e = "postgresql_error") \in Nat
    BY <1>9
  <2> HIDE DEF one
  <2> QED BY <1>9, <1>10, <2>1, <2>2 DEF Totals
<1>12. TotalsInv(done', totals')
  <2>1. /\ totals'.succeeded = totals.succeeded
        /\ totals'.failed = totals.failed + one(Step \in Synchronisations)
        /\ totals'.received = totals.received /\ totals'.retained = totals.retained
        /\ totals'.funnel = totals.funnel
        /\ totals'.providerErrors = totals.providerErrors + one(e = "provider_unavailable")
        /\ totals'.databaseErrors = totals.databaseErrors + one(e = "postgresql_error")
    BY <1>10
  <2>2. totals'.succeeded + totals'.failed = Cardinality(DOMAIN done' \cap Synchronisations)
    BY <1>1, <1>7, <1>9, <2>1 DEF TotalsInv
  <2>3. /\ totals'.providerErrors = Cardinality(WithError(done', "provider_unavailable"))
        /\ totals'.databaseErrors = Cardinality(WithError(done', "postgresql_error"))
    BY <1>1, <1>7, <1>9, <2>1 DEF TotalsInv
  <2> QED BY <1>1, <1>8, <2>1, <2>2, <2>3 DEF TotalsInv
<1> QED BY <1>1, <1>4, <1>6, <1>11, <1>12, TurnKeeps

LEMMA StoreKeeps ==
  ASSUME StatusInv, Store
  PROVE  StatusInv'
<1>1. /\ stage' = "over" /\ done' = done /\ totals' = totals
      /\ kept' = None \/ kept' = <<Saved>>
  BY DEF StatusInv, Store, Saved
<1>2. Saved' = Saved
  BY <1>1 DEF Saved, FinalError
<1> QED BY <1>1, <1>2 DEF StatusInv

LEMMA StatusStepKeeps ==
  ASSUME StatusInv, StatusStep \/ UNCHANGED statusVars
  PROVE  StatusInv'
<1>1. CASE Begin
  <2>1. stage' = "looping" /\ UNCHANGED <<done, totals, kept>> /\ kept = None /\ done = <<>>
    BY <1>1 DEF Begin, StatusInv
  <2>2. Len(done) < StepCount /\ DOMAIN done = {}
    BY <2>1 DEF StepCount
  <2> QED BY <2>1, <2>2 DEF StatusInv
<1>2. CASE StepSucceeds
  BY <1>2, SuccessKeeps
<1>3. CASE StepFails
  BY <1>3, FailureKeeps
<1>4. CASE Store
  BY <1>4, StoreKeeps
<1>5. CASE Forget
  BY <1>5 DEF StatusInv, Forget
<1>6. ASSUME UNCHANGED <<stage, done, totals, kept>>
      PROVE  StatusInv'
  <2>1. Saved' = Saved
    BY <1>6 DEF Saved, FinalError
  <2> QED BY <1>6, <2>1 DEF StatusInv
<1>7. CASE ShowStatus \/ StatusUnavailable \/ UNCHANGED statusVars
  <2>1. UNCHANGED <<stage, done, totals, kept>>
    BY <1>7 DEF ShowStatus, StatusUnavailable, statusVars
  <2> QED BY <1>6, <2>1
<1> QED BY <1>1, <1>2, <1>3, <1>4, <1>5, <1>7 DEF StatusStep

-----------------------------------------------------------------------------
(* What is stored can be read.                                               *)

LEMMA ReadsBack ==
  ASSUME StatusInv, NEW i \in DOMAIN done
  PROVE  /\ \A metrics \in Range(done[i].metrics) : Accepted(i, metrics)
         /\ done[i].status = "completed" => done[i].metrics # None
         /\ i # StepCount => ReadBack(Saved).steps[i] = done[i]
<1>1. done \in Seq(Entry) /\ Len(done) <= StepCount /\ EntryInv(i, done[i])
  BY DEF StatusInv, EntriesInv
<1>2. i \in StepIndex /\ done[i] \in Entry
  BY <1>1 DEF StepIndex, StepCount
<1> DEFINE again == [one \in DOMAIN done[i].metrics |-> SafeMetrics(i, done[i].metrics[one])]
<1>3. ReadBack(Saved).steps[i] = [done[i] EXCEPT !.metrics = again]
  BY DEF ReadBack, Saved
<1>4. done[i] = [status |-> done[i].status, error |-> done[i].error, metrics |-> done[i].metrics]
  BY <1>2 DEF Entry
<1>5. CASE done[i].status = "completed"
  <2>1. PICK m \in MetricsOf(i) : done[i].metrics = <<m>>
    BY <1>1, <1>5 DEF EntryInv
  <2>2. Accepted(i, m) /\ (i # StepCount => SafeMetrics(i, m) = m)
    BY <1>2, MetricsReadBack
  <2>3. DOMAIN done[i].metrics = {1} /\ done[i].metrics[1] = m
    BY <2>1
  <2>4. \A metrics \in Range(done[i].metrics) : Accepted(i, metrics)
    BY <2>2, <2>3 DEF Range
  <2>5. done[i].metrics # None
    BY <2>3 DEF None
  <2>6. i # StepCount => again = <<m>>
    BY <2>2, <2>3
  <2> HIDE DEF again
  <2> QED BY <1>3, <1>4, <2>1, <2>4, <2>5, <2>6
<1>6. CASE done[i].status = "failed"
  <2>1. done[i].metrics = <<>>
    BY <1>1, <1>6 DEF EntryInv, None
  <2>2. Range(done[i].metrics) = {} /\ again = <<>>
    BY <2>1 DEF Range
  <2> HIDE DEF again
  <2> QED BY <1>3, <1>4, <1>6, <2>1, <2>2
<1> QED BY <1>1, <1>5, <1>6 DEF EntryInv

LEMMA SavedIsReadable ==
  ASSUME StatusInv
  PROVE  Readable(Saved)
<1>1. Saved.steps = done /\ Saved.totals = totals
  BY DEF Saved
<1>2. Len(done) <= StepCount /\ EntriesInv(done) /\ TotalsInv(done, totals) /\ totals \in Totals
  BY DEF StatusInv
<1>3. FunnelOfSteps(Saved) = totals.funnel
  BY <1>1, <1>2, FunnelCountedAgain DEF TotalsInv
<1>4. Balanced(totals.funnel)
  <2>1. \A i \in Synchronisations : Share(done, i) \in Funnels /\ Balanced(Share(done, i))
    BY <1>2, Shares
  <2>2. Balanced(Plus(Share(done, 1), Share(done, 2)))
    BY <2>1, PlusIsBalanced DEF Synchronisations
  <2> QED BY <1>2, <2>2 DEF TotalsInv
<1>5. \A i \in Completed(Saved) :
        /\ i \in Synchronisations => done[i].metrics # None
        /\ \A metrics \in Range(done[i].metrics) : Accepted(i, metrics)
  BY <1>1, ReadsBack DEF Completed
<1> HIDE DEF Saved
<1> QED BY <1>1, <1>2, <1>3, <1>4, <1>5 DEF Readable, TotalsInv

LEMMA FinalErrorTells ==
  ASSUME StatusInv
  PROVE  /\ FinalStatus(done) = "failed" <=> FinalError # NoError
         /\ FinalError # NoError => done[Len(done)].error = FinalError
<1>1. CASE FinalStatus(done) = "failed"
  <2>1. PICK i \in DOMAIN done : done[i].status = "failed" /\ i \in Critical
    BY <1>1 DEF FinalStatus, FailedSteps
  <2>2. i = Len(done) /\ done[i].error \in Errors
    BY <2>1 DEF StatusInv, EntriesInv, EntryInv
  <2>3. FinalError = done[Len(done)].error
    BY <1>1 DEF FinalError
  <2> QED BY <1>1, <2>2, <2>3 DEF Errors, NoError
<1>2. CASE FinalStatus(done) # "failed"
  BY <1>2 DEF FinalError
<1> QED BY <1>1, <1>2

LEMMA StatusInvReads ==
  ASSUME StatusInv
  PROVE  StoredIsReadBack
<1>1. kept = None \/ kept = <<Saved>>
  BY DEF StatusInv
<1>2. Range(kept) \subseteq {Saved}
  <2>1. CASE kept = None
    BY <2>1 DEF None, Range
  <2>2. CASE kept = <<Saved>>
    <3>1. DOMAIN kept = {1} /\ kept[1] = Saved
      BY <2>2
    <3> QED BY <3>1 DEF Range
  <2> QED BY <1>1, <2>1, <2>2
<1>3. /\ Saved.steps = done /\ Saved.totals = totals
      /\ Saved.status = FinalStatus(done) /\ Saved.error = FinalError
  BY DEF Saved
<1>4. TotalsInv(done, totals)
  BY DEF StatusInv
<1>5. \A i \in DOMAIN done \ {StepCount} : ReadBack(Saved).steps[i] = done[i]
  BY ReadsBack
<1>6. Readable(Saved)
  BY SavedIsReadable
<1>7. /\ FinalStatus(done) = "failed" <=> FinalError # NoError
      /\ FinalError # NoError => done[Len(done)].error = FinalError
  BY FinalErrorTells
<1> HIDE DEF Saved
<1>8. ASSUME NEW summary \in Range(kept)
      PROVE  LET steps  == summary.steps
                 with(e) == Cardinality({i \in DOMAIN steps : steps[i].error = e})
             IN  /\ Readable(summary)
                 /\ \A i \in DOMAIN steps \ {StepCount} : ReadBack(summary).steps[i] = steps[i]
                 /\ summary.totals.succeeded + summary.totals.failed
                      = Cardinality(DOMAIN steps \cap Synchronisations)
                 /\ summary.totals.providerErrors = with("provider_unavailable")
                 /\ summary.totals.databaseErrors = with("postgresql_error")
                 /\ summary.status = "failed" <=> summary.error # NoError
                 /\ summary.error # NoError => steps[Len(steps)].error = summary.error
  <2>1. summary = Saved
    BY <1>2
  <2>2. /\ totals.succeeded + totals.failed = Cardinality(DOMAIN done \cap Synchronisations)
        /\ totals.providerErrors
             = Cardinality({i \in DOMAIN done : done[i].error = "provider_unavailable"})
        /\ totals.databaseErrors
             = Cardinality({i \in DOMAIN done : done[i].error = "postgresql_error"})
    BY <1>4 DEF TotalsInv, WithError
  <2> QED BY <1>3, <1>5, <1>6, <1>7, <2>1, <2>2
<1> QED BY <1>8 DEF StoredIsReadBack

-----------------------------------------------------------------------------
(* Theorems about both views of the routine.                                 *)

\* Every run whose steps are looked into leaves behind a summary that the command status
\* reads back, whatever failed: its funnel reconciles, its counters and its error code are
\* what its steps say (_sanitize_saved_status).  For every number of funnel reasons and of
\* fixtures.
THEOREM StoredStatusIsReadBack == RoutineSpec => []StoredIsReadBack
<1>1. RoutineInit => StatusInv
  BY StartsOut DEF RoutineInit, StatusInit, StatusIdle
<1>2. StatusInv /\ [RoutineNext]_<<vars, statusVars>> => StatusInv'
  BY StatusStepKeeps DEF RoutineNext
<1>3. StatusInv => StoredIsReadBack
  BY StatusInvReads
<1> QED BY <1>1, <1>2, <1>3, PTL DEF RoutineSpec

\* Looking into a run takes nothing from what is shown of the runs that share the lock:
\* the routine with its status implements the routine.
THEOREM StatusImplementsTheRoutine == RoutineSpec => FairSpec
<1>1. RoutineInit => Init
  BY DEF RoutineInit
<1>2. [RoutineNext]_<<vars, statusVars>> => [Next]_vars
  BY DEF RoutineNext
<1> QED BY <1>1, <1>2, PTL DEF RoutineSpec, FairSpec, Spec
=============================================================================
