--------------------------- MODULE KairosRoutesProofs ---------------------------
(***************************************************************************)
(* Proofs about KairosRoutes: the requests, the pools and the windows, and *)
(* what the routes read beside the writer.                                 *)
(***************************************************************************)
EXTENDS KairosRoutes, FiniteSetTheorems, WellFoundedInduction, TLAPS

-----------------------------------------------------------------------------
(* Numbers.                                                                  *)

\* A set of natural numbers has a smallest one.
LEMMA Smallest ==
  ASSUME NEW S, S \subseteq Nat, S # {}
  PROVE  Min(S) \in S /\ \A y \in S : Min(S) <= y
<1> DEFINE less == OpToRel(<, Nat)
<1>1. \E x \in S : \A y \in S : <<y, x>> \notin less
  <2>1. IsWellFoundedOn(less, Nat)
    BY NatLessThanWellFounded
  <2> HIDE DEF less
  <2> QED BY <2>1, WFMin
<1>2. less = {p \in Nat \X Nat : p[1] < p[2]}
  BY DEF OpToRel
<1> HIDE DEF less
<1>3. \E x \in S : \A y \in S : x <= y
  <2>1. PICK x \in S : \A y \in S : <<y, x>> \notin less
    BY <1>1
  <2>2. \A y \in S : ~(y < x)
    BY <2>1, <1>2
  <2> QED BY <2>2
<1> QED BY <1>3 DEF Min

\* The clock of the last row of a table is an instant, and none is later.
LEMMA Greatest ==
  ASSUME NEW S, S \subseteq Time, S # {}
  PROVE  Max(S) \in S /\ \A y \in S : y <= Max(S)
<1> DEFINE R == {MaxTime - x : x \in S}
<1>1. R \subseteq Nat /\ R # {}
  <2>1. \A x \in S : MaxTime - x \in Nat
    BY StoreAssumption DEF Time
  <2>2. PICK x \in S : TRUE
    OBVIOUS
  <2>3. MaxTime - x \in R
    OBVIOUS
  <2> QED BY <2>1, <2>3
<1>2. Min(R) \in R /\ \A y \in R : Min(R) <= y
  <2> HIDE DEF R
  <2> QED BY <1>1, Smallest
<1>3. PICK x \in S : Min(R) = MaxTime - x
  BY <1>2
<1>4. \A y \in S : y <= x
  <2> SUFFICES ASSUME NEW y \in S PROVE y <= x
    OBVIOUS
  <2>1. MaxTime - y \in R
    OBVIOUS
  <2>2. MaxTime - x <= MaxTime - y
    BY <1>2, <1>3, <2>1
  <2>3. x \in Int /\ y \in Int /\ MaxTime \in Int
    BY StoreAssumption DEF Time
  <2> QED BY <2>2, <2>3
<1>5. \A y \in S : x >= y
  BY <1>4, StoreAssumption DEF Time
<1> QED BY <1>4, <1>5, StoreAssumption DEF Max, Time

LEMMA Cancel ==
  ASSUME NEW a \in Int, NEW b \in Int, NEW c \in Nat, a * c < b * c
  PROVE  a < b
BY SMTT(20)

\* The seconds announced are the least that cover the ticks to wait.
LEMMA SecondsCover ==
  ASSUME NEW n \in Nat, n >= 1, n <= Window
  PROVE  /\ RetrySeconds(n) \in Nat
         /\ RetrySeconds(n) * TicksPerSecond >= n
         /\ (RetrySeconds(n) - 1) * TicksPerSecond < n
<1> DEFINE d == (n + TicksPerSecond - 1) \div TicksPerSecond
<1>1. TicksPerSecond \in Nat /\ TicksPerSecond >= 1 /\ WindowSeconds \in Nat /\ WindowSeconds >= 1
  BY RoutesAssumption
<1>2. /\ d \in Int
      /\ d * TicksPerSecond <= n + TicksPerSecond - 1
      /\ n + TicksPerSecond - 1 < d * TicksPerSecond + TicksPerSecond
  BY <1>1, SMTT(20)
<1> HIDE DEF d
<1>3. d >= 1
  <2>1. 0 * TicksPerSecond < d * TicksPerSecond
    BY <1>1, <1>2
  <2> QED BY <2>1, <1>1, <1>2, Cancel
<1>4. d <= WindowSeconds
  <2>1. d * TicksPerSecond < (WindowSeconds + 1) * TicksPerSecond
    BY <1>1, <1>2 DEF Window
  <2>2. d < WindowSeconds + 1
    BY <2>1, <1>1, <1>2, Cancel
  <2> QED BY <2>2, <1>1, <1>2
<1>5. Min({WindowSeconds, d}) = d
  BY <1>1, <1>2, <1>4 DEF Min
<1>6. Max({1, d}) = d
  BY <1>1, <1>2, <1>3 DEF Max
<1>7. RetrySeconds(n) = d
  BY <1>5, <1>6 DEF RetrySeconds, d
<1> QED BY <1>1, <1>2, <1>3, <1>7

-----------------------------------------------------------------------------
(* Types.                                                                    *)

\* What a thread may be at.
TypedRequest(q) ==
  \/ q = Idle
  \/ /\ q.phase \in {"arrived", "admitted", "reading", "answered"}
     /\ q.route \in Routes
     /\ q.phase \in {"admitted", "reading"} => q.asOf \in Time
     /\ q.phase = "reading" =>
          DOMAIN q = {"phase", "route", "asOf", "settled", "targets", "parts", "datasets"}
     /\ q.phase = "answered" => q.holds \in BOOLEAN /\ q.status \in Statuses

LEMMA TypesByPart ==
  TypeOK <=> /\ StoreTypeOK
             /\ calls \in 0..MaxCalls
             /\ entries \in [Routes -> Seq(Time)]
             /\ free \in [Pools -> Nat]
             /\ DOMAIN requests = Requests
             /\ \A r \in Requests : TypedRequest(requests[r])
BY DEF TypeOK, TypedRequest

LEMMA WriterKeepsTypes ==
  ASSUME StoreTypeOK, StoreNext  PROVE StoreTypeOK'
<1>0. Began \in Time
  BY DEF StoreTypeOK, Began
<1>1. CASE Receive
  <2>1. PICK match \in Matches, report \in Reports :
          answers' = answers \cup {[match |-> match, report |-> report, fetched |-> clock]}
    BY <1>1 DEF Receive
  <2>2. [match |-> match, report |-> report, fetched |-> clock] \in Answer
    BY StoreAssumption DEF Answer, StoreTypeOK
  <2> QED BY <1>1, <2>1, <2>2 DEF Receive, StoreTypeOK
<1>2. CASE NoteRejected
  BY <1>0, <1>2 DEF NoteRejected, StoreTypeOK
<1>3. CASE Insert
  <2>1. PICK batch, duplicate :
          /\ batch \subseteq answers
          /\ written' = written \cup {Stamped(a) : a \in batch \ duplicate}
          /\ answers' = answers \ batch
          /\ opened' = Began
          /\ UNCHANGED <<clock, observations>>
    BY <1>3 DEF Insert
  <2>2. \A a \in batch : Stamped(a) \in Observation
    BY <1>0, <2>1 DEF Stamped, Answer, Observation, StoreTypeOK
  <2> QED BY <1>0, <2>1, <2>2 DEF StoreTypeOK
<1>4. CASE CommitRows
  BY <1>4 DEF CommitRows, StoreTypeOK
<1>5. CASE Rollback
  BY <1>5 DEF Rollback, StoreTypeOK
<1>6. CASE Tick
  BY <1>6, StoreAssumption DEF Tick, writer, StoreTypeOK, Time
<1> QED BY <1>1, <1>2, <1>3, <1>4, <1>5, <1>6 DEF StoreNext

\* A thread that becomes something else, and the others.
LEMMA Becoming ==
  ASSUME DOMAIN requests = Requests, NEW r \in Requests, NEW state, Becomes(r, state)
  PROVE  /\ DOMAIN requests' = Requests
         /\ requests'[r] = state
         /\ \A s \in Requests : s # r => requests'[s] = requests[s]
BY DEF Becomes

\* An answer has a type, if the thread had one and the status is one of the routes.
LEMMA AnswerTyped ==
  ASSUME NEW route \in Routes, NEW holds \in BOOLEAN, NEW status \in Statuses, NEW body
  PROVE  TypedRequest(Answered(route, holds, status, body))
BY DEF TypedRequest, Answered

LEMMA EndTyped ==
  ASSUME NEW r \in Requests, requests[r].route \in Routes, NEW status \in Statuses, NEW body
  PROVE  TypedRequest(Answered(requests[r].route, Pooled(requests[r].route), status, body))
BY AnswerTyped DEF Pooled

\* Every verdict is a status.
LEMMA VerdictTyped ==
  ASSUME NEW dataset, NEW asOf  PROVE Verdict(dataset, asOf) \in Statuses
BY DEF Verdict, Statuses

\* A thread past its arrival has a route.
LEMMA RouteOf ==
  ASSUME NEW q, TypedRequest(q), q.phase # "idle"
  PROVE  q.route \in Routes /\ q.phase \in {"arrived", "admitted", "reading", "answered"}
BY DEF TypedRequest, Idle

\* The fields of a thread that reads, which its statements change one by one.
LEMMA ReadingFields ==
  ASSUME TypeOK, NEW r \in Requests, requests[r].phase = "reading"
  PROVE  DOMAIN requests[r] =
           {"phase", "route", "asOf", "settled", "targets", "parts", "datasets"}
BY TypesByPart DEF TypedRequest, Idle

\* What a step of a thread does to it, and to the rest.
LEMMA StepTyped ==
  ASSUME TypeOK, NEW r \in Requests, Step(r)
  PROVE  /\ \E state : Becomes(r, state) /\ TypedRequest(state)
         /\ \/ UNCHANGED entries
            \/ \E route \in Routes : Counted(route)
         /\ free' \in [Pools -> Nat]
         /\ UNCHANGED <<store, calls>>
<1> DEFINE q == requests[r]
<1>0. /\ TypedRequest(q)
      /\ free \in [Pools -> Nat]
      /\ clock \in Time
  BY TypesByPart DEF StoreTypeOK
<1>00. q.phase # "idle" => q.route \in Routes
  BY <1>0, RouteOf
<1>1. ASSUME NEW status \in Statuses, NEW body, q.phase # "idle", End(r, status, body)
      PROVE  \E state : Becomes(r, state) /\ TypedRequest(state)
  BY <1>1, <1>00, EndTyped DEF End
<1> HIDE DEF q
<1>2. CASE RejectQuery(r)
  BY <1>2, <1>0, <1>1 DEF RejectQuery, Statuses, q
<1>3. CASE Admit(r)
  <2>1. q.phase # "idle" /\ q.route \in Routes
    BY <1>3, <1>00 DEF Admit, q
  <2>2. PICK asOf \in Instants(q.route) : Becomes(r, Admitted(q.route, asOf))
    BY <1>3 DEF Admit, q
  <2>3. asOf \in Time
    BY <1>0, <2>2, StoreAssumption DEF Instants, Time
  <2>4. TypedRequest(Admitted(q.route, asOf))
    BY <2>1, <2>3 DEF TypedRequest, Admitted
  <2> QED BY <1>3, <1>0, <2>1, <2>2, <2>4 DEF Admit, q
<1>4. CASE Refuse(r)
  BY <1>4, <1>0, <1>1 DEF Refuse, Statuses, q
<1>5. CASE LimiterFails(r)
  <2>1. q.phase # "idle" /\ q.route \in Routes
    BY <1>5, <1>00 DEF LimiterFails, q
  <2> QED BY <1>5, <1>0, <1>1, <2>1 DEF LimiterFails, Statuses, q
<1>6. CASE RejectInstant(r)
  BY <1>6, <1>0, <1>1 DEF RejectInstant, Statuses, q
<1>7. CASE Describe(r)
  BY <1>7, <1>0, <1>1 DEF Describe, Statuses, q
<1>8. CASE SessionFails(r)
  BY <1>8, <1>0, <1>1 DEF SessionFails, Statuses, q
<1>9. CASE ReadTargets(r)
  <2>1. q.phase = "admitted" /\ q.route \in Routes /\ q.asOf \in Time
    BY <1>9, <1>0, <1>00 DEF ReadTargets, TypedRequest, Idle, q
  <2>2. PICK targets :
          IF q.route = "analysis" /\ targets = {} THEN End(r, "not_found", NoBody)
          ELSE Becomes(r, Reading(q.route, q.asOf, Settled(q.asOf), targets))
    BY <1>9 DEF ReadTargets, q
  <2>3. TypedRequest(Reading(q.route, q.asOf, Settled(q.asOf), targets))
    BY <2>1 DEF TypedRequest, Reading
  <2>4. \E state : Becomes(r, state) /\ TypedRequest(state)
    BY <1>1, <2>1, <2>2, <2>3 DEF Statuses
  <2> QED BY <1>9, <1>0, <2>4 DEF ReadTargets
<1>10. CASE ReadHistory(r)
  <2>1. q.phase = "reading" /\ q.route \in Routes /\ q.asOf \in Time
    BY <1>10, <1>0, <1>00 DEF ReadHistory, TypedRequest, Idle, q
  <2>2. PICK target, parts, dataset :
          Becomes(r, IF Len(parts) = Len(Histories(target))
                     THEN [q EXCEPT !.targets = @ \ {target}, !.parts = <<>>,
                                    !.datasets = @ \cup {dataset}]
                     ELSE [q EXCEPT !.parts = parts])
    BY <1>10 DEF ReadHistory, q
  <2>3. /\ TypedRequest([q EXCEPT !.targets = @ \ {target}, !.parts = <<>>,
                                  !.datasets = @ \cup {dataset}])
        /\ TypedRequest([q EXCEPT !.parts = parts])
    <3>1. DOMAIN q = {"phase", "route", "asOf", "settled", "targets", "parts", "datasets"}
      BY <2>1, ReadingFields DEF q
    <3>2. DOMAIN [q EXCEPT !.targets = @ \ {target}, !.parts = <<>>,
                           !.datasets = @ \cup {dataset}] = DOMAIN q
      OBVIOUS
    <3>3. DOMAIN [q EXCEPT !.parts = parts] = DOMAIN q
      OBVIOUS
    <3> QED BY <2>1, <3>1, <3>2, <3>3 DEF TypedRequest
  <2>4. \E state : Becomes(r, state) /\ TypedRequest(state)
    BY <2>2, <2>3
  <2> QED BY <1>10, <1>0, <2>4 DEF ReadHistory
<1>11. CASE Conclude(r)
  <2>1. \E state : Becomes(r, state) /\ TypedRequest(state)
    <3> DEFINE body == [kind |-> "read", asOf |-> q.asOf, settled |-> q.settled,
                        datasets |-> q.datasets]
    <3>1. \/ \E dataset \in q.datasets : End(r, Verdict(dataset, q.asOf), body)
          \/ End(r, "ok", body)
      BY <1>11 DEF Conclude, q
    <3>2. q.phase # "idle"
      BY <1>11 DEF Conclude, q
    <3> HIDE DEF body
    <3> QED BY <1>1, <3>1, <3>2, VerdictTyped DEF Statuses
  <2> QED BY <1>11, <1>0, <2>1 DEF Conclude
<1>12. CASE Release(r)
  <2>1. q.phase = "answered" /\ q.route \in Routes /\ q.holds \in BOOLEAN
    BY <1>12, <1>0, <1>00 DEF Release, TypedRequest, Idle, q
  <2>2. Pool[q.route] \in Pools
    BY <2>1 DEF Pools
  <2>3. free' \in [Pools -> Nat]
    BY <1>0, <1>12, <2>1, <2>2 DEF Release, q
  <2>4. Becomes(r, Idle) /\ TypedRequest(Idle)
    BY <1>12 DEF Release, TypedRequest
  <2> QED BY <1>12, <2>3, <2>4 DEF Release
<1> QED BY <1>2, <1>3, <1>4, <1>5, <1>6, <1>7, <1>8, <1>9, <1>10, <1>11, <1>12 DEF Step

LEMMA InitTyped == Init => TypeOK
<1> SUFFICES ASSUME Init PROVE TypeOK
  OBVIOUS
<1>1. observations \subseteq Observation
  BY RoutesAssumption DEF Init
<1>2. clock \in Time
  <2> DEFINE instants == {0} \cup {o.created : o \in observations}
  <2>1. instants \subseteq Time /\ instants # {}
    BY <1>1, StoreAssumption DEF Observation, Time
  <2>2. clock = Max(instants)
    BY DEF Init
  <2> HIDE DEF instants
  <2> QED BY <2>1, <2>2, Greatest
<1>3. StoreTypeOK
  BY <1>1, <1>2 DEF Init, StoreTypeOK
<1>4. entries \in [Routes -> Seq(Time)] /\ free \in [Pools -> Nat] /\ calls \in 0..MaxCalls
  BY RoutesAssumption DEF Init
<1>5. DOMAIN requests = Requests /\ \A r \in Requests : TypedRequest(requests[r])
  BY DEF Init, TypedRequest
<1> QED BY <1>3, <1>4, <1>5, TypesByPart

\* What the arrival of a request does.
LEMMA ArrivalTyped ==
  ASSUME TypeOK, NEW r \in Requests, NEW route \in Routes, Arrive(r, route)
  PROVE  TypeOK'
<1>1. calls' \in 0..MaxCalls
  BY TypesByPart, RoutesAssumption DEF Arrive
<1>2. /\ \E state : Becomes(r, state) /\ TypedRequest(state)
      /\ free' \in [Pools -> Nat]
  <2>1. TypedRequest(Arrived(route))
    BY DEF TypedRequest, Arrived
  <2>2. TypedRequest(Answered(route, FALSE, "over_capacity", NoBody))
    BY AnswerTyped DEF Statuses
  <2>3. Pool[route] \in Pools /\ free \in [Pools -> Nat]
    BY TypesByPart DEF Pools
  <2>4. HasPlace(Pool[route]) => free[Pool[route]] - 1 \in Nat
    BY <2>3 DEF HasPlace
  <2> QED BY <2>1, <2>2, <2>3, <2>4 DEF Arrive
<1>3. UNCHANGED <<store, entries>>
  BY DEF Arrive
<1>4. StoreTypeOK' /\ entries' \in [Routes -> Seq(Time)]
  BY <1>3, TypesByPart DEF store, StoreTypeOK
<1>5. DOMAIN requests' = Requests /\ \A s \in Requests : TypedRequest(requests'[s])
  BY <1>2, TypesByPart, Becoming
<1> QED BY <1>1, <1>2, <1>4, <1>5 DEF TypeOK, TypedRequest

LEMMA NextTyped == TypeOK /\ [Next]_vars => TypeOK'
<1> SUFFICES ASSUME TypeOK, [Next]_vars PROVE TypeOK'
  OBVIOUS
<1>1. ASSUME NEW r \in Requests, Step(r) PROVE TypeOK'
  <2>1. /\ \E state : Becomes(r, state) /\ TypedRequest(state)
        /\ UNCHANGED entries \/ \E route \in Routes : Counted(route)
        /\ free' \in [Pools -> Nat]
        /\ UNCHANGED <<store, calls>>
    BY <1>1, StepTyped
  <2>2. entries' \in [Routes -> Seq(Time)]
    <3>1. entries \in [Routes -> Seq(Time)] /\ clock \in Time
      BY TypesByPart DEF StoreTypeOK
    <3>2. CASE UNCHANGED entries
      BY <3>1, <3>2
    <3>3. CASE \E route \in Routes : Counted(route)
      <4>1. PICK route \in Routes : entries' = [entries EXCEPT ![route] = Append(@, clock)]
        BY <3>3 DEF Counted
      <4>2. Append(entries[route], clock) \in Seq(Time)
        BY <3>1
      <4> QED BY <3>1, <4>1, <4>2
    <3> QED BY <2>1, <3>2, <3>3
  <2>3. StoreTypeOK' /\ calls' \in 0..MaxCalls
    BY <2>1, TypesByPart DEF store, StoreTypeOK
  <2>4. DOMAIN requests' = Requests /\ \A s \in Requests : TypedRequest(requests'[s])
    BY <2>1, TypesByPart, Becoming
  <2> QED BY <2>1, <2>2, <2>3, <2>4 DEF TypeOK, TypedRequest
<1>2. ASSUME NEW r \in Requests, NEW route \in Routes, Arrive(r, route) PROVE TypeOK'
  BY <1>2, ArrivalTyped
<1>3. CASE (StoreNext \/ Tick) /\ UNCHANGED api
  <2>1. StoreTypeOK'
    BY <1>3, TypesByPart, WriterKeepsTypes DEF StoreNext
  <2> QED BY <1>3, <2>1 DEF api, TypeOK
<1>4. CASE UNCHANGED vars
  BY <1>4 DEF vars, api, store, TypeOK, StoreTypeOK
<1> QED BY <1>1, <1>2, <1>3, <1>4 DEF Next

\* The state of the routes has the types of the code, whatever the constants.
THEOREM RoutesTypes == Spec => []TypeOK
<1>1. Init => TypeOK
  BY InitTyped
<1>2. TypeOK /\ [Next]_vars => TypeOK'
  BY NextTyped
<1> QED BY <1>1, <1>2, PTL DEF Spec

-----------------------------------------------------------------------------
(* Places.                                                                   *)

\* Only an answer for which a place was taken gives one back.
HoldersTookOne ==
  \A r \in Requests :
    requests[r].phase = "answered" /\ requests[r].holds => Pooled(requests[r].route)

PlacesInv == TypeOK /\ HoldersTookOne /\ PlacesAreConserved

\* The requests that hold a place are some of the threads.
LEMMA HoldersAreFinite ==
  ASSUME NEW pool
  PROVE  IsFiniteSet(Holding(pool)) /\ Holding(pool) \subseteq Requests
BY RoutesAssumption, FS_Subset DEF Holding

\* A thread that has arrived and goes on keeps its place.
LEMMA PlaceIsKept ==
  ASSUME PlacesInv, NEW r \in Requests, NEW state, Becomes(r, state), UNCHANGED free,
         requests[r].phase \in {"arrived", "admitted", "reading"},
         state.phase \in {"arrived", "admitted", "reading", "answered"},
         state.route = requests[r].route,
         state.phase = "answered" => state.holds = Pooled(state.route)
  PROVE  HoldersTookOne' /\ PlacesAreConserved'
<1>1. /\ DOMAIN requests' = Requests
      /\ requests'[r] = state
      /\ \A s \in Requests : s # r => requests'[s] = requests[s]
  BY Becoming, TypesByPart DEF PlacesInv
<1>2. HoldersTookOne'
  BY <1>1 DEF PlacesInv, HoldersTookOne
<1>3. ASSUME NEW pool PROVE Holding(pool)' = Holding(pool)
  BY <1>1 DEF Holding
<1> QED BY <1>2, <1>3 DEF PlacesInv, PlacesAreConserved

\* The steps of a thread that keep its place.
LEMMA StepKeepsPlace ==
  ASSUME PlacesInv, NEW r \in Requests, Step(r), ~Release(r)
  PROVE  HoldersTookOne' /\ PlacesAreConserved'
<1> DEFINE q == requests[r]
<1>0. TypeOK
  BY DEF PlacesInv
<1>1. ASSUME NEW status, NEW body, q.phase \in {"arrived", "admitted", "reading"},
             UNCHANGED free, End(r, status, body)
      PROVE  HoldersTookOne' /\ PlacesAreConserved'
  <2> DEFINE state == Answered(q.route, Pooled(q.route), status, body)
  <2>1. /\ Becomes(r, state)
        /\ state.phase = "answered" /\ state.route = q.route
        /\ state.holds = Pooled(state.route)
    BY <1>1 DEF End, Answered
  <2> HIDE DEF state
  <2> QED BY <1>1, <2>1, PlaceIsKept
<1>2. CASE RejectQuery(r) \/ RejectInstant(r) \/ Describe(r) \/ SessionFails(r)
  BY <1>1, <1>2 DEF RejectQuery, RejectInstant, Describe, SessionFails
<1>3. CASE Refuse(r) \/ LimiterFails(r)
  BY <1>1, <1>3 DEF Refuse, LimiterFails
<1>4. CASE Admit(r)
  <2>1. PICK asOf : Becomes(r, Admitted(q.route, asOf))
    BY <1>4 DEF Admit
  <2>2. /\ q.phase = "arrived" /\ UNCHANGED free
        /\ Admitted(q.route, asOf).phase = "admitted"
        /\ Admitted(q.route, asOf).route = q.route
    BY <1>4 DEF Admit, Admitted
  <2> QED BY <2>1, <2>2, PlaceIsKept
<1>5. CASE ReadTargets(r)
  <2>1. PICK targets :
          IF q.route = "analysis" /\ targets = {} THEN End(r, "not_found", NoBody)
          ELSE Becomes(r, Reading(q.route, q.asOf, Settled(q.asOf), targets))
    BY <1>5 DEF ReadTargets
  <2> DEFINE state == Reading(q.route, q.asOf, Settled(q.asOf), targets)
  <2>2. /\ q.phase = "admitted" /\ UNCHANGED free
        /\ state.phase = "reading" /\ state.route = q.route
    BY <1>5 DEF ReadTargets, Reading
  <2>3. CASE End(r, "not_found", NoBody)
    BY <1>1, <2>2, <2>3
  <2>4. CASE Becomes(r, state)
    <3> HIDE DEF state
    <3> QED BY <2>2, <2>4, PlaceIsKept
  <2> QED BY <2>1, <2>3, <2>4
<1>6. CASE ReadHistory(r)
  <2>1. PICK target, parts, dataset :
          Becomes(r, IF Len(parts) = Len(Histories(target))
                     THEN [q EXCEPT !.targets = @ \ {target}, !.parts = <<>>,
                                    !.datasets = @ \cup {dataset}]
                     ELSE [q EXCEPT !.parts = parts])
    BY <1>6 DEF ReadHistory
  <2> DEFINE last == [q EXCEPT !.targets = @ \ {target}, !.parts = <<>>,
                               !.datasets = @ \cup {dataset}]
             next == [q EXCEPT !.parts = parts]
  <2>2. /\ q.phase = "reading" /\ UNCHANGED free
        /\ last.phase = "reading" /\ last.route = q.route
        /\ next.phase = "reading" /\ next.route = q.route
    BY <1>0, <1>6, ReadingFields DEF ReadHistory
  <2>3. Becomes(r, last) \/ Becomes(r, next)
    BY <2>1
  <2> HIDE DEF last, next
  <2> QED BY <2>2, <2>3, PlaceIsKept
<1>7. CASE Conclude(r)
  <2>1. \E status, body : End(r, status, body)
    BY <1>7 DEF Conclude
  <2> QED BY <1>1, <1>7, <2>1 DEF Conclude
<1> QED BY <1>2, <1>3, <1>4, <1>5, <1>6, <1>7 DEF Step

\* The place that an answered request held is free again.
LEMMA ReleaseConserves ==
  ASSUME PlacesInv, NEW r \in Requests, Release(r)
  PROVE  HoldersTookOne' /\ PlacesAreConserved'
<1> DEFINE q == requests[r]
           mine == Pool[q.route]
<1>1. /\ DOMAIN requests' = Requests
      /\ requests'[r] = Idle
      /\ \A s \in Requests : s # r => requests'[s] = requests[s]
  BY Becoming, TypesByPart DEF Release, PlacesInv
<1>2. /\ q.phase = "answered" /\ q.route \in Routes /\ q.holds \in BOOLEAN
      /\ free \in [Pools -> Nat]
  BY TypesByPart, RouteOf DEF Release, PlacesInv, TypedRequest, Idle
<1>3. mine \in Pools
  BY <1>2 DEF Pools
<1>4. q.holds => Pooled(q.route)
  BY <1>2 DEF PlacesInv, HoldersTookOne
<1>5. HoldersTookOne'
  BY <1>1 DEF PlacesInv, HoldersTookOne, Idle
<1>6. ASSUME NEW pool \in Pools
      PROVE  free'[pool] + Cardinality(Holding(pool)') = Places[pool]
  <2>1. Holding(pool)' = Holding(pool) \ {r}
    BY <1>1 DEF Holding, Idle
  <2>2. r \in Holding(pool) <=> q.holds /\ pool = mine
    BY <1>2, <1>4 DEF Holding
  <2>3. free'[pool] = IF q.holds /\ pool = mine THEN free[pool] + 1 ELSE free[pool]
    BY <1>2, <1>3 DEF Release
  <2>4. IsFiniteSet(Holding(pool))
    BY HoldersAreFinite
  <2>5. Cardinality(Holding(pool) \ {r}) =
          IF r \in Holding(pool) THEN Cardinality(Holding(pool)) - 1
          ELSE Cardinality(Holding(pool))
    BY <2>4, FS_RemoveElement
  <2>6. Cardinality(Holding(pool)) \in Nat /\ free[pool] \in Nat
    BY <1>2, <2>4, FS_CardinalityType
  <2>7. free[pool] + Cardinality(Holding(pool)) = Places[pool]
    BY DEF PlacesInv, PlacesAreConserved
  <2> HIDE DEF q, mine
  <2> QED BY <2>1, <2>2, <2>3, <2>5, <2>6, <2>7
<1> QED BY <1>5, <1>6 DEF PlacesAreConserved

\* A request that arrives takes a place, or is refused one.
LEMMA ArrivalConserves ==
  ASSUME PlacesInv, NEW r \in Requests, NEW route \in Routes, Arrive(r, route)
  PROVE  HoldersTookOne' /\ PlacesAreConserved'
<1> DEFINE mine == Pool[route]
           taken == Pooled(route) /\ HasPlace(mine)
<1>1. PICK state :
        /\ Becomes(r, state)
        /\ state = IF Pooled(route) /\ ~HasPlace(mine)
                   THEN Answered(route, FALSE, "over_capacity", NoBody) ELSE Arrived(route)
        /\ free' = IF taken THEN [free EXCEPT ![mine] = @ - 1] ELSE free
  BY DEF Arrive
<1>2. /\ DOMAIN requests' = Requests
      /\ requests'[r] = state
      /\ \A s \in Requests : s # r => requests'[s] = requests[s]
  BY <1>1, Becoming, TypesByPart DEF PlacesInv
<1>3. /\ mine \in Pools /\ free \in [Pools -> Nat]
      /\ requests[r].phase = "idle"
  BY TypesByPart DEF Pools, PlacesInv, Arrive, Idle
<1>4. /\ state.phase \in {"arrived", "answered"} /\ state.route = route
      /\ state.phase = "answered" => ~state.holds /\ ~taken
      /\ state.phase = "arrived" => (taken <=> Pooled(route))
  BY <1>1 DEF Answered, Arrived
<1>5. HoldersTookOne'
  BY <1>2, <1>4 DEF PlacesInv, HoldersTookOne
<1>6. ASSUME NEW pool \in Pools
      PROVE  free'[pool] + Cardinality(Holding(pool)') = Places[pool]
  <2>1. r \notin Holding(pool)
    BY <1>3 DEF Holding
  <2>2. Holding(pool)' = IF taken /\ pool = mine THEN Holding(pool) \cup {r} ELSE Holding(pool)
    BY <1>2, <1>3, <1>4 DEF Holding
  <2>3. free'[pool] = IF taken /\ pool = mine THEN free[pool] - 1 ELSE free[pool]
    BY <1>1, <1>3
  <2>4. IsFiniteSet(Holding(pool))
    BY HoldersAreFinite
  <2>5. Cardinality(Holding(pool) \cup {r}) = Cardinality(Holding(pool)) + 1
    BY <2>1, <2>4, FS_AddElement
  <2>6. Cardinality(Holding(pool)) \in Nat /\ free[pool] \in Nat
    BY <1>3, <2>4, FS_CardinalityType
  <2>7. free[pool] + Cardinality(Holding(pool)) = Places[pool]
    BY DEF PlacesInv, PlacesAreConserved
  <2> HIDE DEF taken, mine
  <2> QED BY <2>2, <2>3, <2>5, <2>6, <2>7
<1> QED BY <1>5, <1>6 DEF PlacesAreConserved

LEMMA InitPlaces == Init => PlacesInv
<1> SUFFICES ASSUME Init PROVE PlacesInv
  OBVIOUS
<1>1. HoldersTookOne
  BY DEF Init, HoldersTookOne, Idle
<1>2. ASSUME NEW pool \in Pools
      PROVE  free[pool] + Cardinality(Holding(pool)) = Places[pool]
  <2>1. Holding(pool) = {}
    BY DEF Init, Holding, Idle
  <2>2. Cardinality(Holding(pool)) = 0
    BY <2>1, FS_EmptySet
  <2>3. free[pool] = Places[pool] /\ Places[pool] \in Nat
    BY RoutesAssumption DEF Init
  <2> QED BY <2>2, <2>3
<1> QED BY <1>1, <1>2, InitTyped DEF PlacesInv, PlacesAreConserved

LEMMA NextPlaces == PlacesInv /\ [Next]_vars => PlacesInv'
<1> SUFFICES ASSUME PlacesInv, [Next]_vars PROVE PlacesInv'
  OBVIOUS
<1>1. TypeOK'
  BY NextTyped DEF PlacesInv
<1>2. CASE UNCHANGED api
  BY <1>1, <1>2 DEF api, PlacesInv, HoldersTookOne, PlacesAreConserved, Holding
<1>3. ASSUME NEW r \in Requests, Step(r) PROVE PlacesInv'
  BY <1>1, <1>3, StepKeepsPlace, ReleaseConserves DEF PlacesInv
<1>4. ASSUME NEW r \in Requests, NEW route \in Routes, Arrive(r, route) PROVE PlacesInv'
  BY <1>1, <1>4, ArrivalConserves DEF PlacesInv
<1> QED BY <1>2, <1>3, <1>4 DEF Next, vars

\* A place of a pool is free or held, whatever becomes of the requests: none is lost, and
\* none is given back twice.
THEOREM PlacesComeBack == Spec => []PlacesAreConserved
<1>1. Init => PlacesInv
  BY InitPlaces
<1>2. PlacesInv /\ [Next]_vars => PlacesInv'
  BY NextPlaces
<1>3. PlacesInv => PlacesAreConserved
  BY DEF PlacesInv
<1> QED BY <1>1, <1>2, <1>3, PTL DEF Spec

-----------------------------------------------------------------------------
(* The limiter.                                                              *)

\* The entries of a route are instants that have passed, in the order they were counted.
InOrder ==
  \A route \in Routes : \A i \in DOMAIN entries[route] :
    /\ entries[route][i] <= clock
    /\ \A j \in DOMAIN entries[route] : i <= j => entries[route][i] <= entries[route][j]

\* What a refusal leaves of the entries there were.
Left(route, at, seconds) ==
  {i \in DOMAIN entries[route] :
     /\ entries[route][i] <= at
     /\ entries[route][i] > at + seconds * TicksPerSecond - Window}

\* What is said of a refusal.  One of this very tick leaves no room: the route counts nothing
\* more before the next.
Holds(route, refusal) ==
  /\ refusal.at \in Int /\ refusal.at <= clock
  /\ refusal.at = clock => Cardinality(Live(route)) >= Limit[route]
  /\ Cardinality(Left(route, refusal.at, refusal.seconds)) < Limit[route]
  /\ Cardinality(Left(route, refusal.at, refusal.seconds - 1)) >= Limit[route]

Refusals ==
  \A r \in Requests :
    requests[r].phase = "answered" /\ requests[r].body.kind = "retry" =>
      Holds(requests[r].route, requests[r].body)

LimiterInv == TypeOK /\ InOrder /\ AdmittedWithinLimit /\ Refusals

\* The entries of a route, and the numbers about them.
LEMMA Counts ==
  ASSUME TypeOK, NEW route \in Routes
  PROVE  /\ entries[route] \in Seq(Time)
         /\ DOMAIN entries[route] = 1..Len(entries[route])
         /\ Len(entries[route]) \in Nat
         /\ \A i \in DOMAIN entries[route] : entries[route][i] \in Nat
         /\ IsFiniteSet(DOMAIN entries[route])
         /\ IsFiniteSet(Live(route))
         /\ Cardinality(Live(route)) \in Nat
         /\ clock \in Nat
         /\ Window \in Nat /\ Window >= 1
         /\ Limit[route] \in Nat
<1>1. entries[route] \in Seq(Time) /\ clock \in Time
  BY TypesByPart DEF StoreTypeOK
<1>2. /\ DOMAIN entries[route] = 1..Len(entries[route]) /\ Len(entries[route]) \in Nat
      /\ \A i \in DOMAIN entries[route] : entries[route][i] \in Nat
  BY <1>1, StoreAssumption DEF Time
<1>3. IsFiniteSet(DOMAIN entries[route])
  BY <1>2, FS_Interval
<1>4. IsFiniteSet(Live(route)) /\ Cardinality(Live(route)) \in Nat
  BY <1>3, FS_Subset, FS_CardinalityType DEF Live
<1>5. Window \in Nat /\ Window >= 1
  <2>1. WindowSeconds \in Nat /\ TicksPerSecond \in Nat /\ WindowSeconds >= 1 /\ TicksPerSecond >= 1
    BY RoutesAssumption
  <2>2. WindowSeconds * TicksPerSecond \in Nat /\ WindowSeconds * TicksPerSecond >= 1
    BY <2>1, SMTT(20)
  <2> QED BY <2>2 DEF Window
<1> QED BY <1>1, <1>2, <1>3, <1>4, <1>5, RoutesAssumption, StoreAssumption DEF Time

\* No route has more live entries than its limit.
LEMMA LiveWithinLimit ==
  ASSUME LimiterInv, NEW route \in Routes
  PROVE  Cardinality(Live(route)) <= Limit[route]
<1> DEFINE e == entries[route]
           n == Len(e)
           last == {i \in 1..n : e[i] > e[n] - Window}
<1>1. /\ e \in Seq(Time) /\ DOMAIN e = 1..n /\ n \in Nat /\ IsFiniteSet(1..n)
      /\ Limit[route] \in Nat /\ clock \in Nat /\ Window \in Nat
  BY Counts, FS_Interval DEF LimiterInv
<1>2. CASE n = 0
  <2>1. Live(route) = {}
    BY <1>1, <1>2 DEF Live
  <2> QED BY <1>1, <2>1, FS_EmptySet
<1>3. CASE n > 0
  <2>1. n \in DOMAIN e
    BY <1>1, <1>3
  <2>2. Cardinality(last) <= Limit[route]
    BY <1>1, <2>1 DEF LimiterInv, AdmittedWithinLimit
  <2>3. e[n] <= clock /\ e[n] \in Nat /\ \A i \in 1..n : e[i] \in Nat
    BY <1>1, <2>1, Counts DEF LimiterInv, InOrder
  <2>4. Live(route) \subseteq last
    BY <1>1, <2>3 DEF Live
  <2>5. IsFiniteSet(last)
    BY <1>1, FS_Subset
  <2>6. Cardinality(Live(route)) <= Cardinality(last)
    BY <2>4, <2>5, FS_Subset
  <2>7. Cardinality(last) \in Nat /\ Cardinality(Live(route)) \in Nat
    BY <2>4, <2>5, FS_Subset, FS_CardinalityType
  <2> QED BY <1>1, <2>2, <2>6, <2>7
<1> QED BY <1>1, <1>2, <1>3

\* What the limiter announces when it refuses is the time its oldest entry has left.
LEMMA AnnouncedInTime ==
  ASSUME LimiterInv, NEW route \in Routes, Cardinality(Live(route)) >= Limit[route],
         NEW seconds,
         seconds = RetrySeconds(Max({1, Window - (clock - entries[route][Min(Live(route))])}))
  PROVE  /\ Cardinality(Left(route, clock, seconds)) < Limit[route]
         /\ Cardinality(Left(route, clock, seconds - 1)) >= Limit[route]
<1> DEFINE e == entries[route]
           live == Live(route)
           first == Min(live)
           oldest == e[first]
           n == Window - (clock - oldest)
<1>1. /\ DOMAIN e = 1..Len(e) /\ \A i \in DOMAIN e : e[i] \in Nat
      /\ IsFiniteSet(live) /\ Cardinality(live) \in Nat
      /\ clock \in Nat /\ Window \in Nat /\ Limit[route] \in Nat
  BY Counts DEF LimiterInv
<1>2. Limit[route] >= 1 /\ TicksPerSecond \in Nat
  BY RoutesAssumption
<1>3. live # {}
  BY <1>1, <1>2, FS_EmptySet
<1>4. first \in live /\ \A i \in live : first <= i
  <2>1. live \subseteq Nat
    BY <1>1 DEF Live
  <2> QED BY <1>3, <2>1, Smallest
<1>5. /\ first \in DOMAIN e
      /\ oldest \in Nat /\ oldest <= clock /\ oldest > clock - Window
      /\ \A i \in live : i \in DOMAIN e /\ e[i] >= oldest /\ e[i] <= clock
  BY <1>1, <1>4 DEF Live, LimiterInv, InOrder
<1>6. n \in Nat /\ n >= 1 /\ n <= Window
  BY <1>1, <1>5
<1>7. Max({1, n}) = n
  BY <1>6 DEF Max
<1>8. /\ seconds \in Nat
      /\ seconds * TicksPerSecond >= n
      /\ (seconds - 1) * TicksPerSecond < n
  BY <1>6, <1>7, SecondsCover
<1>9. Cardinality(live) <= Limit[route]
  BY LiveWithinLimit
<1>10. seconds * TicksPerSecond \in Int /\ (seconds - 1) * TicksPerSecond \in Int
  BY <1>2, <1>8
<1> DEFINE most == clock + seconds * TicksPerSecond - Window
           least == clock + (seconds - 1) * TicksPerSecond - Window
<1>11. most \in Int /\ least \in Int /\ most >= oldest /\ least < oldest
  <2> DEFINE a == seconds * TicksPerSecond
             b == (seconds - 1) * TicksPerSecond
  <2>1. a \in Int /\ b \in Int /\ a >= n /\ b < n
    BY <1>8, <1>10
  <2> HIDE DEF a, b, oldest
  <2>2. /\ clock + a - Window \in Int /\ clock + b - Window \in Int
        /\ clock + a - Window >= oldest /\ clock + b - Window < oldest
    BY <1>1, <1>5, <2>1
  <2> QED BY <2>2 DEF a, b
<1> HIDE DEF most, least
<1>12. /\ Left(route, clock, seconds) \subseteq live \ {first}
       /\ live \subseteq Left(route, clock, seconds - 1)
  <2>1. ASSUME NEW i \in Left(route, clock, seconds) PROVE i \in live /\ i # first
    <3>1. i \in DOMAIN e /\ e[i] \in Nat /\ e[i] > most
      BY <1>1 DEF Left, most
    <3>2. e[i] > oldest /\ e[i] > clock - Window
      <4> HIDE DEF oldest
      <4> QED BY <1>1, <1>5, <1>11, <3>1
    <3>3. i \in live
      BY <3>1, <3>2 DEF Live
    <3>4. i # first
      <4> HIDE DEF first
      <4> QED BY <1>5, <3>2
    <3> QED BY <3>3, <3>4
  <2>2. ASSUME NEW i \in live PROVE i \in Left(route, clock, seconds - 1)
    <3>1. i \in DOMAIN e /\ e[i] \in Nat /\ e[i] >= oldest /\ e[i] <= clock
      BY <1>1, <1>5
    <3>2. e[i] > least
      <4> HIDE DEF oldest
      <4> QED BY <1>5, <1>11, <3>1
    <3> QED BY <3>1, <3>2 DEF Left, least
  <2> QED BY <2>1, <2>2
<1>13. /\ Cardinality(live \ {first}) = Cardinality(live) - 1
       /\ IsFiniteSet(live \ {first})
  BY <1>1, <1>4, FS_RemoveElement
<1>14. Cardinality(Left(route, clock, seconds)) <= Cardinality(live) - 1
  <2> DEFINE rest == live \ {first}
  <2>1. IsFiniteSet(rest) /\ Left(route, clock, seconds) \subseteq rest
    BY <1>12, <1>13
  <2>2. Cardinality(rest) = Cardinality(live) - 1
    BY <1>13
  <2> HIDE DEF rest, live
  <2>3. Cardinality(Left(route, clock, seconds)) <= Cardinality(rest)
    BY <2>1, FS_Subset
  <2> QED BY <2>2, <2>3
<1>15. Cardinality(live) <= Cardinality(Left(route, clock, seconds - 1))
  <2>1. IsFiniteSet(Left(route, clock, seconds - 1))
    BY <1>1, FS_Interval, FS_Subset, Counts DEF Left, LimiterInv
  <2> QED BY <1>12, <2>1, FS_Subset
<1>16. /\ Cardinality(Left(route, clock, seconds)) \in Nat
       /\ Cardinality(Left(route, clock, seconds - 1)) \in Nat
  <2>1. /\ IsFiniteSet(Left(route, clock, seconds))
        /\ IsFiniteSet(Left(route, clock, seconds - 1))
    BY FS_Subset, Counts DEF Left, LimiterInv
  <2> QED BY <2>1, FS_CardinalityType
<1> QED BY <1>1, <1>9, <1>14, <1>15, <1>16

\* What a route counts, it has room for.
LEMMA CountingKeepsOrder ==
  ASSUME LimiterInv, NEW route \in Routes, Counted(route), UNCHANGED clock,
         Cardinality(Live(route)) < Limit[route]
  PROVE  InOrder' /\ AdmittedWithinLimit'
<1> DEFINE e == entries[route]
           f == Append(e, clock)
           n == Len(e)
<1>1. /\ e \in Seq(Time) /\ DOMAIN e = 1..n /\ n \in Nat
      /\ \A i \in DOMAIN e : e[i] \in Nat
      /\ IsFiniteSet(Live(route)) /\ Cardinality(Live(route)) \in Nat
      /\ clock \in Nat /\ Window \in Nat /\ Window >= 1 /\ Limit[route] \in Nat
  BY Counts DEF LimiterInv
<1>2. /\ DOMAIN f = 1..(n + 1)
      /\ \A i \in 1..n : f[i] = e[i]
      /\ f[n + 1] = clock
  BY <1>1
<1>3. /\ entries'[route] = f
      /\ \A other \in Routes : other # route => entries'[other] = entries[other]
  BY TypesByPart DEF Counted, LimiterInv
<1>4. \A i \in 1..n : e[i] <= clock /\ \A j \in 1..n : i <= j => e[i] <= e[j]
  BY <1>1 DEF LimiterInv, InOrder
<1>5. \A i \in 1..(n + 1) : f[i] <= clock /\ \A j \in 1..(n + 1) : i <= j => f[i] <= f[j]
  <2>1. \A i \in 1..(n + 1) : i \in 1..n \/ i = n + 1
    BY <1>1
  <2>2. ASSUME NEW i \in 1..(n + 1) PROVE f[i] <= clock
    BY <1>1, <1>2, <1>4, <2>1
  <2>3. ASSUME NEW i \in 1..(n + 1), NEW j \in 1..(n + 1), i <= j PROVE f[i] <= f[j]
    <3>1. CASE j = n + 1
      BY <1>2, <2>2, <3>1
    <3>2. CASE j \in 1..n
      <4>1. i \in 1..n
        BY <1>1, <2>3, <3>2
      <4> HIDE DEF f
      <4> QED BY <1>2, <1>4, <2>3, <3>2, <4>1
    <3> QED BY <2>1, <3>1, <3>2
  <2> QED BY <2>2, <2>3
<1>6. InOrder'
  <2> HIDE DEF f
  <2> SUFFICES ASSUME NEW other \in Routes, NEW i \in DOMAIN entries'[other]
               PROVE  /\ entries'[other][i] <= clock
                      /\ \A j \in DOMAIN entries'[other] :
                           i <= j => entries'[other][i] <= entries'[other][j]
    BY DEF InOrder
  <2>1. CASE other = route
    BY <1>2, <1>3, <1>5, <2>1
  <2>2. CASE other # route
    BY <1>3, <2>2 DEF LimiterInv, InOrder
  <2> QED BY <2>1, <2>2
<1>7. ASSUME NEW last \in 1..(n + 1)
      PROVE  Cardinality({i \in 1..last : f[i] > f[last] - Window}) <= Limit[route]
  <2> DEFINE within == {i \in 1..last : f[i] > f[last] - Window}
  <2>1. CASE last \in 1..n
    <3>1. within = {i \in 1..last : e[i] > e[last] - Window}
      <4>1. \A i \in 1..last : i \in 1..n
        BY <1>1, <2>1
      <4> HIDE DEF f, e
      <4> QED BY <1>2, <2>1, <4>1
    <3> QED BY <1>1, <2>1, <3>1 DEF LimiterInv, AdmittedWithinLimit
  <2>2. CASE last = n + 1
    <3>1. within \subseteq Live(route) \cup {n + 1}
      <4> SUFFICES ASSUME NEW i \in within PROVE i = n + 1 \/ i \in Live(route)
        OBVIOUS
      <4>1. i \in 1..(n + 1) /\ f[i] > clock - Window
        BY <1>2, <2>2
      <4>2. i \in 1..n => i \in Live(route)
        BY <1>1, <1>2, <4>1 DEF Live
      <4> QED BY <1>1, <4>1, <4>2
    <3>2. n + 1 \notin Live(route)
      BY <1>1 DEF Live
    <3>3. /\ Cardinality(Live(route) \cup {n + 1}) = Cardinality(Live(route)) + 1
          /\ IsFiniteSet(Live(route) \cup {n + 1})
      BY <1>1, <3>2, FS_AddElement
    <3>4. Cardinality(within) <= Cardinality(Live(route)) + 1 /\ IsFiniteSet(within)
      <4> HIDE DEF within
      <4> QED BY <3>1, <3>3, FS_Subset
    <3>5. Cardinality(within) \in Nat
      BY <3>4, FS_CardinalityType
    <3>6. Cardinality(within) <= Limit[route]
      <4> HIDE DEF within
      <4> QED BY <1>1, <3>4, <3>5
    <3> QED BY <3>6
  <2>3. last \in 1..n \/ last = n + 1
    BY <1>1
  <2> QED BY <2>1, <2>2, <2>3
<1>8. AdmittedWithinLimit'
  <2> HIDE DEF f
  <2> SUFFICES ASSUME NEW other \in Routes, NEW last \in DOMAIN entries'[other]
               PROVE  Cardinality({i \in 1..last :
                                     entries'[other][i] > entries'[other][last] - Window})
                        <= Limit[other]
    BY DEF AdmittedWithinLimit
  <2>1. CASE other = route
    BY <1>2, <1>3, <1>7, <2>1
  <2>2. CASE other # route
    BY <1>3, <2>2 DEF LimiterInv, AdmittedWithinLimit
  <2> QED BY <2>1, <2>2
<1> QED BY <1>6, <1>8

\* A step that counts nothing leaves what is said of a refusal; one that counts does so too.
LEMMA RefusalKept ==
  ASSUME LimiterInv, NEW mine \in Routes, NEW refusal, Holds(mine, refusal),
         UNCHANGED clock,
         \/ UNCHANGED entries
         \/ \E route \in Routes : Counted(route) /\ Cardinality(Live(route)) < Limit[route]
  PROVE  Holds(mine, refusal)'
<1>1. /\ refusal.at \in Int /\ refusal.at <= clock
      /\ refusal.at = clock => Cardinality(Live(mine)) >= Limit[mine]
  BY DEF Holds
<1>2. CASE UNCHANGED entries
  BY <1>2 DEF Holds, Live, Left
<1>3. ASSUME NEW route \in Routes, Counted(route), Cardinality(Live(route)) < Limit[route]
      PROVE  /\ refusal.at = clock => Cardinality(Live(mine)') >= Limit[mine]
             /\ \A s : Left(mine, refusal.at, s)' = Left(mine, refusal.at, s)
  <2>1. /\ entries'[route] = Append(entries[route], clock)
        /\ \A other \in Routes : other # route => entries'[other] = entries[other]
    BY <1>3, TypesByPart DEF Counted, LimiterInv
  <2>2. CASE mine # route
    BY <1>1, <2>1, <2>2 DEF Live, Left
  <2>3. CASE mine = route
    <3>1. /\ entries[mine] \in Seq(Time)
          /\ Cardinality(Live(mine)) \in Nat /\ Limit[mine] \in Nat
          /\ clock \in Nat
      BY <1>1, Counts DEF LimiterInv
    <3>2. refusal.at < clock
      BY <1>1, <1>3, <2>3, <3>1
    <3>3. ASSUME NEW s PROVE Left(mine, refusal.at, s)' = Left(mine, refusal.at, s)
      <4> DEFINE e == entries[mine]
      <4>1. /\ DOMAIN entries'[mine] = DOMAIN e \cup {Len(e) + 1}
            /\ entries'[mine][Len(e) + 1] = clock
            /\ \A i \in DOMAIN e : entries'[mine][i] = e[i]
        <5>1. entries'[mine] = Append(e, clock)
          BY <2>1, <2>3
        <5>2. e \in Seq(Time)
          BY <3>1
        <5> HIDE DEF e
        <5>3. /\ DOMAIN Append(e, clock) = DOMAIN e \cup {Len(e) + 1}
              /\ Append(e, clock)[Len(e) + 1] = clock
              /\ \A i \in DOMAIN e : Append(e, clock)[i] = e[i]
          BY <5>2
        <5> QED BY <5>1, <5>3
      <4>2. ~(clock <= refusal.at)
        BY <1>1, <3>1, <3>2
      <4> HIDE DEF e
      <4>3. \A i : i \in Left(mine, refusal.at, s)' <=> i \in Left(mine, refusal.at, s)
        BY <4>1, <4>2 DEF Left, e
      <4> QED BY <4>3
    <3> QED BY <1>1, <3>1, <3>2, <3>3
  <2> QED BY <2>2, <2>3
<1> QED BY <1>1, <1>2, <1>3 DEF Holds

\* What a step of a thread tells the client about waiting, and what it counts.
LEMMA StepAnnounces ==
  ASSUME LimiterInv, NEW r \in Requests, Step(r)
  PROVE  /\ \/ UNCHANGED entries
            \/ \E route \in Routes : Counted(route) /\ Cardinality(Live(route)) < Limit[route]
         /\ \/ Refuse(r)
            \/ \E state : /\ Becomes(r, state)
                          /\ ~(state.phase = "answered" /\ state.body.kind = "retry")
<1> DEFINE q == requests[r]
           Quiet == \E state : /\ Becomes(r, state)
                               /\ ~(state.phase = "answered" /\ state.body.kind = "retry")
<1>1. ASSUME NEW status, NEW body, End(r, status, body), body.kind # "retry" PROVE Quiet
  <2> DEFINE state == Answered(q.route, Pooled(q.route), status, body)
  <2>1. Becomes(r, state) /\ state.body = body
    BY <1>1 DEF End, Answered
  <2> HIDE DEF state
  <2> QED BY <1>1, <2>1
<1>2. NoBody.kind # "retry"
  BY DEF NoBody
<1>3. q.phase \in {"arrived", "admitted"} => q.route \in Routes
  BY RouteOf, TypesByPart DEF LimiterInv
<1> HIDE DEF Quiet
<1>4. CASE RejectQuery(r) \/ RejectInstant(r) \/ Describe(r) \/ SessionFails(r)
  BY <1>1, <1>2, <1>4 DEF RejectQuery, RejectInstant, Describe, SessionFails, Quiet
<1>5. CASE Refuse(r)
  BY <1>5 DEF Refuse
<1>6. CASE LimiterFails(r)
  BY <1>1, <1>2, <1>3, <1>6 DEF LimiterFails, Quiet
<1>7. CASE Admit(r)
  <2>1. PICK asOf : Becomes(r, Admitted(q.route, asOf))
    BY <1>7 DEF Admit
  <2>2. Admitted(q.route, asOf).phase # "answered"
    BY DEF Admitted
  <2> QED BY <1>3, <1>7, <2>1, <2>2 DEF Admit
<1>8. CASE ReadTargets(r)
  <2>1. PICK targets :
          IF q.route = "analysis" /\ targets = {} THEN End(r, "not_found", NoBody)
          ELSE Becomes(r, Reading(q.route, q.asOf, Settled(q.asOf), targets))
    BY <1>8 DEF ReadTargets
  <2>2. Reading(q.route, q.asOf, Settled(q.asOf), targets).phase # "answered"
    BY DEF Reading
  <2>3. Quiet
    BY <1>1, <1>2, <2>1, <2>2 DEF Quiet
  <2> QED BY <1>8, <2>3 DEF ReadTargets, Quiet
<1>9. CASE ReadHistory(r)
  <2>1. PICK target, parts, dataset :
          Becomes(r, IF Len(parts) = Len(Histories(target))
                     THEN [q EXCEPT !.targets = @ \ {target}, !.parts = <<>>,
                                    !.datasets = @ \cup {dataset}]
                     ELSE [q EXCEPT !.parts = parts])
    BY <1>9 DEF ReadHistory
  <2> DEFINE last == [q EXCEPT !.targets = @ \ {target}, !.parts = <<>>,
                               !.datasets = @ \cup {dataset}]
             next == [q EXCEPT !.parts = parts]
  <2>2. q.phase = "reading" /\ last.phase = "reading" /\ next.phase = "reading"
    BY <1>9, ReadingFields DEF ReadHistory, LimiterInv
  <2>3. Becomes(r, last) \/ Becomes(r, next)
    BY <2>1
  <2>4. Quiet
    <3> HIDE DEF last, next
    <3> QED BY <2>2, <2>3 DEF Quiet
  <2> QED BY <1>9, <2>4 DEF ReadHistory, Quiet
<1>10. CASE Conclude(r)
  <2> DEFINE body == [kind |-> "read", asOf |-> q.asOf, settled |-> q.settled,
                      datasets |-> q.datasets]
  <2>1. \E status : End(r, status, body)
    BY <1>10 DEF Conclude
  <2>2. body.kind # "retry"
    OBVIOUS
  <2>3. Quiet
    <3> HIDE DEF body
    <3> QED BY <1>1, <2>1, <2>2
  <2> QED BY <1>10, <2>3 DEF Conclude, Quiet
<1>11. CASE Release(r)
  <2>1. Becomes(r, Idle) /\ Idle.phase # "answered"
    BY <1>11 DEF Release, Idle
  <2> QED BY <1>11, <2>1 DEF Release
<1> QED BY <1>4, <1>5, <1>6, <1>7, <1>8, <1>9, <1>10, <1>11 DEF Step, Quiet

LEMMA StepKeepsLimiter ==
  ASSUME LimiterInv, NEW r \in Requests, Step(r)
  PROVE  InOrder' /\ AdmittedWithinLimit' /\ Refusals'
<1>1. /\ UNCHANGED clock
      /\ \/ UNCHANGED entries
         \/ \E route \in Routes : Counted(route) /\ Cardinality(Live(route)) < Limit[route]
  BY StepTyped, StepAnnounces DEF LimiterInv, store
<1>2. InOrder' /\ AdmittedWithinLimit'
  <2>1. CASE UNCHANGED entries
    BY <1>1, <2>1 DEF LimiterInv, InOrder, AdmittedWithinLimit
  <2> QED BY <1>1, <2>1, CountingKeepsOrder
<1>3. \A s \in Requests : s # r => requests'[s] = requests[s]
  BY StepTyped, Becoming, TypesByPart DEF LimiterInv
<1>4. ASSUME NEW s \in Requests, NEW route, NEW refusal,
             requests'[s].phase = "answered", refusal.kind = "retry",
             route = requests'[s].route, refusal = requests'[s].body
      PROVE  Holds(route, refusal)'
  <2>1. CASE s # r
    <3>1. /\ requests[s].phase = "answered"
          /\ route = requests[s].route /\ refusal = requests[s].body
      BY <1>3, <1>4, <2>1
    <3>2. Holds(route, refusal)
      BY <1>4, <3>1 DEF LimiterInv, Refusals
    <3>3. route \in Routes
      BY <3>1, RouteOf, TypesByPart DEF LimiterInv
    <3> QED BY <1>1, <3>2, <3>3, RefusalKept
  <2>2. CASE s = r
    <3>1. Refuse(r)
      BY <1>4, <2>2, StepAnnounces, Becoming, TypesByPart DEF LimiterInv
    <3>2. requests[r].phase = "arrived" /\ requests[r].route \in Routes
      BY <3>1, RouteOf, TypesByPart DEF Refuse, LimiterInv
    <3>3. PICK seconds :
            /\ seconds = RetrySeconds(Max({1, Window -
                            (clock - entries[requests[r].route][Min(Live(requests[r].route))])}))
            /\ End(r, "over_limit", Retry(seconds))
      BY <3>1 DEF Refuse
    <3>4. /\ requests'[r].route = requests[r].route
          /\ requests'[r].body = [kind |-> "retry", at |-> clock, seconds |-> seconds]
      BY <3>3, Becoming, TypesByPart DEF End, Answered, Retry, LimiterInv
    <3>5. UNCHANGED entries /\ Cardinality(Live(route)) >= Limit[route] /\ route \in Routes
      BY <1>4, <2>2, <3>1, <3>2, <3>4 DEF Refuse
    <3>6. /\ Cardinality(Left(route, clock, seconds)) < Limit[route]
          /\ Cardinality(Left(route, clock, seconds - 1)) >= Limit[route]
      BY <1>4, <2>2, <3>3, <3>4, <3>5, AnnouncedInTime
    <3>7. clock \in Int /\ refusal.at = clock /\ refusal.seconds = seconds
      BY <1>4, <2>2, <3>4, <3>5, Counts DEF LimiterInv
    <3>8. Holds(route, refusal)
      BY <3>5, <3>6, <3>7 DEF Holds
    <3> QED BY <1>1, <3>5, <3>8, RefusalKept
  <2> QED BY <2>1, <2>2
<1>5. Refusals'
  BY <1>4 DEF Refusals, Holds, Left, Live
<1> QED BY <1>2, <1>5

\* Time passes, and what is live goes.
LEMMA TimeKeepsLimiter ==
  ASSUME LimiterInv, UNCHANGED api, clock' \in Nat, clock' >= clock
  PROVE  InOrder' /\ AdmittedWithinLimit' /\ Refusals'
<1>1. /\ UNCHANGED <<entries, requests>>
      /\ clock \in Time /\ clock \in Nat
  BY StoreAssumption, TypesByPart DEF api, LimiterInv, StoreTypeOK, Time
<1>2. InOrder'
  <2> SUFFICES ASSUME NEW route \in Routes, NEW i \in DOMAIN entries[route]
               PROVE  entries[route][i] <= clock'
    BY <1>1 DEF LimiterInv, InOrder
  <2>1. entries[route][i] \in Nat /\ entries[route][i] <= clock
    BY Counts DEF LimiterInv, InOrder
  <2> QED BY <1>1, <2>1
<1>3. AdmittedWithinLimit'
  BY <1>1 DEF LimiterInv, AdmittedWithinLimit
<1>4. ASSUME NEW route, NEW refusal, Holds(route, refusal)
      PROVE  Holds(route, refusal)'
  <2>1. /\ refusal.at \in Int /\ refusal.at <= clock
        /\ refusal.at = clock => Cardinality(Live(route)) >= Limit[route]
    BY <1>4 DEF Holds
  <2>2. refusal.at <= clock' /\ (refusal.at = clock' => clock' = clock)
    BY <1>1, <2>1
  <2>3. clock' = clock => Live(route)' = Live(route)
    BY <1>1 DEF Live
  <2>4. \A n : Left(route, refusal.at, n)' = Left(route, refusal.at, n)
    BY <1>1 DEF Left
  <2> QED BY <1>4, <2>1, <2>2, <2>3, <2>4 DEF Holds
<1>5. Refusals'
  BY <1>1, <1>4 DEF LimiterInv, Refusals
<1> QED BY <1>2, <1>3, <1>5

\* A request that arrives says nothing about waiting.
LEMMA ArrivalKeepsLimiter ==
  ASSUME LimiterInv, NEW r \in Requests, NEW route \in Routes, Arrive(r, route)
  PROVE  InOrder' /\ AdmittedWithinLimit' /\ Refusals'
<1>1. UNCHANGED <<clock, entries>>
  BY DEF Arrive, store
<1>2. PICK state : Becomes(r, state) /\ ~(state.phase = "answered" /\ state.body.kind = "retry")
  BY DEF Arrive, Arrived, Answered, NoBody
<1>3. requests'[r] = state /\ \A s \in Requests : s # r => requests'[s] = requests[s]
  BY <1>2, Becoming, TypesByPart DEF LimiterInv
<1>4. InOrder' /\ AdmittedWithinLimit'
  BY <1>1 DEF LimiterInv, InOrder, AdmittedWithinLimit
<1>5. \A any : Live(any)' = Live(any) /\ \A at, n : Left(any, at, n)' = Left(any, at, n)
  BY <1>1 DEF Live, Left
<1>6. Refusals'
  BY <1>1, <1>2, <1>3, <1>5 DEF LimiterInv, Refusals, Holds
<1> QED BY <1>4, <1>6

LEMMA InitLimiter == Init => LimiterInv
<1> SUFFICES ASSUME Init PROVE LimiterInv
  OBVIOUS
<1>1. \A route \in Routes : DOMAIN entries[route] = {}
  BY DEF Init
<1>2. InOrder /\ AdmittedWithinLimit
  BY <1>1 DEF InOrder, AdmittedWithinLimit
<1>3. Refusals
  BY DEF Init, Refusals, Idle
<1> QED BY <1>2, <1>3, InitTyped DEF LimiterInv

LEMMA NextLimiter == LimiterInv /\ [Next]_vars => LimiterInv'
<1> SUFFICES ASSUME LimiterInv, [Next]_vars PROVE LimiterInv'
  OBVIOUS
<1>1. TypeOK'
  BY NextTyped DEF LimiterInv
<1>2. CASE UNCHANGED api
  <2>1. clock' \in Nat /\ clock \in Nat
    BY <1>1, TypesByPart, StoreAssumption DEF TypeOK, StoreTypeOK, Time, LimiterInv
  <2>2. clock' >= clock
    <3>1. clock' = clock \/ clock' = clock + 1
      BY <1>2 DEF Next, vars, api, store, StoreNext, Receive, NoteRejected, Insert, CommitRows,
                  Rollback, Tick, Arrive, Step, RejectQuery, Admit, Refuse, LimiterFails,
                  RejectInstant, Describe, SessionFails, ReadTargets, ReadHistory, Conclude,
                  Release
    <3> QED BY <2>1, <3>1
  <2> QED BY <1>1, <1>2, <2>1, <2>2, TimeKeepsLimiter DEF LimiterInv
<1>3. ASSUME NEW r \in Requests, Step(r) PROVE LimiterInv'
  BY <1>1, <1>3, StepKeepsLimiter DEF LimiterInv
<1>4. ASSUME NEW r \in Requests, NEW route \in Routes, Arrive(r, route) PROVE LimiterInv'
  BY <1>1, <1>4, ArrivalKeepsLimiter DEF LimiterInv
<1> QED BY <1>2, <1>3, <1>4 DEF Next, vars

\* Whatever the interleaving of the threads, and whichever answers of Redis are lost, a window
\* holds no more requests of a client than the limit of the route.
THEOREM LimitHolds == Spec => []AdmittedWithinLimit
<1>1. Init => LimiterInv
  BY InitLimiter
<1>2. LimiterInv /\ [Next]_vars => LimiterInv'
  BY NextLimiter
<1>3. LimiterInv => AdmittedWithinLimit
  BY DEF LimiterInv
<1> QED BY <1>1, <1>2, <1>3, PTL DEF Spec

\* The seconds a client is told to wait are enough, and with one less they would not be.
THEOREM WaitIsHonest == Spec => []RetryAfterIsHonest
<1>1. Init => LimiterInv
  BY InitLimiter
<1>2. LimiterInv /\ [Next]_vars => LimiterInv'
  BY NextLimiter
<1>3. LimiterInv => RetryAfterIsHonest
  BY DEF LimiterInv, Refusals, Holds, RetryAfterIsHonest, Left
<1> QED BY <1>1, <1>2, <1>3, PTL DEF Spec


-----------------------------------------------------------------------------
(* The writer.                                                               *)

\* Every table and every transaction is finite.
FiniteStore == IsFiniteSet(answers) /\ IsFiniteSet(written) /\ IsFiniteSet(observations)

\* What a transaction has written says when it began.
Stamps ==
  /\ opened = Closed => written = {}
  /\ \A o \in written : o.created = opened
  /\ opened <= clock

WriterInv == TypeOK /\ FiniteStore /\ Stamps

LEMMA InitWriter == Init => WriterInv
<1> SUFFICES ASSUME Init PROVE WriterInv
  OBVIOUS
<1>1. TypeOK
  BY InitTyped
<1>2. FiniteStore
  BY RoutesAssumption, FS_EmptySet DEF Init, FiniteStore
<1>3. clock \in Nat
  BY <1>1, StoreAssumption DEF TypeOK, StoreTypeOK, Time
<1>4. Stamps
  BY <1>3 DEF Init, Stamps, Closed
<1> QED BY <1>1, <1>2, <1>4 DEF WriterInv

\* A step of the writer, and the passing of time.
LEMMA StoreKeepsWriter ==
  ASSUME WriterInv, StoreNext  PROVE FiniteStore' /\ Stamps'
<1>1. /\ clock \in Nat /\ opened \in Int /\ opened <= clock /\ Closed \in Int
      /\ opened # Closed => opened \in Nat
      /\ answers \subseteq Answer /\ written \subseteq Observation
  BY StoreAssumption, TypesByPart DEF WriterInv, StoreTypeOK, Time, Stamps, Closed
<1>2. /\ Began \in Nat /\ Began <= clock /\ Began # Closed
      /\ \A o \in written : o.created = Began
  BY <1>1 DEF Began, WriterInv, Stamps, Closed
<1>3. CASE Receive
  <2>1. PICK answer : answers' = answers \cup {answer}
    BY <1>3 DEF Receive
  <2>2. IsFiniteSet(answers')
    BY <2>1, FS_AddElement DEF WriterInv, FiniteStore
  <2> QED BY <1>3, <2>2 DEF Receive, WriterInv, FiniteStore, Stamps
<1>4. CASE NoteRejected
  BY <1>2, <1>4 DEF NoteRejected, WriterInv, FiniteStore, Stamps
<1>5. CASE Insert
  <2>1. PICK batch, duplicate :
          /\ batch \subseteq answers
          /\ written' = written \cup {Stamped(a) : a \in batch \ duplicate}
          /\ answers' = answers \ batch
          /\ opened' = Began
          /\ UNCHANGED <<clock, observations>>
    BY <1>5 DEF Insert
  <2> DEFINE chosen == batch \ duplicate
             rows == {Stamped(a) : a \in chosen}
  <2>2. IsFiniteSet(chosen) /\ IsFiniteSet(answers')
    BY <2>1, FS_Subset DEF WriterInv, FiniteStore
  <2>3. IsFiniteSet(rows)
    <3> DEFINE stamp == [a \in chosen |-> Stamped(a)]
    <3>1. stamp \in Surjection(chosen, rows)
      BY DEF Surjection
    <3> HIDE DEF stamp, chosen, rows
    <3> QED BY <2>2, <3>1, FS_Surjection
  <2>4. IsFiniteSet(written')
    <3>1. written' = written \cup rows /\ IsFiniteSet(written)
      BY <2>1 DEF WriterInv, FiniteStore
    <3> HIDE DEF rows
    <3>2. IsFiniteSet(written \cup rows)
      BY <2>3, <3>1, FS_Union
    <3> QED BY <3>1, <3>2
  <2>5. \A o \in written' : o.created = Began
    BY <1>2, <2>1 DEF Stamped
  <2> QED BY <1>2, <2>1, <2>2, <2>4, <2>5 DEF WriterInv, FiniteStore, Stamps
<1>6. CASE CommitRows
  <2>1. IsFiniteSet(observations \cup written)
    BY FS_Union DEF WriterInv, FiniteStore
  <2> QED BY <1>1, <1>6, <2>1, FS_EmptySet DEF CommitRows, WriterInv, FiniteStore, Stamps, Closed
<1>7. CASE Rollback
  BY <1>1, <1>7, FS_EmptySet DEF Rollback, WriterInv, FiniteStore, Stamps, Closed
<1>8. CASE Tick
  BY <1>1, <1>8 DEF Tick, writer, WriterInv, FiniteStore, Stamps
<1> QED BY <1>3, <1>4, <1>5, <1>6, <1>7, <1>8 DEF StoreNext

\* A thread does nothing to the store, and the writer nothing to the threads.
LEMMA NextParts ==
  ASSUME TypeOK, [Next]_vars
  PROVE  \/ /\ UNCHANGED store
            /\ \E r \in Requests : Step(r) \/ \E route \in Routes : Arrive(r, route)
         \/ StoreNext /\ UNCHANGED api
         \/ UNCHANGED vars
<1>1. ASSUME NEW r \in Requests, Step(r) PROVE UNCHANGED store
  BY <1>1, StepTyped DEF store
<1>2. ASSUME NEW r \in Requests, NEW route \in Routes, Arrive(r, route) PROVE UNCHANGED store
  BY <1>2 DEF Arrive
<1> QED BY <1>1, <1>2 DEF Next, StoreNext

LEMMA NextWriter == WriterInv /\ [Next]_vars => WriterInv'
<1> SUFFICES ASSUME WriterInv, [Next]_vars PROVE WriterInv'
  OBVIOUS
<1>1. TypeOK'
  BY NextTyped DEF WriterInv
<1>2. CASE UNCHANGED store
  BY <1>1, <1>2 DEF store, WriterInv, FiniteStore, Stamps
<1>3. CASE StoreNext
  BY <1>1, <1>3, StoreKeepsWriter DEF WriterInv
<1> QED BY <1>2, <1>3, NextParts DEF WriterInv, vars

\* What is known at a settled instant is known for good, and the instant stays settled.
LEMMA SettledForGood ==
  ASSUME WriterInv, [Next]_vars, NEW asOf \in Nat, Settled(asOf)
  PROVE  Settled(asOf)' /\ Known(asOf)' = Known(asOf)
<1>1. /\ clock \in Nat /\ opened \in Int /\ opened <= clock /\ Closed \in Int
      /\ asOf < clock /\ (opened = Closed \/ opened > asOf)
  BY StoreAssumption, TypesByPart DEF WriterInv, StoreTypeOK, Time, Stamps, Closed, Settled
<1>2. Began \in Int /\ Began > asOf
  BY <1>1 DEF Began
<1>3. CASE UNCHANGED store
  BY <1>3 DEF store, Settled, Known
<1>4. CASE Receive \/ NoteRejected \/ Insert
  <2>1. UNCHANGED <<clock, observations>> /\ (opened' = opened \/ opened' = Began)
    BY <1>4 DEF Receive, NoteRejected, Insert
  <2> QED BY <1>1, <1>2, <2>1 DEF Settled, Known
<1>5. CASE CommitRows
  <2>1. \A o \in written : ~(o.created <= asOf)
    BY <1>1 DEF WriterInv, Stamps
  <2> QED BY <1>1, <1>5, <2>1 DEF CommitRows, Settled, Known
<1>6. CASE Rollback
  BY <1>1, <1>6 DEF Rollback, Settled, Known
<1>7. CASE Tick
  BY <1>1, <1>7 DEF Tick, writer, Settled, Known
<1> QED BY <1>3, <1>4, <1>5, <1>6, <1>7, NextParts DEF WriterInv, StoreNext, vars

-----------------------------------------------------------------------------
(* What one statement gives.                                                 *)

\* A row that was there at the instant.
Stored(o, asOf) == o \in Observation /\ o.fetched <= asOf /\ o.created <= asOf

OneOfEach(rows) == \A a, b \in rows : a.match = b.match => a = b

\* A set of latest rows has one row of each match.
LEMMA LatestRows ==
  ASSUME FiniteStore, NEW rows, rows \subseteq observations, NEW latest \in Latest(rows)
  PROVE  latest \subseteq rows /\ OneOfEach(latest)
<1>1. /\ latest \subseteq rows
      /\ \A o \in rows : Cardinality({l \in latest : l.match = o.match}) = 1
  BY DEF Latest
<1>2. ASSUME NEW a \in latest, NEW b \in latest, a.match = b.match PROVE a = b
  <2> DEFINE same == {l \in latest : l.match = a.match}
  <2>1. IsFiniteSet(same)
    BY <1>1, FS_Subset DEF FiniteStore
  <2>2. Cardinality(same) = 1 /\ a \in same /\ b \in same
    BY <1>1, <1>2
  <2> HIDE DEF same
  <2>3. PICK x : same = {x}
    BY <2>1, <2>2, FS_Singleton
  <2> QED BY <2>2, <2>3
<1> QED BY <1>1, <1>2 DEF OneOfEach

LEMMA KnownRows ==
  ASSUME StoreTypeOK, NEW asOf
  PROVE  Known(asOf) \subseteq observations /\ \A o \in Known(asOf) : Stored(o, asOf)
BY DEF Known, Stored, StoreTypeOK

\* What may be a target of a route.
IsTarget(o, route, asOf) ==
  /\ Stored(o, asOf)
  /\ route # "analysis" => o.report.kickoff > asOf /\ o.report.status = "scheduled"

LEMMA AnalysisTargets ==
  ASSUME WriterInv, NEW match, NEW asOf, NEW targets \in TargetRows(match, asOf)
  PROVE  OneOfEach(targets) /\ \A o \in targets : IsTarget(o, "analysis", asOf)
<1> DEFINE rows == {o \in Known(asOf) : o.match = match}
<1>1. rows \subseteq observations /\ \A o \in rows : Stored(o, asOf)
  BY KnownRows, TypesByPart DEF WriterInv
<1>2. targets \in Latest(rows)
  BY DEF TargetRows
<1> HIDE DEF rows
<1> QED BY <1>1, <1>2, LatestRows DEF WriterInv, IsTarget

LEMMA DayTargets ==
  ASSUME WriterInv, NEW asOf, NEW targets \in DayRows(asOf), NEW route
  PROVE  OneOfEach(targets) /\ \A o \in targets : IsTarget(o, route, asOf)
<1> DEFINE rows == {o \in Known(asOf) : o.report.kickoff \in Day}
<1>1. rows \subseteq observations /\ \A o \in rows : Stored(o, asOf)
  BY KnownRows, TypesByPart DEF WriterInv
<1>2. PICK latest \in Latest(rows) :
        targets = FirstRows({o \in latest : o.report.kickoff > asOf
                                            /\ o.report.status = "scheduled"},
                            MaxTargets, Earlier)
  BY DEF DayRows
<1>3. \A o \in targets : o \in latest /\ o.report.kickoff > asOf /\ o.report.status = "scheduled"
  BY <1>2 DEF FirstRows
<1> HIDE DEF rows
<1>4. latest \subseteq rows /\ OneOfEach(latest)
  BY <1>1, LatestRows DEF WriterInv
<1> QED BY <1>1, <1>3, <1>4 DEF OneOfEach, IsTarget

\* The target whose turn it is is one.
LEMMA OneIsNext ==
  ASSUME NEW targets, OneOfEach(targets), \A o \in targets : o \in Observation,
         NEW a, IsNext(a, targets), NEW b, IsNext(b, targets)
  PROVE  a = b
<1>1. a \in targets /\ b \in targets /\ ~Earlier(a, b) /\ ~Earlier(b, a)
  BY DEF IsNext
<1>2. /\ a.match \in Nat /\ b.match \in Nat
      /\ a.report.kickoff \in Nat /\ b.report.kickoff \in Nat
  BY <1>1, RoutesAssumption DEF Observation, Report
<1>3. a.match = b.match
  BY <1>1, <1>2 DEF Earlier
<1> QED BY <1>1, <1>3 DEF OneOfEach

\* The rows of a history are those of matches played, of those teams, by the instant.
IsHistory(rows, teams, target, asOf) ==
  /\ rows \subseteq Observation
  /\ \A o \in rows :
       /\ Stored(o, asOf)
       /\ o.match # target.match
       /\ Played(o, target, asOf)
       /\ Plays(teams, o.match)

LEMMA HistoryIsSound ==
  ASSUME StoreTypeOK, NEW teams, NEW target, NEW asOf,
         NEW rows \in HistoryRows(teams, target, asOf)
  PROVE  IsHistory(rows, teams, target, asOf)
<1> DEFINE limit == IF Cardinality(teams) = 1 THEN HistoryLimit ELSE MeetingsLimit
           about == {o \in Known(asOf) : o.match \in PlayedMatches(teams, target, asOf)}
<1>1. PICK latest \in Latest(about) :
        rows = FirstRows({o \in latest : StillPlayed(o, target, asOf)}, limit, Later)
  BY DEF HistoryRows
<1>2. \A o \in rows : o \in latest /\ StillPlayed(o, target, asOf)
  BY <1>1 DEF FirstRows
<1>3. latest \subseteq about
  BY DEF Latest
<1>4. \A o \in about : Stored(o, asOf) /\ Plays(teams, o.match)
  BY KnownRows DEF PlayedMatches
<1> HIDE DEF about
<1> QED BY <1>2, <1>3, <1>4 DEF IsHistory, StillPlayed, Stored

\* Reading again gives the same, while the same is known.
LEMMA SameKnown ==
  ASSUME NEW asOf, Known(asOf)' = Known(asOf), NEW teams, NEW target
  PROVE  HistoryRows(teams, target, asOf)' = HistoryRows(teams, target, asOf)
BY DEF HistoryRows, PlayedMatches, Latest, Ranked, FirstRows, StillPlayed, Played, Plays, Later,
       Earlier, Newer

-----------------------------------------------------------------------------
(* What a request has read.                                                  *)

\* A history as it was read; one of a settled instant can be read again.
Fits(rows, teams, target, asOf, settled) ==
  /\ IsHistory(rows, teams, target, asOf)
  /\ settled => rows \in HistoryRows(teams, target, asOf)

DatasetFits(dataset, route, asOf, settled) ==
  /\ IsTarget(dataset.target, route, asOf)
  /\ DOMAIN dataset.histories = 1..3
  /\ \A i \in 1..3 :
       Fits(dataset.histories[i], Histories(dataset.target)[i], dataset.target, asOf, settled)

\* The parts are histories of the target whose turn it is.
ReadingFits(q) ==
  /\ q.settled => Settled(q.asOf)
  /\ OneOfEach(q.targets)
  /\ \A target \in q.targets : IsTarget(target, q.route, q.asOf)
  /\ q.parts \in Seq(SUBSET Observation) /\ Len(q.parts) < 3
  /\ \A target : IsNext(target, q.targets) =>
       \A i \in 1..Len(q.parts) :
         Fits(q.parts[i], Histories(target)[i], target, q.asOf, q.settled)
  /\ \A dataset \in q.datasets : DatasetFits(dataset, q.route, q.asOf, q.settled)

AnswerFits(q) ==
  /\ q.body.asOf \in Nat
  /\ q.body.settled => Settled(q.body.asOf)
  /\ \A dataset \in q.body.datasets :
       DatasetFits(dataset, q.route, q.body.asOf, q.body.settled)

RequestFits(q) ==
  /\ q.phase = "reading" => q.asOf \in Nat /\ ReadingFits(q)
  /\ q.phase = "answered" /\ q.body.kind = "read" => AnswerFits(q)

ReadsInv == WriterInv /\ \A r \in Requests : RequestFits(requests[r])

\* What was read fits for good.
LEMMA FitsForGood ==
  ASSUME WriterInv, [Next]_vars, NEW q, RequestFits(q)
  PROVE  RequestFits(q)'
<1>1. ASSUME NEW asOf \in Nat, NEW settled, settled => Settled(asOf)
      PROVE  /\ settled => Settled(asOf)'
             /\ \A rows, teams, target :
                  Fits(rows, teams, target, asOf, settled)
                    => Fits(rows, teams, target, asOf, settled)'
             /\ \A dataset, route :
                  DatasetFits(dataset, route, asOf, settled)
                    => DatasetFits(dataset, route, asOf, settled)'
  <2>1. settled => Settled(asOf)' /\ Known(asOf)' = Known(asOf)
    BY <1>1, SettledForGood
  <2>2. ASSUME NEW rows, NEW teams, NEW target, Fits(rows, teams, target, asOf, settled)
        PROVE  Fits(rows, teams, target, asOf, settled)'
    <3>1. settled => HistoryRows(teams, target, asOf)' = HistoryRows(teams, target, asOf)
      BY <2>1, SameKnown
    <3>2. IsHistory(rows, teams, target, asOf)' = IsHistory(rows, teams, target, asOf)
      OBVIOUS
    <3> QED BY <2>2, <3>1 DEF Fits
  <2>3. ASSUME NEW dataset, NEW route, DatasetFits(dataset, route, asOf, settled)
        PROVE  DatasetFits(dataset, route, asOf, settled)'
    BY <2>2, <2>3 DEF DatasetFits
  <2> QED BY <2>1, <2>2, <2>3
<1>2. CASE q.phase = "reading"
  <2>1. q.asOf \in Nat /\ ReadingFits(q)
    BY <1>2 DEF RequestFits
  <2>2. PICK asOf, settled : asOf \in Nat /\ asOf = q.asOf /\ settled = q.settled
    BY <2>1
  <2>3. settled => Settled(asOf)
    BY <2>1, <2>2 DEF ReadingFits
  <2>4. ReadingFits(q)'
    BY <1>1, <2>1, <2>2, <2>3 DEF ReadingFits
  <2> QED BY <1>2, <2>1, <2>4 DEF RequestFits
<1>3. CASE q.phase = "answered" /\ q.body.kind = "read"
  <2>1. AnswerFits(q)
    BY <1>3 DEF RequestFits
  <2>2. PICK asOf, settled : asOf \in Nat /\ asOf = q.body.asOf /\ settled = q.body.settled
    BY <2>1 DEF AnswerFits
  <2>3. settled => Settled(asOf)
    BY <2>1, <2>2 DEF AnswerFits
  <2>4. AnswerFits(q)'
    BY <1>1, <2>1, <2>2, <2>3 DEF AnswerFits
  <2> QED BY <1>3, <2>4 DEF RequestFits
<1> QED BY <1>2, <1>3 DEF RequestFits

\* The first statement.
LEMMA TargetsFit ==
  ASSUME ReadsInv, NEW r \in Requests, ReadTargets(r)
  PROVE  \E state : Becomes(r, state) /\ RequestFits(state)
<1> DEFINE q == requests[r]
<1>1. /\ q.phase = "admitted" /\ q.route \in {"analysis", "suggestions", "opportunities"}
      /\ q.asOf \in Nat
  <2>1. TypedRequest(q) /\ q.phase = "admitted"
    BY TypesByPart DEF ReadTargets, ReadsInv, WriterInv
  <2> QED BY <2>1, StoreAssumption DEF ReadTargets, TypedRequest, Idle, Time
<1>2. PICK targets \in IF q.route = "analysis"
                       THEN UNION {TargetRows(match, q.asOf) : match \in Matches}
                       ELSE DayRows(q.asOf) :
        IF q.route = "analysis" /\ targets = {} THEN End(r, "not_found", NoBody)
        ELSE Becomes(r, Reading(q.route, q.asOf, Settled(q.asOf), targets))
  BY DEF ReadTargets
<1>3. OneOfEach(targets) /\ \A o \in targets : IsTarget(o, q.route, q.asOf)
  <2>1. CASE q.route = "analysis"
    <3>1. PICK match : targets \in TargetRows(match, q.asOf)
      BY <1>2, <2>1
    <3> QED BY <2>1, <3>1, AnalysisTargets DEF ReadsInv
  <2>2. CASE q.route # "analysis"
    BY <1>2, <2>2, DayTargets DEF ReadsInv
  <2> QED BY <2>1, <2>2
<1>4. CASE End(r, "not_found", NoBody)
  BY <1>4 DEF End, Answered, NoBody, RequestFits
<1>5. CASE Becomes(r, Reading(q.route, q.asOf, Settled(q.asOf), targets))
  <2> DEFINE state == Reading(q.route, q.asOf, Settled(q.asOf), targets)
  <2>1. /\ state.phase = "reading" /\ state.route = q.route /\ state.asOf = q.asOf
        /\ state.settled = Settled(q.asOf) /\ state.targets = targets
        /\ state.parts = <<>> /\ state.datasets = {}
    BY DEF Reading
  <2> HIDE DEF state
  <2>2. ReadingFits(state)
    BY <1>3, <2>1 DEF ReadingFits
  <2> QED BY <1>1, <1>5, <2>1, <2>2 DEF RequestFits, state
<1> QED BY <1>2, <1>4, <1>5

\* A statement on a history.
LEMMA HistoryFits ==
  ASSUME ReadsInv, NEW r \in Requests, ReadHistory(r)
  PROVE  \E state : Becomes(r, state) /\ RequestFits(state)
<1> DEFINE q == requests[r]
<1>1. q.phase = "reading" /\ q.asOf \in Nat /\ ReadingFits(q)
  BY DEF ReadHistory, ReadsInv, RequestFits
<1>0. DOMAIN q = {"phase", "route", "asOf", "settled", "targets", "parts", "datasets"}
  BY <1>1, ReadingFields DEF ReadsInv, WriterInv
<1>2. PICK target \in q.targets :
        \E rows \in HistoryRows(Histories(target)[Len(q.parts) + 1], target, q.asOf) :
          LET parts == Append(q.parts, rows)
              dataset == [target |-> target, histories |-> parts]
          IN  /\ IsNext(target, q.targets)
              /\ Becomes(r, IF Len(parts) = Len(Histories(target))
                            THEN [q EXCEPT !.targets = @ \ {target}, !.parts = <<>>,
                                           !.datasets = @ \cup {dataset}]
                            ELSE [q EXCEPT !.parts = parts])
  BY DEF ReadHistory
<1>3. PICK rows \in HistoryRows(Histories(target)[Len(q.parts) + 1], target, q.asOf) :
        LET parts == Append(q.parts, rows)
            dataset == [target |-> target, histories |-> parts]
        IN  /\ IsNext(target, q.targets)
            /\ Becomes(r, IF Len(parts) = Len(Histories(target))
                          THEN [q EXCEPT !.targets = @ \ {target}, !.parts = <<>>,
                                         !.datasets = @ \cup {dataset}]
                          ELSE [q EXCEPT !.parts = parts])
  BY <1>2
<1> DEFINE parts == Append(q.parts, rows)
           dataset == [target |-> target, histories |-> parts]
           done == [q EXCEPT !.targets = @ \ {target}, !.parts = <<>>,
                             !.datasets = @ \cup {dataset}]
           more == [q EXCEPT !.parts = parts]
<1>4. Len(Histories(target)) = 3
  BY DEF Histories
<1>5. /\ IsNext(target, q.targets)
      /\ Becomes(r, IF Len(parts) = 3 THEN done ELSE more)
  BY <1>3, <1>4
<1>6. Fits(rows, Histories(target)[Len(q.parts) + 1], target, q.asOf, q.settled)
  BY HistoryIsSound, TypesByPart DEF Fits, ReadsInv, WriterInv
<1>7. /\ rows \in SUBSET Observation
      /\ q.parts \in Seq(SUBSET Observation) /\ Len(q.parts) \in Nat /\ Len(q.parts) < 3
  BY <1>1, <1>6 DEF Fits, IsHistory, ReadingFits
<1>8. /\ parts \in Seq(SUBSET Observation) /\ Len(parts) = Len(q.parts) + 1
      /\ parts[Len(q.parts) + 1] = rows
      /\ \A i \in 1..Len(q.parts) : parts[i] = q.parts[i]
      /\ DOMAIN parts = 1..Len(parts)
  BY <1>7
<1> HIDE DEF parts, q
<1>9. \A i \in 1..Len(parts) : Fits(parts[i], Histories(target)[i], target, q.asOf, q.settled)
  <2> SUFFICES ASSUME NEW i \in 1..Len(parts)
               PROVE  Fits(parts[i], Histories(target)[i], target, q.asOf, q.settled)
    OBVIOUS
  <2>1. i \in 1..Len(q.parts) \/ i = Len(q.parts) + 1
    BY <1>7, <1>8
  <2>2. CASE i \in 1..Len(q.parts)
    BY <1>1, <1>5, <1>8, <2>2 DEF ReadingFits
  <2>3. CASE i = Len(q.parts) + 1
    BY <1>6, <1>8, <2>3
  <2> QED BY <2>1, <2>2, <2>3
<1>10. OneOfEach(q.targets) /\ \A o \in q.targets : o \in Observation
  BY <1>1 DEF ReadingFits, IsTarget, Stored
<1>11. CASE Len(parts) = 3
  <2>1. DatasetFits(dataset, q.route, q.asOf, q.settled)
    <3>1. dataset.target = target /\ dataset.histories = parts
      OBVIOUS
    <3>2. IsTarget(target, q.route, q.asOf)
      BY <1>1, <1>2 DEF ReadingFits, q
    <3> HIDE DEF dataset
    <3> QED BY <1>8, <1>9, <1>11, <3>1, <3>2 DEF DatasetFits
  <2> HIDE DEF dataset
  <2> SUFFICES RequestFits(done)
    BY <1>5, <1>11
  <2>2. PICK state : state = done
    OBVIOUS
  <2>3. /\ state.phase = "reading" /\ state.route = q.route /\ state.asOf = q.asOf
        /\ state.settled = q.settled
    BY <1>0, <1>1, <2>2
  <2>4. state.targets = q.targets \ {target} /\ state.parts = <<>>
    BY <1>0, <2>2
  <2>5. state.datasets = q.datasets \cup {dataset}
    BY <1>0, <2>2
  <2>6. OneOfEach(state.targets) /\ \A t \in state.targets : IsTarget(t, state.route, state.asOf)
    BY <1>1, <1>10, <2>3, <2>4 DEF OneOfEach, ReadingFits
  <2>7. \A d \in state.datasets : DatasetFits(d, state.route, state.asOf, state.settled)
    BY <1>1, <2>1, <2>3, <2>5 DEF ReadingFits
  <2>8. ReadingFits(state)
    BY <1>1, <2>3, <2>4, <2>6, <2>7 DEF ReadingFits
  <2> QED BY <1>1, <2>2, <2>3, <2>8 DEF RequestFits
<1>12. CASE Len(parts) # 3
  <2> SUFFICES RequestFits(more)
    BY <1>5, <1>12
  <2>2. PICK state : state = more
    OBVIOUS
  <2>3. /\ state.phase = "reading" /\ state.route = q.route /\ state.asOf = q.asOf
        /\ state.settled = q.settled /\ state.targets = q.targets
        /\ state.datasets = q.datasets
    BY <1>0, <1>1, <2>2
  <2>4. state.parts = parts
    BY <1>0, <2>2
  <2>5. Len(parts) < 3
    BY <1>7, <1>8, <1>12
  <2>6. ASSUME NEW t, IsNext(t, state.targets), NEW i \in 1..Len(state.parts)
        PROVE  Fits(state.parts[i], Histories(t)[i], t, state.asOf, state.settled)
    <3>1. t = target
      BY <1>5, <1>10, <2>3, <2>6, OneIsNext
    <3> QED BY <1>9, <2>3, <2>4, <2>6, <3>1
  <2>7. ReadingFits(state)
    BY <1>1, <1>8, <2>3, <2>4, <2>5, <2>6 DEF ReadingFits
  <2> QED BY <1>1, <2>2, <2>3, <2>7 DEF RequestFits
<1> QED BY <1>11, <1>12

\* An answer is made of what was read.
LEMMA AnswerMade ==
  ASSUME ReadsInv, NEW r \in Requests, Conclude(r)
  PROVE  \E state : Becomes(r, state) /\ RequestFits(state)
<1> DEFINE q == requests[r]
           body == [kind |-> "read", asOf |-> q.asOf, settled |-> q.settled,
                    datasets |-> q.datasets]
<1>1. q.asOf \in Nat /\ ReadingFits(q)
  BY DEF Conclude, ReadsInv, RequestFits
<1>2. PICK status : End(r, status, body)
  BY DEF Conclude
<1> DEFINE state == Answered(q.route, Pooled(q.route), status, body)
<1>3. /\ Becomes(r, state)
      /\ state.phase = "answered" /\ state.route = q.route /\ state.body = body
  BY <1>2 DEF End, Answered
<1>4. /\ state.body.asOf = q.asOf /\ state.body.settled = q.settled
      /\ state.body.datasets = q.datasets
  BY <1>3
<1> HIDE DEF state, body
<1>5. AnswerFits(state)
  BY <1>1, <1>3, <1>4 DEF AnswerFits, ReadingFits
<1> QED BY <1>3, <1>5 DEF RequestFits

\* Every other step of a thread has read nothing.
LEMMA StepFits ==
  ASSUME ReadsInv, NEW r \in Requests, Step(r)
  PROVE  \E state : Becomes(r, state) /\ RequestFits(state)
<1>1. ASSUME NEW status, NEW body, End(r, status, body), body.kind # "read"
      PROVE  \E state : Becomes(r, state) /\ RequestFits(state)
  <2> DEFINE state == Answered(requests[r].route, Pooled(requests[r].route), status, body)
  <2>1. Becomes(r, state) /\ state.phase = "answered" /\ state.body = body
    BY <1>1 DEF End, Answered
  <2> HIDE DEF state
  <2> QED BY <1>1, <2>1 DEF RequestFits
<1>2. NoBody.kind # "read" /\ \A seconds : Retry(seconds).kind # "read"
  BY DEF NoBody, Retry
<1>3. CASE RejectQuery(r) \/ Refuse(r) \/ LimiterFails(r) \/ RejectInstant(r) \/ Describe(r)
           \/ SessionFails(r)
  <2>1. \E status, body : End(r, status, body) /\ body.kind # "read"
    BY <1>2, <1>3 DEF RejectQuery, Refuse, LimiterFails, RejectInstant, Describe, SessionFails
  <2> QED BY <1>1, <2>1
<1>4. CASE Admit(r)
  <2>1. PICK asOf : Becomes(r, Admitted(requests[r].route, asOf))
    BY <1>4 DEF Admit
  <2> QED BY <2>1 DEF Admitted, RequestFits
<1>5. CASE Release(r)
  BY <1>5 DEF Release, Idle, RequestFits
<1> QED BY <1>3, <1>4, <1>5, TargetsFit, HistoryFits, AnswerMade DEF Step

LEMMA InitReads == Init => ReadsInv
BY InitWriter DEF Init, ReadsInv, RequestFits, Idle

LEMMA NextReads == ReadsInv /\ [Next]_vars => ReadsInv'
<1> SUFFICES ASSUME ReadsInv, [Next]_vars PROVE ReadsInv'
  OBVIOUS
<1>1. WriterInv'
  BY NextWriter DEF ReadsInv
<1>2. ASSUME NEW r \in Requests, NEW state, Becomes(r, state), RequestFits(state)
      PROVE  \A s \in Requests : RequestFits(requests[s])'
  <2> SUFFICES ASSUME NEW s \in Requests, NEW q, q = requests'[s] PROVE RequestFits(q)'
    BY DEF RequestFits, ReadingFits, AnswerFits
  <2>1. q = state \/ q = requests[s]
    BY <1>2, Becoming, TypesByPart DEF ReadsInv, WriterInv
  <2>2. RequestFits(q)
    BY <1>2, <2>1 DEF ReadsInv
  <2> QED BY <2>2, FitsForGood DEF ReadsInv
<1>3. CASE UNCHANGED api
  <2> SUFFICES ASSUME NEW s \in Requests, NEW q, q = requests'[s] PROVE RequestFits(q)'
    BY <1>1 DEF ReadsInv, RequestFits, ReadingFits, AnswerFits
  <2>1. RequestFits(q)
    BY <1>3 DEF ReadsInv, api
  <2> QED BY <2>1, FitsForGood DEF ReadsInv
<1>4. ASSUME NEW r \in Requests, Step(r) PROVE ReadsInv'
  BY <1>1, <1>2, <1>4, StepFits DEF ReadsInv
<1>5. ASSUME NEW r \in Requests, NEW route \in Routes, Arrive(r, route) PROVE ReadsInv'
  <2>1. PICK state : Becomes(r, state) /\ RequestFits(state)
    <3>1. RequestFits(Arrived(route))
      BY DEF Arrived, RequestFits
    <3>2. RequestFits(Answered(route, FALSE, "over_capacity", NoBody))
      BY DEF Answered, NoBody, RequestFits
    <3> QED BY <1>5, <3>1, <3>2 DEF Arrive
  <2> QED BY <1>1, <1>2, <2>1 DEF ReadsInv
<1> QED BY <1>3, <1>4, <1>5 DEF Next, vars

\* What was read passes the checks made of it.
LEMMA FitsPass ==
  ASSUME NEW dataset, NEW route, NEW asOf \in Nat, NEW settled,
         DatasetFits(dataset, route, asOf, settled)
  PROVE  LET verdict == Verdict(dataset, asOf)
         IN  /\ verdict = "temporal" => \E o \in Sources(dataset) : o.fetched > o.created
             /\ verdict = "integrity" => dataset.target.report.status # "scheduled"
             /\ route # "analysis" => verdict \in {"ok", "temporal"}
<1>1. /\ IsTarget(dataset.target, route, asOf)
      /\ DOMAIN dataset.histories = 1..3
      /\ \A i \in 1..3 :
           IsHistory(dataset.histories[i], Histories(dataset.target)[i], dataset.target, asOf)
  BY DEF DatasetFits, Fits
<1>2. \A o \in Sources(dataset) : Stored(o, asOf)
  BY <1>1 DEF Sources, IsTarget, IsHistory
<1>3. \A o \in Sources(dataset) \ {dataset.target} :
        /\ o.match # dataset.target.match
        /\ o.report.kickoff < asOf /\ o.report.kickoff \in Nat
  BY <1>1 DEF Sources, IsHistory, Played, Stored, Observation, Report
<1>4. \A o \in Sources(dataset) :
        /\ ~(o.fetched > asOf) /\ ~(o.created > asOf)
        /\ o.fetched \in Nat /\ o.created \in Nat
  BY <1>2, StoreAssumption DEF Stored, Observation, Time
<1>5. \A o \in Sources(dataset) \ {dataset.target} : ~(o.report.kickoff >= asOf)
  BY <1>3
<1>6. TemporalFault(dataset, asOf) => \E o \in Sources(dataset) : o.fetched > o.created
  BY <1>3, <1>4, <1>5 DEF TemporalFault
<1>7. IntegrityFault(dataset) => dataset.target.report.status # "scheduled"
  BY <1>1 DEF IntegrityFault, IsHistory, Played
<1>8. route # "analysis" => ~(asOf >= dataset.target.report.kickoff)
  <2>1. dataset.target.report.kickoff \in Nat
    BY <1>1 DEF IsTarget, Stored, Observation, Report
  <2> QED BY <1>1, <2>1 DEF IsTarget
<1>9. route # "analysis" => dataset.target.report.status = "scheduled"
  BY <1>1 DEF IsTarget
<1> QED BY <1>6, <1>7, <1>8, <1>9 DEF Verdict

\* What the statements of a request give, at whatever moments the writer commits between
\* them, passes the checks that are made of a dataset afterwards.
THEOREM ReadsPass == Spec => []ReadsPassTheirChecks
<1>1. Init => ReadsInv
  BY InitReads
<1>2. ReadsInv /\ [Next]_vars => ReadsInv'
  BY NextReads
<1>3. ReadsInv => ReadsPassTheirChecks
  BY FitsPass DEF ReadsInv, RequestFits, AnswerFits, ReadsPassTheirChecks, ReadAnswers
<1> QED BY <1>1, <1>2, <1>3, PTL DEF Spec

\* The histories of an instant that was settled when a request began to read are those that
\* are read again at any later moment.
THEOREM SettledReads == Spec => []SettledReadsAgree
<1>1. Init => ReadsInv
  BY InitReads
<1>2. ReadsInv /\ [Next]_vars => ReadsInv'
  BY NextReads
<1>3. ReadsInv => SettledReadsAgree
  <2> SUFFICES ASSUME ReadsInv, NEW r \in ReadAnswers, requests[r].body.settled,
                      NEW dataset \in requests[r].body.datasets,
                      NEW i \in DOMAIN dataset.histories
               PROVE  dataset.histories[i] \in
                        HistoryRows(Histories(dataset.target)[i], dataset.target,
                                    requests[r].body.asOf)
    BY DEF SettledReadsAgree
  <2>1. AnswerFits(requests[r])
    BY DEF ReadsInv, RequestFits, ReadAnswers
  <2>2. DatasetFits(dataset, requests[r].route, requests[r].body.asOf, requests[r].body.settled)
    BY <2>1 DEF AnswerFits
  <2> QED BY <2>2 DEF DatasetFits, Fits
<1> QED BY <1>1, <1>2, <1>3, PTL DEF Spec
===============================================================================
