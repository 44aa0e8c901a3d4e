----------------------------- MODULE KairosRoutes -----------------------------
(***************************************************************************)
(* The Kairos routes of one API process (apps/api/app/api/v1/routes/       *)
(* kairos.py) with the sliding window in Redis that counts the requests of *)
(* a client (rate_limit.py) and the reads of a dataset (repository.py),    *)
(* statement by statement, beside the writer of module ObservationStore.   *)
(*                                                                         *)
(* A request takes a place in the pool of its route, is counted by the     *)
(* limiter of its route, chooses the instant as_of it looks from, reads    *)
(* its targets and the histories of each, judges what it has read and      *)
(* gives its place back.  The requests are those of one client.  What is   *)
(* made of a dataset is the subject of module KairosAnswers.               *)
(***************************************************************************)
EXTENDS ObservationStore, Sequences, FiniteSetsExt

CONSTANTS
  Tables,          \* what earlier synchronisations may have left
  Teams,           \* [Matches -> pairs of teams]: who plays, the home team first
  Day,             \* the kickoffs of the business date asked for
  HistoryLimit,    \* recent_window * HISTORY_QUERY_MULTIPLIER
  MeetingsLimit,   \* MAX_H2H_MATCHES
  MaxTargets,      \* MAX_DAILY_TARGET_MATCHES
  Requests,        \* the threads that may be busy with a request at once
  Routes,          \* the routes called
  Pool,            \* [Routes -> pools]: the semaphore of a route
  Places,          \* [pools -> Nat]: MAX_CONCURRENT_...
  Limit,           \* [Routes -> Nat]: requests of a client in a window
  WindowSeconds,   \* RATE_LIMIT_WINDOW_SECONDS
  TicksPerSecond,  \* the resolution of Redis' clock
  MaxCalls,        \* bound: requests that arrive while the writer rests
  MaxBusyCalls     \* bound: requests that arrive while it is at work

Pools == {Pool[route] : route \in Routes}
Window == WindowSeconds * TicksPerSecond

ASSUME RoutesAssumption ==
  /\ Matches \subseteq Nat
  /\ \A rows \in Tables : rows \subseteq Observation /\ IsFiniteSet(rows)
  /\ Day \subseteq Nat
  /\ {HistoryLimit, MeetingsLimit, MaxTargets} \subseteq Nat
  /\ IsFiniteSet(Requests)
  /\ Routes \subseteq {"methodology", "suggestions", "opportunities", "performance", "analysis"}
  /\ Places \in [Pools -> Nat]
  /\ Limit \in [Routes -> Nat \ {0}]
  /\ {WindowSeconds, TicksPerSecond} \subseteq Nat \ {0}
  /\ MaxBusyCalls \in Nat
  /\ MaxCalls \in Nat
  /\ MaxBusyCalls <= MaxCalls

VARIABLES
  calls,     \* requests that have arrived
  entries,   \* the sorted set of each route: when its limiter counted a request, in order
  free,      \* places left in each pool
  requests   \* what each thread is at

api == <<calls, entries, free, requests>>
vars == <<store, api>>

-----------------------------------------------------------------------------
(* What a request is at.  Parts are the results of the statements on the     *)
(* histories of the first of its targets; datasets are complete.             *)

Idle == [phase |-> "idle"]
Arrived(route) == [phase |-> "arrived", route |-> route]
Admitted(route, asOf) == [phase |-> "admitted", route |-> route, asOf |-> asOf]
Reading(route, asOf, settled, targets) ==
  [phase |-> "reading", route |-> route, asOf |-> asOf, settled |-> settled,
   targets |-> targets, parts |-> <<>>, datasets |-> {}]
Answered(route, holds, status, body) ==
  [phase |-> "answered", route |-> route, holds |-> holds, status |-> status, body |-> body]
NoBody == [kind |-> "none"]
Retry(seconds) == [kind |-> "retry", at |-> clock, seconds |-> seconds]

Statuses ==
  {"ok", "invalid", "over_capacity", "over_limit", "limiter_unavailable", "unavailable",
   "not_found", "closed", "temporal", "integrity"}

TypeOK ==
  /\ StoreTypeOK
  /\ calls \in 0..MaxCalls
  /\ entries \in [Routes -> Seq(Time)]
  /\ free \in [Pools -> Nat]
  /\ DOMAIN requests = Requests
  /\ \A r \in Requests :
       \/ requests[r] = Idle
       \/ /\ requests[r].phase \in {"arrived", "admitted", "reading", "answered"}
          /\ requests[r].route \in Routes
          /\ requests[r].phase \in {"admitted", "reading"} => requests[r].asOf \in Time
          /\ requests[r].phase = "reading" =>
               DOMAIN requests[r] =
                 {"phase", "route", "asOf", "settled", "targets", "parts", "datasets"}
          /\ requests[r].phase = "answered" =>
               requests[r].holds \in BOOLEAN /\ requests[r].status \in Statuses

Init ==
  /\ observations \in Tables
  /\ clock = Max({0} \cup {o.created : o \in observations})
  /\ answers = {}
  /\ opened = Closed
  /\ written = {}
  /\ calls = 0
  /\ entries = [route \in Routes |-> <<>>]
  /\ free = Places
  /\ requests = [r \in Requests |-> Idle]

-----------------------------------------------------------------------------
(* Capacity and limiter.                                                     *)

\* A route without a pool of its own takes no place: methodology.
Pooled(route) == route # "methodology"

\* The requests that hold a place of a pool.
Holding(pool) ==
  {r \in Requests :
     /\ requests[r].phase # "idle"
     /\ Pooled(requests[r].route)
     /\ Pool[requests[r].route] = pool
     /\ requests[r].phase = "answered" => requests[r].holds}

Becomes(r, state) == requests' = [requests EXCEPT ![r] = state]

\* The request is answered; its place comes back after that.
End(r, status, body) ==
  Becomes(r, Answered(requests[r].route, Pooled(requests[r].route), status, body))

\* The writer has begun something, or changed the table.
Busy == answers # {} \/ opened # Closed \/ observations \notin Tables

\* Variant for mutation: a place more than there are.
PlaceBeyond(pool) == free[pool] >= 0

HasPlace(pool) == free[pool] > 0

\* The capacity dependency, which does not wait.
Arrive(r, route) ==
  /\ requests[r] = Idle
  /\ calls < IF Busy THEN MaxBusyCalls ELSE MaxCalls
  /\ calls' = calls + 1
  /\ \/ /\ ~Pooled(route)
        /\ Becomes(r, Arrived(route))
        /\ UNCHANGED free
     \/ /\ Pooled(route)
        /\ HasPlace(Pool[route])
        /\ Becomes(r, Arrived(route))
        /\ free' = [free EXCEPT ![Pool[route]] = @ - 1]
     \/ /\ Pooled(route)
        /\ ~HasPlace(Pool[route])
        /\ Becomes(r, Answered(route, FALSE, "over_capacity", NoBody))
        /\ UNCHANGED free
  /\ UNCHANGED <<store, entries>>

\* _validate_query_parameters, before the limiter is asked.
RejectQuery(r) ==
  /\ requests[r].phase = "arrived"
  /\ End(r, "invalid", NoBody)
  /\ UNCHANGED <<store, calls, entries, free>>

\* Variant for mutation: a window one tick short.
LateCutoff(route) == {i \in DOMAIN entries[route] : entries[route][i] > clock - Window + 1}

\* The entries that ZREMRANGEBYSCORE leaves.  The others, which the script removes, and the
\* key's expiry removes too, are kept here as the history of the route.
Live(route) == {i \in DOMAIN entries[route] : entries[route][i] > clock - Window}

Counted(route) == entries' = [entries EXCEPT ![route] = Append(@, clock)]

\* Variant for mutation: what remains of a second is not waited for.
WholeSeconds(ticks) == Max({1, Min({WindowSeconds, ticks \div TicksPerSecond})})

\* retry_after, of the ticks the script answers.
RetrySeconds(ticks) ==
  Max({1, Min({WindowSeconds, (ticks + TicksPerSecond - 1) \div TicksPerSecond})})

\* The instants a route may look from: now, or what the caller of analysis asks for.
Instants(route) == IF route = "analysis" THEN 0..clock ELSE {clock}

\* The limiter admits the request.
Admit(r) ==
  LET route == requests[r].route
  IN  /\ requests[r].phase = "arrived"
      /\ Cardinality(Live(route)) < Limit[route]
      /\ Counted(route)
      /\ \E asOf \in Instants(route) : Becomes(r, Admitted(route, asOf))
      /\ UNCHANGED <<store, calls, free>>

\* The limiter refuses it, and says when its oldest entry will be out of the window.
Refuse(r) ==
  LET route == requests[r].route
      oldest == entries[route][Min(Live(route))]
  IN  /\ requests[r].phase = "arrived"
      /\ Cardinality(Live(route)) >= Limit[route]
      /\ End(r, "over_limit", Retry(RetrySeconds(Max({1, Window - (clock - oldest)}))))
      /\ UNCHANGED <<store, calls, entries, free>>

\* Redis cannot be asked, or its answer is lost: the request may have been counted.
LimiterFails(r) ==
  LET route == requests[r].route
  IN  /\ requests[r].phase = "arrived"
      /\ \/ UNCHANGED entries
         \/ Cardinality(Live(route)) < Limit[route] /\ Counted(route)
      /\ End(r, "limiter_unavailable", NoBody)
      /\ UNCHANGED <<store, calls, free>>

\* An as_of without a time zone, in the future or out of range.
RejectInstant(r) ==
  /\ requests[r].phase = "admitted"
  /\ requests[r].route = "analysis"
  /\ End(r, "invalid", NoBody)
  /\ UNCHANGED <<store, calls, entries, free>>

\* methodology and performance read nothing of the store.
Describe(r) ==
  /\ requests[r].phase = "admitted"
  /\ requests[r].route \in {"methodology", "performance"}
  /\ End(r, "ok", NoBody)
  /\ UNCHANGED <<store, calls, entries, free>>

\* No session can be had, a statement fails or times out, or the session cannot be closed.
SessionFails(r) ==
  /\ requests[r].phase \in {"admitted", "reading"}
  /\ requests[r].route # "methodology"
  /\ End(r, "unavailable", NoBody)
  /\ UNCHANGED <<store, calls, entries, free>>

-----------------------------------------------------------------------------
(* Reads.  Each statement sees what is committed when it is executed.        *)

\* No transaction that began by the instant is open, and none can begin any more.
Settled(asOf) == asOf < clock /\ (opened = Closed \/ opened > asOf)

\* The first rows by Before, as many as there is room for.
FirstRows(rows, limit, Before(_, _)) ==
  {o \in rows : Cardinality({p \in rows : Before(p, o)}) < limit}

Earlier(a, b) ==
  \/ a.report.kickoff < b.report.kickoff
  \/ a.report.kickoff = b.report.kickoff /\ a.match < b.match
Later(a, b) == Earlier(b, a)

\* _match_as_of: the row of a match, if there is one.
TargetRows(match, asOf) == Latest({o \in Known(asOf) : o.match = match})

\* list_target_matches_as_of: the rows of the date are ranked among themselves.
DayRows(asOf) ==
  {FirstRows({o \in latest : o.report.kickoff > asOf /\ o.report.status = "scheduled"},
             MaxTargets, Earlier) :
     latest \in Latest({o \in Known(asOf) : o.report.kickoff \in Day})}

\* A match played before the target, and before the instant.
Played(o, target, asOf) ==
  /\ o.report.status = "completed"
  /\ o.report.kickoff < asOf
  /\ o.report.kickoff < target.report.kickoff

Plays(teams, match) == \A team \in teams : team \in {Teams[match][1], Teams[match][2]}

\* The histories of a target: that of each team, and the matches between the two.
Histories(target) ==
  LET home == Teams[target.match][1]
      away == Teams[target.match][2]
  IN  <<{home}, {away}, {home, away}>>

\* The matches of teams that some observation says were played.
PlayedMatches(teams, target, asOf) ==
  {o.match : o \in {p \in Known(asOf) : Plays(teams, p.match) /\ Played(p, target, asOf)}}

\* Variant for mutation: a match that was completed once is history for good.
EverPlayed(o, target, asOf) == o.match # target.match

\* What the latest observation of such a match must say.
StillPlayed(o, target, asOf) == o.match # target.match /\ Played(o, target, asOf)

\* _team_history, _h2h_history: the latest observations of those matches, the last played
\* first.
HistoryRows(teams, target, asOf) ==
  LET limit == IF Cardinality(teams) = 1 THEN HistoryLimit ELSE MeetingsLimit
  IN  {FirstRows({o \in latest : StillPlayed(o, target, asOf)}, limit, Later) :
         latest \in Latest({o \in Known(asOf) :
                             o.match \in PlayedMatches(teams, target, asOf)})}

\* The first statement: the rows of the targets.
ReadTargets(r) ==
  LET route == requests[r].route
      asOf == requests[r].asOf
      analysis == route = "analysis"
  IN  /\ requests[r].phase = "admitted"
      /\ route \in {"analysis", "suggestions", "opportunities"}
      /\ \E targets \in IF analysis THEN UNION {TargetRows(match, asOf) : match \in Matches}
                         ELSE DayRows(asOf) :
           IF analysis /\ targets = {} THEN End(r, "not_found", NoBody)
           ELSE Becomes(r, Reading(route, asOf, Settled(asOf), targets))
      /\ UNCHANGED <<store, calls, entries, free>>

\* The target whose turn it is.
IsNext(target, targets) == target \in targets /\ ~\E t \in targets : Earlier(t, target)

\* A statement on one history of that target; the last one completes its dataset.
ReadHistory(r) ==
  LET q == requests[r]
  IN  /\ q.phase = "reading"
      /\ \E target \in q.targets :
         \E rows \in HistoryRows(Histories(target)[Len(q.parts) + 1], target, q.asOf) :
           LET parts == Append(q.parts, rows)
               dataset == [target |-> target, histories |-> parts]
           IN  /\ IsNext(target, q.targets)
               /\ Becomes(r, IF Len(parts) = Len(Histories(target))
                             THEN [q EXCEPT !.targets = @ \ {target}, !.parts = <<>>,
                                            !.datasets = @ \cup {dataset}]
                             ELSE [q EXCEPT !.parts = parts])
      /\ UNCHANGED <<store, calls, entries, free>>

\* The rows a dataset rests on.
Sources(dataset) ==
  {dataset.target} \cup UNION {dataset.histories[i] : i \in DOMAIN dataset.histories}

\* validate_temporal_integrity.
TemporalFault(dataset, asOf) ==
  \/ \E o \in Sources(dataset) \ {dataset.target} :
       o.match = dataset.target.match \/ o.report.kickoff >= asOf
  \/ \E o \in Sources(dataset) :
       o.fetched > asOf \/ o.created > asOf \/ o.fetched > o.created

\* validate_data_integrity, and the status of the target.
IntegrityFault(dataset) ==
  \/ \E i \in DOMAIN dataset.histories : \E o \in dataset.histories[i] :
       \/ o.report.status # "completed"
       \/ ~Plays(Histories(dataset.target)[i], o.match)
  \/ dataset.target.report.status # "scheduled"

\* What KairosAnalysisService.analyze makes of a dataset, in the order of its checks.
Verdict(dataset, asOf) ==
  IF asOf >= dataset.target.report.kickoff THEN "closed"
  ELSE IF TemporalFault(dataset, asOf) THEN "temporal"
  ELSE IF IntegrityFault(dataset) THEN "integrity" ELSE "ok"

\* Everything is read and the session is closed: a list is answered whatever it skips, an
\* analysis as its dataset deserves.
Conclude(r) ==
  LET q == requests[r]
      body == [kind |-> "read", asOf |-> q.asOf, settled |-> q.settled, datasets |-> q.datasets]
  IN  /\ q.phase = "reading"
      /\ q.targets = {}
      /\ \/ /\ q.route = "analysis"
            /\ \E dataset \in q.datasets : End(r, Verdict(dataset, q.asOf), body)
         \/ /\ q.route # "analysis"
            /\ End(r, "ok", body)
      /\ UNCHANGED <<store, calls, entries, free>>

\* Variant for mutation: the place comes back only with an answer that says something.
ReleaseAfterSuccess(r) ==
  /\ requests[r].phase = "answered"
  /\ free' = [free EXCEPT ![Pool[requests[r].route]] =
                IF requests[r].holds /\ requests[r].status = "ok" THEN @ + 1 ELSE @]
  /\ Becomes(r, Idle)
  /\ UNCHANGED <<store, calls, entries>>

\* The finally of the capacity dependency.
Release(r) ==
  /\ requests[r].phase = "answered"
  /\ free' = [free EXCEPT ![Pool[requests[r].route]] =
                IF requests[r].holds THEN @ + 1 ELSE @]
  /\ Becomes(r, Idle)
  /\ UNCHANGED <<store, calls, entries>>

Step(r) ==
  \/ RejectQuery(r) \/ Admit(r) \/ Refuse(r) \/ LimiterFails(r)
  \/ RejectInstant(r) \/ Describe(r) \/ SessionFails(r)
  \/ ReadTargets(r) \/ ReadHistory(r) \/ Conclude(r)
  \/ Release(r)

Next ==
  \/ \E r \in Requests : Step(r) \/ \E route \in Routes : Arrive(r, route)
  \/ calls <= MaxBusyCalls /\ StoreNext /\ UNCHANGED api
  \/ Tick /\ UNCHANGED api

Spec == Init /\ [][Next]_vars

-----------------------------------------------------------------------------
(* Properties.                                                               *)

\* A place of a pool is free or held by a request, whatever became of those before it.
PlacesAreConserved ==
  \A pool \in Pools : free[pool] + Cardinality(Holding(pool)) = Places[pool]

\* Whatever the interleaving of the threads, no window holds more requests of a client than
\* the limit of the route, those counted whose answer was lost included.
AdmittedWithinLimit ==
  \A route \in Routes : \A last \in DOMAIN entries[route] :
    Cardinality({i \in 1..last : entries[route][i] > entries[route][last] - Window})
      <= Limit[route]

\* Who waits for the seconds announced finds room, if nobody else has taken it; with a
\* second less there would have been none.
RetryAfterIsHonest ==
  \A r \in Requests :
    requests[r].phase = "answered" /\ requests[r].body.kind = "retry" =>
      LET route == requests[r].route
          refusal == requests[r].body
          left(seconds) ==
            {i \in DOMAIN entries[route] :
               /\ entries[route][i] <= refusal.at
               /\ entries[route][i] > refusal.at + seconds * TicksPerSecond - Window}
      IN  /\ Cardinality(left(refusal.seconds)) < Limit[route]
          /\ Cardinality(left(refusal.seconds - 1)) >= Limit[route]

\* The answers that rest on the store.
ReadAnswers == {r \in Requests : requests[r].phase = "answered" /\ requests[r].body.kind = "read"}

\* What is read passes its own checks: a dataset is refused only for a target that is not to
\* come any more, or for a row of the store whose times are not in order.
ReadsPassTheirChecks ==
  \A r \in ReadAnswers : \A dataset \in requests[r].body.datasets :
    LET verdict == Verdict(dataset, requests[r].body.asOf)
    IN  /\ verdict = "temporal" => \E o \in Sources(dataset) : o.fetched > o.created
        /\ verdict = "integrity" => dataset.target.report.status # "scheduled"
        /\ requests[r].route # "analysis" => verdict \in {"ok", "temporal"}

\* "Read-only access to B1 observations for one reproducible analysis": if the instant was
\* settled at the first statement, the histories of an answer are those that reading again
\* gives, now and ever after, however many statements and commits lay between them.
SettledReadsAgree ==
  \A r \in ReadAnswers : requests[r].body.settled =>
    \A dataset \in requests[r].body.datasets :
      LET target == dataset.target
          asOf == requests[r].body.asOf
      IN  \A i \in DOMAIN dataset.histories :
            dataset.histories[i] \in HistoryRows(Histories(target)[i], target, asOf)

\* build_latest_as_of_subquery: "Return the latest locally persisted observation available at
\* as_of."  What a day lists would then be the latest of what is known of a match.
ListedAreLatest ==
  \A r \in ReadAnswers : requests[r].body.settled =>
    \A dataset \in requests[r].body.datasets :
      Ranked(dataset.target, Known(requests[r].body.asOf))
=============================================================================
