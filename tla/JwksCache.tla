----------------------------- MODULE JwksCache -----------------------------
(***************************************************************************)
(* The issuer registry cache of one isolate (storage/jwks.rs): a copy of   *)
(* the registry in KV with a soft and a stale time to live, a background   *)
(* refresh behind a flag, a circuit breaker, a hard limit on the age of    *)
(* what is served, and an epoch by which a push invalidation discards the  *)
(* refreshes in flight.                                                    *)
(*                                                                         *)
(* A refresh is one task from its start, when it notes the epoch, to its   *)
(* end; other lookups, refreshes and invalidations run while it awaits KV. *)
(* with_timeout ends it after FetchTime at the latest.                     *)
(*                                                                         *)
(* Clocks are ages: sinceRefresh is now - last_refresh, and likewise for   *)
(* the breaker and the tasks.  An age stops growing where no comparison    *)
(* can tell it from a greater one, so time passes without a bound.         *)
(*                                                                         *)
(* The data is described by two ghosts: its age, counted from the start of *)
(* the refresh that read it, and whether that start lies before or after   *)
(* the last invalidation.                                                  *)
(***************************************************************************)
EXTENDS Naturals, FiniteSets

CONSTANTS
    Issuer,        \* the registered issuers
    Lookup,        \* request handlers that look an issuer up
    Background,    \* slots of background refreshes (wait_until)
    CacheTtl, StaleTtl, HardMax,  \* CACHE_TTL_SECS, STALE_.., HARD_MAX_..
    MaxFailures, BreakerReset,    \* MAX_CONSECUTIVE_FAILURES, CIRCUIT_BREAKER_RESET_SECS
    FetchTime,     \* KV_LIST_TIMEOUT_MS + KV_READ_TIMEOUT_MS
    MaxEpoch,      \* bound on the number of invalidations
    Faults         \* "get": entries may be skipped; "stop": a background
                   \* refresh may be stopped by the runtime

VARIABLES
    held,          \* the issuers in the cache
    data,          \* [age, read] of the cached data
    sinceRefresh,  \* now - last_refresh
    breaker,       \* [state, failures, since]
    refreshing,    \* refresh_in_progress
    epoch,
    registry,      \* is the KV namespace "up" or "down"?
    task,          \* task[x]: the refresh that x runs
    answer         \* answer[l]: what lookup l last returned

Task == Lookup \cup Background

cacheVars == <<held, data, sinceRefresh>>
vars == <<cacheVars, breaker, refreshing, epoch, registry, task, answer>>

ASSUME TimeAssumption ==
    /\ CacheTtl \in Nat /\ StaleTtl \in Nat /\ HardMax \in Nat
    /\ FetchTime \in Nat /\ BreakerReset \in Nat /\ MaxFailures \in Nat \ {0}
    /\ CacheTtl <= StaleTtl /\ StaleTtl <= HardMax
    /\ FetchTime <= CacheTtl
ASSUME BoundAssumption == MaxEpoch \in Nat
ASSUME TaskAssumption == Lookup \cap Background = {}

\* last_refresh = 0: beyond every limit, also after FetchTime is taken off
Never == HardMax + FetchTime + 1
OldestData == HardMax + 2 * FetchTime + 1

Idle == [pc |-> "idle", age |-> 0, epoch |-> 0, read |-> "after"]
Fetching(x) == task[x].pc = "fetching"

Minus(a, b) == IF a > b THEN a - b ELSE 0     \* saturating_sub
Cap(a, limit) == IF a < limit THEN a ELSE limit
Grow(a, limit) == Cap(a + 1, limit)

-----------------------------------------------------------------------------
(* Circuit breaker *)

\* mutant: an open breaker never tries again
NeverAgain == breaker.state = "closed"

should_attempt == breaker.state = "closed" \/ breaker.since > BreakerReset

record_success == breaker' = [breaker EXCEPT !.state = "closed", !.failures = 0]

\* mutant: the count does not saturate
CountOn(age) ==
    breaker' = [state |-> IF breaker.failures + 1 >= MaxFailures THEN "open" ELSE breaker.state,
                failures |-> breaker.failures + 1,
                since |-> Cap(age, BreakerReset + 1)]

\* the failure is dated at the start of the attempt, age ago
record_failure(age) ==
    LET failures == Grow(breaker.failures, MaxFailures)
    IN  breaker' = [state |-> IF failures >= MaxFailures THEN "open" ELSE breaker.state,
                    failures |-> failures,
                    since |-> Cap(age, BreakerReset + 1)]

-----------------------------------------------------------------------------
(* Answers *)

Answer(status, d) == [status |-> status, age |-> d.age, read |-> d.read]
NoAnswer == Answer("none", [age |-> 0, read |-> "after"])

\* what the cache says of some issuer
FromCache(cached, d, missing) ==
    {Answer(IF i \in cached THEN "found" ELSE missing, d) : i \in Issuer}

\* mutant: the hard limit is left out
ServeAnyAge(age) == FromCache(held, data, "unavailable")

\* the refresh failed: serve what there is, up to the hard limit; the clock was
\* read when the lookup began, age ago
Degraded(age) ==
    IF Minus(sinceRefresh, age) > HardMax
    THEN {Answer("unavailable", data)}
    ELSE FromCache(held, data, "unavailable")

Reply(l, answers) == \E a \in answers : answer' = [answer EXCEPT ![l] = a]

-----------------------------------------------------------------------------
(* Refresh *)

\* mutant: only a background refresh clears the flag
finish_own_refresh(x) == refreshing' = IF x \in Background THEN "no" ELSE refreshing

finish_refresh(x) == refreshing' = "no"

\* refresh up to its first await
Start(x) ==
    task' = [task EXCEPT ![x] = [pc |-> "fetching", age |-> 0,
                                 epoch |-> epoch, read |-> "after"]]

\* mutant: no epoch guard
PublishAlways(x, entries) ==
    /\ held' = entries
    /\ data' = [age |-> task[x].age, read |-> task[x].read]
    /\ sinceRefresh' = 0

\* refresh after its last await: an invalidation since its start discards it
Publish(x, entries) ==
    IF task[x].epoch = epoch
    THEN /\ held' = entries
         /\ data' = [age |-> task[x].age, read |-> task[x].read]
         /\ sinceRefresh' = 0
    ELSE UNCHANGED cacheVars

\* the registry as fetch_from_kv returns it: an entry whose get fails is skipped
Entries == IF "get" \in Faults THEN SUBSET Issuer ELSE {Issuer}

\* The list and the gets of a refresh are done.
FetchOk(x) ==
    /\ Fetching(x)
    /\ registry = "up"
    /\ \E entries \in Entries : Publish(x, entries)
    /\ record_success
    /\ finish_refresh(x)
    /\ task' = [task EXCEPT ![x] = Idle]
    /\ IF x \in Lookup
       THEN Reply(x, FromCache(held', data', "not_found"))
       ELSE UNCHANGED answer
    /\ UNCHANGED <<epoch, registry>>

\* The list failed, timed out or was truncated.
FetchFailed(x) ==
    /\ Fetching(x)
    /\ registry = "down"
    /\ record_failure(task[x].age)
    /\ finish_refresh(x)
    /\ task' = [task EXCEPT ![x] = Idle]
    /\ IF x \in Lookup THEN Reply(x, Degraded(task[x].age)) ELSE UNCHANGED answer
    /\ UNCHANGED <<cacheVars, epoch, registry>>

\* The runtime ends a background task.  Its guard clears the flag only if the
\* future is dropped.
Stopped(b) ==
    /\ "stop" \in Faults
    /\ Fetching(b)
    /\ task' = [task EXCEPT ![b] = Idle]
    /\ refreshing' \in {"no", refreshing}
    /\ UNCHANGED <<cacheVars, breaker, epoch, registry, answer>>

-----------------------------------------------------------------------------
(* lookup_issuer *)

is_stale == sinceRefresh > CacheTtl
is_extremely_stale == sinceRefresh > StaleTtl

LookupFresh(l) ==
    /\ ~is_stale
    /\ Reply(l, FromCache(held, data, "not_found"))
    /\ UNCHANGED <<cacheVars, breaker, refreshing, epoch, registry, task>>

\* mutant: does not look at the flag
StartAnyway == TRUE

try_start_refresh == refreshing = "no"

\* dispatch_background and the start of its task; without a worker context, or
\* with the breaker open, the flag is cleared at once
Dispatch ==
    \/ ~try_start_refresh /\ UNCHANGED <<task, refreshing>>
    \/ /\ try_start_refresh
       /\ \/ \E b \in Background : /\ should_attempt
                                   /\ ~Fetching(b)
                                   /\ Start(b)
                                   /\ refreshing' = "yes"
          \/ refreshing' = "no" /\ UNCHANGED task

\* stale while revalidate
LookupStale(l) ==
    /\ is_stale /\ ~is_extremely_stale
    /\ Dispatch
    /\ Reply(l, FromCache(held, data, "not_found"))
    /\ UNCHANGED <<cacheVars, breaker, epoch, registry>>

LookupBlocking(l) ==
    /\ is_extremely_stale
    /\ \/ /\ should_attempt
          /\ Start(l)
          /\ answer' = [answer EXCEPT ![l] = NoAnswer]
          /\ UNCHANGED refreshing
       \/ /\ ~should_attempt
          /\ finish_refresh(l)
          /\ Reply(l, Degraded(0))
          /\ UNCHANGED task
    /\ UNCHANGED <<cacheVars, breaker, epoch, registry>>

lookup_issuer(l) ==
    /\ ~Fetching(l)
    /\ LookupFresh(l) \/ LookupStale(l) \/ LookupBlocking(l)

-----------------------------------------------------------------------------
\* Push invalidation by the issuer registry's owner.  What was read before it
\* is old from now on.
invalidate ==
    /\ epoch < MaxEpoch
    /\ epoch' = epoch + 1
    /\ held' = {}
    /\ data' = [data EXCEPT !.read = "before"]
    /\ sinceRefresh' = Never
    /\ task' = [x \in Task |-> IF Fetching(x) THEN [task[x] EXCEPT !.read = "before"]
                               ELSE task[x]]
    /\ UNCHANGED <<breaker, refreshing, registry, answer>>

\* KV fails and recovers.
Outage ==
    /\ registry' = IF registry = "up" THEN "down" ELSE "up"
    /\ UNCHANGED <<cacheVars, breaker, refreshing, epoch, task, answer>>

\* Time passes, but no refresh outlives its timeouts.
Tick ==
    /\ \A x \in Task : Fetching(x) => task[x].age < FetchTime
    /\ sinceRefresh' = Grow(sinceRefresh, Never)
    /\ data' = [data EXCEPT !.age = Grow(@, OldestData)]
    /\ breaker' = [breaker EXCEPT !.since = Grow(@, BreakerReset + 1)]
    /\ task' = [x \in Task |-> IF Fetching(x) THEN [task[x] EXCEPT !.age = @ + 1]
                               ELSE task[x]]
    /\ UNCHANGED <<held, refreshing, epoch, registry, answer>>

\* JwksCache::new, and prewarm if the registry could be read
Init ==
    /\ \/ held = {} /\ sinceRefresh = Never
       \/ held \in Entries /\ sinceRefresh = 0
    /\ data = [age |-> 0, read |-> "after"]
    /\ breaker = [state |-> "closed", failures |-> 0, since |-> BreakerReset + 1]
    /\ refreshing = "no"
    /\ epoch = 0
    /\ registry \in {"up", "down"}
    /\ task = [x \in Task |-> Idle]
    /\ answer = [l \in Lookup |-> NoAnswer]

Next ==
    \/ \E l \in Lookup : lookup_issuer(l)
    \/ \E x \in Task : FetchOk(x) \/ FetchFailed(x)
    \/ \E b \in Background : Stopped(b)
    \/ invalidate
    \/ Outage
    \/ Tick

Spec == Init /\ [][Next]_vars

\* Time passes, KV answers or times out, and issuers are looked up again and
\* again.
FairSpec ==
    /\ Spec
    /\ WF_vars(Tick)
    /\ \A x \in Task : WF_vars(FetchOk(x) \/ FetchFailed(x))
    /\ \A l \in Lookup : WF_vars(lookup_issuer(l))

-----------------------------------------------------------------------------
Read == {"before", "after"}
Data == [age : 0..OldestData, read : Read]

CacheType == held \subseteq Issuer /\ data \in Data /\ sinceRefresh \in 0..Never
BreakerType ==
    breaker \in [state : {"open", "closed"}, failures : 0..MaxFailures,
                 since : 0..(BreakerReset + 1)]
FlagType == refreshing \in {"no", "yes"} /\ registry \in {"up", "down"} /\ epoch \in Nat
TaskType ==
    task \in [Task -> [pc : {"idle", "fetching"}, age : 0..FetchTime,
                      epoch : Nat, read : Read]]
AnswerType ==
    answer \in [Lookup -> [status : {"none", "found", "not_found", "unavailable"},
                          age : 0..OldestData, read : Read]]

TypeOK == CacheType /\ BreakerType /\ FlagType /\ TaskType /\ AnswerType

\* A push invalidation is final: no lookup is ever answered from data whose
\* reading began before the last invalidation that preceded the answer, though
\* refreshes that began before it are still in flight (refresh, invalidate).
PushIsFinal == \A l \in Lookup : answer[l].status = "found" => answer[l].read = "after"

\* However long the registry is out of reach, no lookup is answered from data
\* older than the hard maximum, give or take the time of the refresh that read
\* the data and of the refresh the lookup itself waited for (lookup_issuer).
ServedIsRecent ==
    \A l \in Lookup : answer[l].status = "found" => answer[l].age <= HardMax + 2 * FetchTime

\* At most one background refresh runs: a blocking refresh clears the flag of a
\* background refresh that is still running (finish_refresh in try_refresh), but
\* then no lookup finds the cache stale and not extremely stale before that one
\* has ended.
OneBackground == \A b, c \in Background : Fetching(b) /\ Fetching(c) => b = c

\* refresh_in_progress is not left set, even when the task that set it was
\* stopped: a later blocking refresh clears it.
FlagIsReleased == (refreshing = "yes") ~> (refreshing = "no")

\* Once the registry stays readable, the cache is refreshed again and again: the
\* breaker closes, and no flag and no stopped task stands in the way.
Recovers == (<>[](registry = "up")) => []<>(sinceRefresh <= CacheTtl)

=============================================================================
