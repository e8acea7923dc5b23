-------------------------- MODULE JwksCache_proofs --------------------------
(***************************************************************************)
(* Proofs about JwksCache, for all issuers, lookups, background slots and  *)
(* time limits in the order TimeAssumption states.                         *)
(***************************************************************************)
EXTENDS JwksCache, TLAPS

TaskRecord == [pc : {"idle", "fetching"}, age : 0..FetchTime, epoch : Nat, read : Read]
AnswerRecord == [status : {"none", "found", "not_found", "unavailable"},
                 age : 0..OldestData, read : Read]

LEMMA Limits ==
    /\ Never \in Nat /\ OldestData \in Nat
    /\ FetchTime <= CacheTtl /\ CacheTtl <= StaleTtl /\ StaleTtl < Never
    /\ HardMax + FetchTime < Never /\ OldestData = Never + FetchTime
BY TimeAssumption DEF Never, OldestData

LEMMA CapBounds ==
    ASSUME NEW a \in Nat, NEW limit \in Nat
    PROVE  Cap(a, limit) \in 0..limit /\ Cap(a, limit) <= a
BY DEF Cap

(* An age grows by one at most, and does not shrink.                       *)
LEMMA GrowBounds ==
    ASSUME NEW limit \in Nat, NEW a \in 0..limit
    PROVE  Grow(a, limit) \in 0..limit /\ Grow(a, limit) <= a + 1 /\ Grow(a, limit) >= a
BY DEF Grow, Cap

-----------------------------------------------------------------------------
(* Type correctness *)

LEMMA AnswerTyped ==
    ASSUME NEW status \in {"none", "found", "not_found", "unavailable"}, NEW d \in Data
    PROVE  Answer(status, d) \in AnswerRecord
BY DEF Answer, AnswerRecord, Data

LEMMA FromCacheTyped ==
    ASSUME NEW d \in Data, NEW cached, NEW missing \in {"not_found", "unavailable"},
           NEW a \in FromCache(cached, d, missing)
    PROVE  a \in AnswerRecord
BY AnswerTyped DEF FromCache

LEMMA DegradedTyped ==
    ASSUME data \in Data, NEW age, NEW a \in Degraded(age)
    PROVE  a \in AnswerRecord
BY AnswerTyped, FromCacheTyped DEF Degraded

LEMMA ReplyTyped ==
    ASSUME AnswerType, NEW l \in Lookup, NEW S, Reply(l, S), \A a \in S : a \in AnswerRecord
    PROVE  AnswerType'
BY DEF Reply, AnswerType, AnswerRecord

LEMMA IdleTyped == Idle \in TaskRecord /\ ~(Idle.pc = "fetching")
BY TimeAssumption DEF Idle, TaskRecord, Read

LEMMA StartTyped ==
    ASSUME TaskType, FlagType, NEW x \in Task, Start(x)
    PROVE  /\ TaskType'
           /\ \A y \in Task : y # x => task'[y] = task[y]
           /\ task'[x].pc = "fetching" /\ task'[x].age = 0
           /\ task'[x].epoch = epoch /\ task'[x].read = "after"
<1> DEFINE t == [pc |-> "fetching", age |-> 0, epoch |-> epoch, read |-> "after"]
<1>1. t \in TaskRecord
  BY TimeAssumption DEF TaskRecord, Read, FlagType
<1>2. task' = [task EXCEPT ![x] = t]
  BY DEF Start
<1>3. task \in [Task -> TaskRecord]
  BY DEF TaskType, TaskRecord
<1> QED BY <1>1, <1>2, <1>3 DEF TaskType, TaskRecord

LEMMA EndTyped ==
    ASSUME TaskType, NEW x \in Task, task' = [task EXCEPT ![x] = Idle]
    PROVE  /\ TaskType'
           /\ \A y \in Task : y # x => task'[y] = task[y]
           /\ task'[x].pc = "idle"
BY IdleTyped DEF TaskType, TaskRecord, Idle

LEMMA PublishTyped ==
    ASSUME CacheType, TaskType, NEW x \in Task, NEW entries \in Entries, Publish(x, entries)
    PROVE  CacheType'
<1>1. entries \subseteq Issuer
  BY DEF Entries
<1>2. task[x].age \in 0..FetchTime /\ task[x].read \in Read
  BY DEF TaskType
<1>3. task[x].age \in 0..OldestData
  BY <1>2, TimeAssumption DEF OldestData
<1>4. [age |-> task[x].age, read |-> task[x].read] \in Data /\ 0 \in 0..Never
  BY <1>2, <1>3, Limits DEF Data
<1> QED BY <1>1, <1>4 DEF Publish, CacheType, cacheVars

LEMMA FetchOkTyped ==
    ASSUME TypeOK, NEW x \in Task, FetchOk(x)
    PROVE  TypeOK'
<1>1. PICK entries \in Entries : Publish(x, entries)
  BY DEF FetchOk
<1>2. CacheType'
  BY <1>1, PublishTyped DEF TypeOK
<1>3. BreakerType'
  <2> DEFINE b == [breaker EXCEPT !.state = "closed"]
  <2>1. b \in [state : {"open", "closed"}, failures : 0..MaxFailures,
               since : 0..(BreakerReset + 1)]
    BY DEF TypeOK, BreakerType
  <2>2. breaker' = [b EXCEPT !.failures = 0] /\ 0 \in 0..MaxFailures
    BY TimeAssumption DEF FetchOk, record_success
  <2> QED BY <2>1, <2>2 DEF BreakerType
<1>4. FlagType'
  BY DEF TypeOK, FetchOk, finish_refresh, FlagType
<1>5. TaskType'
  BY EndTyped DEF TypeOK, FetchOk
<1>6. AnswerType'
  <2>1. CASE x \in Lookup
    <3>1. Reply(x, FromCache(held', data', "not_found"))
      BY <2>1 DEF FetchOk
    <3>2. data' \in Data
      BY <1>2 DEF CacheType
    <3> QED BY <2>1, <3>1, <3>2, FromCacheTyped, ReplyTyped DEF TypeOK
  <2>2. CASE x \notin Lookup
    BY <2>2 DEF TypeOK, FetchOk, AnswerType
  <2> QED BY <2>1, <2>2
<1> QED BY <1>2, <1>3, <1>4, <1>5, <1>6 DEF TypeOK

LEMMA FetchFailedTyped ==
    ASSUME TypeOK, NEW x \in Task, FetchFailed(x)
    PROVE  TypeOK'
<1>1. CacheType'
  BY DEF TypeOK, FetchFailed, cacheVars, CacheType
<1>2. BreakerType'
  <2>1. task[x].age \in Nat
    BY TimeAssumption DEF TypeOK, TaskType
  <2>2. Cap(task[x].age, BreakerReset + 1) \in 0..(BreakerReset + 1)
    BY <2>1, TimeAssumption DEF Cap
  <2>3. Grow(breaker.failures, MaxFailures) \in 0..MaxFailures
    BY GrowBounds, TimeAssumption DEF TypeOK, BreakerType
  <2> QED BY <2>2, <2>3 DEF TypeOK, FetchFailed, record_failure, BreakerType
<1>3. FlagType'
  BY DEF TypeOK, FetchFailed, finish_refresh, FlagType
<1>4. TaskType'
  BY EndTyped DEF TypeOK, FetchFailed
<1>5. AnswerType'
  <2>1. CASE x \in Lookup
    <3>1. Reply(x, Degraded(task[x].age))
      BY <2>1 DEF FetchFailed
    <3>2. data \in Data
      BY DEF TypeOK, CacheType
    <3> QED BY <2>1, <3>1, <3>2, DegradedTyped, ReplyTyped DEF TypeOK
  <2>2. CASE x \notin Lookup
    BY <2>2 DEF TypeOK, FetchFailed, AnswerType
  <2> QED BY <2>1, <2>2
<1> QED BY <1>1, <1>2, <1>3, <1>4, <1>5 DEF TypeOK

LEMMA LookupTyped ==
    ASSUME TypeOK, NEW l \in Lookup, lookup_issuer(l)
    PROVE  TypeOK'
<1>1. data \in Data /\ l \in Task
  BY DEF TypeOK, CacheType, Task
<1>2. UNCHANGED <<cacheVars, breaker, epoch, registry>>
  BY DEF lookup_issuer, LookupFresh, LookupStale, LookupBlocking
<1>3. CacheType' /\ BreakerType'
  BY <1>2 DEF TypeOK, cacheVars, CacheType, BreakerType
<1>4. CASE LookupFresh(l)
  <2>1. AnswerType'
    BY <1>1, <1>4, FromCacheTyped, ReplyTyped DEF TypeOK, LookupFresh
  <2>2. FlagType' /\ TaskType'
    BY <1>4 DEF TypeOK, LookupFresh, FlagType, TaskType
  <2> QED BY <1>3, <2>1, <2>2 DEF TypeOK
<1>5. CASE LookupStale(l)
  <2>1. AnswerType'
    BY <1>1, <1>5, FromCacheTyped, ReplyTyped DEF TypeOK, LookupStale
  <2>2. Dispatch
    BY <1>5 DEF LookupStale
  <2>3. FlagType'
    BY <1>2, <2>2 DEF TypeOK, Dispatch, FlagType
  <2>4. TaskType'
    <3>1. CASE UNCHANGED task
      BY <3>1 DEF TypeOK, TaskType
    <3>2. ASSUME NEW b \in Background, Start(b)
          PROVE  TaskType'
      BY <3>2, StartTyped DEF TypeOK, Task
    <3> QED BY <2>2, <3>1, <3>2 DEF Dispatch
  <2> QED BY <1>3, <2>1, <2>3, <2>4 DEF TypeOK
<1>6. CASE LookupBlocking(l)
  <2>1. CASE Start(l) /\ answer' = [answer EXCEPT ![l] = NoAnswer] /\ UNCHANGED refreshing
    <3>1. TaskType'
      BY <1>1, <2>1, StartTyped DEF TypeOK
    <3>2. [age |-> 0, read |-> "after"] \in Data
      BY Limits DEF Data, Read
    <3>3. NoAnswer \in AnswerRecord
      BY <3>2, AnswerTyped DEF NoAnswer
    <3>4. AnswerType'
      BY <2>1, <3>3 DEF TypeOK, AnswerType, AnswerRecord
    <3>5. FlagType'
      BY <1>2, <2>1 DEF TypeOK, FlagType
    <3> QED BY <1>3, <3>1, <3>4, <3>5 DEF TypeOK
  <2>2. CASE finish_refresh(l) /\ Reply(l, Degraded(0)) /\ UNCHANGED task
    <3>1. AnswerType'
      BY <1>1, <2>2, DegradedTyped, ReplyTyped DEF TypeOK
    <3>2. FlagType' /\ TaskType'
      BY <1>2, <2>2 DEF TypeOK, FlagType, TaskType, finish_refresh
    <3> QED BY <1>3, <3>1, <3>2 DEF TypeOK
  <2> QED BY <1>6, <2>1, <2>2 DEF LookupBlocking
<1> QED BY <1>4, <1>5, <1>6 DEF lookup_issuer

(* What an invalidation and the passing of time do to a task.              *)
LEMMA InvalidateTask ==
    ASSUME TypeOK, invalidate
    PROVE  /\ TaskType'
           /\ \A x \in Task : Fetching(x)' =>
                 /\ Fetching(x)
                 /\ task'[x].age = task[x].age /\ task'[x].epoch = task[x].epoch
<1>1. ASSUME NEW x \in Task
      PROVE  /\ task'[x] \in TaskRecord
             /\ task'[x].pc = task[x].pc
             /\ task'[x].age = task[x].age /\ task'[x].epoch = task[x].epoch
  <2>1. task'[x] = IF Fetching(x) THEN [task[x] EXCEPT !.read = "before"] ELSE task[x]
    BY DEF invalidate
  <2>2. task[x] \in TaskRecord
    BY DEF TypeOK, TaskType, TaskRecord
  <2> QED BY <2>1, <2>2 DEF TaskRecord, Read
<1>2. task' = [x \in Task |-> task'[x]]
  BY DEF invalidate
<1> QED BY <1>1, <1>2 DEF TaskType, TaskRecord, Fetching

LEMMA TickTask ==
    ASSUME TypeOK, Tick
    PROVE  /\ TaskType'
           /\ \A x \in Task : Fetching(x)' =>
                 /\ Fetching(x)
                 /\ task'[x].age = task[x].age + 1
                 /\ task'[x].epoch = task[x].epoch /\ task'[x].read = task[x].read
<1>1. ASSUME NEW x \in Task
      PROVE  /\ task'[x] \in TaskRecord
             /\ task'[x].pc = task[x].pc
             /\ Fetching(x) => task'[x].age = task[x].age + 1
             /\ task'[x].epoch = task[x].epoch /\ task'[x].read = task[x].read
  <2>1. task'[x] = IF Fetching(x) THEN [task[x] EXCEPT !.age = @ + 1] ELSE task[x]
    BY DEF Tick
  <2>2. task[x] \in TaskRecord
    BY DEF TypeOK, TaskType, TaskRecord
  <2>3. Fetching(x) => task[x].age + 1 \in 0..FetchTime
    BY <2>2, TimeAssumption DEF Tick, TaskRecord
  <2> QED BY <2>1, <2>2, <2>3 DEF TaskRecord
<1>2. task' = [x \in Task |-> task'[x]]
  BY DEF Tick
<1> QED BY <1>1, <1>2 DEF TaskType, TaskRecord, Fetching

LEMMA TypeInductive == TypeOK /\ [Next]_vars => TypeOK'
<1> SUFFICES ASSUME TypeOK, [Next]_vars PROVE TypeOK'
  OBVIOUS
<1>1. ASSUME NEW l \in Lookup, lookup_issuer(l) PROVE TypeOK'
  BY <1>1, LookupTyped
<1>2. ASSUME NEW x \in Task, FetchOk(x) PROVE TypeOK'
  BY <1>2, FetchOkTyped
<1>3. ASSUME NEW x \in Task, FetchFailed(x) PROVE TypeOK'
  BY <1>3, FetchFailedTyped
<1>4. ASSUME NEW b \in Background, Stopped(b) PROVE TypeOK'
  <2>1. TaskType'
    BY <1>4, EndTyped DEF TypeOK, Stopped, Task
  <2>2. CacheType' /\ BreakerType' /\ FlagType' /\ AnswerType'
    BY <1>4 DEF TypeOK, Stopped, cacheVars, CacheType, BreakerType, FlagType, AnswerType
  <2> QED BY <2>1, <2>2 DEF TypeOK
<1>5. CASE invalidate
  <2>1. CacheType'
    BY <1>5, Limits DEF TypeOK, invalidate, CacheType, Data, Read
  <2>2. FlagType' /\ BreakerType' /\ AnswerType'
    BY <1>5 DEF TypeOK, invalidate, FlagType, BreakerType, AnswerType
  <2> QED BY <1>5, <2>1, <2>2, InvalidateTask DEF TypeOK
<1>6. CASE Outage
  BY <1>6 DEF TypeOK, Outage, cacheVars, CacheType, BreakerType, FlagType, TaskType, AnswerType
<1>7. CASE Tick
  <2>1. CacheType'
    BY <1>7, Limits, GrowBounds DEF TypeOK, Tick, CacheType, Data
  <2>2. BreakerType'
    BY <1>7, TimeAssumption, GrowBounds DEF TypeOK, Tick, BreakerType
  <2>3. FlagType' /\ AnswerType'
    BY <1>7 DEF TypeOK, Tick, FlagType, AnswerType
  <2> QED BY <1>7, <2>1, <2>2, <2>3, TickTask DEF TypeOK
<1>8. CASE UNCHANGED vars
  BY <1>8 DEF vars, cacheVars, TypeOK, CacheType, BreakerType, FlagType, TaskType, AnswerType
<1> QED BY <1>1, <1>2, <1>3, <1>4, <1>5, <1>6, <1>7, <1>8 DEF Next

LEMMA TypeInitial == Init => TypeOK
<1> SUFFICES ASSUME Init PROVE TypeOK
  OBVIOUS
<1>1. [age |-> 0, read |-> "after"] \in Data
  BY Limits DEF Data, Read
<1>2. CacheType
  BY <1>1, Limits DEF Init, CacheType, Entries
<1>3. BreakerType /\ FlagType
  BY TimeAssumption DEF Init, BreakerType, FlagType
<1>4. TaskType
  BY IdleTyped DEF Init, TaskType, TaskRecord
<1>5. AnswerType
  BY <1>1, AnswerTyped DEF Init, NoAnswer, AnswerType, AnswerRecord
<1> QED BY <1>2, <1>3, <1>4, <1>5 DEF TypeOK

(* Every reachable state of the cache is well typed; no age runs past its  *)
(* limit.                                                                  *)
THEOREM TypeCorrect == Spec => []TypeOK
BY TypeInitial, TypeInductive, PTL DEF Spec

-----------------------------------------------------------------------------
(* What the cache holds.  A refresh that an invalidation has overtaken     *)
(* either finds the cache empty, or filled while it was under way.         *)

Recent == data.age <= sinceRefresh + FetchTime
Final == held # {} => data.read = "after"
Epochs ==
    \A x \in Task : Fetching(x) =>
       /\ task[x].epoch <= epoch
       /\ task[x].epoch = epoch => task[x].read = "after"
       /\ task[x].epoch # epoch => held = {} \/ sinceRefresh <= task[x].age

CacheInv == Recent /\ Final /\ Epochs

\* A lookup leaves a task alone or starts it.
LEMMA LookupTask ==
    ASSUME TypeOK, NEW l \in Lookup, lookup_issuer(l), NEW x \in Task
    PROVE  \/ task'[x] = task[x]
           \/ /\ task'[x].age = 0 /\ task'[x].epoch = epoch /\ task'[x].read = "after"
              /\ \/ x = l /\ is_extremely_stale
                 \/ /\ x \in Background /\ try_start_refresh
                    /\ refreshing' = "yes"
                    /\ is_stale /\ ~is_extremely_stale
<1>1. l \in Task
  BY DEF Task
<1>2. CASE LookupFresh(l)
  BY <1>2 DEF LookupFresh
<1>3. CASE LookupStale(l)
  <2>1. ASSUME NEW b \in Background, Start(b), try_start_refresh, refreshing' = "yes"
        PROVE  task'[x] = task[x] \/ /\ task'[x].age = 0 /\ task'[x].epoch = epoch
                                     /\ task'[x].read = "after" /\ x = b
    BY <2>1, StartTyped DEF TypeOK, Task
  <2> QED BY <1>3, <2>1 DEF LookupStale, Dispatch
<1>4. CASE LookupBlocking(l)
  BY <1>1, <1>4, StartTyped DEF LookupBlocking, TypeOK
<1> QED BY <1>2, <1>3, <1>4 DEF lookup_issuer

\* FetchOk publishes what it read, or leaves the cache alone.
LEMMA FetchOkCache ==
    ASSUME NEW x \in Task, FetchOk(x)
    PROVE  \/ /\ task[x].epoch = epoch
              /\ data'.age = task[x].age /\ data'.read = task[x].read
              /\ sinceRefresh' = 0
           \/ task[x].epoch # epoch /\ UNCHANGED cacheVars
BY DEF FetchOk, Publish

LEMMA EndTask ==
    ASSUME TypeOK, NEW x \in Task, task' = [task EXCEPT ![x] = Idle]
    PROVE  \A y \in Task : Fetching(y)' => /\ y # x /\ Fetching(y)
                                          /\ task'[y] = task[y]
BY EndTyped DEF TypeOK, Fetching

LEMMA CacheInductive ==
    ASSUME TypeOK, CacheInv, [Next]_vars
    PROVE  CacheInv'
<1> USE DEF CacheInv
<1>0. /\ data.age \in Nat /\ sinceRefresh \in 0..Never /\ epoch \in Nat
      /\ \A x \in Task : task[x].age \in 0..FetchTime /\ task[x].epoch \in Nat
  BY Limits DEF TypeOK, CacheType, Data, FlagType, TaskType
<1>1. ASSUME NEW l \in Lookup, lookup_issuer(l) PROVE CacheInv'
  <2>1. UNCHANGED <<cacheVars, epoch>>
    BY <1>1 DEF lookup_issuer, LookupFresh, LookupStale, LookupBlocking
  <2>2. Recent' /\ Final'
    BY <2>1 DEF cacheVars, Recent, Final
  <2>3. Epochs'
    <3> SUFFICES ASSUME NEW x \in Task, Fetching(x)'
                 PROVE  /\ task'[x].epoch <= epoch
                        /\ task'[x].epoch = epoch => task'[x].read = "after"
                        /\ task'[x].epoch # epoch => held = {} \/ sinceRefresh <= task'[x].age
      BY <2>1 DEF Epochs, cacheVars
    <3>1. CASE task'[x] = task[x]
      BY <3>1 DEF Epochs, Fetching
    <3>2. CASE task'[x].epoch = epoch /\ task'[x].read = "after"
      BY <1>0, <3>2
    <3> QED BY <1>1, <3>1, <3>2, LookupTask
  <2> QED BY <2>2, <2>3
<1>2. ASSUME NEW x \in Task, FetchOk(x) PROVE CacheInv'
  <2>1. Fetching(x) /\ epoch' = epoch
    BY <1>2 DEF FetchOk
  <2>2. \A y \in Task : Fetching(y)' => Fetching(y) /\ task'[y] = task[y]
    BY <1>2, EndTask DEF FetchOk
  <2>3. CASE UNCHANGED cacheVars
    BY <2>1, <2>2, <2>3 DEF cacheVars, Recent, Final, Epochs
  <2>4. CASE /\ task[x].epoch = epoch /\ sinceRefresh' = 0
             /\ data'.age = task[x].age /\ data'.read = task[x].read
    <3>1. Recent' /\ Final'
      BY <1>0, <2>1, <2>4, TimeAssumption DEF Recent, Final, Epochs
    <3>2. Epochs'
      BY <1>0, <2>1, <2>2, <2>4 DEF Epochs
    <3> QED BY <3>1, <3>2
  <2> QED BY <1>2, <2>3, <2>4, FetchOkCache
<1>3. ASSUME NEW x \in Task, FetchFailed(x) PROVE CacheInv'
  <2>1. \A y \in Task : Fetching(y)' => Fetching(y) /\ task'[y] = task[y]
    BY <1>3, EndTask DEF FetchFailed
  <2> QED BY <1>3, <2>1 DEF FetchFailed, cacheVars, Recent, Final, Epochs
<1>4. ASSUME NEW b \in Background, Stopped(b) PROVE CacheInv'
  <2>1. \A y \in Task : Fetching(y)' => Fetching(y) /\ task'[y] = task[y]
    BY <1>4, EndTask DEF Stopped, Task
  <2> QED BY <1>4, <2>1 DEF Stopped, cacheVars, Recent, Final, Epochs
<1>5. CASE invalidate
  <2>1. held' = {} /\ sinceRefresh' = Never /\ epoch' = epoch + 1
    BY <1>5 DEF invalidate
  <2>2. data'.age = data.age /\ data.age \in 0..OldestData
    BY <1>5 DEF invalidate, TypeOK, CacheType, Data
  <2>3. Recent' /\ Final'
    BY <2>1, <2>2, Limits, TimeAssumption DEF Recent, Final
  <2>4. Epochs'
    BY <1>0, <1>5, <2>1, InvalidateTask DEF Epochs
  <2> QED BY <2>3, <2>4
<1>6. CASE Outage
  BY <1>6 DEF Outage, cacheVars, Recent, Final, Epochs, Fetching
<1>7. CASE Tick
  <2>1. held' = held /\ epoch' = epoch /\ data'.read = data.read
    BY <1>7 DEF Tick, TypeOK, CacheType, Data
  <2>2. sinceRefresh' \in 0..Never /\ sinceRefresh' <= sinceRefresh + 1
    BY <1>0, <1>7, Limits, GrowBounds DEF Tick
  <2>3. Recent'
    <3>1. data'.age = Grow(data.age, OldestData) /\ sinceRefresh' = Grow(sinceRefresh, Never)
      BY <1>7 DEF Tick, TypeOK, CacheType, Data
    <3> QED BY <1>0, <3>1, Limits, TimeAssumption DEF Recent, Grow, Cap
  <2>4. Final'
    BY <2>1 DEF Final
  <2>5. Epochs'
    BY <1>0, <1>7, <2>1, <2>2, TickTask DEF Epochs
  <2> QED BY <2>3, <2>4, <2>5
<1>8. CASE UNCHANGED vars
  BY <1>8 DEF vars, cacheVars, Recent, Final, Epochs, Fetching
<1> QED BY <1>1, <1>2, <1>3, <1>4, <1>5, <1>6, <1>7, <1>8 DEF Next

-----------------------------------------------------------------------------
(* What lookups are answered *)

LEMMA FoundInCache ==
    ASSUME NEW cached, NEW d, NEW missing \in {"not_found", "unavailable"},
           NEW a \in FromCache(cached, d, missing), a.status = "found"
    PROVE  cached # {} /\ a.age = d.age /\ a.read = d.read
BY DEF FromCache, Answer

LEMMA FoundDegraded ==
    ASSUME NEW age, NEW a \in Degraded(age), a.status = "found"
    PROVE  /\ held # {} /\ a.age = data.age /\ a.read = data.read
           /\ ~(Minus(sinceRefresh, age) > HardMax)
<1>1. CASE Minus(sinceRefresh, age) > HardMax
  BY <1>1 DEF Degraded, Answer
<1>2. CASE ~(Minus(sinceRefresh, age) > HardMax)
  BY <1>2, FoundInCache DEF Degraded
<1> QED BY <1>1, <1>2

\* an answer that both properties allow
Good(a) == a.status = "found" => a.read = "after" /\ a.age <= HardMax + 2 * FetchTime

AnswersGood == \A l \in Lookup : Good(answer[l])

LEMMA ReplyGood ==
    ASSUME TypeOK, AnswersGood, NEW l \in Lookup, NEW S, Reply(l, S), \A a \in S : Good(a)
    PROVE  AnswersGood'
BY DEF Reply, TypeOK, AnswerType, AnswersGood, Good

LEMMA AnswersInductive ==
    ASSUME TypeOK, TypeOK', CacheInv, CacheInv', AnswersGood, [Next]_vars
    PROVE  AnswersGood'
<1>0. /\ data.age \in Nat /\ sinceRefresh \in Nat /\ epoch \in Nat
      /\ \A x \in Task : task[x].age \in 0..FetchTime
      /\ data'.age \in Nat /\ sinceRefresh' \in Nat
  BY Limits DEF TypeOK, CacheType, Data, FlagType, TaskType
<1>1. ASSUME ~(sinceRefresh > StaleTtl), NEW a \in FromCache(held, data, "not_found")
      PROVE  Good(a)
  BY <1>0, <1>1, FoundInCache, TimeAssumption DEF CacheInv, Recent, Final, Good
<1>2. ASSUME NEW age \in 0..FetchTime, NEW a \in Degraded(age)
      PROVE  Good(a)
  <2> SUFFICES ASSUME a.status = "found" PROVE Good(a)
    BY DEF Good
  <2>1. held # {} /\ a.age = data.age /\ a.read = data.read
    BY <1>2, FoundDegraded
  <2>2. ~(Minus(sinceRefresh, age) > HardMax)
    BY <1>2, FoundDegraded
  <2>3. sinceRefresh <= HardMax + FetchTime
    BY <1>0, <2>2, TimeAssumption DEF Minus
  <2> QED BY <1>0, <2>1, <2>3, TimeAssumption DEF CacheInv, Recent, Final, Good
<1>3. ASSUME NEW l \in Lookup, lookup_issuer(l) PROVE AnswersGood'
  <2>1. CASE LookupFresh(l)
    <3>1. ~(sinceRefresh > StaleTtl)
      BY <1>0, <2>1, TimeAssumption DEF LookupFresh, is_stale
    <3> QED BY <1>1, <2>1, <3>1, ReplyGood DEF LookupFresh
  <2>2. CASE LookupStale(l)
    BY <1>1, <2>2, ReplyGood DEF LookupStale, is_extremely_stale
  <2>3. CASE LookupBlocking(l)
    <3>1. CASE answer' = [answer EXCEPT ![l] = NoAnswer]
      <4>1. Good(NoAnswer)
        BY DEF Good, NoAnswer, Answer
      <4> QED BY <3>1, <4>1 DEF TypeOK, AnswerType, AnswersGood, Good
    <3>2. CASE Reply(l, Degraded(0))
      <4>1. 0 \in 0..FetchTime
        BY TimeAssumption
      <4> QED BY <1>2, <3>2, <4>1, ReplyGood
    <3> QED BY <2>3, <3>1, <3>2 DEF LookupBlocking
  <2> QED BY <1>3, <2>1, <2>2, <2>3 DEF lookup_issuer
<1>4. ASSUME NEW x \in Task, FetchOk(x) PROVE AnswersGood'
  <2>1. CASE x \notin Lookup
    BY <1>4, <2>1 DEF FetchOk, AnswersGood
  <2>2. CASE x \in Lookup
    <3>1. Reply(x, FromCache(held', data', "not_found")) /\ Fetching(x)
      BY <1>4, <2>2 DEF FetchOk
    <3>2. held' # {} => sinceRefresh' <= FetchTime
      <4>1. CASE sinceRefresh' = 0
        BY <4>1, TimeAssumption
      <4>2. CASE task[x].epoch # epoch /\ UNCHANGED cacheVars
        <5>1. held' = {} \/ sinceRefresh' <= task[x].age
          BY <3>1, <4>2 DEF CacheInv, Epochs, cacheVars
        <5> QED BY <1>0, <5>1, TimeAssumption
      <4> QED BY <1>4, <4>1, <4>2, FetchOkCache
    <3>3. ASSUME NEW a \in FromCache(held', data', "not_found") PROVE Good(a)
      <4> SUFFICES ASSUME a.status = "found" PROVE Good(a)
        BY DEF Good
      <4>1. held' # {} /\ a.age = data'.age /\ a.read = data'.read
        BY <3>3, FoundInCache
      <4>2. data'.age <= sinceRefresh' + FetchTime /\ data'.read = "after"
        BY <4>1 DEF CacheInv, Recent, Final
      <4> QED BY <1>0, <3>2, <4>1, <4>2, TimeAssumption DEF Good
    <3> QED BY <2>2, <3>1, <3>3, ReplyGood
  <2> QED BY <2>1, <2>2
<1>5. ASSUME NEW x \in Task, FetchFailed(x) PROVE AnswersGood'
  <2>1. CASE x \notin Lookup
    BY <1>5, <2>1 DEF FetchFailed, AnswersGood
  <2>2. CASE x \in Lookup
    BY <1>0, <1>2, <1>5, <2>2, ReplyGood DEF FetchFailed
  <2> QED BY <2>1, <2>2
<1>6. CASE UNCHANGED answer
  BY <1>6 DEF AnswersGood
<1> QED BY <1>3, <1>4, <1>5, <1>6 DEF Next, Stopped, invalidate, Outage, Tick, vars

LEMMA CacheInitial == Init => CacheInv /\ AnswersGood
<1> SUFFICES ASSUME Init PROVE CacheInv /\ AnswersGood
  OBVIOUS
<1>1. Recent /\ Final
  BY Limits, TimeAssumption DEF Init, Recent, Final
<1>2. Epochs
  BY DEF Init, Epochs, Fetching, Idle
<1>3. AnswersGood
  BY DEF Init, AnswersGood, Good, NoAnswer, Answer
<1> QED BY <1>1, <1>2, <1>3 DEF CacheInv

LEMMA CacheSafe == Spec => [](TypeOK /\ CacheInv /\ AnswersGood)
<1>1. Init => TypeOK /\ CacheInv /\ AnswersGood
  BY TypeInitial, CacheInitial
<1>2. TypeOK /\ CacheInv /\ AnswersGood /\ [Next]_vars
        => (TypeOK /\ CacheInv /\ AnswersGood)'
  BY TypeInductive, CacheInductive, AnswersInductive
<1> QED BY <1>1, <1>2, PTL DEF Spec

(* A push invalidation is final: no lookup is answered from data whose     *)
(* reading began before it, whatever refreshes are in flight (refresh,     *)
(* invalidate).                                                            *)
THEOREM InvalidationIsFinal == Spec => []PushIsFinal
<1>1. AnswersGood => PushIsFinal
  BY DEF AnswersGood, Good, PushIsFinal
<1> QED BY <1>1, CacheSafe, PTL

(* Degraded mode has a limit: no lookup is answered from data older than   *)
(* the hard maximum and two refreshes (lookup_issuer, is_beyond_hard_max). *)
THEOREM StaleDataIsRefused == Spec => []ServedIsRecent
<1>1. AnswersGood => ServedIsRecent
  BY DEF AnswersGood, Good, ServedIsRecent
<1> QED BY <1>1, CacheSafe, PTL

-----------------------------------------------------------------------------
(* One background refresh.  The flag alone does not ensure it, as a        *)
(* blocking refresh clears it too.  But a lookup that refreshes started    *)
(* beyond StaleTtl, so when it ends the cache is still beyond StaleTtl or  *)
(* was refreshed after the start of every task, which ends before the new  *)
(* cache is stale.                                                         *)

\* the cache was refreshed while x was under way
Overtaken(x) == sinceRefresh <= task[x].age

FlagInv ==
    /\ \A l \in Lookup : Fetching(l) => Overtaken(l) \/ is_extremely_stale
    /\ \A b \in Background : Fetching(b) =>
          /\ Overtaken(b) \/ is_stale
          /\ refreshing = "yes" \/ Overtaken(b) \/ is_extremely_stale

OverlapInv == FlagInv /\ OneBackground

\* While the cache is stale and not extremely stale, the flag tells the truth.
LEMMA FlagIsTrue ==
    ASSUME TypeOK, FlagInv, is_stale, ~is_extremely_stale,
           NEW b \in Background, Fetching(b)
    PROVE  refreshing = "yes"
<1>1. task[b].age \in 0..FetchTime /\ sinceRefresh \in Nat
  BY Limits DEF TypeOK, TaskType, CacheType, Task
<1>2. ~Overtaken(b)
  BY <1>1, TimeAssumption DEF Overtaken, is_stale
<1> QED BY <1>2 DEF FlagInv

\* A lookup that ends clears the flag, and this is harmless.
LEMMA FlagAfterBlocking ==
    ASSUME TypeOK, FlagInv, NEW l \in Lookup, Fetching(l),
           NEW b \in Background, Fetching(b)
    PROVE  Overtaken(b) \/ is_extremely_stale
<1>1. /\ task[l].age \in 0..FetchTime /\ task[b].age \in 0..FetchTime
      /\ sinceRefresh \in Nat
  BY Limits DEF TypeOK, TaskType, CacheType, Task
<1>2. CASE Overtaken(l)
  <2>1. ~is_stale
    BY <1>1, <1>2, TimeAssumption DEF Overtaken, is_stale
  <2> QED BY <2>1 DEF FlagInv
<1> QED BY <1>2 DEF FlagInv

\* The end of a task that leaves the cache as it is.
LEMMA OverlapAfterEnd ==
    ASSUME TypeOK, OverlapInv, NEW x \in Task, Fetching(x), UNCHANGED sinceRefresh,
           task' = [task EXCEPT ![x] = Idle]
    PROVE  OverlapInv'
<1>1. \A y \in Task : Fetching(y)' => y # x /\ Fetching(y) /\ task'[y] = task[y]
  BY EndTask
<1>2. OneBackground'
  BY <1>1 DEF OverlapInv, OneBackground, Task
<1>3. \A l \in Lookup : Fetching(l)' => Overtaken(l)' \/ is_extremely_stale'
  BY <1>1 DEF OverlapInv, FlagInv, Overtaken, is_extremely_stale, Task
<1>4. ASSUME NEW b \in Background, Fetching(b)'
      PROVE  /\ Overtaken(b)' \/ is_stale'
             /\ Overtaken(b)' \/ is_extremely_stale'
  <2>1. b # x /\ Fetching(b) /\ task'[b] = task[b]
    BY <1>1, <1>4 DEF Task
  <2>2. x \in Lookup
    BY <2>1 DEF OverlapInv, OneBackground, Task
  <2>3. Overtaken(b) \/ is_extremely_stale
    BY <2>1, <2>2, FlagAfterBlocking DEF OverlapInv
  <2>4. Overtaken(b) \/ is_stale
    BY <2>1 DEF OverlapInv, FlagInv
  <2> QED BY <2>1, <2>3, <2>4 DEF Overtaken, is_stale, is_extremely_stale
<1> QED BY <1>2, <1>3, <1>4 DEF OverlapInv, FlagInv

LEMMA OverlapInductive ==
    ASSUME TypeOK, OverlapInv, [Next]_vars
    PROVE  OverlapInv'
<1>0. /\ sinceRefresh \in 0..Never
      /\ \A x \in Task : task[x].age \in 0..FetchTime
  BY DEF TypeOK, CacheType, TaskType
<1>1. ASSUME NEW l \in Lookup, lookup_issuer(l) PROVE OverlapInv'
  <2>1. UNCHANGED sinceRefresh
    BY <1>1 DEF lookup_issuer, LookupFresh, LookupStale, LookupBlocking, cacheVars
  <2>2. refreshing' = refreshing \/ is_extremely_stale \/ refreshing = "no"
    BY <1>1 DEF lookup_issuer, LookupFresh, LookupStale, LookupBlocking, Dispatch,
                try_start_refresh
  <2>3. \A k \in Lookup : Fetching(k)' => Overtaken(k)' \/ is_extremely_stale'
    <3> SUFFICES ASSUME NEW k \in Lookup, Fetching(k)'
                 PROVE  Overtaken(k)' \/ is_extremely_stale'
      OBVIOUS
    <3>1. CASE task'[k] = task[k]
      BY <2>1, <3>1 DEF OverlapInv, FlagInv, Overtaken, is_extremely_stale, Fetching
    <3>2. CASE is_extremely_stale
      BY <2>1, <3>2 DEF is_extremely_stale
    <3>3. k \in Task /\ k \notin Background
      BY TaskAssumption DEF Task
    <3> QED BY <1>1, <3>1, <3>2, <3>3, LookupTask
  <2>4. CASE \A b \in Background : Fetching(b)' => task'[b] = task[b]
    <3>1. OneBackground'
      BY <2>4 DEF OverlapInv, OneBackground, Fetching
    <3>2. ASSUME NEW b \in Background, Fetching(b)'
          PROVE  /\ Overtaken(b)' \/ is_stale'
                 /\ refreshing' = "yes" \/ Overtaken(b)' \/ is_extremely_stale'
      BY <2>1, <2>2, <2>4, <3>2 DEF OverlapInv, FlagInv, Overtaken, is_stale,
         is_extremely_stale, Fetching
    <3> QED BY <2>3, <3>1, <3>2 DEF OverlapInv, FlagInv
  <2>5. ASSUME NEW b \in Background, Fetching(b)', task'[b] # task[b]
        PROVE  OverlapInv'
    <3>1. b \in Task /\ b # l
      BY TaskAssumption DEF Task
    <3>2. /\ try_start_refresh /\ refreshing' = "yes"
          /\ is_stale /\ ~is_extremely_stale
      BY <1>1, <2>5, <3>1, LookupTask
    <3>3. \A c \in Background : ~Fetching(c)
      BY <3>2, FlagIsTrue DEF OverlapInv, try_start_refresh
    <3>4. LookupStale(l)
      BY <1>1, <3>2 DEF lookup_issuer, LookupFresh, LookupBlocking
    <3>5. PICK d \in Background : Start(d)
      BY <2>5, <3>4 DEF LookupStale, Dispatch
    <3>6. \A c \in Background : c # d => task'[c] = task[c]
      BY <3>5, StartTyped DEF TypeOK, Task
    <3>7. \A c \in Background : Fetching(c)' => c = d
      BY <3>3, <3>6 DEF Fetching
    <3>8. OneBackground'
      BY <3>7 DEF OneBackground
    <3>9. is_stale'
      BY <2>1, <3>2 DEF is_stale
    <3> QED BY <2>3, <3>2, <3>8, <3>9 DEF OverlapInv, FlagInv
  <2> QED BY <2>4, <2>5
<1>2. ASSUME NEW x \in Task, FetchOk(x) PROVE OverlapInv'
  <2>1. Fetching(x) /\ task' = [task EXCEPT ![x] = Idle]
    BY <1>2 DEF FetchOk
  <2>2. CASE UNCHANGED sinceRefresh
    BY <2>1, <2>2, OverlapAfterEnd
  <2>3. CASE sinceRefresh' = 0
    <3>1. \A y \in Task : Fetching(y)' => Fetching(y) /\ task'[y] = task[y]
      BY <2>1, EndTask
    <3>2. \A y \in Task : Fetching(y)' => Overtaken(y)'
      BY <1>0, <2>3, <3>1 DEF Overtaken
    <3>3. OneBackground'
      BY <3>1 DEF OverlapInv, OneBackground, Task
    <3> QED BY <3>2, <3>3 DEF OverlapInv, FlagInv, Task
  <2> QED BY <1>2, <2>2, <2>3, FetchOkCache DEF cacheVars
<1>3. ASSUME NEW x \in Task, FetchFailed(x) PROVE OverlapInv'
  BY <1>3, OverlapAfterEnd DEF FetchFailed, cacheVars
<1>4. ASSUME NEW b \in Background, Stopped(b) PROVE OverlapInv'
  BY <1>4, OverlapAfterEnd DEF Stopped, cacheVars, Task
<1>5. CASE invalidate
  <2>1. is_stale' /\ is_extremely_stale'
    BY <1>5, Limits, TimeAssumption DEF invalidate, is_stale, is_extremely_stale
  <2>2. OneBackground'
    BY <1>5, InvalidateTask DEF OverlapInv, OneBackground, Task
  <2> QED BY <2>1, <2>2 DEF OverlapInv, FlagInv
<1>6. CASE Tick
  <2>1. sinceRefresh' \in Nat /\ sinceRefresh' <= sinceRefresh + 1
        /\ sinceRefresh' >= sinceRefresh
    BY <1>0, <1>6, Limits, GrowBounds DEF Tick
  <2>2. (is_stale => is_stale') /\ (is_extremely_stale => is_extremely_stale')
    BY <1>0, <2>1, Limits, TimeAssumption DEF is_stale, is_extremely_stale
  <2>3. \A y \in Task : Fetching(y)' => Fetching(y) /\ (Overtaken(y) => Overtaken(y)')
    BY <1>0, <1>6, <2>1, Limits, TickTask DEF Overtaken
  <2>4. OneBackground' /\ refreshing' = refreshing
    BY <1>6, <2>3 DEF OverlapInv, OneBackground, Task, Tick
  <2> QED BY <2>2, <2>3, <2>4 DEF OverlapInv, FlagInv, Task
<1>7. CASE UNCHANGED <<sinceRefresh, refreshing, task>>
  BY <1>7 DEF OverlapInv, FlagInv, OneBackground, Overtaken, Fetching, is_stale,
     is_extremely_stale
<1> QED BY <1>1, <1>2, <1>3, <1>4, <1>5, <1>6, <1>7
        DEF Next, Outage, vars, cacheVars

(* At most one background refresh runs at a time, though every refresh     *)
(* that ends clears refresh_in_progress (finish_refresh, RefreshGuard).    *)
THEOREM BackgroundIsSingle == Spec => []OneBackground
<1>1. Init => OverlapInv
  BY DEF Init, Idle, Fetching, OverlapInv, FlagInv, OneBackground, Task
<1>2. TypeOK /\ OverlapInv /\ [Next]_vars => OverlapInv'
  BY OverlapInductive
<1>3. OverlapInv => OneBackground
  BY DEF OverlapInv
<1> QED BY <1>1, <1>2, <1>3, TypeCorrect, PTL DEF Spec

=============================================================================
