----------------------------- MODULE Admission -----------------------------
(***************************************************************************)
(* How one isolate decides whether a client may create a challenge for an  *)
(* origin: the cache of origin policies                                    *)
(* (src/src/storage/origin_policy.rs) in front of KV, and the cache of     *)
(* verified API keys (src/src/security/auth.rs) behind it.                 *)
(*                                                                         *)
(* Handlers interleave wherever they await: the read of KV, and the audit  *)
(* log of a key that did not match.  Between a policy and the verification *)
(* of a key against it nothing is awaited.  Times are ages: entry.age is   *)
(* now - cached_at.  The key cache is looked up by key and client; there   *)
(* is one client here, so by key.                                          *)
(***************************************************************************)
EXTENDS Integers, FiniteSets

CONSTANTS
    Origin,      \* origins looked up in this isolate
    Key,         \* API keys presented by the client
    PoliciesOf,  \* the policies each origin may have in KV over time
    Handler,     \* request handlers of the isolate
    PolicyTtl,   \* CACHE_TTL_MS of the policy cache: 60 s
    KeyTtl,      \* API_KEY_CACHE_TTL_MS: 30 s
    MaxEntries,  \* MAX_CACHE_ENTRIES of the policy cache
    ReadTime,    \* KV_READ_TIMEOUT_MS
    Lag,         \* how far a read of KV may be behind its writes
    None         \* no entry, no client, no answer

VARIABLES
    stored,    \* the policy KV holds for each origin
    last,      \* seconds since an origin last had a policy, up to Horizon
    policies,  \* OriginPolicyStore.cache
    verified,  \* API_KEY_CACHE
    request,   \* what a handler awaits, and for how long
    answer     \* what the step just taken decided, if it decided anything

vars == <<stored, last, policies, verified, request, answer>>

\* A policy: enabled, disabled or absent, with the key of the client's stored
\* hash, "another" for a key nobody presents, or None when the client is not in
\* it or not active.
Policy == [state : {"enabled", "disabled", "absent"}, key : Key \cup {"another", None}]

ASSUME TimesAssumption ==
    /\ PolicyTtl \in Nat \ {0} /\ KeyTtl \in Nat \ {0}
    /\ ReadTime \in Nat /\ Lag \in Nat /\ MaxEntries \in Nat \ {0}
ASSUME OriginAssumption == IsFiniteSet(Origin)
ASSUME PolicyAssumption ==
    \A o \in Origin : PoliciesOf[o] \subseteq Policy
\* a client id belongs to one origin: verdicts are cached by key and client
ASSUME ClientAssumption ==
    \A o, q \in Origin :
       (/\ \E p \in PoliciesOf[o] : p.key # None
        /\ \E p \in PoliciesOf[q] : p.key # None) => o = q

\* the greatest age of a policy a decision rests on, and of a key's verdict
PolicyAge == Lag + (IF ReadTime >= PolicyTtl THEN ReadTime ELSE PolicyTtl - 1)
KeyAge == PolicyAge + KeyTtl - 1
Horizon == KeyAge + 1

-----------------------------------------------------------------------------
Idle == [phase |-> "idle"]
Reading(o, k, w) == [phase |-> "reading", origin |-> o, key |-> k, waited |-> w]
Logging(k, w) == [phase |-> "logging", key |-> k, waited |-> w]

Await(h, p) == request' = [request EXCEPT ![h] = p]

\* answers carry what the properties compare them with
Decide(o, k, what) == answer' = [origin |-> o, key |-> k, what |-> what]

FreshPolicy(o) == policies[o] # None /\ policies[o].age < PolicyTtl

\* mutant: a verdict is used for a second too many
StaleKey(k) == verified[k] # None /\ verified[k].age <= KeyTtl

FreshKey(k) == verified[k] # None /\ verified[k].age < KeyTtl

Remember(k, verdict, age) ==
    verified' = [verified EXCEPT ![k] = [verdict |-> verdict, age |-> age]]

\* verify_api_key_cached, against the policy the handler holds
verify_api_key_cached(h, o, k, policy) ==
    \/ /\ FreshKey(k)
       /\ Decide(o, k, verified[k].verdict)
       /\ Await(h, Idle)
       /\ UNCHANGED verified
    \/ /\ ~FreshKey(k) /\ policy.key = k
       /\ Remember(k, "accepted", 0)
       /\ Decide(o, k, "accepted")
       /\ Await(h, Idle)
    \/ /\ ~FreshKey(k) /\ policy.key # k
       /\ Decide(o, k, "refused")
       /\ Await(h, Logging(k, 0))
       /\ UNCHANGED verified

\* authenticate, with an enabled policy: the client must be in it and active
authenticate(h, o, k, policy) ==
    \/ /\ policy.key = None
       /\ Decide(o, k, "unknown")
       /\ Await(h, Idle)
       /\ UNCHANGED verified
    \/ policy.key # None /\ verify_api_key_cached(h, o, k, policy)

-----------------------------------------------------------------------------
(* get_policy_detail *)

Cached(C) == {o \in Origin : C[o] # None}

\* mutant: the cache only grows
KeepAll == policies

\* a full cache drops what is older than half its life, or everything
MakeRoom ==
    LET young == [o \in Origin |->
                    IF policies[o] # None /\ 2 * policies[o].age < PolicyTtl
                    THEN policies[o] ELSE None] IN
    IF Cardinality(Cached(policies)) < MaxEntries THEN policies
    ELSE IF Cardinality(Cached(young)) < MaxEntries THEN young
    ELSE [o \in Origin |-> None]

\* what the handler does with a policy, cached or read
use_policy(h, o, k, policy) ==
    \/ policy.state = "enabled" /\ authenticate(h, o, k, policy)
    \/ /\ policy.state # "enabled"
       /\ Decide(o, k, policy.state)
       /\ Await(h, Idle)
       /\ UNCHANGED verified

create_challenge(h, o, k) ==
    /\ request[h] = Idle
    /\ \/ FreshPolicy(o) /\ use_policy(h, o, k, policies[o].policy)
       \/ /\ ~FreshPolicy(o)
          /\ Await(h, Reading(o, k, 0))
          /\ answer' = None
          /\ UNCHANGED verified
    /\ UNCHANGED <<stored, last, policies>>

\* mutant: the entry is stamped when it is stored, not when the read began
StampedWhenStored(p, waited) == [policy |-> p, age |-> 0]

\* cached_at is the time at which the lookup began
CacheEntry(p, waited) == [policy |-> p, age |-> waited]

\* mutant: a disabled policy is cached like an enabled one
CachesDisabled(o, p, waited) ==
    IF p.state = "absent" THEN policies
    ELSE [MakeRoom EXCEPT ![o] = CacheEntry(p, waited)]

\* insert, invalidate_cache, or neither
AfterRead(o, p, waited) ==
    CASE p.state = "enabled"  -> [MakeRoom EXCEPT ![o] = CacheEntry(p, waited)]
      [] p.state = "disabled" -> [policies EXCEPT ![o] = None]
      [] p.state = "absent"   -> policies

\* KV answers with a policy the origin had since the read began, or not much
\* before.
Readable(o, waited) == {p \in PoliciesOf[o] : last[o][p] <= Lag + waited}

PolicyRead(h) ==
    /\ request[h].phase = "reading"
    /\ LET o == request[h].origin
           k == request[h].key
           w == request[h].waited IN
       \E p \in Readable(o, w) :
          /\ policies' = AfterRead(o, p, w)
          /\ use_policy(h, o, k, p)
    /\ UNCHANGED <<stored, last>>

\* the read fails: nothing is cached, and the request ends with an error
ReadFails(h) ==
    /\ request[h].phase = "reading"
    /\ Await(h, Idle)
    /\ answer' = None
    /\ UNCHANGED <<stored, last, policies, verified>>

\* mutant: the refusal is stamped after the audit log
RefusalStamped(k, waited) == Remember(k, "refused", 0)

RememberRefusal(k, waited) == Remember(k, "refused", waited)

\* verify_api_key has logged the mismatch; the verdict is cached, over
\* whatever another handler cached meanwhile
MismatchLogged(h) ==
    /\ request[h].phase = "logging"
    /\ RememberRefusal(request[h].key, request[h].waited)
    /\ Await(h, Idle)
    /\ answer' = None
    /\ UNCHANGED <<stored, last, policies>>

-----------------------------------------------------------------------------
(* The environment *)

\* the management plane, another worker, writes a policy
WritePolicy(o, p) ==
    /\ stored' = [stored EXCEPT ![o] = p]
    /\ last' = [last EXCEPT ![o][p] = 0]
    /\ answer' = None
    /\ UNCHANGED <<policies, verified, request>>

UpTo(n, age) == IF age < n THEN age + 1 ELSE age

AgedEntry(e, ttl) == IF e = None THEN None ELSE [e EXCEPT !.age = UpTo(ttl, @)]

\* mutant: a read may take as long as it likes
NoTimeout(h) == FALSE

\* with_timeout
TimedOut(h) == request[h].waited >= ReadTime

AgedRequest(h) ==
    CASE request[h].phase = "reading" ->
            IF TimedOut(h) THEN Idle ELSE [request[h] EXCEPT !.waited = @ + 1]
      [] request[h].phase = "logging" ->
            [request[h] EXCEPT !.waited = UpTo(KeyTtl, @)]
      [] request[h].phase = "idle" -> Idle

\* One second passes.  A read that takes longer than its timeout fails.
Tick ==
    /\ last' = [o \in Origin |-> [p \in PoliciesOf[o] |->
                  IF p = stored[o] THEN 0 ELSE UpTo(Horizon, last[o][p])]]
    /\ policies' = [o \in Origin |-> AgedEntry(policies[o], PolicyTtl)]
    /\ verified' = [k \in Key |-> AgedEntry(verified[k], KeyTtl)]
    /\ request' = [h \in Handler |-> AgedRequest(h)]
    /\ answer' = None
    /\ UNCHANGED stored

Init ==
    /\ stored \in {s \in [Origin -> Policy] : \A o \in Origin : s[o] \in PoliciesOf[o]}
    /\ last = [o \in Origin |-> [p \in PoliciesOf[o] |->
                 IF p = stored[o] THEN 0 ELSE Horizon]]
    /\ policies = [o \in Origin |-> None]
    /\ verified = [k \in Key |-> None]
    /\ request = [h \in Handler |-> Idle]
    /\ answer = None

Next ==
    \/ \E h \in Handler, o \in Origin, k \in Key : create_challenge(h, o, k)
    \/ \E h \in Handler : PolicyRead(h) \/ ReadFails(h) \/ MismatchLogged(h)
    \/ \E o \in Origin : \E p \in PoliciesOf[o] : WritePolicy(o, p)
    \/ Tick

Spec == Init /\ [][Next]_vars

-----------------------------------------------------------------------------
EntryType == [policy : Policy, age : Nat]
VerdictType == [verdict : {"accepted", "refused"}, age : Nat]
AnswerType ==
    [origin : Origin, key : Key,
     what : {"accepted", "refused", "unknown", "disabled", "absent"}]

TypeOK ==
    /\ \A o \in Origin : stored[o] \in PoliciesOf[o]
    /\ \A o \in Origin : last[o] \in [PoliciesOf[o] -> Nat]
    /\ policies \in [Origin -> EntryType \cup {None}]
    /\ verified \in [Key -> VerdictType \cup {None}]
    /\ \A h \in Handler :
          \/ request[h] = Idle
          \/ \E o \in Origin, k \in Key, w \in 0 .. ReadTime : request[h] = Reading(o, k, w)
          \/ \E k \in Key, w \in 0 .. KeyTtl : request[h] = Logging(k, w)
    /\ answer \in AnswerType \cup {None}

\* the origin had such a policy within the last so many seconds
Had(o, S, age) == \E p \in PoliciesOf[o] \cap S : last[o][p] <= age

WithClient == {p \in Policy : p.state = "enabled" /\ p.key # None}
WithKey(k) == {p \in Policy : p.state = "enabled" /\ p.key = k}
WithOtherKey(k) == {p \in Policy : p.state = "enabled" /\ p.key \notin {k, None}}
NotEnabled == {p \in Policy : p.state # "enabled"}

Answered(W) == answer # None /\ answer.what \in W

\* A client that was deactivated, or whose origin was disabled, is turned away
\* once the policy cache has run out, however recently its key was verified and
\* whatever reads of the old policy were still under way.
AdmissionIsRecent ==
    Answered({"accepted"}) => Had(answer.origin, WithClient, PolicyAge)

\* A key that was replaced is refused once both caches have run out, one after
\* the other.
RevokedKeyIsRefused ==
    Answered({"accepted"}) => Had(answer.origin, WithKey(answer.key), KeyAge)

\* A key that is new is refused no longer than that: a refusal that is cached,
\* late and over a newer verdict, keeps the age of its check.
NewKeyIsAccepted ==
    Answered({"refused"}) => Had(answer.origin, WithOtherKey(answer.key), KeyAge)

\* An origin that was enabled again is served at once: only what KV answered
\* says that an origin is disabled or absent.
EnabledOriginIsServed ==
    Answered({"disabled", "absent"}) => Had(answer.origin, NotEnabled, Lag + ReadTime)

\* The policy cache keeps its limit.
CacheIsBounded == Cardinality(Cached(policies)) <= MaxEntries

=============================================================================
