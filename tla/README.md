# Provii Verifier: formal models

TLA+ models of the parts of `provii-verifier` that hold state, the TLC runs that
check them on small instances, and TLAPS proofs of the results that matter most.
Paths below are relative to the repository; `DO` is Durable Object.

1. [The system](#1-the-system)
2. [The modules and the code](#2-the-modules-and-the-code)
3. [What the runs check](#3-what-the-runs-check)
4. [Bounds](#4-bounds)
5. [Fairness](#5-fairness)
6. [What is proved](#6-what-is-proved)
7. [Where code and comments disagree](#7-where-code-and-comments-disagree)
8. [What is not modelled](#8-what-is-not-modelled)
9. [Plan](#9-plan)

## 1. The system

The verifier is a Cloudflare Worker. A relying party creates a *challenge*, a
wallet submits a zero-knowledge proof for it, the relying party redeems the
result, and the redemption is billed. An isolate of the worker runs many
requests on one thread; they interleave at every `await`, and many isolates run
at once. State that outlives a request is in Durable Objects (single-threaded,
transactional storage), in KV (eventually consistent, no compare-and-swap) and
in per-isolate caches.

| Component | State | Operations | What must hold |
|---|---|---|---|
| **ChallengeDO** (`durable_objects/challenge_do.rs`), one object per challenge | the record `ch:{uuid}`, the mapping `code:{short_code}` | create, get, get by code, update, delete; `put_with_retry` | states follow the lifecycle; the secret goes when `Pending` ends; evidence of a proof is kept until the expiry; record and mapping agree; requests are answered |
| **NonceDO** (`durable_objects/nonce_do.rs`), sharded by a hash of the tag | `nonce:{tag}` entries, one alarm per shard | `set_nonce`, alarm sweep | a nonce has one owner at a time; entries do not pile up |
| **Challenge store** (`storage/do_challenge_store.rs`) | none | `get`, `put` (update, on a 404 create), retries of timed-out sends | the object sees only requests it is meant for, in any order |
| **Nonce store** (`storage/durable_object_store.rs`) | none | `check_and_set`, one attempt, 2 s | an error may leave the nonce consumed |
| **verify** (`routes/verify.rs`) | a copy of the challenge, held over some ten awaits | load, admission, nonce, decision, write back | an accepted proof stands; a rejected one is never redeemed |
| **redeem** (`routes/redeem.rs`) | the same | load, gate, nonce, billing, write of the verdict | one verdict; no verdict for a metered origin without a deduction |
| **simulate** (`hosted/endpoints/simulate.rs`) | the same | sandbox substitute for verify, without a nonce | only in the sandbox |
| **challenge creation and polling** (`routes/challenge.rs`) | none | create; get by id or code | a poll never removes evidence early |
| **Credit service** (`clients/credit_management.rs`, another worker) | balance, deductions per challenge | consume | |
| **Issuer registry cache** (`storage/jwks.rs`), per isolate | copy of the registry, age, breaker, flag, epoch | lookup, blocking and background refresh, push invalidation | an invalidation is final; old data is not served; it recovers |
| **Idempotency** (`durable_objects/idempotency_do.rs`, `storage/idempotency_store.rs`, `security/idempotency.rs`) | `{key -> response}`, alarm | check, store, delete, sweep | one response per key (out of reach as the code stands, section 7) |
| **Hosted session** (`hosted/storage/kv.rs`, `hosted/types/session.rs`) | an encrypted KV record: state, two counters | create, status poll, redeem, notify | the state machine of the session; limits |
| **Hosted redeem** (`hosted/endpoints/redeem.rs`) | session, challenge, nonce, cookie | session limit, nonce, load, PKCE, billing, verdict, cookie | one cookie per verdict; a verdict is billed |
| **Notifications** (`hosted/endpoints/notify.rs`, `ws.rs`, `challenge_notify_do.rs`) | sockets and one alarm per session; used tickets in KV | upgrade, notify, alarm | no socket stays open for ever; a ticket is used once; a browser hears what is stored |
| **Origin policies** (`storage/origin_policy.rs`), per isolate | a cache of 60 s in front of KV, with eviction | lookup, invalidation | staleness is bounded; the cache keeps its limit |
| **Client authentication** (`security/auth.rs`, `status_auth.rs`) | a cache of 30 s of verified keys, per isolate; a nonce per request | key check, time window, nonce | a replaced key is refused, a new one accepted; a request is accepted once (true of internal endpoints, section 7 of the client's) |
| **Ban store** (`storage/ban_store.rs`), per isolate | a cache of 300 s in front of KV | get | staleness is bounded |
| **Rate limits** (`rate_limiting.rs`) | KV counters | check | best effort, by its own account |
| **Worker state** (`worker_bindings.rs`, `lib.rs`) | the cached `AppState`, a thread-local worker context | build, set, take | |
| **Secrets, audit, utilities** | none or write-only | | |

How they interact. A handler calls `challenge_store.get`, works on its copy,
awaits the nonce object, the policy, ban and issuer stores and the credit
service, and then calls `challenge_store.put` with the changed copy. Nothing
locks the challenge in between. What keeps two handlers apart is the nonce
(`verify:{id}`, `redeem:{id}`), consumed before the decisive step, and the
object's check of the transition when the copy arrives. Each send to the object
has a timeout of 2 s and is repeated; a send that timed out is not cancelled.

What makes this hard to test:

* the copy a handler writes back is as old as the handler, and a late send of it
  is older still;
* `put_with_retry` is the only place where the object itself yields between a
  read and a write, and it yields exactly when storage fails;
* nonces are consumed before the step they protect, so each failure after them
  decides what a retry can do;
* the redemption crosses three services (nonce, credit, challenge) with no
  transaction over them;
* the issuer cache mixes two kinds of refresh, a shared flag, a breaker and an
  epoch, and a task may be stopped between any two of them;
* the time window of a signed request and the life of its nonce are two clocks
  that must overlap, on two surfaces with different constants, and the caches of policies and of keys are two more that
  add up;
* a used ticket is marked in KV, which has no compare-and-swap, and the sockets of
  a session share one alarm.

`PROJECT.json` lists each hazard at its line under `hazards`, with the
properties that cover it or the reason why none does yet.

## 2. The modules and the code

```
ChallengeLifecycle        what the store promises of one challenge
      ^ refined by
ChallengeDO               the object          NonceDO      one nonce shard
      ^ instantiated by                          ^ its guarantee is used by VerdictFlow,
VerdictFlow                                      ^ extended by
  create, verify, redeem, simulate, poll      RequestAuth  signed requests over the shard
  over one challenge

Admission                 who may create a challenge: the policy and key caches of one isolate

HostedFlow                one hosted session: status, redeem, notify
  instantiates ChallengeLifecycle

Redemption                what the redemption of a challenge promises
  refined by VerdictFlow and by HostedFlow

HostedNotify              the push channel of one hosted session: ticket, sockets, notification

JwksCache                 the issuer registry cache of one isolate
```

Each `X_proofs` holds the theorems about `X`; each `MCX` is what TLC runs.

**ChallengeDO.** `rec` is the record, `codeMap` whether the mapping exists, `op`
the progress of each request. A record keeps its state and, for the secret and
the three timestamps, whether they are present. The handlers
(`create_challenge`, `get_challenge`, `get_challenge_by_code`,
`update_challenge`, `delete_challenge`) are one action each, because the input
gate holds other events back during storage operations; the exception, the sleep
between two attempts in `put_with_retry`, is the phases `create_record`,
`create_mapping` and `update_record` of `op`, continued by `RetryPut`. A
sleeping request holds the value it will write. `Faults` says which storage
operations may fail; `Evict` is the runtime dropping the object's memory. The
record is `CachedChallenge` of `cache.rs`.

**ChallengeLifecycle.** A challenge moves forward or stays, and evidence is not
removed before the expiry. `ChallengeDO!ImplementsLifecycle` is the refinement;
it is proved of the object under any requests (`LifecycleImplemented`) and checked
and proved of it under the real handlers (`VerdictFlow!FollowsLifecycle`).

**Redemption.** Proof accepted, deduction, answer, in that order; one answer; an
unmetered origin is billed with the answer or not at all. It knows nothing of
handlers, nonces or stores. `VerdictFlow!ImplementsRedemption` and
`HostedFlow!ImplementsRedemption` map it to the expert and to the hosted
redemption: `accepted` is that some handler decided to store an accepted proof
(whether or not the store answers), `granted` who was answered 200.

**NonceDO.** Times are kept as the seconds that remain, so the clock needs no
bound. `set_nonce` is the whole handler including the alarm it ensures, `Alarm`
the alarm handler with its sweep and the runtime's retries. `granted` is a ghost:
which requester was told that the nonce is its own, and for how long.

**RequestAuth.** Extends NonceDO with the requests whose nonces it keeps, on the
two surfaces that check a timestamp and then a nonce: the client's authorizer
(`ClientMessage`) and the internal bearer (`InternalMessage`). Both admit the same
`Window` on either side of our clock; `TtlOf` says how long each keeps a nonce
(300 s and 24 h). A sender's clock may be `Ahead` of ours by more than the window.
`offset` is a message's timestamp minus our clock,
`request` the message a handler found within the window (`check_window`) and
waits on the shard for (`verify_nonce`), `accepted` a ghost that counts. Time
passes between the two checks, up to `Delay`, and is one clock with the shard's
(`Second` takes NonceDO's `Tick`). `spend` is every other use of the shard. A
message that nobody can use any more is forgotten, so that its tag stands for the
next one and the run does not end.

**Admission.** One isolate: `policies` and `verified` are its two caches,
`request` what each handler awaits, `stored` what KV holds. `create_challenge`
is the handler up to its first await; `PolicyRead` is the rest of
`get_policy_detail` with its insertion, eviction (`MakeRoom`) or invalidation,
and `authenticate`, which awaits nothing until a key has failed;
`MismatchLogged` is the return from the audit log, which stores the refusal over
whatever another handler stored meanwhile, with the time of its own start.
`last` is a ghost: how long ago KV held each policy; a read may return any that
it held during the read or up to `Lag` before. `answer` is what the step just
taken decided, with the origin and the key the properties compare it with.

**VerdictFlow.** `pc` says how far each handler is, `snap` the challenge as it
read it, `out` what it writes back. `DO == INSTANCE ChallengeDO` shares the
object's variables: a handler's `get`, and the delivery of each `update` or
`create`, is the object's action. `Put` starts a write; the sends in flight are
`sent`, `Deliver` lets one reach the object at any time, also after its sender
has given up, `Timeout` sends again, `Receive` reads the reply and falls back to
a creation on a 404. `check_and_set` is the nonce call with its three outcomes,
where an error may or may not have consumed the tag. `consume_credits` has the
outcomes of the client: deducted (now or earlier), insufficient, or no clear
answer. Checks that depend on data the model does not keep (signature, proof,
policy, quota, PKCE) are free choices between going on and the answer the code
gives.

**HostedFlow.** One hosted session after its creation. The challenge is what
ChallengeLifecycle promises (`st`, `expired`), plus `late`, the states whose put
failed for its sender and may still arrive. Hosted challenges belong to the client
`provii-verifier`, so the expert redemption refuses them and the hosted one is the
only way to a verdict. The session record is `session`, and `visible` holds the
records a read of KV may return; `update_session_kv_checked` writes a whole record
back after the check against the state its writer read. A redemption is cut at its
awaits: `ReadSession`, `CountAttempt`, `ConsumeNonce`, `Load`, `RedeemExpiry`,
`RedeemReread`, `RedeemBill`, `RedeemWrite`, with `RedeemGate` where state and
PKCE are checked; a poll is `ReadSession`, `CountCheck`, `Load`,
`handle_hosted_status`, and starts again when it is done. `submit_verification`
keeps the decision of VerdictFlow's submissions (their nonce admits one) as
`decision`: accepted, rejected, or too late. It starts the notification,
`NotifyRead` and `NotifyWrite`, of a rejection on some of its paths only. `told` and `known` are ghosts: how far the answers
of all requests have said the session is, and how far they had when a request
began. Billing is the outcomes of the client again; a failed read of
`metering_enabled` counts as "disabled", as in the code, and `metered` records
that it was found enabled.

**HostedNotify.** One session and the upgrades of its browser to a WebSocket.
An upgrade is cut at its awaits: `ReadSession` (with the check of the ticket),
`CheckMarker`, `PutMarker`, and `handle_ws_upgrade` in the object, where the
socket is accepted before the alarm is looked for. `marks` are the ages of the
puts of the ticket's marker that are alive in KV; a read sees those older than
`Lag` and may miss a younger one. `Alarm` and `handle_notify` close every socket
the object holds, those included whose upgrade failed after the socket was
accepted (`orphan`). `Decide` is the end of the submission in `verify.rs`, where
a good proof is announced only after it was stored, and a bad one, stored or not,
on those rejection paths that pass `notify_hosted` (a free choice of `Fail`);
`UpdateSession` and `Push` follow it, and `PushTimesOut` leaves a push that
arrives later. `left` is the session's life, `record` its record's, which
notifications and polls extend. `again`, `opened` and `age` are ghosts: whether the
ticket had visibly been spent when an upgrade looked for its marker, and since
when a socket is open.

**JwksCache.** Clocks are ages (`sinceRefresh` is `now - last_refresh`) that
stop growing where no comparison can tell; time therefore has no bound. A
refresh is a task from its start, when it notes the epoch, to `FetchOk` or
`FetchFailed`. `lookup_issuer` has the three paths of the code. `data` is a
ghost: how old the cached data is and whether its reading began before the last
invalidation.

## 3. What the runs check

| Run | Instance | Properties | Shows |
|---|---|---|---|
| `do_faults` | 3 requests, every operation may fail | `TypeOK`, `SecretOnlyWhilePending`, `EvidenceMatchesState`, `EvidenceOutlivesRequests`, `EveryRequestAnswered` | whatever fails, records are well formed, no secret is kept beyond `Pending`, evidence is kept until the expiry, and a sleeping handler answers |
| `nonce_single` | RequestAuth over NonceDO: one message on each surface, 3 requesters, clocks ahead of the window, writes may fail | `AuthTypeOK`, `SingleUse`, `BearerAcceptedOnce`, `ExpiredEntriesGo` | a nonce has one owner at a time, a request to an internal endpoint is accepted once, and the sweep makes progress |
| `flow_verdict` | 2 verifiers, 2 redeemers, 1 simulator, credit service fails | `TypeOK`, `OneVerdict`, `VerdictIsProved`, `ImplementsRedemption` | one verdict, resting on a proof that was accepted and never rejected; proof, deduction and verdict come in that order |
| `flow_stand` | 1 verifier, 1 redeemer, a poll, 2 sends per write, any delivered late; deletes may fail | `AnswersStand`, `RecordHasCode`, `UsesObjectAsSpecified`, `FollowsLifecycle` | what a client was told is not undone before the expiry; under the real handlers, with their stale copies, a stored challenge follows the lifecycle and can be found by its code; the flow uses the object as ChallengeDO assumes, so its properties carry over |
| `admission_caches` | 2 handlers, an origin whose policy and key change, one that crowds the cache, one that is not registered; failed and slow reads | `TypeOK`, `AdmissionIsRecent`, `RevokedKeyIsRefused`, `NewKeyIsAccepted`, `EnabledOriginIsServed`, `CacheIsBounded` | how long a disabled origin, a deactivated client, a replaced key or an outdated refusal can still decide, and that a full cache finds room |
| `jwks_cache` | 2 lookups, 2 background refreshes, outages, a push invalidation, stopped tasks | `TypeOK`, `PushIsFinal`, `ServedIsRecent`, `OneBackground`, `FlagIsReleased`, `Recovers` | an invalidation is final, what is served is recent, the cache recovers |
| `hosted_session` | 2 redemptions, a browser that polls, the submission with its notification; stale and lost KV records, failed and late puts | `TypeOK`, `OneCookie`, `CookieIsBacked`, `ClientsSeeProgress`, `SessionTrailsChallenge`, `ImplementsRedemption` | one cookie, backed by a stored verdict; proof, deduction and cookie come in that order; no client sees the session go back; the record in KV is never ahead of the challenge |
| `hosted_push` | 2 upgrades, the decision with its notification, polls; failed puts, stale reads of KV, lost and late pushes, lost sockets | `TypeOK`, `TicketIsSpent`, `AlarmGuardsSockets`, `MessageIsTrue`, `SocketsAreClosed` | a ticket that was seen to open a socket opens no other; every open socket is closed in time; a browser hears what is stored, however late |
| `do_create`, `auth_client`, `flow_rewrite`, `flow_unbilled` | | one each | a statement of a comment that the code does not keep, see section 7 |

Each property of a passing run has a *mutant* in `PROJECT.json`: a definition
that models code, replaced by a form with a plausible bug, under which the
property is violated.

## 4. Bounds

* **Requests and handlers.** Three requests at the object are one that sleeps
  with an old record, one that overtakes it and one that reads the result. In the
  flow two handlers of the same kind race for a nonce; a third would find it as
  the second does. The proofs cover any number. `do_create` takes two requests,
  the creation and the same one sent again.
* **Clock of the object.** `ExpiresAt = 1`, `MaxTime = 2`: before, at and after
  the expiry, which is all that the comparisons tell apart, and the instant
  `now = ExpiresAt` is there because `get` and the routes disagree on it.
  `flow_stand` ends at `now = ExpiresAt`, because answers are promised until then;
  `flow_verdict` goes on beyond it.
* **Attempts.** `PutMaxAttempts = 3` is the code's; in the flow it is 1 (without
  put faults an attempt never fails) or 2 where a sleep matters.
* **Sends.** `MaxSends = 2` gives a send that is overtaken by its successor and
  one that arrives after its handler has answered. The code sends up to three
  times; the theorems hold for any number.
* **Times of the nonces.** One time to live shorter and one longer than the alarm
  interval. `Window` is 1 instead of 300 s. The internal nonce lives 3 units, which
  is the least that `InternalMargin` admits with a call of 1 unit; in the code it
  has 24 h where 602 s would do. `Ahead = 2` lets a message be signed before the
  window admits it. The client's nonce lives as long as the window, as in the code;
  in `auth_client` with one such message and calls that take no time.
* **The admission caches.** 3 and 2 units instead of 60 and 30 s, a read of up to
  1 unit: entries are seen fresh, half their life old (where eviction tells them
  apart), in their last second and expired, and a read ends after its entry's
  origin was changed. `MaxEntries = 1` with two origins that are cached makes
  every insertion find a full cache. With a limit of 2 and a third such origin,
  where the two kinds of eviction differ, TLC finds no error either (7 million
  states), in more time than the run should take. `Lag = 0` in the run; the
  theorems hold for any.
* **The push channel.** Session, alarm and marker live 4 units, a rewrite gives
  at least 2, a read of KV may be 1 behind. Two upgrades are one that spends the
  ticket and one that comes during, after or long after it; the theorems hold
  for any number.
* **The cache's clock.** The limits are scaled down to `1 <= 2 <= 3` with a
  refresh of up to one unit; in the code 600, 960, 3600 and 1.5 s. Only their
  order is used. `MaxFailures` is 2 instead of 3 so that the breaker opens within
  one outage of that length. `MaxEpoch = 1` bounds the number of invalidations:
  the epoch is only compared for equality.
* **The hosted session.** Limits of one attempt and one check, which stale and
  lost records let the requests exceed, so that both redemptions get to the nonce
  and the browser polls again. `MaxVisible = 2`: reads of KV tell the last record
  and one earlier one apart, any earlier one. The theorems hold for any number.
* **Deadlock.** The object, the flow and the hosted session stop when every
  request is answered and the clock is at its bound (`CHECK_DEADLOCK FALSE`). In
  the other modules time never stops; there deadlock is checked.

## 5. Fairness

* ChallengeDO: `RetryPut`, because the runtime fires a timer that was set.
  `Evict` ends such a request too. Nothing is assumed of arriving requests.
* NonceDO and RequestAuth: time passes, and the runtime runs an alarm that is due.
* HostedNotify: the same. Nothing is assumed of browsers, upgrades or
  notifications: a socket is closed although its message never came.
* JwksCache: time passes, KV answers or `with_timeout` fires, and issuers are
  looked up again and again (a cache nobody asks does not refresh itself).
  `Recovers` also supposes that the registry stays readable from some moment on.
  Nothing is assumed of `wait_until`: a background task may be stopped, with or
  without its guard clearing the flag.
* VerdictFlow, HostedFlow and Admission: none. Their properties are safety
  properties; a handler may stop anywhere.

## 6. What is proved

All for every value of the constants that satisfies the named assumptions of the
modules (bounds are naturals, the sentinel is no record, kinds of handlers are
disjoint, ...). `PROJECT.json` lists the theorems.

**ChallengeDO.** `TypeCorrect`; `SecretWiped` and `EvidenceComplete`, by one
invariant over *all* records the object holds, those of sleeping handlers
included, because a sleeping handler stores its record without looking again;
`EvidenceOutlives`, an action property that follows from which actions remove a
record. While writes succeed no handler ever sleeps (`Awake`). That is enough for
`ReachableByCode` (`RecordHasCode`), whatever reads and deletions fail.
`LifecycleImplemented` needs the reads too: each step of the object then maps to a step of ChallengeLifecycle
or to a stutter. `RetriesEnd` is the safety half of `EveryRequestAnswered`, under
all failures: a handler sleeps exactly as long as it has attempts left, and each
step that touches it leaves it fewer.

**NonceDO.** `NonceSingleUse`, while reads succeed. `SingleUse` is not inductive:
it needs `GrantIsBacked`, that the entry of a granted nonce is stored for at
least as long as the grant (`NonceBacked`). `SweepArmed`, while setting an alarm
succeeds: as long as there is an entry, an alarm is set.

**RequestAuth.** `ShardRefined`: whatever requests do, the shard sees a behaviour
of NonceDO, so its theorems hold of the composition (`RequestsSingleUse`,
`RequestsBacked`, `RequestsSwept`). `BearerRequestsAcceptedOnce` is about the
internal endpoints, next to any requests of the clients. It rests on
`InternalMargin`, an assumption on the constants that the code's values satisfy:
the window on both sides of the clock and the time of the call are no more than
the nonce's time to live. Nothing is assumed of senders' clocks. The invariant
(`KeptInv`) is that the entry of an accepted message lives for as long as any
presentation of it could still pass the window and reach the shard; the induction
needs the waiting time of the requests that already passed it. The client's
surface does not have the margin, and no theorem is stated of it: there
`auth_client` shows the counterexample.

**Admission.** All safety properties of its run, for any number of origins, keys
and handlers and any times. One invariant, `IInv`, says of everything a later
decision may rest on how old its grounds are: a cached policy was in KV no longer
ago than its age plus `Lag`, a policy that is being read no longer than the wait
plus `Lag`, a cached verdict on a key no longer than its own age after the policy
it was checked against. That gives `PolicyAge` and `KeyAge`, the sums in the
properties, and shows where each stamp must be taken: at the start of the read,
and at the start of the check of the key. `CachesAreBounded` is an argument on
cardinalities: eviction leaves room for one more.

**HostedNotify.** `TicketsAreSpent` assumes that the marker lives as long as the
session, `SessionTtl <= MarkerTtl`: once a socket was opened some put of the
marker is at least as old as the opening and alive until the session ends, so an
upgrade that looks for it later than `Lag` finds it. `AlarmsGuardSockets`: the age
of a socket and the time the alarm still has add up to no more than `AlarmTtl`,
because a later socket leaves the alarm alone. `MessagesAreTrue`: the notification
carries the decision, and the decision was stored before and is the only one.

**VerdictFlow.** The invariants are built in layers, each assuming the former:
types; that a handler writes one copy at most and answers what it wrote
(`WriteInv`); the nonces of the handlers that passed them (`NonceInv`), which
gives `AtMostOneVerdict` for any number of handlers, sends and failures; billing
(`BillInv`), which gives `NoFreeVerdict` (`VerdictIsBilled`) while the metering
flag can be read; the history of proofs (`ProofInv`), which gives
`VerdictRestsOnProof`; and the records a handler may send (`UseInv`), which gives
`ObjectUsedAsSpecified`: outside the sandbox the flow refines `ChallengeDO!Spec`,
so what is proved of the object holds in the flow. `AnswersStandUntilExpiry` is
about `AnswersStand` and takes an invariant (`StandInv`) on the requests in
flight: whatever the object answered that it stored still stands (`RepliesStand`),
an answer `ok` rests on such a reply, and only the creator ever finds no record
and creates one, because everybody else starts after its creation was answered. It
assumes that reads and writes of the object's storage succeed (`SteadyStorage`),
and needs both (section 7).

On these layers rest the results that tie the flow to its abstractions.
`RedemptionImplemented` maps each step to a step of Redemption or a stutter, while
the metering flag can be read; a redeemer past its nonce is alone, finds a proof,
and nobody was answered yet (`RedeemerAlone`), so that no other handler can come
between its deduction and its answer. `NoChargeWithoutProof` is the part of it
that needs no assumption at all. `FlowFollowsLifecycle` and
`TerminalStatesStayInFlow` say, under `SteadyStorage`, that the stored challenge
follows ChallengeLifecycle under the real handlers with their stale copies and late
deliveries, in the sandbox as well, and `StoredChallengeHasCode` that it can be
found by its code. They are proved from `StandInv` and not from the object's theorems, because in the sandbox the flow does not refine
`ChallengeDO!Spec`. `FlowRecordsSound` (no secret outside `Pending`, evidence with
its timestamps, every failure) does need that no simulator runs.
`RemovedByExpiryOnly` holds of everything.

**HostedFlow.** All properties of its run, for any number of redemptions and
polls. `SessionImplementsRedemption` is the second refinement of Redemption, with
no assumption: here `metered` records what was found, so a failed read of the flag
is part of the refinement. `StoreUsedAsPromised` says that the challenge takes the
steps of ChallengeLifecycle only, the promise `FlowFollowsLifecycle` proves of the
real handlers. `NonceInv` is the induction behind `AtMostOneCookie`: a redemption
that passed the nonce is the only one that ever does. `BillInv` gives
`NoFreeCookie` (`CookieIsBilled`). `SessionInv` gives `SessionNeverAhead`: every
copy of the record that somebody may still write back trails the challenge,
because a challenge that left `Pending` never returns to it. `CookieStands` must
exclude a late put after the cookie: `LateInv` says that once anybody has seen the
proof the submission's one put has arrived, and that a late verdict belongs to a
redemption that answered an error. `ProgressIsSeen` adds what each answer rests
on: the state read of the challenge after the request began (`SeenInv`), while
what was told before remains true of the challenge (`MovedInv`, `VerdictInv`).

**JwksCache.** `InvalidationIsFinal` and `StaleDataIsRefused`. Neither is
inductive. `Epochs` says of each refresh in flight: its epoch is the current one
and it began after the last invalidation, or the cache is empty, or the cache was
filled while it was under way. `Recent` ties the age of the data to the age of
the cache. `BackgroundIsSingle` needs more than the flag, which any refresh
clears: a lookup that refreshes began beyond the stale limit, so when it ends the
cache is still beyond it, or was refreshed after every running task began, and
those end before the new cache is stale. That is where the proof uses
`FetchTime <= CacheTtl`.

Liveness (`EveryRequestAnswered`, `ExpiredEntriesGo`, `FlagIsReleased`,
`Recovers`, `SocketsAreClosed`) stays with TLC: the prover does not treat
fairness and `ENABLED`. Every safety property of a passing run is proved. What
`flow_rewrite` and `flow_unbilled` refute is proved under the conditions that
exclude the counterexample (section 7).

## 7. Where code and comments disagree

Runs that end in a counterexample, each against a sentence of the repository:

* `do_create`: a creation stores its record, runs out of attempts on the mapping
  and is answered 503. The comment (`challenge_do.rs:418`) says a retry is safe; the
  retry finds the record, answers `created`, and the challenge has no short code.
  `ReachableByCode` is what remains: while writes succeed, there is no such 503 and
  every stored record has its code.
* `auth_client`: the comment on the client's time window (`auth.rs:229`) says that
  300 s bound how long a signed request remains usable and match the life of the
  nonce. Timestamps up to 300 s ahead are admitted as well as 300 s old ones, so a
  request can stay fresh for 600 s, and its nonce is kept for 300: a request from a
  clock that runs ahead is accepted again. The internal bearer, whose comment
  (`status_auth.rs:471`) makes the comparison with 24 h, does not have this.
* `flow_rewrite`: the header of `challenge_do.rs` says terminal states are final
  and writes to a challenge are serialised. A handler that sleeps in
  `put_with_retry` writes the record it read before, over a terminal state. While
  reads and writes succeed it is true, of the object under any requests
  (`TerminalStatesStay`) and under the real handlers (`TerminalStatesStayInFlow`).
* `flow_unbilled`: `redeem.rs:617` says that on a failed write no credit has been
  deducted. For a metered origin the deduction comes first. Of every other origin it
  is true, whatever fails (`FailureUnbilledIfUnmetered`).

Other observations, without a run of their own:

* `hosted/endpoints/redeem.rs:794` repeats the comment of `redeem.rs:617` where the
  hosted redemption has the same order: deduction, then the write that may fail.
  Redemption allows a deduction without an answer, so `ImplementsRedemption` does not
  exclude it.
* `redeem.rs:567` says that a retry after a 402 succeeds. The redeem nonce is
  gone, and the retry is answered 409.
* `auth.rs:483` says that only successes are cached; refusals are too. The cache
  of keys (`auth.rs:65`) has no limit, and its key is the API key and the client.
* `origin_policy.rs:545` and `:558` speak of the cache's 5 minutes; the constant
  is 1 minute.
* `ws.rs:210` says that the marker of a used ticket lives as long as the session,
  and `challenge_notify_do.rs:27` that the alarm must match `SESSION_TTL_SEC`.
  Both are 300 s constants, and the sandbox sets 600 s (`wrangler.toml:379`). With
  `SessionTtl = 4`, `MarkerTtl = 2` TLC finds `TicketIsSpent` violated.
* A session record that is rewritten near its end gets at least 60 s (`kv.rs:357`),
  and each poll gives it that again: a polled record outlives its session, and the
  marker of its ticket. `TicketIsSpent` speaks of the session's life only.
* Two upgrades that overlap can both find the ticket unused: the marker is read
  and then put. `TicketIsSpent` speaks of upgrades that come more than `Lag` after
  the socket was opened.
* With `Faults = {"read"}` NonceDO violates `SingleUse`: `.ok().flatten()`
  (`nonce_do.rs:153`) takes a failed read for an absent nonce. The theorem
  assumes that reads succeed.
* With `Outages = {"metering"}` VerdictFlow violates `VerdictIsBilled` and with it
  `ImplementsRedemption`: when the
  read of `metering_enabled` fails, redeem treats the origin as unmetered
  (`redeem.rs:508`).
* With `Faults = {"put"}` or `{"read"}` VerdictFlow violates `AnswersStand`: a send
  of the creator that timed out writes `Pending` over a proof that was accepted. A
  late update does it by sleeping in `put_with_retry` until the proof is stored, a
  late creation when its read of the record fails (`unwrap_or(None)`) and it takes
  the record for missing.
* A 503 of verify (`verify.rs:1025`) has consumed its nonce, so the retry it
  invites is a replay.
* The hosted redemption consumes its nonce before it looks at the challenge
  (`hosted/endpoints/redeem.rs:432`). A redemption that comes before the proof, or
  with a wrong verifier, is refused and leaves a session that can be polled and
  never redeemed; the limit of attempts next to it counts further attempts that
  cannot succeed.
* The session record can go back from `ProofOk` or `Expired` to `Pending`: a poll
  or redemption writes back the record it read, and the check compares with the
  state in that record (`kv.rs:306`). `kv.rs:339` argues that the record is a
  cache, and `ClientsSeeProgress` shows that no answer depends on it; only the
  notification reads its state. No code sets it to `Verified`.
* `simulate.rs:259` expires a challenge and keeps its secret in the copy. For a
  record that is gone, `put()` creates it, secret included. Sandbox only; for
  this reason `UsesObjectAsSpecified` is checked without simulators.
* An `Idempotency-Key` header makes every request end in a 503: the store
  percent-encodes the key, which holds colons and slashes, and the object
  validates the path undecoded (`idempotency_do.rs:140`). The object's hosted twin
  decodes it.

## 8. What is not modelled

* Cryptography, parsing, validation of requests, header and origin checks:
  functions of one request. Where a handler branches on one, the model branches
  freely.
* The other worker (credit management) and the runtime, beyond what they can
  answer.
* KV's eventual consistency in JwksCache: a refresh that starts after an
  invalidation may still read what KV held before it. `PushIsFinal` speaks of when
  the reading began. The invalidation reaches one isolate; each has its own cache.
* In HostedFlow, what `flow_rewrite` shows of the object under storage failures:
  there the challenge keeps ChallengeLifecycle's promise. Creation of the session,
  the binding to the client's address and the sandbox's simulations are left out
  too. The WebSocket side and the record's own expiry are in HostedNotify, which
  in turn leaves out simulations, the rate limit of upgrades and the answer to a
  ping.
* In Admission, what `create_challenge` does after it has admitted a request, the
  sandbox's way around the key, the index of key prefixes that finds the client,
  and `get_policy` and `get_cached_policy`, which fill the same cache in the same
  way but leave the entry of a disabled origin in place.
* In RequestAuth, the signature: a request that fails it is one of those that only
  `spend`.
* The expiry of nonces inside VerdictFlow and HostedFlow. `NONCE_DEDUP_TTL` is 300 s, the
  longest life of a challenge, and `NonceDO!SingleUse` covers that time.
* The background billing of unmetered origins (`wait_until`) beyond "it may or may
  not happen", and its moment: it is counted with the answer it is dispatched with.
* Components with status `not_modelled` in `PROJECT.json`, each with its reason.

## 9. Plan

Done: ChallengeLifecycle, ChallengeDO, NonceDO, Redemption, VerdictFlow,
HostedFlow, JwksCache, RequestAuth, Admission and HostedNotify with their runs, and the
proofs of section 6.

What would come next:

1. **HostedFlow over the object**: the same flow with `DO == INSTANCE
   ChallengeDO` under storage failures, to see which of its properties survive a
   rewrite.
2. **Abstractions of the caches**: what Admission and JwksCache promise their
   callers, as a register that may be read up to an age late, and the refinement by
   the invariants of section 6, which already bound that age.
3. **Idempotency**, once a key reaches its object: check, handler, store; expiry
   and sweep; a map from keys to first responses as the abstraction.
4. **Rate limits**: how far the requests in flight can exceed a limit.
