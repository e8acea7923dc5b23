---------------------------- MODULE ChallengeDO ----------------------------
(***************************************************************************)
(* The Durable Object that owns one challenge                              *)
(* (src/src/durable_objects/challenge_do.rs).                              *)
(*                                                                         *)
(* Every challenge UUID has an instance of its own (stub_for addresses the *)
(* object by the UUID), so the module keeps one record and one short-code  *)
(* mapping.  The runtime holds every other event of the object back while  *)
(* a storage operation runs (the input gate), so a handler is atomic up to *)
(* its reply, with one exception: put_with_retry sleeps on a timer between *)
(* two attempts of a failed write, and the gate does not cover timers.  A  *)
(* handler that sleeps there still holds the record it read before.        *)
(***************************************************************************)
EXTENDS Naturals, FiniteSets

CONSTANTS
    Req,            \* identifiers of the requests the object receives
    ExpiresAt,      \* expires_at of the challenge
    MaxTime,        \* bound on the clock
    PutMaxAttempts, \* PUT_MAX_ATTEMPTS
    Faults,         \* storage operations that may fail: "read", "put", "delete"
    NoRecord        \* what storage().get() returns for an absent key

VARIABLES
    rec,      \* the record under ch:{uuid}, or NoRecord
    codeMap,  \* is code:{short_code} mapped to the UUID?
    now,      \* the clock, in seconds
    op        \* op[r]: how far the object is with request r

doVars == <<rec, codeMap, now, op>>

-----------------------------------------------------------------------------
(* The record.  Timestamps, issuer data and byte strings are reduced to    *)
(* whether they are present; the immutable fields are left out.            *)

ChallengeState ==
    {"Pending", "ProofOkWaitingForRedeem", "Verified", "Failed", "Expired"}

CachedChallenge ==
    [ state             : ChallengeState,
      submit_secret     : {"Held", "Wiped"},
      proof_submitted   : {"Yes", "No"},
      proof_verified_at : {"None", "Some"},
      verified_at       : {"None", "Some"} ]

ASSUME RecordAssumption == NoRecord \notin CachedChallenge
ASSUME BoundAssumption ==
    /\ ExpiresAt \in Nat
    /\ MaxTime \in Nat
    /\ PutMaxAttempts \in Nat \ {0}
ASSUME FaultAssumption == Faults \subseteq {"read", "put", "delete"}

is_terminal_state(s) == s \in {"Verified", "Failed", "Expired"}

\* mutant: only asks whether the current state is terminal
TransitionFromLive(from, to) == from = to \/ ~is_terminal_state(from)

is_valid_transition(from, to) ==
    \/ from = to
    \/ /\ from = "Pending"
       /\ to \in {"ProofOkWaitingForRedeem", "Failed", "Expired"}
    \/ /\ from = "ProofOkWaitingForRedeem"
       /\ to \in {"Verified", "Failed", "Expired"}

\* The states delete_challenge refuses to delete.
EvidenceBearing(c) == c.state \in {"Verified", "ProofOkWaitingForRedeem"}
\* mutant: protects the redeemed challenge only
DeletableUnlessVerified(c) == c.state # "Verified"

Deletable(c) == ~EvidenceBearing(c)

(* The records the callers of the store send, for creation and for update  *)
(* alike: the store's put() tries an update first and creates on a 404.    *)
(* (The sandbox's simulate endpoint also expires a challenge without       *)
(* wiping its secret; see VerdictFlow.)                                    *)
Challenge(state, secret, submitted, proved, redeemed) ==
    [state |-> state, submit_secret |-> secret, proof_submitted |-> submitted,
     proof_verified_at |-> proved, verified_at |-> redeemed]

FreshChallenge    == Challenge("Pending", "Held", "No", "None", "None")
ExpiredChallenge  == Challenge("Expired", "Wiped", "No", "None", "None")
FailedChallenge   == Challenge("Failed", "Wiped", "Yes", "None", "None")
ProofOkChallenge  ==
    Challenge("ProofOkWaitingForRedeem", "Wiped", "Yes", "Some", "None")
VerifiedChallenge == Challenge("Verified", "Wiped", "Yes", "Some", "Some")

CallerRecords ==
    {FreshChallenge, ExpiredChallenge, FailedChallenge, ProofOkChallenge,
     VerifiedChallenge}

\* mutants: the secret is wiped only when the proof is accepted; the
\* timestamp of the redemption is not taken from the update
MergeKeepsSecret(stored, u) ==
    [u EXCEPT !.submit_secret = IF u.state = "ProofOkWaitingForRedeem"
                                THEN "Wiped" ELSE stored.submit_secret]
MergeDropsTime(stored, u) ==
    [u EXCEPT !.submit_secret = IF u.state = "Pending"
                                THEN stored.submit_secret ELSE "Wiped",
              !.verified_at = stored.verified_at]

\* What update_challenge writes: the mutable fields of update u over the
\* stored record; the secret goes when the record leaves Pending.
Merge(stored, u) ==
    [ state             |-> u.state,
      submit_secret     |-> IF stored.state = "Pending" /\ u.state # "Pending"
                            THEN "Wiped" ELSE stored.submit_secret,
      proof_submitted   |-> u.proof_submitted,
      proof_verified_at |-> IF u.proof_verified_at = "Some"
                            THEN "Some" ELSE stored.proof_verified_at,
      verified_at       |-> IF u.verified_at = "Some"
                            THEN "Some" ELSE stored.verified_at ]

-----------------------------------------------------------------------------
(* Requests in progress *)

Replies == {"created", "updated", "deleted", "found", "not_found", "gone",
            "conflict", "unavailable", "error", "lost"}
Sleeping == {"create_record", "create_mapping", "update_record"}

Idle        == [phase |-> "idle"]
Asleep(p, v, n) == [phase |-> p, val |-> v, tries |-> n]
Done(reply) == [phase |-> "done", reply |-> reply]

OpStates ==
    {Idle}
    \cup {Done(a) : a \in Replies}
    \cup [phase : Sleeping, val : CachedChallenge, tries : 1..(PutMaxAttempts - 1)]

Answer(r, reply) == op' = [op EXCEPT ![r] = Done(reply)]
Ongoing(r) == op[r].phase \in Sleeping

\* storage().get(..).await.unwrap_or(None): a failed read is an absent key
Seen == {rec} \cup (IF "read" \in Faults THEN {NoRecord} ELSE {})

-----------------------------------------------------------------------------
(* put_with_retry, one attempt at a time *)

\* mutants: one attempt too many; starts over instead of giving up
PutFailsOnceMore(r, p, v, n) ==
    /\ "put" \in Faults
    /\ IF n <= PutMaxAttempts
       THEN op' = [op EXCEPT ![r] = Asleep(p, v, n)]
       ELSE Answer(r, "unavailable")
PutFailsForever(r, p, v, n) ==
    /\ "put" \in Faults
    /\ op' = [op EXCEPT ![r] = Asleep(p, v, IF n < PutMaxAttempts THEN n ELSE 1)]

\* attempt n failed: sleep until the next one, or give up with a 503
PutFails(r, p, v, n) ==
    /\ "put" \in Faults
    /\ IF n < PutMaxAttempts
       THEN op' = [op EXCEPT ![r] = Asleep(p, v, n)]
       ELSE Answer(r, "unavailable")

PutMapping(r, v, n) ==
    \/ PutFails(r, "create_mapping", v, n) /\ UNCHANGED codeMap
    \/ Answer(r, "created") /\ codeMap' = TRUE

\* mutant: the mapping is not written
PutRecordOnly(r, v, n) ==
    \/ PutFails(r, "create_record", v, n) /\ UNCHANGED <<rec, codeMap>>
    \/ rec' = v /\ Answer(r, "created") /\ UNCHANGED codeMap

PutNewRecord(r, v, n) ==
    \/ PutFails(r, "create_record", v, n) /\ UNCHANGED <<rec, codeMap>>
    \/ rec' = v /\ PutMapping(r, v, 1)

PutUpdate(r, v, n) ==
    /\ UNCHANGED codeMap
    /\ \/ PutFails(r, "update_record", v, n) /\ UNCHANGED rec
       \/ rec' = v /\ Answer(r, "updated")

RetryPut(r) ==
    /\ Ongoing(r)
    /\ LET v == op[r].val
           n == op[r].tries + 1
       IN \/ op[r].phase = "create_record"  /\ PutNewRecord(r, v, n)
          \/ op[r].phase = "create_mapping" /\ PutMapping(r, v, n) /\ UNCHANGED rec
          \/ op[r].phase = "update_record"  /\ PutUpdate(r, v, n)
    /\ UNCHANGED now

-----------------------------------------------------------------------------
(* The handlers *)

\* delete the record, then the mapping; a failing delete leaves the rest
DeleteKeys(r, reply) ==
    \/ rec' = NoRecord /\ codeMap' = FALSE /\ Answer(r, reply)
    \/ /\ "delete" \in Faults
       /\ rec' \in {rec, NoRecord}
       /\ UNCHANGED codeMap
       /\ Answer(r, "error")

create_challenge(r, c) ==
    /\ op[r] = Idle
    /\ \E seen \in Seen :
          \/ /\ seen # NoRecord
             /\ Answer(r, "created")
             /\ UNCHANGED <<rec, codeMap>>
          \/ seen = NoRecord /\ PutNewRecord(r, c, 1)
    /\ UNCHANGED now

ReadOrExpire(r) ==
    \E seen \in Seen :
       \/ /\ seen = NoRecord
          /\ Answer(r, "not_found")
          /\ UNCHANGED <<rec, codeMap>>
       \/ /\ seen # NoRecord
          /\ ExpiresAt > now
          /\ Answer(r, "found")
          /\ UNCHANGED <<rec, codeMap>>
       \/ /\ seen # NoRecord
          /\ ~(ExpiresAt > now)
          /\ DeleteKeys(r, "gone")

get_challenge(r) ==
    /\ op[r] = Idle
    /\ ReadOrExpire(r)
    /\ UNCHANGED now

get_challenge_by_code(r) ==
    /\ op[r] = Idle
    /\ \/ codeMap /\ ReadOrExpire(r)
       \/ /\ ~codeMap \/ "read" \in Faults
          /\ Answer(r, "not_found")
          /\ UNCHANGED <<rec, codeMap>>
    /\ UNCHANGED now

update_challenge(r, u) ==
    /\ op[r] = Idle
    /\ \E seen \in Seen :
          IF seen = NoRecord
          THEN Answer(r, "not_found") /\ UNCHANGED <<rec, codeMap>>
          ELSE IF now >= ExpiresAt /\ ~is_terminal_state(u.state)
          THEN Answer(r, "gone") /\ UNCHANGED <<rec, codeMap>>
          ELSE IF ~is_valid_transition(seen.state, u.state)
          THEN Answer(r, "conflict") /\ UNCHANGED <<rec, codeMap>>
          ELSE PutUpdate(r, Merge(seen, u), 1)
    /\ UNCHANGED now

delete_challenge(r) ==
    /\ op[r] = Idle
    /\ \E seen \in Seen :
          \/ /\ seen = NoRecord
             /\ Answer(r, "deleted")
             /\ UNCHANGED <<rec, codeMap>>
          \/ /\ seen # NoRecord
             /\ ~Deletable(seen)
             /\ Answer(r, "conflict")
             /\ UNCHANGED <<rec, codeMap>>
          \/ /\ seen # NoRecord
             /\ Deletable(seen)
             /\ DeleteKeys(r, "deleted")
    /\ UNCHANGED now

-----------------------------------------------------------------------------
(* The environment: the clock, and the runtime evicting the object from    *)
(* memory, which drops the handlers that sleep and keeps the storage.      *)

Tick == now < MaxTime /\ now' = now + 1 /\ UNCHANGED <<rec, codeMap, op>>

Evict ==
    /\ \E r \in Req : Ongoing(r)
    /\ op' = [r \in Req |-> IF Ongoing(r) THEN Done("lost") ELSE op[r]]
    /\ UNCHANGED <<rec, codeMap, now>>

Init ==
    /\ rec = NoRecord
    /\ codeMap = FALSE
    /\ now = 0
    /\ op = [r \in Req |-> Idle]

Handle(r) ==
    \/ \E c \in CallerRecords : create_challenge(r, c)
    \/ get_challenge(r)
    \/ get_challenge_by_code(r)
    \/ \E u \in CallerRecords : update_challenge(r, u)
    \/ delete_challenge(r)

Next ==
    \/ \E r \in Req : Handle(r) \/ RetryPut(r)
    \/ Tick
    \/ Evict

\* a timer that was set fires
Fairness == \A r \in Req : WF_doVars(RetryPut(r))

Spec == Init /\ [][Next]_doVars
FairSpec == Spec /\ Fairness

-----------------------------------------------------------------------------
TypeOK ==
    /\ rec \in CachedChallenge \cup {NoRecord}
    /\ codeMap \in BOOLEAN
    /\ now \in Nat
    /\ op \in [Req -> OpStates]

\* every record the object holds: the stored one and those of sleeping writes
Records ==
    ({rec} \ {NoRecord}) \cup {op[r].val : r \in {q \in Req : Ongoing(q)}}

\* The submit secret is gone from a record, stored or about to be stored, as
\* soon as the record is not Pending: update_challenge wipes it on the way
\* out of Pending, and the callers wipe it before they send a record that
\* create_challenge stores as it is.
SecretOnlyWhilePending ==
    \A c \in Records : c.submit_secret = "Held" => c.state = "Pending"

\* A state that claims a proof or a redemption carries its timestamps, and
\* verified_at is on no other record: the record create_challenge or
\* update_challenge writes cannot mix the states of two requests.
EvidenceMatchesState ==
    \A c \in Records :
       /\ EvidenceBearing(c)
             => c.proof_submitted = "Yes" /\ c.proof_verified_at = "Some"
       /\ (c.verified_at = "Some") <=> (c.state = "Verified")

\* A record that bears evidence is not removed before it has expired, by
\* whichever of get_challenge and delete_challenge, in whatever order with
\* the retries of other requests.
EvidenceOutlivesRequests ==
    [][ (rec # NoRecord /\ EvidenceBearing(rec) /\ rec' = NoRecord)
        => now >= ExpiresAt ]_doVars

\* A stored record is reachable by its short code once no handler is on its
\* way to write the mapping: the two keys create_challenge writes and the two
\* keys get_challenge and delete_challenge remove agree.
RecordHasCode ==
    (rec # NoRecord /\ \A r \in Req : ~Ongoing(r)) => codeMap

\* put_with_retry gives up after PutMaxAttempts: a handler that sleeps between
\* two attempts answers in the end, whatever the storage does.
EveryRequestAnswered ==
    \A r \in Req : Ongoing(r) ~> op[r].phase = "done"

(* The store's promise, of the state of the stored record.                 *)
Lifecycle ==
    INSTANCE ChallengeLifecycle
    WITH st <- IF rec = NoRecord THEN "Absent" ELSE rec.state,
         expired <- now >= ExpiresAt

\* While no write and no read fails, the object implements the lifecycle.
ImplementsLifecycle == Lifecycle!Spec

\* What the header of challenge_do.rs states: a terminal state cannot
\* transition further.
TerminalStatesAreFinal ==
    [][ (rec # NoRecord /\ rec' # NoRecord /\ is_terminal_state(rec.state))
        => rec'.state = rec.state ]_doVars

\* What create_challenge's comment states of its 503: the request can safely
\* be sent again.  After a 503, and while no handler is on its way to a write,
\* a creation that is answered created leaves a challenge that can be found by
\* its code.  (With two requests, the 503 is that of the first creation.)
RetriedCreateIsComplete ==
    [][ \A r, q \in Req :
           (/\ op[q] = Done("unavailable")
            /\ op[r] = Idle /\ op'[r] = Done("created")
            /\ \A p \in Req : ~Ongoing(p))
           => codeMap' ]_doVars

=============================================================================
