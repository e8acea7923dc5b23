---------------------------- MODULE VerdictFlow ----------------------------
(***************************************************************************)
(* The life of one challenge across the request handlers of the worker:    *)
(* creation (routes/challenge.rs), proof submission (routes/verify.rs),    *)
(* redemption (routes/redeem.rs) and the sandbox's simulated proof         *)
(* (hosted/endpoints/simulate.rs).                                         *)
(*                                                                         *)
(* Each handler reads the challenge once and later writes back the copy it *)
(* read.  Between the two it awaits other services, so any number of other *)
(* handlers run meanwhile; what they share is the challenge's object       *)
(* (ChallengeDO, imported as DO), the nonces and the credit service.       *)
(*                                                                         *)
(* A write is sent to the object up to MaxSends times.  A send that timed  *)
(* out is not cancelled: it stays in flight and may still be delivered at  *)
(* any later time, or never.  A second send of a read is left out: all it  *)
(* can do is delete an expired record, as a poll does.                     *)
(*                                                                         *)
(* A consumed nonce stays consumed: its time to live (NONCE_DEDUP_TTL, 300 *)
(* s) is the longest life of a challenge and many times that of a handler, *)
(* and NonceDO shows that it has one owner until then.                     *)
(***************************************************************************)
EXTENDS Naturals, FiniteSets

CONSTANTS
    Creator,        \* the one handler of POST /v1/challenge
    Verifiers,      \* handlers of POST /v1/verify
    Redeemers,      \* handlers of POST /v1/redeem
    Simulators,     \* handlers of the sandbox's simulate endpoint
    Pollers,        \* handlers that only read the challenge
    MaxSends,       \* MAX_RETRIES of the challenge store
    Outages,        \* services that may fail: "nonce", "metering", "credit"
    ExpiresAt, MaxTime, PutMaxAttempts, Faults, NoRecord  \* see ChallengeDO

VARIABLES
    rec, codeMap, now, op,  \* the challenge's object, see ChallengeDO
    pc,       \* pc[h]: the point handler h has reached
    snap,     \* snap[h]: the challenge as h read it
    out,      \* out[h]: the challenge h writes back
    call,     \* call[h]: the last request h sent for that write
    sent,     \* the writes in flight
    answer,   \* answer[h]: what h answered its client
    nonces,   \* the nonce tags consumed
    metered,  \* does the origin have metering_enabled?
    billing,  \* billing[h]: what redeemer h found of that
    charged   \* has the credit service deducted for this challenge?

Handlers == {Creator} \cup Verifiers \cup Redeemers \cup Simulators \cup Pollers

\* every request a handler can send to the object
Attempt == Handlers \X {"get", "update", "create"} \X (1..MaxSends)

DO == INSTANCE ChallengeDO WITH Req <- Attempt

doVars == <<rec, codeMap, now, op>>
sendVars == <<out, call, sent>>
billVars == <<metered, billing, charged>>
vars == <<doVars, pc, snap, sendVars, answer, nonces, billVars>>

ASSUME SendAssumption == MaxSends \in Nat \ {0}
ASSUME HandlerAssumption ==
    /\ Creator \notin Verifiers \cup Redeemers \cup Simulators \cup Pollers
    /\ Verifiers \cap (Redeemers \cup Simulators \cup Pollers) = {}
    /\ Redeemers \cap (Simulators \cup Pollers) = {}
    /\ Simulators \cap Pollers = {}
\* what ChallengeDO assumes of its constants
ASSUME ObjectAssumption ==
    /\ ExpiresAt \in Nat /\ MaxTime \in Nat /\ PutMaxAttempts \in Nat \ {0}
    /\ NoRecord \notin DO!CachedChallenge
    /\ Faults \subseteq {"read", "put", "delete"}

-----------------------------------------------------------------------------
(* Steps all handlers are made of *)

Goto(h, p) == pc' = [pc EXCEPT ![h] = p]

Finish(h, a) == Goto(h, "done") /\ answer' = [answer EXCEPT ![h] = a]

\* end without a write
Reply(h, a) == Finish(h, a) /\ UNCHANGED <<doVars, snap, sendVars>>

\* challenge_store.put(c): the first update request is on its way
Put(h, c) ==
    /\ Goto(h, "put")
    /\ out' = [out EXCEPT ![h] = c]
    /\ call' = [call EXCEPT ![h] = <<h, "update", 1>>]
    /\ sent' = sent \cup {<<h, "update", 1>>}
    /\ UNCHANGED <<doVars, snap, answer>>

\* challenge_store.get: an absent and an expired record are both not found
Load(h) ==
    /\ h \in Verifiers \cup Redeemers \cup Simulators
    /\ pc[h] = "idle"
    /\ answer[Creator] = "ok"
    /\ \/ /\ DO!get_challenge(<<h, "get", 1>>)
          /\ IF op'[<<h, "get", 1>>] = DO!Done("found")
             THEN /\ snap' = [snap EXCEPT ![h] = rec]
                  /\ Goto(h, "loaded")
                  /\ UNCHANGED answer
             ELSE Finish(h, "not_found") /\ UNCHANGED snap
       \/ Finish(h, "error") /\ UNCHANGED <<doVars, snap>>
    /\ UNCHANGED <<sendVars, nonces, billVars>>

\* mutant: forgets that the tag was consumed
NonceAlwaysFresh(tag) == {<<"fresh", nonces \cup {tag}>>}

\* nonce_store.check_and_set: what it may answer, and the nonces it leaves; a
\* call that fails may have consumed the tag
check_and_set(tag) ==
    {<<IF tag \in nonces THEN "used" ELSE "fresh", nonces \cup {tag}>>}
    \cup (IF "nonce" \in Outages
          THEN {"error"} \X {nonces, nonces \cup {tag}} ELSE {})

\* the handler goes on only if it is the first to consume its nonce
ConsumeNonce(h, tag) ==
    \E result \in check_and_set(tag) :
       /\ nonces' = result[2]
       /\ \/ /\ result[1] = "fresh"
             /\ Goto(h, "admitted")
             /\ UNCHANGED <<doVars, snap, sendVars, answer>>
          \/ result[1] = "used"  /\ Reply(h, "replay")
          \/ result[1] = "error" /\ Reply(h, "error")

-----------------------------------------------------------------------------
(* The write, request by request *)

\* a request in flight reaches the object
Deliver(r) ==
    /\ r \in sent
    /\ sent' = sent \ {r}
    /\ \/ r[2] = "update" /\ DO!update_challenge(r, out[r[1]])
       \/ r[2] = "create" /\ DO!create_challenge(r, out[r[1]])
    /\ UNCHANGED <<pc, snap, out, call, answer, nonces, billVars>>

Send(r) ==
    /\ call' = [call EXCEPT ![r[1]] = r]
    /\ sent' = sent \cup {r}

\* the answer when put() succeeded
Answered(h) ==
    CASE out[h].state = "Failed"  -> "rejected"
      [] out[h].state = "Expired" -> "gone"
      [] OTHER -> "ok"

\* The answers when put() failed.  A rejection or an expiry that could not be
\* stored is answered all the same; only the simulated age_not_met is not.
AnsweredUnstored(h) ==
    IF out[h].state \in {"Failed", "Expired"}
    THEN {Answered(h)} \cup (IF h \in Simulators THEN {"write_failed"} ELSE {})
    ELSE {"write_failed"}

\* redeem bills an unmetered origin once the verdict is stored, at best
BillAfterVerdict(h) ==
    /\ charged' \in IF h \in Redeemers /\ billing[h] = "unmetered"
                    THEN {charged, TRUE} ELSE {charged}
    /\ UNCHANGED <<metered, billing>>

GiveUp(h) ==
    /\ \E a \in AnsweredUnstored(h) : Finish(h, a)
    /\ UNCHANGED <<call, sent, billVars>>

\* the object answers the last request in time
Receive(h) ==
    LET reply == op[call[h]] IN
    /\ pc[h] = "put"
    /\ reply.phase = "done"
    /\ reply # DO!Done("lost")
    /\ \/ /\ reply.reply \in {"updated", "created"}
          /\ Finish(h, Answered(h))
          /\ BillAfterVerdict(h)
          /\ UNCHANGED <<call, sent>>
       \/ /\ reply.reply = "not_found"   \* put() falls back to a creation
          /\ Send(<<h, "create", 1>>)
          /\ UNCHANGED <<pc, answer, billVars>>
       \/ /\ reply.reply \in {"gone", "conflict", "unavailable"}
          /\ GiveUp(h)
    /\ UNCHANGED <<doVars, snap, out, nonces>>

\* mutant: sends once more than MaxSends
SendOnceMore(h) ==
    /\ pc[h] = "put"
    /\ \/ /\ call[h][3] <= MaxSends
          /\ Send([call[h] EXCEPT ![3] = @ + 1])
          /\ UNCHANGED <<pc, answer, billVars>>
       \/ GiveUp(h)
    /\ UNCHANGED <<doVars, snap, out, nonces>>

\* the last request failed or took too long, whatever became of it
Timeout(h) ==
    /\ pc[h] = "put"
    /\ \/ /\ call[h][3] < MaxSends
          /\ Send([call[h] EXCEPT ![3] = @ + 1])
          /\ UNCHANGED <<pc, answer, billVars>>
       \/ GiveUp(h)
    /\ UNCHANGED <<doVars, snap, out, nonces>>

-----------------------------------------------------------------------------
(* POST /v1/challenge *)

create_challenge(h) ==
    /\ h = Creator
    /\ pc[h] = "idle"
    /\ Put(h, DO!FreshChallenge)
    /\ UNCHANGED <<nonces, billVars>>

-----------------------------------------------------------------------------
(* POST /v1/verify *)

\* authentication, ownership, idempotency and quota, then the nonce
VerifyAdmit(h) ==
    /\ h \in Verifiers
    /\ pc[h] = "loaded"
    /\ \/ Reply(h, "refused") /\ UNCHANGED nonces
       \/ ConsumeNonce(h, "verify")
    /\ UNCHANGED billVars

Consumed(c) ==
    c.proof_submitted = "Yes"
    \/ c.state \in {"ProofOkWaitingForRedeem", "Verified", "Failed"}

fail_challenge_and_persist(h) ==
    Put(h, [snap[h] EXCEPT !.state = "Failed", !.proof_submitted = "Yes",
                           !.submit_secret = "Wiped"])

AcceptProof(h) ==
    Put(h, [snap[h] EXCEPT !.state = "ProofOkWaitingForRedeem",
                           !.proof_submitted = "Yes",
                           !.proof_verified_at = "Some",
                           !.submit_secret = "Wiped"])

\* What follows the nonce.  The proof and the data sent with it pass the
\* checks or do not.
VerifyDecide(h) ==
    /\ h \in Verifiers
    /\ pc[h] = "admitted"
    /\ \/ Reply(h, "refused")              \* origin policy
       \/ /\ now > ExpiresAt
          /\ Put(h, [snap[h] EXCEPT !.state = "Expired", !.submit_secret = "Wiped"])
       \/ now <= ExpiresAt /\ Consumed(snap[h]) /\ Reply(h, "gone")
       \/ /\ now <= ExpiresAt
          /\ ~Consumed(snap[h])
          /\ \/ fail_challenge_and_persist(h)
             \/ snap[h].submit_secret = "Wiped" /\ Reply(h, "error")
             \/ /\ snap[h].submit_secret = "Held"
                /\ AcceptProof(h) \/ Reply(h, "unavailable")  \* issuer registry
    /\ UNCHANGED <<nonces, billVars>>

-----------------------------------------------------------------------------
(* POST /v1/redeem *)

\* mutant: leaves it to the object to refuse the update
AnyState(c) == TRUE

Redeemable(c) == c.state = "ProofOkWaitingForRedeem"

\* ownership, expiry, state, PKCE and quota
RedeemGate(h) ==
    /\ h \in Redeemers
    /\ pc[h] = "loaded"
    /\ \/ Reply(h, "refused")
       \/ now > ExpiresAt /\ Reply(h, "gone")
       \/ now <= ExpiresAt /\ ~Redeemable(snap[h]) /\ Reply(h, "conflict")
       \/ /\ now <= ExpiresAt
          /\ Redeemable(snap[h])
          /\ Goto(h, "gated")
          /\ UNCHANGED <<doVars, snap, sendVars, answer>>
    /\ UNCHANGED <<nonces, billVars>>

RedeemNonce(h) ==
    /\ h \in Redeemers
    /\ pc[h] = "gated"
    /\ ConsumeNonce(h, "redeem")
    /\ UNCHANGED billVars

\* what the read of metering_enabled may find
MeteringRead ==
    {IF metered THEN "metered" ELSE "unmetered"}
    \cup (IF "metering" \in Outages THEN {"unmetered"} ELSE {})

\* mutant: the time of the redemption is not recorded
StoreVerdictOnly(h) ==
    Put(h, [snap[h] EXCEPT !.state = "Verified", !.submit_secret = "Wiped"])

StoreVerdict(h) ==
    Put(h, [snap[h] EXCEPT !.state = "Verified", !.verified_at = "Some",
                           !.submit_secret = "Wiped"])

\* mutant: goes on when the credit service fails
GrantOnCreditError(h) ==
    \/ charged' = TRUE /\ StoreVerdict(h)
    \/ UNCHANGED charged /\ Reply(h, "payment_required")
    \/ "credit" \in Outages /\ UNCHANGED charged /\ StoreVerdict(h)

\* consume_credits: deducted now or earlier, insufficient, or no clear answer
consume_credits(h) ==
    \/ charged' = TRUE /\ StoreVerdict(h)
    \/ ~charged /\ UNCHANGED charged /\ Reply(h, "payment_required")
    \/ "credit" \in Outages /\ charged' \in {charged, TRUE} /\ Reply(h, "unavailable")

RedeemBill(h) ==
    /\ h \in Redeemers
    /\ pc[h] = "admitted"
    /\ \E found \in MeteringRead :
          /\ billing' = [billing EXCEPT ![h] = found]
          /\ \/ found = "metered" /\ consume_credits(h)
             \/ found = "unmetered" /\ UNCHANGED charged /\ StoreVerdict(h)
    /\ UNCHANGED <<nonces, metered>>

-----------------------------------------------------------------------------
(* The sandbox's simulate endpoint: no nonce, and an expired challenge is   *)
(* written back with its secret.                                            *)

SimulateDecide(h) ==
    /\ h \in Simulators
    /\ pc[h] = "loaded"
    /\ \/ snap[h].state # "Pending" /\ Reply(h, "gone")
       \/ /\ snap[h].state = "Pending"
          /\ now > ExpiresAt
          /\ Put(h, [snap[h] EXCEPT !.state = "Expired"])
       \/ /\ snap[h].state = "Pending"
          /\ now <= ExpiresAt
          /\ fail_challenge_and_persist(h) \/ AcceptProof(h)
    /\ UNCHANGED <<nonces, billVars>>

-----------------------------------------------------------------------------
(* Readers of the challenge, the clock and the object *)

\* GET /v1/challenge/{id}: reads, and takes no further part
poll_challenge(h) ==
    /\ h \in Pollers
    /\ pc[h] = "idle"
    /\ answer[Creator] = "ok"
    /\ DO!get_challenge(<<h, "get", 1>>)
    /\ IF op'[<<h, "get", 1>>] = DO!Done("found")
       THEN Finish(h, "ok") \/ Finish(h, "refused")
       ELSE Finish(h, "not_found")
    /\ UNCHANGED <<snap, sendVars, nonces, billVars>>

Environment ==
    /\ DO!Tick \/ DO!Evict \/ \E r \in Attempt : DO!RetryPut(r)
    /\ UNCHANGED <<pc, snap, sendVars, answer, nonces, billVars>>

Init ==
    /\ DO!Init
    /\ pc = [h \in Handlers |-> "idle"]
    /\ snap = [h \in Handlers |-> NoRecord]
    /\ out = [h \in Handlers |-> NoRecord]
    /\ call = [h \in Handlers |-> <<h, "get", 1>>]
    /\ sent = {}
    /\ answer = [h \in Handlers |-> "none"]
    /\ nonces = {}
    /\ metered \in BOOLEAN
    /\ billing = [h \in Redeemers |-> "unread"]
    /\ charged = FALSE

\* what handler h does next
Step(h) ==
    \/ create_challenge(h) \/ Load(h)
    \/ VerifyAdmit(h) \/ VerifyDecide(h)
    \/ RedeemGate(h) \/ RedeemNonce(h) \/ RedeemBill(h)
    \/ SimulateDecide(h)
    \/ poll_challenge(h)
    \/ Receive(h) \/ Timeout(h)

Next ==
    \/ \E h \in Handlers : Step(h)
    \/ \E r \in sent : Deliver(r)
    \/ Environment

Spec == Init /\ [][Next]_vars

-----------------------------------------------------------------------------
Answers == {"none", "ok", "not_found", "gone", "conflict", "refused", "replay",
            "rejected", "error", "unavailable", "payment_required", "write_failed"}

TypeOK ==
    /\ DO!TypeOK
    /\ pc \in [Handlers -> {"idle", "loaded", "gated", "admitted", "put", "done"}]
    /\ snap \in [Handlers -> DO!CachedChallenge \cup {NoRecord}]
    /\ out \in [Handlers -> DO!CachedChallenge \cup {NoRecord}]
    /\ call \in [Handlers -> Attempt]
    /\ sent \subseteq Attempt
    /\ answer \in [Handlers -> Answers]
    /\ nonces \subseteq {"verify", "redeem"}
    /\ metered \in BOOLEAN
    /\ billing \in [Redeemers -> {"unread", "metered", "unmetered"}]
    /\ charged \in BOOLEAN

Told(S, a) == {h \in S : answer[h] = a}

\* A challenge gives one verdict: at most one redemption is answered 200, with
\* any number of redemptions that read the challenge before the first of them
\* stored its verdict.  The object would accept them all (Verified to Verified
\* is a legal update); only the nonce stands between them.
OneVerdict == \A r, q \in Told(Redeemers, "ok") : r = q

\* the handlers that accepted a proof, or simulated that they did
Accepting(S) ==
    {h \in S : out[h] # NoRecord /\ out[h].state = "ProofOkWaitingForRedeem"}

\* A verdict rests on a proof that was accepted, and outside the sandbox there
\* is none once a verifier has rejected a proof for the challenge, even where
\* the rejection could not be stored.
VerdictIsProved ==
    Told(Redeemers, "ok") # {} =>
       /\ Accepting(Verifiers \cup Simulators) # {}
       /\ Told(Verifiers, "rejected") # {} => Accepting(Simulators) # {}

\* For an origin with metering enabled there is no verdict without a deduction.
VerdictIsBilled == (metered /\ Told(Redeemers, "ok") # {}) => charged

\* Redemption, of the proofs handlers accepted and the verdicts they answered.
Sale ==
    INSTANCE Redemption
    WITH accepted <- Accepting(Verifiers \cup Simulators) # {},
         granted <- Told(Redeemers, "ok")

\* The flow implements what a redemption promises (redeem.rs: "no credits => no
\* service"): the order of proof, deduction and verdict over any number of
\* handlers that run at once.
ImplementsRedemption == Sale!Spec

\* What a client was told stands until the challenge expires: an accepted
\* proof stays accepted or redeemed, a redeemed challenge stays redeemed,
\* whatever requests that timed out are delivered later.  (In the sandbox a
\* simulation may still turn an accepted proof into a failed one.)
AnswersStand ==
    now < ExpiresAt =>
       /\ Told(Redeemers, "ok") # {} => rec # NoRecord /\ rec.state = "Verified"
       /\ (Told(Verifiers, "ok") # {} /\ \A h \in Simulators : out[h] = NoRecord) =>
             rec # NoRecord /\ rec.state \in {"ProofOkWaitingForRedeem", "Verified"}

\* Outside the sandbox the handlers use the object as ChallengeDO assumes: of
\* all the copies they write back, however stale, none is a record that is not
\* among its CallerRecords, so what holds of the object holds of it here.
\* (This is DO!Spec; TLC need not search DO!Next for steps that leave the
\* object alone.)
UsesObjectAsSpecified == DO!Init /\ [][doVars' # doVars => DO!Next]_doVars

\* While the object's storage reads and writes, the stored challenge moves
\* through its lifecycle under the real handlers, whatever stale copies they
\* write back and however late a send arrives; a failing delete changes nothing.
FollowsLifecycle == DO!ImplementsLifecycle

\* A stored record can be found by its code, whichever of the sends of a
\* creation, an update that found nothing, and a poll that deletes gets through,
\* and in which order.
RecordHasCode == DO!RecordHasCode

-----------------------------------------------------------------------------
(* What comments of the code say of a failed redemption or submission *)

\* redeem.rs, on a failed write of the verdict: credits have not been deducted
FailedWriteIsUnbilled == Told(Redeemers, "write_failed") # {} => ~charged

\* challenge_do.rs, header: terminal states cannot transition further
TerminalStatesAreFinal == DO!TerminalStatesAreFinal

=============================================================================
