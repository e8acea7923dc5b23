----------------------------- MODULE HostedFlow -----------------------------
(***************************************************************************)
(* One hosted session after its creation: the browser polls its status     *)
(* (hosted/endpoints/status.rs) and redeems it with its PKCE verifier      *)
(* (hosted/endpoints/redeem.rs), while the wallet's submission decides the *)
(* challenge and notifies the session (hosted/endpoints/notify.rs).        *)
(*                                                                         *)
(* Two stores hold the session.  The challenge lies in its object, which   *)
(* appears here as what it promises (ChallengeLifecycle, implemented by    *)
(* ChallengeDO with storage that reads and writes); a put to it that       *)
(* failed for its sender may still arrive later.  The session record lies  *)
(* in KV: every writer reads it, awaits something and writes the whole     *)
(* record back, and a read may return an older record.                     *)
(*                                                                         *)
(* The submission is VerdictFlow's: its nonce lets one of them decide, and *)
(* only the decision is kept here.  The sandbox's simulations are left out.*)
(***************************************************************************)
EXTENDS Naturals, FiniteSets

CONSTANTS
    Redeemers,             \* handlers of POST /v1/hosted/redeem/{session_id}
    Pollers,               \* handlers of GET /v1/hosted/status/{session_id}
    MaxRedeemAttempts,     \* DEFAULT_MAX_REDEEM_ATTEMPTS
    MaxStatusChecks,       \* DEFAULT_MAX_STATUS_CHECKS
    MaxVisible             \* bound: records of the session the reads of KV tell apart

VARIABLES
    st, expired,  \* the challenge and its expiry, see ChallengeLifecycle
    late,         \* states whose put failed but may still arrive
    session,      \* the session record last written to KV
    visible,      \* the records a read of KV may return
    decision,     \* what became of the proof submitted: "none" so far
    note,         \* the notification that follows the decision
    pc,           \* pc[h]: the point request h has reached
    copy,         \* copy[h]: the session record as h read it
    seen,         \* seen[h]: the state of the challenge as h read it
    answer,       \* answer[h]: what h answered its client
    told,         \* how far the answers have said the session is
    known,        \* known[h]: told, when h began
    nonce,        \* the tag hosted_redeem:{challenge}: "free" or "used"
    metered,      \* has a redemption found metering_enabled?
    charged       \* has the credit service deducted for this challenge?

Requests == Redeemers \cup Pollers

Store == INSTANCE ChallengeLifecycle

ChallengeState == Store!Live \cup Store!Terminal

\* what a read of the challenge may end with
Found == ChallengeState \cup {"Absent", "Failure"}

storeVars == <<st, expired, late>>
kvVars == <<session, visible>>
walletVars == <<decision, note>>
reqVars == <<pc, copy, seen, answer, told, known>>
billVars == <<metered, charged>>
vars == <<storeVars, kvVars, walletVars, reqVars, nonce, billVars>>

ASSUME LimitAssumption ==
    /\ MaxRedeemAttempts \in Nat \ {0}
    /\ MaxStatusChecks \in Nat \ {0}
    /\ MaxVisible \in Nat \ {0}
ASSUME RequestAssumption == Redeemers \cap Pollers = {}

SessionState == {"Pending", "ProofOk", "Verified", "Expired", "Revoked"}

HostedSession ==
    [ state                : SessionState,
      redeem_attempt_count : 0..MaxRedeemAttempts,
      status_check_count   : 0..MaxStatusChecks ]

NewSession == [state |-> "Pending", redeem_attempt_count |-> 0, status_check_count |-> 0]

-----------------------------------------------------------------------------
(* The two stores *)

\* a put of state v takes effect
Stored(v) ==
    \/ st' = v /\ (Store!Advance \/ Store!Create)
    \/ st = v /\ UNCHANGED <<st, expired>>

PutDone(v) == Stored(v) /\ UNCHANGED late

\* a put refused, failed or timed out: it may still be on its way
PutFailed(v) == late' = late \cup {v} /\ UNCHANGED <<st, expired>>

\* What a get finds: the state, or nothing; an expired record is deleted.  The
\* call may fail, after the deletion as well.
get(found) ==
    /\ UNCHANGED <<expired, late>>
    /\ \/ found = st /\ st # "Absent" /\ ~expired /\ UNCHANGED st
       \/ found = "Absent" /\ st = "Absent" /\ UNCHANGED st
       \/ found = "Absent" /\ expired /\ st' = "Absent"
       \/ found = "Failure" /\ (UNCHANGED st \/ (expired /\ st' = "Absent"))

\* is_valid_transition of a session
is_valid_transition(from, to) ==
    \/ from = "Pending" /\ to \in {"ProofOk", "Expired", "Revoked"}
    \/ from = "ProofOk" /\ to \in {"Verified", "Expired", "Revoked"}

\* update_session_kv_checked: the transition is checked against the state the
\* writer read.  The write may fail, and no writer minds.  Some of the older
\* records stay readable.
update_session_kv_checked(s, prior) ==
    \/ /\ prior = s.state \/ is_valid_transition(prior, s.state)
       /\ session' = s
       /\ \E older \in SUBSET visible :
             /\ Cardinality(older) < MaxVisible
             /\ visible' = older \cup {s}
    \/ UNCHANGED kvVars

-----------------------------------------------------------------------------
(* Steps the requests share *)

Goto(h, p) == pc' = [pc EXCEPT ![h] = p]

\* what an answer adds to what clients know
TellsOf(a) ==
    CASE a \in {"ok", "verified"} -> "verified"
      [] a = "proof_ok" /\ told # "verified" -> "proof_ok"
      [] OTHER -> told

\* the answer; what the handler had read goes with it
Finish(h, a) ==
    /\ Goto(h, "done")
    /\ answer' = [answer EXCEPT ![h] = a]
    /\ told' = TellsOf(a)
    /\ copy' = [copy EXCEPT ![h] = NewSession]
    /\ seen' = [seen EXCEPT ![h] = "Absent"]

Reply(h, a) == Finish(h, a) /\ UNCHANGED known
Proceed(h, p) == Goto(h, p) /\ UNCHANGED <<copy, seen, answer, told, known>>

\* The request is counted in the record it read, and goes on.  Of the record
\* it needs only the challenge's id from here on.
Count(h, s, p) ==
    /\ update_session_kv_checked(s, s.state)
    /\ Goto(h, p)
    /\ copy' = [copy EXCEPT ![h] = NewSession]
    /\ UNCHANGED <<seen, answer, told, known>>

\* Origin, public key and binding are checked against the record read; the
\* request is refused there, when the record is gone or when KV fails.  The
\* browser polls again when it has its answer.
ReadSession(h) ==
    /\ pc[h] = "start" \/ (h \in Pollers /\ pc[h] = "done")
    /\ known' = [known EXCEPT ![h] = told]
    /\ \/ \E s \in visible :
             /\ copy' = [copy EXCEPT ![h] = s]
             /\ answer' = [answer EXCEPT ![h] = "none"]
             /\ Goto(h, "read")
             /\ UNCHANGED <<seen, told>>
       \/ Finish(h, "refused")
    /\ UNCHANGED <<storeVars, kvVars, walletVars, nonce, billVars>>

\* challenge_store.get; the handler ends when there is no challenge
Load(h) ==
    /\ pc[h] = "admitted"
    /\ \E found \in Found :
          /\ get(found)
          /\ \/ found = "Absent" /\ Reply(h, "refused")
             \/ found = "Failure" /\ Reply(h, "error")
             \/ /\ found \in ChallengeState
                /\ seen' = [seen EXCEPT ![h] = found]
                /\ Goto(h, "loaded")
                /\ UNCHANGED <<copy, answer, told, known>>
    /\ UNCHANGED <<kvVars, walletVars, nonce, billVars>>

-----------------------------------------------------------------------------
(* GET /v1/hosted/status/{session_id} *)

CountCheck(h) ==
    LET s == [copy[h] EXCEPT !.status_check_count = @ + 1] IN
    /\ h \in Pollers
    /\ pc[h] = "read"
    /\ \/ /\ s.status_check_count > MaxStatusChecks
          /\ Reply(h, "refused")
          /\ UNCHANGED kvVars
       \/ /\ s.status_check_count <= MaxStatusChecks
          /\ Count(h, s, "admitted")
    /\ UNCHANGED <<storeVars, walletVars, nonce, billVars>>

from_challenge_state(c) ==
    CASE c = "Pending" -> "pending"
      [] c = "ProofOkWaitingForRedeem" -> "proof_ok"
      [] c = "Verified" -> "verified"
      [] OTHER -> "expired"

\* mutant: reports the state of the session record
ReportSession(h) ==
    {CASE s.state = "Pending" -> "pending"
       [] s.state = "ProofOk" -> "proof_ok"
       [] s.state = "Verified" -> "verified"
       [] OTHER -> "expired" : s \in visible}

\* The state reported.  A challenge expires for the poll one second after it
\* does for its object, so both answers are possible once it has.
Report(h) ==
    {from_challenge_state(seen[h])}
    \cup (IF expired /\ seen[h] # "Verified" THEN {"expired"} ELSE {})

handle_hosted_status(h) ==
    /\ h \in Pollers
    /\ pc[h] = "loaded"
    /\ \E a \in Report(h) : Reply(h, a)
    /\ UNCHANGED <<storeVars, kvVars, walletVars, nonce, billVars>>

-----------------------------------------------------------------------------
(* POST /v1/hosted/redeem/{session_id} *)

\* mutant: the attempts are counted and not limited
CountOnly(h) ==
    /\ h \in Redeemers
    /\ pc[h] = "read"
    /\ Count(h, [copy[h] EXCEPT !.redeem_attempt_count = @ + 1], "counted")
    /\ UNCHANGED <<storeVars, walletVars, nonce, billVars>>

CountAttempt(h) ==
    LET s == [copy[h] EXCEPT !.redeem_attempt_count = @ + 1] IN
    /\ h \in Redeemers
    /\ pc[h] = "read"
    /\ \/ /\ s.redeem_attempt_count > MaxRedeemAttempts
          /\ Reply(h, "refused")
          /\ UNCHANGED kvVars
       \/ /\ s.redeem_attempt_count <= MaxRedeemAttempts
          /\ Count(h, s, "counted")
    /\ UNCHANGED <<storeVars, walletVars, nonce, billVars>>

\* mutant: the tag is looked up and not set
LookUpNonce(h) ==
    /\ h \in Redeemers
    /\ pc[h] = "counted"
    /\ nonce = "free" /\ Proceed(h, "admitted")
    /\ UNCHANGED <<storeVars, kvVars, walletVars, nonce, billVars>>

\* The nonce comes before the state of the challenge is known; a call that
\* fails may have consumed it.
ConsumeNonce(h) ==
    /\ h \in Redeemers
    /\ pc[h] = "counted"
    /\ \/ nonce = "free" /\ nonce' = "used" /\ Proceed(h, "admitted")
       \/ nonce = "used" /\ UNCHANGED nonce /\ Reply(h, "refused")
       \/ nonce' \in {nonce, "used"} /\ Reply(h, "error")
    /\ UNCHANGED <<storeVars, kvVars, walletVars, billVars>>

\* state, PKCE verifier and signing secret, for a challenge found in state c
RedeemGate(h, c) ==
    \/ c = "Pending" /\ Reply(h, "not_ready")
    \/ c \in Store!Terminal /\ Reply(h, "refused")
    \/ /\ c = "ProofOkWaitingForRedeem"
       /\ \/ Reply(h, "refused")
          \/ /\ Goto(h, "gated")
             /\ seen' = [seen EXCEPT ![h] = "Absent"]
             /\ UNCHANGED <<copy, answer, told, known>>

\* the expiry; a challenge that is Pending is read a second time
RedeemExpiry(h) ==
    /\ h \in Redeemers
    /\ pc[h] = "loaded"
    /\ \/ expired /\ seen[h] # "Verified" /\ Reply(h, "refused")
       \/ seen[h] = "Pending" /\ Proceed(h, "pending")
       \/ seen[h] # "Pending" /\ RedeemGate(h, seen[h])
    /\ UNCHANGED <<storeVars, kvVars, walletVars, nonce, billVars>>

\* what the second read does not find stays as it was read first
RedeemReread(h) ==
    /\ h \in Redeemers
    /\ pc[h] = "pending"
    /\ \E found \in Found :
          /\ get(found)
          /\ RedeemGate(h, IF found \in ChallengeState THEN found ELSE seen[h])
    /\ UNCHANGED <<kvVars, walletVars, nonce, billVars>>

\* mutant: goes on when the credit service fails
GrantOnCreditError(h) ==
    \/ charged' = TRUE /\ Proceed(h, "billed")
    \/ UNCHANGED charged /\ Reply(h, "refused")
    \/ UNCHANGED charged /\ Proceed(h, "billed")

\* consume_credits: deducted now or earlier, insufficient, or no clear answer
consume_credits(h) ==
    \/ charged' = TRUE /\ Proceed(h, "billed")
    \/ ~charged /\ UNCHANGED charged /\ Reply(h, "refused")
    \/ charged' \in {charged, TRUE} /\ Reply(h, "error")

\* the read of metering_enabled, where a failure counts as "disabled"
RedeemBill(h) ==
    /\ h \in Redeemers
    /\ pc[h] = "gated"
    /\ \/ metered' = TRUE /\ consume_credits(h)
       \/ UNCHANGED billVars /\ Proceed(h, "unbilled")
    /\ UNCHANGED <<storeVars, kvVars, walletVars, nonce>>

\* mutant: the cookie is given whatever became of the put
GrantUnstored(h) ==
    /\ h \in Redeemers
    /\ pc[h] \in {"billed", "unbilled"}
    /\ PutDone("Verified") \/ PutFailed("Verified")
    /\ Reply(h, "ok")
    /\ UNCHANGED <<kvVars, walletVars, nonce, billVars>>

\* The verdict is stored and the cookie given; an unmetered origin is billed
\* afterwards, at best.
RedeemWrite(h) ==
    /\ h \in Redeemers
    /\ pc[h] \in {"billed", "unbilled"}
    /\ \/ /\ PutDone("Verified")
          /\ Reply(h, "ok")
          /\ charged' \in IF pc[h] = "unbilled" THEN {charged, TRUE} ELSE {charged}
       \/ PutFailed("Verified") /\ Reply(h, "error") /\ UNCHANGED charged
    /\ UNCHANGED <<kvVars, walletVars, nonce, metered>>

-----------------------------------------------------------------------------
(* The submission and its notification *)

NoNote == [stage |-> "none", to |-> "Pending", read |-> NewSession]

Notify(to) == note' = [NoNote EXCEPT !.stage = "due", !.to = to]

\* mutant: the notification does not wait for the put
NotifyAnyway ==
    /\ decision = "none"
    /\ \/ /\ decision' = "accepted"
          /\ PutDone("ProofOkWaitingForRedeem") \/ PutFailed("ProofOkWaitingForRedeem")
          /\ Notify("ProofOk")
       \/ decision' = "rejected" /\ PutFailed("Failed") /\ Notify("Expired")
    /\ UNCHANGED <<kvVars, reqVars, nonce, billVars>>

\* The proof is accepted, rejected or late.  An acceptance is notified once it
\* is stored; a rejection is notified on some of its paths (notify_hosted of
\* fail_challenge_and_persist), whether or not it could be stored.
submit_verification ==
    /\ decision = "none"
    /\ \/ /\ decision' = "accepted"
          /\ \/ PutDone("ProofOkWaitingForRedeem") /\ Notify("ProofOk")
             \/ PutFailed("ProofOkWaitingForRedeem") /\ UNCHANGED note
       \/ /\ decision' = "rejected"
          /\ PutDone("Failed") \/ PutFailed("Failed")
          /\ Notify("Expired") \/ UNCHANGED note
       \/ /\ decision' = "late"
          /\ expired
          /\ PutDone("Expired") \/ PutFailed("Expired")
          /\ UNCHANGED note
    /\ UNCHANGED <<kvVars, reqVars, nonce, billVars>>

\* update_session_state and update_session_state_expired: nothing is written
\* when the mapping or the record is not found, or the record not Pending
NotifyRead ==
    /\ note.stage = "due"
    /\ \/ note' = NoNote
       \/ \E s \in visible :
             /\ s.state = "Pending"
             /\ note' = [note EXCEPT !.stage = "read", !.read = s]
    /\ UNCHANGED <<storeVars, kvVars, decision, reqVars, nonce, billVars>>

NotifyWrite ==
    /\ note.stage = "read"
    /\ update_session_kv_checked([note.read EXCEPT !.state = note.to], "Pending")
    /\ note' = NoNote
    /\ UNCHANGED <<storeVars, decision, reqVars, nonce, billVars>>

-----------------------------------------------------------------------------
(* Time, late writes and KV *)

Deliver ==
    /\ \E v \in late : Stored(v) /\ late' = late \ {v}
    /\ UNCHANGED <<kvVars, walletVars, reqVars, nonce, billVars>>

Expire ==
    /\ ~expired
    /\ Store!Expire
    /\ UNCHANGED <<late, kvVars, walletVars, reqVars, nonce, billVars>>

\* every location of KV has the last record
Settle ==
    /\ visible # {session}
    /\ visible' = {session}
    /\ UNCHANGED <<storeVars, session, walletVars, reqVars, nonce, billVars>>

\* what handle_hosted_challenge leaves
Init ==
    /\ st = "Pending" /\ expired = FALSE /\ late = {}
    /\ session = NewSession /\ visible = {NewSession}
    /\ decision = "none"
    /\ note = NoNote
    /\ pc = [h \in Requests |-> "start"]
    /\ copy = [h \in Requests |-> NewSession]
    /\ seen = [h \in Requests |-> "Absent"]
    /\ answer = [h \in Requests |-> "none"]
    /\ told = "nothing"
    /\ known = [h \in Requests |-> "nothing"]
    /\ nonce = "free"
    /\ metered = FALSE
    /\ charged = FALSE

Request(h) ==
    \/ ReadSession(h) \/ Load(h)
    \/ CountCheck(h) \/ handle_hosted_status(h)
    \/ CountAttempt(h) \/ ConsumeNonce(h) \/ RedeemExpiry(h) \/ RedeemReread(h)
    \/ RedeemBill(h) \/ RedeemWrite(h)

Next ==
    \/ \E h \in Requests : Request(h)
    \/ submit_verification \/ NotifyRead \/ NotifyWrite
    \/ Deliver \/ Expire \/ Settle

Spec == Init /\ [][Next]_vars

-----------------------------------------------------------------------------
\* "refused" stands for the answers 4xx but the one that says that there is no
\* proof yet ("not_ready"), "error" for the answers 5xx
Answers ==
    {"none", "ok", "pending", "proof_ok", "verified", "expired", "not_ready",
     "refused", "error"}

Points ==
    {"start", "read", "counted", "admitted", "loaded", "pending", "gated",
     "billed", "unbilled", "done"}

StoreType == Store!TypeOK /\ late \subseteq ChallengeState

KvType == session \in HostedSession /\ visible \subseteq HostedSession

WalletType ==
    /\ decision \in {"none", "accepted", "rejected", "late"}
    /\ note \in [stage : {"none", "due", "read"}, to : SessionState, read : HostedSession]

RequestType ==
    /\ pc \in [Requests -> Points]
    /\ copy \in [Requests -> HostedSession]
    /\ seen \in [Requests -> ChallengeState \cup {"Absent"}]
    /\ answer \in [Requests -> Answers]
    /\ told \in {"nothing", "proof_ok", "verified"}
    /\ known \in [Requests -> {"nothing", "proof_ok", "verified"}]

BillType == nonce \in {"free", "used"} /\ metered \in BOOLEAN /\ charged \in BOOLEAN

\* Values are those the code declares; a counter that is written is within its
\* limit.
TypeOK == StoreType /\ KvType /\ WalletType /\ RequestType /\ BillType

\* A session gives one cookie: of any number of redemptions at most one is
\* answered 200, though the counter of attempts in KV loses updates and the
\* object would store every verdict.
OneCookie ==
    \A r, q \in Redeemers : answer[r] = "ok" /\ answer[q] = "ok" => r = q

\* Once metering was found enabled there is no cookie without a deduction.
CookieIsBilled == (metered /\ \E r \in Redeemers : answer[r] = "ok") => charged

\* Redemption, of the wallet's proof and the cookies that were answered.
Sale ==
    INSTANCE Redemption
    WITH accepted <- decision = "accepted",
         granted <- {r \in Redeemers : answer[r] = "ok"}

\* The session implements what a redemption promises (hosted/endpoints/redeem.rs:
\* "no credits => no service"): proof, then deduction, then the one cookie, over
\* any number of redemptions of the session.
ImplementsRedemption == Sale!Spec

\* A cookie stands for a verdict that is stored, until the challenge expires
\* and its record is deleted.
CookieIsBacked ==
    (\E r \in Redeemers : answer[r] = "ok") =>
       st = "Verified" \/ (st = "Absent" /\ expired)

\* What clients were told when a request began is not taken back by its
\* answer: after a poll reported the proof no poll reports a pending session
\* and no redemption finds the proof missing; after a verdict nothing but the
\* verdict is reported.  The session record, which may be old or overwritten
\* by a poll, has no part in it.
ClientsSeeProgress ==
    \A h \in Requests :
       /\ known[h] # "nothing" => answer[h] \notin {"pending", "not_ready"}
       /\ known[h] = "verified" => answer[h] \notin {"ok", "proof_ok", "expired"}

\* No session record in KV says that the proof was accepted before the
\* challenge does, whatever order notification, polls and redemptions write in.
SessionTrailsChallenge ==
    \A s \in visible : s.state = "ProofOk" => st # "Pending"

=============================================================================
