---------------------------- MODULE HostedNotify ----------------------------
(***************************************************************************)
(* The push channel of one hosted session: the upgrade to a WebSocket with *)
(* its ticket (hosted/endpoints/ws.rs), the object that holds the sockets  *)
(* (hosted/durable_objects/challenge_notify_do.rs) and the notification    *)
(* that follows the decision of the challenge (hosted/endpoints/notify.rs, *)
(* called by routes/verify.rs).                                            *)
(*                                                                         *)
(* The ticket's marker and the session record lie in KV, each with its own *)
(* expiry: a put refreshes it, and a read may miss what was put less than  *)
(* Lag ago.  Awaits separate the steps of an upgrade.  The object handles  *)
(* one event at a time; what it awaits is its own storage, which keeps     *)
(* other events out.                                                       *)
(***************************************************************************)
EXTENDS Integers, FiniteSets

CONSTANTS
    Upgrade,     \* upgrade requests with the session's ticket
    SessionTtl,  \* SESSION_TTL_SEC
    AlarmTtl,    \* SESSION_TTL_MS of the object
    MarkerTtl,   \* TICKET_CONSUMED_TTL
    Floor,       \* the least life a rewritten session record gets: 60 s
    Lag,         \* how far a read of KV may be behind its writes
    None         \* no alarm, no message, nothing yet

VARIABLES
    left,       \* seconds until the session's expires_at
    record,     \* seconds until KV drops the session record
    poll,       \* has a status poll read the record it will write back?
    marks,      \* ages of the puts of the ticket's marker that live in KV
    upgrade,    \* the point each upgrade has reached
    again,      \* was the ticket spent when the upgrade looked for its marker?
    opened,     \* seconds since the ticket first opened a socket, up to Lag + 1
    socket,     \* the object's end of each upgrade's socket
    age,        \* seconds since an open socket was accepted
    heard,      \* the message sent to each socket
    alarm,      \* seconds until the object's alarm is due
    challenge,  \* the challenge, as stored
    notice      \* the notification that follows its decision

sessionVars == <<left, record, poll>>
ticketVars == <<marks, upgrade, again, opened>>
objectVars == <<socket, age, heard, alarm>>
walletVars == <<challenge, notice>>
vars == <<sessionVars, ticketVars, objectVars, walletVars>>

ASSUME TtlAssumption ==
    /\ SessionTtl \in Nat \ {0} /\ AlarmTtl \in Nat \ {0}
    /\ MarkerTtl \in Nat \ {0} /\ Floor \in Nat \ {0} /\ Lag \in Nat

Message == {"proof_ok_waiting_for_redeem", "expired"}

ASSUME NoneAssumption == None \notin Nat /\ None \notin Message

-----------------------------------------------------------------------------
(* ws.rs *)

Goto(u, p) == upgrade' = [upgrade EXCEPT ![u] = p]

\* the handler answers with an error
Refuse(u) == Goto(u, "refused") /\ UNCHANGED <<sessionVars, marks, again, opened, objectVars, walletVars>>

Seen == \E m \in marks : m > Lag

\* mutant: the marker is not looked for
Unchecked == TRUE

\* a read of the marker may find none: what is there is too young to be visible
Unmarked == ~Seen

\* the session is found and the ticket is its own
ReadSession(u) ==
    /\ upgrade[u] = "idle"
    /\ \/ /\ record > 0
          /\ Goto(u, "known")
          /\ UNCHANGED <<sessionVars, marks, again, opened, objectVars, walletVars>>
       \/ Refuse(u)

\* the marker is absent; or it is present, or the read fails
CheckMarker(u) ==
    /\ upgrade[u] = "known"
    /\ \/ /\ Unmarked
          /\ Goto(u, "unmarked")
          /\ again' = [again EXCEPT ![u] =
                         IF opened # None /\ opened > Lag /\ left > 0 THEN "yes" ELSE "no"]
          /\ UNCHANGED <<sessionVars, marks, opened, objectVars, walletVars>>
       \/ Refuse(u)

\* the put may fail, stored or not, and then the upgrade is refused
PutMarker(u) ==
    /\ upgrade[u] = "unmarked"
    /\ \/ Goto(u, "marked") /\ marks' = marks \cup {0}
       \/ Goto(u, "refused") /\ marks' \in {marks, marks \cup {0}}
    /\ UNCHANGED <<sessionVars, again, opened, objectVars, walletVars>>

-----------------------------------------------------------------------------
(* challenge_notify_do.rs *)

\* mutant: every socket sets the alarm
SetAlarm == AlarmTtl

ensure_alarm_scheduled == IF alarm = None THEN AlarmTtl ELSE alarm

\* The upgrade reaches the object.  The socket is accepted before the alarm is
\* looked for: when that fails, or the answer is lost, so does the upgrade, and
\* the object keeps one end of a socket nobody holds.
handle_ws_upgrade(u) ==
    /\ upgrade[u] = "marked"
    /\ \/ /\ Goto(u, "accepted")
          /\ socket' = [socket EXCEPT ![u] = "open"]
          /\ alarm' = ensure_alarm_scheduled
          /\ opened' = IF opened = None THEN 0 ELSE opened
       \/ /\ Goto(u, "refused")
          /\ socket' = [socket EXCEPT ![u] = "orphan"]
          /\ alarm' \in {alarm, ensure_alarm_scheduled}
          /\ UNCHANGED opened
    /\ age' = [age EXCEPT ![u] = 0]
    /\ UNCHANGED <<sessionVars, marks, again, heard, walletVars>>

\* another origin asks, or the call of the object fails
RefuseMarked(u) == upgrade[u] = "marked" /\ Refuse(u)

Held == {u \in Upgrade : socket[u] \in {"open", "orphan"}}

\* closes every socket
CloseAll ==
    /\ socket' = [u \in Upgrade |-> IF u \in Held THEN "closed" ELSE socket[u]]
    /\ age' = [u \in Upgrade |-> 0]

\* mutant: the handler fails, and the runtime tries again
AlarmFails == alarm = 0 /\ UNCHANGED vars

Alarm ==
    /\ alarm = 0
    /\ alarm' = None
    /\ CloseAll
    /\ UNCHANGED <<sessionVars, ticketVars, heard, walletVars>>

handle_notify(m) ==
    /\ heard' = [u \in Upgrade |-> IF u \in Held THEN m ELSE heard[u]]
    /\ CloseAll

\* the browser leaves, or the runtime drops the end of a failed upgrade
Leave(u) ==
    /\ u \in Held
    /\ socket' = [socket EXCEPT ![u] = "closed"]
    /\ age' = [age EXCEPT ![u] = 0]
    /\ UNCHANGED <<sessionVars, ticketVars, heard, alarm, walletVars>>

-----------------------------------------------------------------------------
(* verify.rs and notify.rs *)

Notify(p, m) == notice' = [phase |-> p, what |-> m]

\* mutant: the browser is told before the proof is stored
NotifyFirst ==
    /\ Notify("due", "proof_ok_waiting_for_redeem")
    /\ UNCHANGED challenge

\* The proof is good: it is stored, then the session is notified.  When the
\* put fails nobody is notified, though it may take effect.
ProofOk ==
    \/ challenge' = "proof_ok" /\ Notify("due", "proof_ok_waiting_for_redeem")
    \/ challenge' \in {"pending", "proof_ok"} /\ Notify("done", None)

\* mutant: the state is passed on as the challenge's, not the session's
FailAsFailed == challenge' \in {"pending", "failed"} /\ Notify("due", "failed")

\* fail_challenge_and_persist: on some paths (notify_hosted) the session is
\* notified, whether or not the put succeeds
Fail ==
    /\ challenge' \in {"pending", "failed"}
    /\ Notify("due", "expired") \/ Notify("done", None)

\* the one submission that its nonce lets through
Decide ==
    /\ notice.phase = "none"
    /\ ProofOk \/ Fail
    /\ UNCHANGED <<sessionVars, ticketVars, objectVars>>

AtLeast(a, b) == IF a > b THEN a ELSE b

\* update_session_kv_checked writes for what is left, but no less than Floor
NewLife == AtLeast(left, Floor)

\* the session of the challenge is found, and its record rewritten or not
UpdateSession ==
    /\ notice.phase = "due"
    /\ notice' = [notice EXCEPT !.phase = "push"]
    /\ \/ record > 0 /\ record' = NewLife
       \/ UNCHANGED record
    /\ UNCHANGED <<left, poll, ticketVars, objectVars, challenge>>

\* The call of the object.  After its timeout it is still on its way.
Push ==
    /\ notice.phase \in {"push", "late"}
    /\ notice' = [notice EXCEPT !.phase = "done"]
    /\ handle_notify(notice.what)
    /\ UNCHANGED <<sessionVars, ticketVars, alarm, challenge>>

PushTimesOut ==
    /\ notice.phase = "push"
    /\ notice' = [notice EXCEPT !.phase = "late"]
    /\ UNCHANGED <<sessionVars, ticketVars, objectVars, challenge>>

\* no mapping from challenge to session, a failed call, a task cut off
NoticeIsLost ==
    /\ notice.phase \in {"due", "push", "late"}
    /\ notice' = [notice EXCEPT !.phase = "done"]
    /\ UNCHANGED <<sessionVars, ticketVars, objectVars, challenge>>

-----------------------------------------------------------------------------
(* The environment *)

\* A status poll reads the record, and writes it back with its count; the
\* write may fail, and may come when the record is gone.
PollRead ==
    /\ poll = "idle" /\ record > 0
    /\ poll' = "read"
    /\ UNCHANGED <<left, record, ticketVars, objectVars, walletVars>>

PollWrite ==
    /\ poll = "read"
    /\ poll' = "idle"
    /\ record' \in {record, NewLife}
    /\ UNCHANGED <<left, ticketVars, objectVars, walletVars>>

Down(n) == IF n > 0 THEN n - 1 ELSE 0

\* One second passes.
Tick ==
    /\ left' = Down(left)
    /\ record' = Down(record)
    /\ marks' = {m + 1 : m \in {n \in marks : n + 1 < MarkerTtl}}
    /\ opened' = IF opened = None \/ opened > Lag THEN opened ELSE opened + 1
    /\ age' = [u \in Upgrade |-> IF socket[u] = "open" /\ age[u] < AlarmTtl
                                 THEN age[u] + 1 ELSE age[u]]
    /\ alarm' = IF alarm = None THEN None ELSE Down(alarm)
    /\ UNCHANGED <<poll, upgrade, again, socket, heard, walletVars>>

Init ==
    /\ left = SessionTtl /\ record = SessionTtl /\ poll = "idle"
    /\ marks = {} /\ opened = None
    /\ upgrade = [u \in Upgrade |-> "idle"]
    /\ again = [u \in Upgrade |-> "no"]
    /\ socket = [u \in Upgrade |-> "none"]
    /\ age = [u \in Upgrade |-> 0]
    /\ heard = [u \in Upgrade |-> None]
    /\ alarm = None
    /\ challenge = "pending"
    /\ notice = [phase |-> "none", what |-> None]

Next ==
    \/ \E u \in Upgrade :
          \/ ReadSession(u) \/ CheckMarker(u) \/ PutMarker(u)
          \/ handle_ws_upgrade(u) \/ RefuseMarked(u) \/ Leave(u)
    \/ Alarm
    \/ Decide \/ UpdateSession \/ Push \/ PushTimesOut \/ NoticeIsLost
    \/ PollRead \/ PollWrite \/ Tick

Spec == Init /\ [][Next]_vars

\* time passes, and the runtime delivers an alarm that is due
FairSpec == Spec /\ WF_vars(Tick) /\ WF_vars(Alarm)

-----------------------------------------------------------------------------
TypeOK ==
    /\ left \in 0 .. SessionTtl
    /\ record \in 0 .. AtLeast(SessionTtl, Floor)
    /\ poll \in {"idle", "read"}
    /\ marks \subseteq 0 .. MarkerTtl - 1
    /\ upgrade \in [Upgrade -> {"idle", "known", "unmarked", "marked", "accepted", "refused"}]
    /\ again \in [Upgrade -> {"yes", "no"}]
    /\ opened \in 0 .. Lag + 1 \cup {None}
    /\ socket \in [Upgrade -> {"none", "open", "orphan", "closed"}]
    /\ age \in [Upgrade -> 0 .. AlarmTtl]
    /\ heard \in [Upgrade -> Message \cup {None}]
    /\ alarm \in 0 .. AlarmTtl \cup {None}
    /\ challenge \in {"pending", "proof_ok", "failed"}
    /\ notice \in [phase : {"none", "due", "push", "late", "done"}, what : Message \cup {None}]

\* A ticket that opened a socket opens no other to an upgrade that looks for
\* its marker more than Lag later, as long as the session has not expired.
TicketIsSpent ==
    \A u \in Upgrade : upgrade[u] = "accepted" => again[u] = "no"

\* An open socket will be closed: the alarm is set, and unless it is overdue it
\* comes within AlarmTtl of the socket's acceptance.
AlarmGuardsSockets ==
    \A u \in Upgrade : socket[u] = "open" =>
       alarm # None /\ (alarm > 0 => age[u] + alarm <= AlarmTtl)

\* What a browser hears is what the challenge says, however late it comes.
MessageIsTrue ==
    \A u \in Upgrade :
       /\ heard[u] = "proof_ok_waiting_for_redeem" => challenge = "proof_ok"
       /\ heard[u] = "expired" => challenge # "proof_ok"

\* A socket that missed its message is not held for ever.
SocketsAreClosed == \A u \in Upgrade : socket[u] = "open" ~> socket[u] # "open"

=============================================================================
